------------------------------- MODULE Schema -------------------------------
(***************************************************************************)
(* The event schema of ree0xq-core (lib.rs), as far as the posture, the    *)
(* advice and the agents tell its values apart.  An absent option is the   *)
(* string "none", pq_resistant is "yes", "no" or "unknown", and free text  *)
(* (posture rationale, evidence snippets, parameters) is left out.         *)
(***************************************************************************)
EXTENDS Integers, Sequences

AssetKind == {"tls_session", "ssh_session", "ipsec_sa", "x509_cert",
              "blockchain_key", "hsm_slot", "dns_dnssec", "qkd_link", "qkd_kme"}

PrimitiveRole == {"kex", "sig", "auth", "encrypt", "hash"}

Resistance == {"yes", "no", "unknown"}

(* A primitive; the NIST level only decorates it.                          *)
Primitive(role, algorithm, pq) ==
  [role |-> role, algorithm |-> algorithm, pq |-> pq]

AnyPrimitive == [role : PrimitiveRole, algorithm : STRING, pq : Resistance]

ChannelState == {"classical", "qkd_hybrid_psk", "qkd_only"}

LinkHealth == {"ok", "degraded", "failed"}

(* ChannelProtection: the state of the channel and the health of the link. *)
ChannelProtection ==
  [state : ChannelState, link_health : LinkHealth]

NoChannel == [state |-> "none", link_health |-> "none"]

AgilityLevel == {"negotiated", "configurable", "pinned", "locked", "frozen"}

(* AgilityLevel::score, in hundredths.                                     *)
score ==
  [negotiated |-> 100, configurable |-> 75, pinned |-> 50, locked |-> 20, frozen |-> 0]

(* The evidence variants that the scanner emits; the others only arrive    *)
(* over the wire.                                                          *)
EvidenceKind == {"config_pattern", "code_pattern", "firmware_string"}

(* AgilityBlock: its level, and the score that its sender gave, also in    *)
(* hundredths.  Nothing checks that this is the score of the level.        *)
AgilityBlock == [level : AgilityLevel, level_score : Int]

NoAgility == [level |-> "none", level_score |-> 0]

(* CryptoInventoryEvent.                                                   *)
Event(module, kind, identity, primitives, channel, agility) ==
  [source_module |-> module, kind |-> kind, identity |-> identity,
   primitives |-> primitives, channel |-> channel, agility |-> agility]

CryptoInventoryEvent ==
  [source_module : STRING, kind : AssetKind, identity : STRING, primitives : Seq(AnyPrimitive),
   channel : ChannelProtection \union {NoChannel}, agility : AgilityBlock \union {NoAgility}]

(* The dedup key of the store: module, kind and identity.                  *)
Key(ev) == <<ev.source_module, ev.kind, ev.identity>>

=============================================================================
