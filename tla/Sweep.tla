------------------------------- MODULE Sweep --------------------------------
(***************************************************************************)
(* The one-shot inventory commands of the agents: host and Vault scans     *)
(* (cert), PKCS#11, KMS and offline inventories (id), address lists        *)
(* (chain), zgrab files and the post-quantum probe (net).  Each walks a    *)
(* tree of what is there: what it was given, containers (roots, files,     *)
(* mounts, pages, slots) and in them the things it reports.  At any node   *)
(* something may be wrong, and what the command does then differs from one *)
(* to the next.  Some hand on each thing when they come to it, the others  *)
(* collect first.  A run is one process that ends.                         *)
(***************************************************************************)
EXTENDS Algos

CertCommand == {"host_scan", "vault_scan"}
IdCommand == {"aws_kms_scan", "pkcs11_scan", "inventory_scan"}
ChainCommand == {"bitcoin_scan", "ethereum_scan", "qrl_scan"}
NetCommand == {"zgrab_array", "zgrab_lines", "pq_probe"}

Command == CertCommand \union IdCommand \union ChainCommand \union NetCommand

(***************************************************************************)
(* Trees[c]: what c may find, the nodes in the order of the walk.  `level' *)
(* is the depth, 0 for what the command was given and for nothing else; a  *)
(* thing has the parts of its name, each a sequence of words between       *)
(* separators, the asset it really is, and its algorithm.                  *)
(***************************************************************************)
CONSTANT Trees

ASSUME SweepAssumption ==
  /\ DOMAIN Trees \subseteq Command
  /\ \A c \in DOMAIN Trees : \A tree \in Trees[c] :
       /\ tree \in Seq(Range(tree))
       /\ \A i \in DOMAIN tree : tree[i].level \in Nat /\ (tree[i].level = 0 <=> i = 1)

VARIABLES
  cmd,     (* the command that runs                                          *)
  nodes,   (* what there is                                                  *)
  at,      (* the next node                                                  *)
  faults,  (* what was wrong: pairs of a node and a fault                    *)
  batch,   (* collected and not yet sent                                     *)
  given,   (* nodes handed to Sink::send, or printed by the probe, in order  *)
  taken,   (* those of them that reached the collector                       *)
  rows,    (* what the collector keeps: the last node of each key            *)
  exit     (* "running", "ok" or "error"                                     *)

sweepVars == <<cmd, nodes, at, faults, batch, given, taken, rows, exit>>

(* The depth of the things of each command.                                *)
ThingLevel(c) ==
  CASE c \in {"host_scan", "vault_scan", "pkcs11_scan"} -> 3
    [] c = "aws_kms_scan"                               -> 2
    [] OTHER                                            -> 1

(***************************************************************************)
(* A part of a name has at least one word, empty perhaps.  A certificate   *)
(* is known by its fingerprint, a KMS key by its ARN, an exported key by   *)
(* vendor, slot and key id and an address by itself; the objects of a      *)
(* PKCS#11 slot may share a label, and the ports of a host its name.       *)
(***************************************************************************)
Ambiguous == {"pkcs11_scan", "zgrab_array", "zgrab_lines"}

ASSUME NamesAssumption ==
  \A c \in DOMAIN Trees : \A tree \in Trees[c] :
    \A i, j \in {k \in DOMAIN tree : tree[k].level = ThingLevel(c)} :
      /\ tree[i].parts \in Seq(Seq(STRING)) /\ <<>> \notin Range(tree[i].parts)
      /\ c \notin Ambiguous /\ tree[i].parts = tree[j].parts => tree[i].asset = tree[j].asset

(* Names of the vocabulary; a key type that has none here is SM2, which    *)
(* stands for every type that primitives_for does not know.  A KMS has no  *)
(* key spec that names AES without its length (aws_keyspec_to_algo).       *)
ASSUME VocabularyAssumption ==
  \A c \in DOMAIN Trees : \A tree \in Trees[c] :
    \A i \in {k \in DOMAIN tree : tree[k].level = ThingLevel(c)} :
      /\ c \in IdCommand => tree[i].what \in DOMAIN KeyPrimitives
      /\ c = "aws_kms_scan" => tree[i].what # "AES"
      /\ c \in NetCommand => tree[i].what.suite \in KnownSuite \union {"none"}

(* Commands that hand on each thing at once; the others have all of them   *)
(* before they send the first.                                             *)
Streaming == {"host_scan", "vault_scan", "pkcs11_scan", "pq_probe"}

(***************************************************************************)
(* What may be wrong at which level, and what the command does: leave out  *)
(* what is below, end with an error, end the listing as if it were         *)
(* complete, or report the failure itself.                                 *)
(***************************************************************************)
Wrong(level, kinds, reaction) == {<<level, k, reaction>> : k \in kinds}

HostScanFaults ==
  Wrong(1, {"missing", "walk"}, "skip") \union Wrong(2, {"extension", "read", "pem"}, "skip")
    \union Wrong(3, {"x509"}, "skip")

VaultScanFaults ==
  Wrong(0, {"token_env"}, "abort") \union Wrong(1, {"list"}, "skip")
    \union Wrong(2, {"fetch", "empty", "pem"}, "skip") \union Wrong(3, {"x509"}, "skip")

KmsScanFaults ==
  Wrong(1, {"list"}, "abort") \union Wrong(1, {"marker"}, "stop")
    \union Wrong(2, {"describe"}, "abort") \union Wrong(2, {"metadata"}, "skip")

Pkcs11ScanFaults ==
  Wrong(0, {"pin_env", "library"}, "abort") \union Wrong(1, {"other_slot"}, "skip")
    \union Wrong(1, {"token", "session", "login"}, "abort") \union Wrong(2, {"find"}, "abort")
    \union Wrong(3, {"attributes"}, "abort") \union Wrong(3, {"key_type"}, "skip")

InventoryFaults == Wrong(0, {"read", "parse"}, "abort")

AddressFaults == Wrong(0, {"read"}, "abort")

(* An array is parsed as one value, lines one by one.                      *)
ZgrabFaults(c) ==
  Wrong(0, {"read"}, "abort")
    \union Wrong(1, {"record"}, IF c = "zgrab_array" THEN "abort" ELSE "skip")

PqProbeFaults ==
  Wrong(0, {"read"}, "abort")
    \union Wrong(1, {"connect", "server_name", "handshake", "timeout"}, "report")

OnFault(c) ==
  CASE c = "host_scan"                          -> HostScanFaults
    [] c = "vault_scan"                         -> VaultScanFaults
    [] c = "aws_kms_scan"                       -> KmsScanFaults
    [] c = "pkcs11_scan"                        -> Pkcs11ScanFaults
    [] c = "inventory_scan"                     -> InventoryFaults
    [] c \in {"zgrab_array", "zgrab_lines"}     -> ZgrabFaults(c)
    [] c = "pq_probe"                           -> PqProbeFaults
    [] OTHER                                    -> AddressFaults

(* list_keys asks for a further page only if the last one named a marker.  *)
Possible(i) ==
  {t \in OnFault(cmd) : t[1] = nodes[i].level /\ (t[2] = "marker" => i > 2)}

(***************************************************************************)
(* What a thing is reported as.                                            *)
(***************************************************************************)
sig_algo_name(oid) == IF oid \in CertSig THEN oid ELSE "unknown"

(* Neither the curve nor the length of a secret key is asked for, and any  *)
(* other type is unknown.                                                  *)
key_type_label(key) ==
  CASE key \in {"RSA_2048", "RSA_3072", "RSA_4096"}           -> key
    [] key \in {"ECC_NIST_P256", "ECC_NIST_P384", "ECC_NIST_P521", "ECC_SECG_P256K1"}
                                                              -> "ECC_NIST_P256"
    [] key \in {"AES_128", "SYMMETRIC_DEFAULT"}               -> "AES"
    [] key \in {"ED25519", "ED448"}                           -> "ED25519"
    [] OTHER                                                  -> "SM2"

(* A chain address: how it begins and how long it is.                      *)
classify(a) ==
  CASE a.prefix = "bc1q" /\ a.len \in {42, 62}        -> "P2PKH"
    [] a.prefix = "bc1p" /\ a.len = 62                -> "P2TR"
    [] a.prefix \in {"1", "3"} /\ a.len \in 26..35    -> "P2PKH"
    [] OTHER                                          -> "none"

eth_is_valid(a) == a.prefix = "0x" /\ a.len = 40

qrl_is_valid(a) == a.prefix = "Q" /\ a.len = 78

(* scan_addresses passes over an address that is not of its chain.         *)
Classified(c, n) ==
  CASE c = "bitcoin_scan"  -> classify(n.what) # "none"
    [] c = "ethereum_scan" -> eth_is_valid(n.what)
    [] c = "qrl_scan"      -> qrl_is_valid(n.what)
    [] OTHER               -> TRUE

primitives_from_zgrab(r) ==
  (IF r.suite = "none" THEN <<>> ELSE SuitePrimitives(r.suite))
    \o (IF r.group \in KnownGroup THEN <<primitive_from_supported_group[r.group]>> ELSE <<>>)
    \o (IF r.sig \in DOMAIN ZgrabSig THEN <<ZgrabSig[r.sig]>> ELSE <<>>)

(* probe: the group that was negotiated, which TLS gives as a codepoint,   *)
(* by its name, and whether it is post-quantum.                            *)
PqProbeResult(ok, what) ==
  [ok |-> ok, kex_pq |-> ok /\ is_pq_named_group(probe_group_name(what.group)),
   cert_sig_algo |-> IF ~ok THEN "none" ELSE IF what.sig \in ProbeSigName THEN what.sig ELSE "oid"]

(* Mutant of IdentityOf: only the key's own name is written.                *)
IdentityFlat(n) == n.parts[Len(n.parts)]

(* format!("{}/{}/{}"), or with a colon or a bar: the parts in a row, with *)
(* nothing to tell a separator in a part from one between two.             *)
IdentityOf(n) == FlattenSeq(n.parts)

event_from_cert(n) ==
  Event("ree0xq-cert", "x509_cert", IdentityOf(n), CertPrimitives(sig_algo_name(n.what)), NoChannel, NoAgility)

(* A KMS or an inventory names the type of its keys, a PKCS#11 slot a      *)
(* coarser one.                                                            *)
HsmSlot(c, n) ==
  LET type == IF c = "pkcs11_scan" THEN key_type_label(n.what) ELSE n.what
  IN  Event("ree0xq-id", "hsm_slot", IdentityOf(n), KeyPrimitives[type], NoChannel, NoAgility)

BlockchainKey(c, n) ==
  LET script == CASE c = "bitcoin_scan"  -> classify(n.what)
                  [] c = "ethereum_scan" -> "ethereum"
                  [] c = "qrl_scan"      -> "qrl"
  IN  Event("ree0xq-chain", "blockchain_key", IdentityOf(n), ChainPrimitives[script], NoChannel, NoAgility)

event_from_zgrab(n) ==
  Event("ree0xq-net", "tls_session", IdentityOf(n), primitives_from_zgrab(n.what), NoChannel, NoAgility)

build_event(c, n) ==
  CASE c \in CertCommand  -> event_from_cert(n)
    [] c \in IdCommand    -> HsmSlot(c, n)
    [] c \in ChainCommand -> BlockchainKey(c, n)
    [] c \in NetCommand   -> event_from_zgrab(n)

(***************************************************************************)
(* The walk.                                                               *)
(***************************************************************************)
SweepInit ==
  /\ cmd \in DOMAIN Trees
  /\ nodes \in Trees[cmd]
  /\ at = 1 /\ faults = {} /\ batch = <<>> /\ given = <<>>
  /\ taken = {} /\ rows = <<>> /\ exit = "running"

(* Sink::send: the event is delivered, or logged and lost.  The sinks of   *)
(* cert, id and chain have no spool; that of net has one (AgentSink), and  *)
(* is taken here as it is without --spool-dir.                             *)
Send(i) ==
  /\ given' = Append(given, i)
  /\ \/ /\ taken' = taken \union {i}
        /\ LET key == Key(build_event(cmd, nodes[i]))
           IN  rows' = [k \in DOMAIN rows \union {key} |-> IF k = key THEN i ELSE rows[k]]
     \/ UNCHANGED <<taken, rows>>

(* The probe prints a line for each host.                                  *)
PrintLine(i) ==
  /\ given' = Append(given, i)
  /\ UNCHANGED <<taken, rows>>

HandOn(i) ==
  \/ cmd = "pq_probe" /\ PrintLine(i) /\ UNCHANGED batch
  \/ cmd \in Streaming \ {"pq_probe"} /\ Send(i) /\ UNCHANGED batch
  \/ cmd \notin Streaming /\ batch' = Append(batch, i) /\ UNCHANGED <<given, taken, rows>>

Walking == exit = "running" /\ at <= Len(nodes)

Enter ==
  /\ Walking
  /\ nodes[at].level < ThingLevel(cmd)
  /\ at' = at + 1
  /\ UNCHANGED <<cmd, nodes, faults, batch, given, taken, rows, exit>>

Find ==
  /\ Walking
  /\ nodes[at].level = ThingLevel(cmd)
  /\ \/ Classified(cmd, nodes[at]) /\ HandOn(at)
     \/ ~Classified(cmd, nodes[at]) /\ UNCHANGED <<batch, given, taken, rows>>
  /\ at' = at + 1
  /\ UNCHANGED <<cmd, nodes, faults, exit>>

(* Mutant of AfterSubtree: `break' for `continue'.                         *)
AfterSubtreeBreak(i) ==
  CHOOSE j \in (i + 1)..(Len(nodes) + 1) :
    /\ j = Len(nodes) + 1 \/ nodes[j].level < nodes[i].level
    /\ \A k \in (i + 1)..(j - 1) : nodes[k].level >= nodes[i].level

(* The next node that is not below i.                                      *)
AfterSubtree(i) ==
  CHOOSE j \in (i + 1)..(Len(nodes) + 1) :
    /\ j = Len(nodes) + 1 \/ nodes[j].level <= nodes[i].level
    /\ \A k \in (i + 1)..(j - 1) : nodes[k].level > nodes[i].level

Fail(t) ==
  /\ Walking
  /\ t \in Possible(at)
  /\ faults' = faults \union {<<at, t[2]>>}
  /\ \/ t[3] = "skip" /\ at' = AfterSubtree(at) /\ UNCHANGED <<given, taken, rows, exit>>
     \/ t[3] = "abort" /\ exit' = "error" /\ UNCHANGED <<at, given, taken, rows>>
     \/ t[3] = "stop" /\ at' = Len(nodes) + 1 /\ UNCHANGED <<given, taken, rows, exit>>
     \/ t[3] = "report" /\ at' = at + 1 /\ PrintLine(at) /\ UNCHANGED exit
  /\ UNCHANGED <<cmd, nodes, batch>>

Flush ==
  /\ exit = "running" /\ at > Len(nodes)
  /\ batch # <<>>
  /\ Send(Head(batch))
  /\ batch' = Tail(batch)
  /\ UNCHANGED <<cmd, nodes, at, faults, exit>>

Exit ==
  /\ exit = "running" /\ at > Len(nodes)
  /\ batch = <<>>
  /\ exit' = "ok"
  /\ UNCHANGED <<cmd, nodes, at, faults, batch, given, taken, rows>>

SweepDone == exit # "running" /\ UNCHANGED sweepVars

SweepNext ==
  \/ Enter
  \/ Find
  \/ \E t \in OnFault(cmd) : Fail(t)
  \/ Flush
  \/ Exit
  \/ SweepDone

-----------------------------------------------------------------------------
Below(j) == {i \in j..Len(nodes) : \A k \in (j + 1)..i : nodes[k].level > nodes[j].level}

Things == {i \in DOMAIN nodes : nodes[i].level = ThingLevel(cmd) /\ Classified(cmd, nodes[i])}

(* What something wrong explains: the node and what is below it; a listing *)
(* that ended early, everything behind it; a probe's failure, nothing.     *)
Explained ==
  UNION {IF f[2] = "marker" THEN f[1]..Len(nodes) ELSE Below(f[1]) :
           f \in {g \in faults : cmd # "pq_probe" \/ g[2] = "read"}}

(* One bad node costs only itself and what is below it: a run that ends    *)
(* well has handed on every other thing, once and in order.  Host and      *)
(* Vault scans end with an error only for want of a token; a command that  *)
(* ends with an error has handed on nothing if it collects, and exactly    *)
(* what it had come to if it does not (scan.rs, vault.rs, aws_kms.rs,      *)
(* pkcs11.rs, inventory.rs, ree0xq_net.rs).                                *)
MissedOnlyIfFaulty ==
  /\ \A i, j \in DOMAIN given : i < j => given[i] < given[j]
  /\ exit = "ok" => {given[i] : i \in DOMAIN given} = Things \ Explained
  /\ exit = "error" =>
       /\ cmd # "host_scan"
       /\ cmd = "vault_scan" => at = 1
       /\ {given[i] : i \in DOMAIN given} =
            IF cmd \in Streaming THEN {i \in Things \ Explained : i < at} ELSE {}

(* A thing that the collector took is shown by its own row, unless a later *)
(* one has all parts of its name, as two objects of a PKCS#11 slot or two  *)
(* ports of a scanned host may, or a part of a name contains the separator *)
(* (id: event.rs, pkcs11.rs, inventory.rs; zgrab, synthetic_identity).     *)
HiddenOnlyByNamesake ==
  \A i \in taken :
    LET r == nodes[rows[Key(build_event(cmd, nodes[i]))]]
        n == nodes[i]
    IN  \/ r.asset = n.asset
        \/ r.parts = n.parts /\ cmd \in Ambiguous
        \/ \E p \in Range(r.parts) \union Range(n.parts) : Len(p) > 1

(***************************************************************************)
(* What resists a quantum computer, in the role that a primitive p gives   *)
(* it, by the standards (FIPS 203 to 205, XMSS; a cipher with 256-bit      *)
(* keys; hashes by docs/posture-rollup.md), whatever the tables of the     *)
(* agents say.  Named groups have the codepoints that IANA assigns.        *)
(***************************************************************************)
PqSignature ==
  {"ML-DSA-44", "ML-DSA-65", "ML-DSA-87", "ML_DSA_44", "ML_DSA_65", "ML_DSA_87",
   "SLH-DSA-SHA2-128s", "SLH_DSA_128S", "SLH_DSA_192S"}

PqGroup ==
  {"X25519MLKEM768", "SecP256r1MLKEM768", "P384MLKEM1024", "MLKEM512", "MLKEM768", "MLKEM1024"}

HybridCode == {\h11EB, \h11EC, \h11ED}
MlKemCode  == {\h0200, \h0201, \h0202}

LongKeySuite ==
  {"TLS_AES_256_GCM_SHA384", "TLS_CHACHA20_POLY1305_SHA256",
   "TLS_ECDHE_RSA_WITH_AES_256_GCM_SHA384", "TLS_ECDHE_ECDSA_WITH_AES_256_GCM_SHA384",
   "TLS_ECDHE_RSA_WITH_CHACHA20_POLY1305_SHA256", "TLS_ECDHE_ECDSA_WITH_CHACHA20_POLY1305_SHA256",
   "TLS_ECDHE_RSA_WITH_AES_256_CBC_SHA", "TLS_RSA_WITH_AES_256_GCM_SHA384",
   "TLS_RSA_WITH_AES_256_CBC_SHA"}

LongHash == {"SHA-256", "SHA-384", "SHA-512", "Keccak-256"}

Resists(c, what, p) ==
  \/ p.role = "sig" /\ c \in CertCommand \union IdCommand /\ what \in PqSignature
  \/ p.role = "sig" /\ c = "qrl_scan"
  \/ p.role = "sig" /\ c \in NetCommand /\ what.sig \in PqSignature
  \/ p.role = "kex" /\ c \in NetCommand /\ what.group \in PqGroup
  \/ p.role = "encrypt" /\ c \in NetCommand /\ what.suite \in LongKeySuite
  \/ p.role = "encrypt" /\ c \in IdCommand /\ what = "SYMMETRIC_DEFAULT"
  \/ p.role = "hash" /\ p.algorithm \in LongHash

(* The codepoints that the probe takes for ML-KEM and nobody has assigned. *)
UnassignedCode == {\h0768, \h0769, \h076A}

(* The probe claims a post-quantum exchange for a hybrid group, for every  *)
(* one, and for no other codepoint that is assigned.  ML-KEM by itself it  *)
(* takes for unknown.                                                      *)
ProbeIsSound(ok, what) ==
  LET claimed == PqProbeResult(ok, what).kex_pq
  IN  /\ claimed => ok /\ what.group \in HybridCode \union UnassignedCode
      /\ ok /\ what.group \in HybridCode \union MlKemCode /\ ~claimed => what.group \in MlKemCode

(* Nothing is reported as resisting a quantum computer that does not, with *)
(* two exceptions: an AES key whose length is not known (PKCS#11 does not  *)
(* ask for it, an inventory may leave it out) counts as AES-256, and the   *)
(* SHA-1 in a certificate's signature counts as every other hash does,     *)
(* though the same hash of a TLS suite does not.  The probe's verdict has  *)
(* a table of codepoints of its own (id: pkcs11.rs, algos.rs; cert.rs;     *)
(* net: pq_probe.rs, algos.rs).                                            *)
OverstatedOnlyAesOrSha1 ==
  \A i \in {given[k] : k \in DOMAIN given} :
    LET n == nodes[i] IN
    IF cmd = "pq_probe"
      THEN ProbeIsSound(~(\E f \in faults : f[1] = i), n.what)
      ELSE \A p \in Range(build_event(cmd, n).primitives) :
             p.pq = "yes" /\ ~Resists(cmd, n.what, p)
               => \/ p.role = "encrypt" /\ cmd = "pkcs11_scan" /\ n.what = "AES_128"
                  \/ p.role = "encrypt" /\ cmd = "inventory_scan" /\ n.what = "AES"
                  \/ p.role = "hash" /\ cmd \in CertCommand /\ n.what = "RSA-PKCS1-SHA1"

=============================================================================
