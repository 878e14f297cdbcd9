------------------------------- MODULE CaRoot -------------------------------
(***************************************************************************)
(* The certificate authority of the collector (ca.rs).  load_or_init makes *)
(* a root on the first boot, as two files, and loads them on every later   *)
(* one.  The server may die between any two steps; fs::write first makes   *)
(* an empty file and then fills it.  The operator may lose the key file (a *)
(* volume that is not mounted) and, told by the server to remove a partial *)
(* state, does so.                                                         *)
(***************************************************************************)
EXTENDS Naturals, FiniteSets

CONSTANTS
  Root,        (* root key pairs, named by what the certificate binds        *)
  NoRoot,      (* not a root                                                 *)
  MaxCrashes,  (* bound: deaths and restarts of the server                   *)
  MaxLosses    (* bound: times the key file is lost                          *)

ASSUME CaAssumption ==
  /\ IsFiniteSet(Root)
  /\ Root \intersect {NoRoot, "absent", "empty"} = {}
  /\ MaxCrashes \in Nat
  /\ MaxLosses \in Nat

VARIABLES
  boot,     (* where load_or_init is; "up" afterwards                        *)
  cert,     (* the root whose certificate ca.crt holds, or how it is not one *)
  key,      (* the root whose key ca.key holds, likewise                     *)
  new,      (* the key pair being persisted                                  *)
  inner,    (* CaInner: the certificate handed out and the key that signs    *)
  made,     (* history: the key pairs generated so far                       *)
  trusted,  (* history: the agents' certificates: anchor and signing key     *)
  torn,     (* history: the server died inside fs::write                     *)
  crashes,
  losses

caVars == <<boot, cert, key, new, inner, made, trusted, torn, crashes, losses>>

Content == Root \union {"absent", "empty"}
None == [cert |-> NoRoot, key |-> NoRoot]
Pair == [cert : Root, key : Root]

CaTypeOK ==
  /\ boot \in {"down", "cert_open", "cert_fill", "key_open", "key_fill", "load",
             "up", "partial", "unparseable"}
  /\ cert \in Content
  /\ key \in Content
  /\ new \in Root \union {NoRoot}
  /\ inner \in Pair \union {None}
  /\ made \subseteq Root
  /\ trusted \subseteq Pair
  /\ torn \in BOOLEAN
  /\ crashes \in 0..MaxCrashes
  /\ losses \in 0..MaxLosses

CaInit ==
  /\ boot = "down"
  /\ cert = "absent"
  /\ key = "absent"
  /\ new = NoRoot
  /\ inner = None
  /\ made = {}
  /\ trusted = {}
  /\ torn = FALSE
  /\ crashes = 0
  /\ losses = 0

Exists(content) == content # "absent"

(* load_or_init looks for the two files: both, one of them, neither.       *)
Start ==
  /\ boot = "down"
  /\ \/ /\ Exists(cert) /\ Exists(key)
        /\ boot' = "load"
        /\ UNCHANGED <<new, made>>
     \/ /\ Exists(cert) # Exists(key)
        /\ boot' = "partial"
        /\ UNCHANGED <<new, made>>
     \/ /\ ~Exists(cert) /\ ~Exists(key)
        /\ boot' = "cert_open"
        /\ \E r \in Root \ made : new' = r /\ made' = made \union {r}
  /\ UNCHANGED <<cert, key, inner, trusted, torn, crashes, losses>>

(* fs::write of ca.crt, then write_private_key of ca.key.                  *)
Open ==
  /\ \/ boot = "cert_open" /\ boot' = "cert_fill" /\ cert' = "empty" /\ UNCHANGED key
     \/ boot = "key_open" /\ boot' = "key_fill" /\ key' = "empty" /\ UNCHANGED cert
  /\ UNCHANGED <<new, inner, made, trusted, torn, crashes, losses>>

(* Mutant of Fill: another key pair's key is saved.                        *)
FillOther ==
  /\ \/ boot = "cert_fill" /\ boot' = "key_open" /\ cert' = new /\ UNCHANGED key
     \/ boot = "key_fill" /\ boot' = "load" /\ key' \in Root \ {new} /\ UNCHANGED cert
  /\ UNCHANGED <<new, inner, made, trusted, torn, crashes, losses>>

(* Mutant of Fill: the key file is left as it was opened.                  *)
FillCertOnly ==
  /\ \/ boot = "cert_fill" /\ boot' = "key_open" /\ cert' = new /\ UNCHANGED key
     \/ boot = "key_fill" /\ boot' = "load" /\ UNCHANGED <<key, cert>>
  /\ UNCHANGED <<new, inner, made, trusted, torn, crashes, losses>>

Fill ==
  /\ \/ boot = "cert_fill" /\ boot' = "key_open" /\ cert' = new /\ UNCHANGED key
     \/ boot = "key_fill" /\ boot' = "load" /\ key' = new /\ UNCHANGED cert
  /\ UNCHANGED <<new, inner, made, trusted, torn, crashes, losses>>

(* Mutant of Load: the issuer is signed with a key pair made for it.       *)
LoadResigned ==
  /\ boot = "load"
  /\ cert \in Root /\ key \in Root
  /\ boot' = "up"
  /\ \E r \in Root : inner' = [cert |-> r, key |-> r]
  /\ new' = NoRoot
  /\ UNCHANGED <<cert, key, made, trusted, torn, crashes, losses>>

(* Both files are parsed and the issuer is rebuilt from them, or the       *)
(* server gives up.  What was just written is not read back, but is the    *)
(* same.                                                                   *)
Load ==
  /\ boot = "load"
  /\ \/ /\ cert \in Root /\ key \in Root
        /\ boot' = "up"
        /\ inner' = [cert |-> cert, key |-> key]
     \/ /\ ~(cert \in Root /\ key \in Root)
        /\ boot' = "unparseable"
        /\ UNCHANGED inner
  /\ new' = NoRoot
  /\ UNCHANGED <<cert, key, made, trusted, torn, crashes, losses>>

(* An agent enrols: it is given cert_pem and a certificate signed with the *)
(* issuer key.                                                             *)
sign_agent_cert ==
  /\ boot = "up"
  /\ trusted' = trusted \union {inner}
  /\ UNCHANGED <<boot, cert, key, new, inner, made, torn, crashes, losses>>

(* The server dies, at boot or serving, and is started again.              *)
Crash ==
  /\ boot \notin {"down", "partial", "unparseable"}
  /\ crashes < MaxCrashes
  /\ crashes' = crashes + 1
  /\ torn' = (torn \/ boot \in {"cert_fill", "key_fill"})
  /\ boot' = "down"
  /\ new' = NoRoot
  /\ inner' = None
  /\ UNCHANGED <<cert, key, made, trusted, losses>>

(* External: a boot that failed is tried again.                            *)
Retry ==
  /\ boot \in {"partial", "unparseable"}
  /\ boot' = "down"
  /\ UNCHANGED <<cert, key, new, inner, made, trusted, torn, crashes, losses>>

(* External: the key file is not there when the server starts.             *)
LoseKey ==
  /\ boot = "down"
  /\ losses < MaxLosses
  /\ Exists(key)
  /\ losses' = losses + 1
  /\ key' = "absent"
  /\ UNCHANGED <<boot, cert, new, inner, made, trusted, torn, crashes>>

(* External: the operator does as the error says, "remove the partial      *)
(* state and retry".                                                       *)
RemovePartial ==
  /\ boot = "partial"
  /\ cert' = "absent"
  /\ key' = "absent"
  /\ boot' = "down"
  /\ UNCHANGED <<new, inner, made, trusted, torn, crashes, losses>>

Server == Start \/ Open \/ Fill \/ Load

CaNext ==
  \/ Server
  \/ sign_agent_cert
  \/ Crash
  \/ Retry
  \/ LoseKey
  \/ RemovePartial

(* The process runs on until it dies, a failed boot is retried, and the    *)
(* operator does not ignore the error for ever.                            *)
CaSpec ==
  /\ CaInit /\ [][CaNext]_caVars
  /\ WF_caVars(Server) /\ WF_caVars(Retry) /\ SF_caVars(RemovePartial)

-----------------------------------------------------------------------------
(* Every certificate an agent holds verifies against the anchor it was     *)
(* given, whatever crashes and losses came before the enrolment (ca.rs,    *)
(* CaInner: "agents verifying against the trusted cert_pem accept the      *)
(* signature").                                                            *)
SignaturesVerify == \A p \in trusted \union {inner} : p.cert = p.key

(* While the key file is not lost, all agents ever enrolled share one      *)
(* anchor, and it is the one on disk (ca.rs, "load the same files on every *)
(* subsequent restart").                                                   *)
OneAnchor == losses = 0 => \A p \in trusted : p.cert = cert /\ p.key = key

(* The server comes up in the end, through crashes and with the one manual *)
(* step its error message asks for, unless it died inside a write (ca.rs,  *)
(* load_or_init).                                                          *)
ComesUpUnlessTorn == <>[](boot = "up") \/ <>torn

=============================================================================
