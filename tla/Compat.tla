------------------------------- MODULE Compat -------------------------------
(***************************************************************************)
(* The table of TLS stacks and algorithms (compat.rs), the endpoint over   *)
(* it (routes.rs agility_compat) and the command (agility.rs run_compat).  *)
(* Names are compared in lower case, so the spelling does not matter;      *)
(* versions and sources are left out.                                      *)
(***************************************************************************)
EXTENDS Naturals, Sequences, FiniteSets

SupportStatus == {"supported", "experimental", "not_implemented", "unknown"}

Entry(stack, algorithm, status) ==
  [stack |-> stack, algorithm |-> algorithm, status |-> status]

build_matrix ==
  {Entry("openssl-3.x", a, "supported") : a \in {"ML-KEM-768", "X25519MLKEM768"}}
    \union {Entry("openssl-3.x", a, "experimental") : a \in {"ML-DSA-65", "SLH-DSA-SHA2-128s"}}
    \union {Entry(s, "X25519MLKEM768", "supported") :
              s \in {"boringssl", "rustls-post-quantum", "go-crypto-tls", "nss"}}
    \union {Entry(s, "ML-DSA-65", "not_implemented") :
              s \in {"boringssl", "rustls-post-quantum", "go-crypto-tls", "nss"}}
    \union {Entry("bouncycastle", a, "supported") :
              a \in {"ML-DSA-65", "SLH-DSA-SHA2-128s", "ML-KEM-768"}}

(* lookup: the entry of a pair, as a set of at most one.                   *)
lookup(stack, algorithm) ==
  {e \in build_matrix : e.stack = stack /\ e.algorithm = algorithm}

stack_supports(stack, algorithm) ==
  IF lookup(stack, algorithm) = {} THEN "unknown"
    ELSE (CHOOSE e \in lookup(stack, algorithm) : TRUE).status

list_stack(stack) == {e \in build_matrix : e.stack = stack}

(* GET /v1/agility/compat; "none" is a parameter that is not given.        *)
agility_compat(stack, algorithm) ==
  CASE stack = "none" ->
         [status |-> 200,
          items |-> UNION {list_stack(s) : s \in {"openssl-3.x", "boringssl", "rustls-post-quantum",
                                                  "go-crypto-tls", "bouncycastle", "nss"}}]
    [] stack # "none" /\ algorithm = "none" -> [status |-> 200, items |-> list_stack(stack)]
    [] OTHER -> [status |-> IF lookup(stack, algorithm) = {} THEN 404 ELSE 200,
                 items  |-> lookup(stack, algorithm)]

(* ree0xq-agility compat: a pair that is not in the table is printed with  *)
(* the verdict that it is not known.                                       *)
run_compat(stack, algorithm) ==
  CASE algorithm = "none" -> list_stack(stack)
    [] algorithm # "none" /\ lookup(stack, algorithm) # {} -> lookup(stack, algorithm)
    [] OTHER -> {Entry(stack, algorithm, stack_supports(stack, algorithm))}

=============================================================================
