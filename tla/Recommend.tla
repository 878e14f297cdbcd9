----------------------------- MODULE Recommend ------------------------------
(***************************************************************************)
(* The replacement rules of ree0xq-agility (recommend.rs) and the role     *)
(* that its command line guesses from a name (bin/agility.rs).  A prefix   *)
(* test on an algorithm name is the set of the names the agents emit (see  *)
(* Algos) that begin so; rationale and caveats are left out.               *)
(***************************************************************************)
EXTENDS Schema, SequencesExt

(* Cost, cheapest first; no rule is Trivial.                               *)
Cost == <<"trivial", "low", "medium", "high">>

Recommendation(p, replacement, cost) ==
  [replaces |-> p.algorithm, replacement |-> replacement, cost |-> cost]

(* parse_trailing_bits: the RSA names of the vocabulary that end in a      *)
(* number.  A hash at the end ("SHA256") is not one.                       *)
TrailingBits ==
  [name \in {"RSA-PKCS1-2048", "RSA-PKCS1-3072", "RSA-PKCS1-4096"} |->
     CASE name = "RSA-PKCS1-2048" -> 2048
       [] name = "RSA-PKCS1-3072" -> 3072
       [] name = "RSA-PKCS1-4096" -> 4096]

RsaNames ==
  {"RSA-PKCS1", "RSA-PKCS1-SHA1", "RSA-PKCS1-SHA256", "RSA-PKCS1-SHA384", "RSA-PKCS1-SHA512",
   "RSA-PSS", "RSA-PSS-SHA256", "RSA-PSS-SHA384", "RSA-PSS-SHA512"} \union DOMAIN TrailingBits

EcdsaNames ==
  {"ECDSA-P256", "ECDSA-P384", "ECDSA-P521", "ECDSA-secp256k1"}

(* nist_level_for_rsa with ml_dsa_id and slh_dsa_size of the level; a key  *)
(* of unknown size is put on level 3, like one of 3072 bits.               *)
nist_level_for_rsa(name) ==
  LET bits == IF name \in DOMAIN TrailingBits THEN TrailingBits[name] ELSE 3072
  IN  IF bits <= 2048 THEN <<"ML-DSA-44", "SLH-DSA-SHA2-128s">>
        ELSE IF bits <= 3072 THEN <<"ML-DSA-65", "SLH-DSA-SHA2-192s">>
               ELSE <<"ML-DSA-87", "SLH-DSA-SHA2-192s">>

(* Mutant of recommend_for_sig: the Edwards curves are forgotten.          *)
recommend_for_sigNoEd(p) ==
  CASE p.algorithm \in RsaNames ->
         LET level == nist_level_for_rsa(p.algorithm)
         IN  <<Recommendation(p, level[1], "medium"), Recommendation(p, level[2], "high")>>
    [] p.algorithm \in EcdsaNames -> <<Recommendation(p, "ML-DSA-65", "medium")>>
    [] p.algorithm = "Schnorr-secp256k1" -> <<Recommendation(p, "FROST-PQ", "high")>>
    [] OTHER -> <<>>

recommend_for_sig(p) ==
  CASE p.algorithm \in RsaNames ->
         LET level == nist_level_for_rsa(p.algorithm)
         IN  <<Recommendation(p, level[1], "medium"), Recommendation(p, level[2], "high")>>
    [] p.algorithm \in EcdsaNames \union {"Ed25519", "Ed448"} ->
         <<Recommendation(p, "ML-DSA-65", "medium")>>
    [] p.algorithm = "Schnorr-secp256k1" -> <<Recommendation(p, "FROST-PQ", "high")>>
    [] OTHER -> <<>>

recommend_for_encrypt(p) ==
  CASE p.algorithm \in {"AES-128", "AES-128-GCM"} -> <<Recommendation(p, "AES-256", "low")>>
    [] p.algorithm \in {"DES", "3DES", "RC4", "AES-CBC"} ->
         <<Recommendation(p, "AES-256-GCM", "low")>>
    [] OTHER -> <<>>

(* What the primitives call for, cheapest first; the sort is stable.       *)
recommend_for(prims) ==
  LET Rules(p) == CASE p.role = "sig"     -> recommend_for_sig(p)
                    [] p.role = "encrypt" -> recommend_for_encrypt(p)
                    [] OTHER              -> <<>>
      out == FlattenSeq([i \in DOMAIN prims |-> Rules(prims[i])])
      OfCost(c) == FlattenSeq([i \in DOMAIN out |-> IF out[i].cost = c THEN <<out[i]>> ELSE <<>>])
  IN  FlattenSeq([c \in DOMAIN Cost |-> OfCost(Cost[c])])

(***************************************************************************)
(* classify_role: the words that the upper-cased names of the vocabulary   *)
(* contain or begin with, tested in this order.                            *)
(***************************************************************************)
EncryptNames ==
  {"AES-128", "AES-256", "AES-128-GCM", "AES-256-GCM", "AES-128-CBC", "AES-256-CBC", "AES-CBC",
   "AES-128-CCM", "AES-128-CCM-8", "ChaCha20-Poly1305", "3DES", "DES", "RC4"}

HashNames == {"SHA-1", "SHA-256", "SHA-384", "SHA-512", "Keccak-256", "MD5"}

(* ("DHE-2048" contains neither "ECDH" nor "DH-" and is taken for a        *)
(* signature, for which there is no rule.)                                 *)
KexNames ==
  {"X25519", "X25519+ML-KEM-768", "ML-KEM-512", "ML-KEM-768", "ML-KEM-1024", "ECDHE", "ECDH",
   "ECDHE-P256", "ECDHE-P384", "ECDHE-P521", "ECDHE-P256+ML-KEM-768", "ECDHE-P384+ML-KEM-1024"}

(* Mutant of classify_role: "DES" and "RC4" are not looked for.            *)
classify_roleModern(name) ==
  CASE name \in EncryptNames \ {"3DES", "DES", "RC4"} -> "encrypt"
    [] name \in HashNames -> "hash"
    [] name \in KexNames  -> "kex"
    [] OTHER              -> "sig"

classify_role(name) ==
  CASE name \in EncryptNames -> "encrypt"
    [] name \in HashNames    -> "hash"
    [] name \in KexNames     -> "kex"
    [] OTHER                 -> "sig"

=============================================================================
