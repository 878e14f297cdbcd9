-------------------------------- MODULE Algos -------------------------------
(***************************************************************************)
(* The tables by which the agents turn what they see into primitives:      *)
(* ciphersuites, named groups and signature schemes of TLS (net: tls,      *)
(* algos, zgrab, pq_probe), certificate signatures (cert), key types of    *)
(* HSMs and KMSs (id) and address types of chains (chain).  An OID is      *)
(* represented by the name that the tables give it; the names of one thing *)
(* in several spellings are one name.                                      *)
(***************************************************************************)
EXTENDS Schema, FiniteSets, SequencesExt

Sig(name, pq) == Primitive("sig", name, pq)
Kex(name, pq) == Primitive("kex", name, pq)
Encrypt(name, pq) == Primitive("encrypt", name, pq)
Hash(name, pq) == Primitive("hash", name, pq)

(***************************************************************************)
(* TLS.  A suite is the set of the words of its name.                      *)
(***************************************************************************)
Tls13Suite ==
  [TLS_AES_128_GCM_SHA256       |-> <<"AES-128-GCM", "no", "SHA-256">>,
   TLS_AES_256_GCM_SHA384       |-> <<"AES-256-GCM", "yes", "SHA-384">>,
   TLS_CHACHA20_POLY1305_SHA256 |-> <<"ChaCha20-Poly1305", "yes", "SHA-256">>,
   TLS_AES_128_CCM_SHA256       |-> <<"AES-128-CCM", "no", "SHA-256">>,
   TLS_AES_128_CCM_8_SHA256     |-> <<"AES-128-CCM-8", "no", "SHA-256">>]

(* The suites of TLS 1.2 that ciphersuite_name knows, by the words their   *)
(* names contain: key exchange and authentication, cipher, hash.           *)
Tls12Suite ==
  [TLS_ECDHE_RSA_WITH_AES_128_GCM_SHA256         |-> <<{"ECDHE", "RSA"}, "AES_128_GCM", "SHA256">>,
   TLS_ECDHE_RSA_WITH_AES_256_GCM_SHA384         |-> <<{"ECDHE", "RSA"}, "AES_256_GCM", "SHA384">>,
   TLS_ECDHE_ECDSA_WITH_AES_128_GCM_SHA256       |-> <<{"ECDHE", "ECDSA"}, "AES_128_GCM", "SHA256">>,
   TLS_ECDHE_ECDSA_WITH_AES_256_GCM_SHA384       |-> <<{"ECDHE", "ECDSA"}, "AES_256_GCM", "SHA384">>,
   TLS_ECDHE_RSA_WITH_CHACHA20_POLY1305_SHA256   |-> <<{"ECDHE", "RSA"}, "CHACHA20_POLY1305", "SHA256">>,
   TLS_ECDHE_ECDSA_WITH_CHACHA20_POLY1305_SHA256 |-> <<{"ECDHE", "ECDSA"}, "CHACHA20_POLY1305", "SHA256">>,
   TLS_ECDHE_RSA_WITH_AES_128_CBC_SHA            |-> <<{"ECDHE", "RSA"}, "AES_128_CBC", "SHA">>,
   TLS_ECDHE_RSA_WITH_AES_256_CBC_SHA            |-> <<{"ECDHE", "RSA"}, "AES_256_CBC", "SHA">>,
   TLS_RSA_WITH_AES_128_GCM_SHA256               |-> <<{"RSA"}, "AES_128_GCM", "SHA256">>,
   TLS_RSA_WITH_AES_256_GCM_SHA384               |-> <<{"RSA"}, "AES_256_GCM", "SHA384">>,
   TLS_RSA_WITH_AES_128_CBC_SHA                  |-> <<{"RSA"}, "AES_128_CBC", "SHA">>,
   TLS_RSA_WITH_AES_256_CBC_SHA                  |-> <<{"RSA"}, "AES_256_CBC", "SHA">>,
   TLS_RSA_WITH_3DES_EDE_CBC_SHA                 |-> <<{"RSA"}, "3DES", "SHA">>,
   TLS_RSA_WITH_RC4_128_SHA                      |-> <<{"RSA"}, "RC4", "SHA">>]

primitives_from_tls13_ciphersuite(name) ==
  LET t == Tls13Suite[name] IN <<Encrypt(t[1], t[2]), Hash(t[3], "yes")>>

(* The chains of name.contains(...): the first word found decides.         *)
KexWord(words) ==
  IF "ECDHE" \in words THEN "ECDHE"
  ELSE IF "DHE" \in words THEN "DHE"
  ELSE IF "ECDH" \in words THEN "ECDH"
  ELSE "RSA-KEX"

SigWord(words) ==
  IF "ECDSA" \in words THEN "ECDSA"
  ELSE IF "RSA" \in words THEN "RSA"
  ELSE IF "DSS" \in words THEN "DSA"
  ELSE "anonymous"

CipherWord(w) ==
  CASE w = "AES_256_GCM"       -> Encrypt("AES-256-GCM", "yes")
    [] w = "AES_128_GCM"       -> Encrypt("AES-128-GCM", "no")
    [] w = "AES_256_CBC"       -> Encrypt("AES-256-CBC", "no")
    [] w = "AES_128_CBC"       -> Encrypt("AES-128-CBC", "no")
    [] w = "CHACHA20_POLY1305" -> Encrypt("ChaCha20-Poly1305", "yes")
    [] w = "3DES"              -> Encrypt("3DES", "no")
    [] w = "RC4"               -> Encrypt("RC4", "no")
    [] OTHER                   -> Encrypt("NULL", "no")

HashWord(w) ==
  CASE w = "SHA384" -> Hash("SHA-384", "yes")
    [] w = "SHA256" -> Hash("SHA-256", "yes")
    [] w = "SHA"    -> Hash("SHA-1", "no")
    [] OTHER        -> Hash("MD5", "no")

primitives_from_tls12_ciphersuite(name) ==
  LET t == Tls12Suite[name]
  IN  <<Kex(KexWord(t[1]), "no"), Sig(SigWord(t[1]), "no"), CipherWord(t[2]), HashWord(t[3])>>

KnownSuite == DOMAIN Tls13Suite \union DOMAIN Tls12Suite

SuitePrimitives(name) ==
  IF name \in DOMAIN Tls13Suite THEN primitives_from_tls13_ciphersuite(name)
    ELSE primitives_from_tls12_ciphersuite(name)

primitive_from_supported_group ==
  [secp256r1 |-> Kex("ECDHE-P256", "no"), secp384r1 |-> Kex("ECDHE-P384", "no"),
   secp521r1 |-> Kex("ECDHE-P521", "no"), x25519 |-> Kex("X25519", "no"),
   x448 |-> Kex("X448", "no"), ffdhe2048 |-> Kex("DHE-2048", "no"),
   ffdhe3072 |-> Kex("DHE-3072", "no"), ffdhe4096 |-> Kex("DHE-4096", "no"),
   MLKEM512 |-> Kex("ML-KEM-512", "yes"), MLKEM768 |-> Kex("ML-KEM-768", "yes"),
   MLKEM1024 |-> Kex("ML-KEM-1024", "yes"),
   X25519MLKEM768 |-> Kex("X25519+ML-KEM-768", "yes"),
   SecP256r1MLKEM768 |-> Kex("ECDHE-P256+ML-KEM-768", "yes"),
   P384MLKEM1024 |-> Kex("ECDHE-P384+ML-KEM-1024", "yes")]

KnownGroup == DOMAIN primitive_from_supported_group

primitive_from_signature_scheme ==
  [rsa_pss_rsae_sha256 |-> Sig("RSA-PSS-SHA256", "no"), rsa_pss_rsae_sha384 |-> Sig("RSA-PSS-SHA384", "no"),
   rsa_pss_rsae_sha512 |-> Sig("RSA-PSS-SHA512", "no"), rsa_pss_pss_sha256 |-> Sig("RSA-PSS-SHA256", "no"),
   rsa_pss_pss_sha384 |-> Sig("RSA-PSS-SHA384", "no"), rsa_pss_pss_sha512 |-> Sig("RSA-PSS-SHA512", "no"),
   rsa_pkcs1_sha1 |-> Sig("RSA-PKCS1-SHA1", "no"), rsa_pkcs1_sha256 |-> Sig("RSA-PKCS1-SHA256", "no"),
   rsa_pkcs1_sha384 |-> Sig("RSA-PKCS1-SHA384", "no"), rsa_pkcs1_sha512 |-> Sig("RSA-PKCS1-SHA512", "no"),
   ecdsa_secp256r1_sha256 |-> Sig("ECDSA-P256", "no"), ecdsa_secp384r1_sha384 |-> Sig("ECDSA-P384", "no"),
   ecdsa_secp521r1_sha512 |-> Sig("ECDSA-P521", "no"), ed25519 |-> Sig("Ed25519", "no"),
   ed448 |-> Sig("Ed448", "no"), mldsa44 |-> Sig("ML-DSA-44", "yes"), mldsa65 |-> Sig("ML-DSA-65", "yes"),
   mldsa87 |-> Sig("ML-DSA-87", "yes"), slhdsa_sha2_128s |-> Sig("SLH-DSA-SHA2-128s", "yes"),
   slhdsa_sha2_256s |-> Sig("SLH-DSA-SHA2-256s", "yes")]

KnownScheme == DOMAIN primitive_from_signature_scheme

(* Which of the names the parser hands on have a primitive, in the order   *)
(* of the hello.                                                           *)
Mapped(names, table) ==
  LET known == SelectSeq(names, LAMBDA n : n \in DOMAIN table)
  IN  [i \in 1..Len(known) |-> table[known[i]]]

(* The first suite that is known, every known group, every known scheme.   *)
primitives_from_summary(suites, groups, schemes) ==
  LET known == SelectSeq(suites, LAMBDA n : n \in KnownSuite)
  IN  (IF known = <<>> THEN <<>> ELSE SuitePrimitives(Head(known)))
        \o Mapped(groups, primitive_from_supported_group)
        \o Mapped(schemes, primitive_from_signature_scheme)

(***************************************************************************)
(* The active scanners.                                                    *)
(***************************************************************************)
(* The probe's own named_group_name.                                       *)
probe_group_name(code) ==
  CASE code = \h0017 -> "secp256r1"
    [] code = \h0018 -> "secp384r1"
    [] code = \h0019 -> "secp521r1"
    [] code = \h001D -> "x25519"
    [] code = \h001E -> "x448"
    [] code = \h0100 -> "ffdhe2048"
    [] code = \h0101 -> "ffdhe3072"
    [] code = \h0102 -> "ffdhe4096"
    [] code = \h11EC -> "X25519MLKEM768"
    [] code = \h11EB -> "SecP256r1MLKEM768"
    [] code = \h11ED -> "P384MLKEM1024"
    [] code = \h0768 -> "MLKEM768"
    [] code = \h0769 -> "MLKEM512"
    [] code = \h076A -> "MLKEM1024"
    [] OTHER         -> "unknown"

(* Mutant of is_pq_named_group: a hybrid group is missing from the list.   *)
is_pq_named_groupShort(name) ==
  name \in {"X25519MLKEM768", "P384MLKEM1024", "MLKEM768", "MLKEM512", "MLKEM1024"}

is_pq_named_group(name) ==
  name \in {"X25519MLKEM768", "SecP256r1MLKEM768", "P384MLKEM1024",
            "MLKEM768", "MLKEM512", "MLKEM1024"}

(* oid_to_sig_name: the OIDs the probe names; any other is given as it is. *)
ProbeSigName ==
  {"RSA-PKCS1-SHA1", "RSA-PKCS1-SHA256", "RSA-PKCS1-SHA384", "RSA-PKCS1-SHA512", "RSA-PSS",
   "ECDSA-SHA256", "ECDSA-SHA384", "ECDSA-SHA512", "Ed25519", "Ed448",
   "ML-DSA-44", "ML-DSA-65", "ML-DSA-87", "SLH-DSA-SHA2-128s"}

(* parse_cert_sig_algorithm of the zgrab adapter.                          *)
ZgrabSig ==
  [SHA256_RSA |-> Sig("RSA-PKCS1-SHA256", "no"), SHA384_RSA |-> Sig("RSA-PKCS1-SHA384", "no"),
   SHA512_RSA |-> Sig("RSA-PKCS1-SHA512", "no"), SHA256_RSA_PSS |-> Sig("RSA-PSS-SHA256", "no"),
   SHA384_RSA_PSS |-> Sig("RSA-PSS-SHA384", "no"), SHA512_RSA_PSS |-> Sig("RSA-PSS-SHA512", "no"),
   ECDSA_SHA256 |-> Sig("ECDSA-P256", "no"), ECDSA_SHA384 |-> Sig("ECDSA-P384", "no"),
   ECDSA_SHA512 |-> Sig("ECDSA-P521", "no"), SHA1_RSA |-> Sig("RSA-PKCS1-SHA1", "no"),
   MD5_RSA |-> Sig("RSA-MD5", "no"), ED25519 |-> Sig("Ed25519", "no"),
   ML_DSA_44 |-> Sig("ML-DSA-44", "yes"), ML_DSA_65 |-> Sig("ML-DSA-65", "yes"),
   ML_DSA_87 |-> Sig("ML-DSA-87", "yes")]

(***************************************************************************)
(* Certificates, keys and addresses.                                       *)
(***************************************************************************)
(* sig_algo_name: the signature algorithms the certificate agent names.    *)
CertSig ==
  {"RSA-PKCS1-SHA1", "RSA-PKCS1-SHA256", "RSA-PKCS1-SHA384", "RSA-PKCS1-SHA512", "RSA-PSS",
   "ECDSA-SHA256", "ECDSA-SHA384", "ECDSA-SHA512", "Ed25519", "Ed448",
   "ML-DSA-44", "ML-DSA-65", "ML-DSA-87", "unknown"}

HashPart(sig) ==
  CASE sig = "RSA-PKCS1-SHA1"                        -> <<Hash("SHA-1", "yes")>>
    [] sig \in {"RSA-PKCS1-SHA256", "ECDSA-SHA256"}  -> <<Hash("SHA-256", "yes")>>
    [] sig \in {"RSA-PKCS1-SHA384", "ECDSA-SHA384"}  -> <<Hash("SHA-384", "yes")>>
    [] sig \in {"RSA-PKCS1-SHA512", "ECDSA-SHA512"}  -> <<Hash("SHA-512", "yes")>>
    [] OTHER                                         -> <<>>

(* decompose_sig: the hash is cut off the name of the signature.           *)
decompose_sig(sig) ==
  CASE sig \in {"RSA-PKCS1-SHA1", "RSA-PKCS1-SHA256", "RSA-PKCS1-SHA384", "RSA-PKCS1-SHA512"}
                                                              -> Sig("RSA-PKCS1", "no")
    [] sig \in {"ECDSA-SHA256", "ECDSA-SHA384", "ECDSA-SHA512"} -> Sig("ECDSA", "no")
    [] sig \in {"ML-DSA-44", "ML-DSA-65", "ML-DSA-87"}        -> Sig(sig, "yes")
    [] OTHER                                                  -> Sig(sig, "no")

CertPrimitives(sig) == <<decompose_sig(sig)>> \o HashPart(sig)

(* id: primitives_for.  An RSA or AES key carries its size, if it is known;*)
(* AES without one counts as AES-256.                                      *)
KeyPrimitives ==
  [RSA |-> <<Sig("RSA-PKCS1", "no")>>, RSA_2048 |-> <<Sig("RSA-PKCS1-2048", "no")>>,
   RSA_3072 |-> <<Sig("RSA-PKCS1-3072", "no")>>, RSA_4096 |-> <<Sig("RSA-PKCS1-4096", "no")>>,
   ECC_NIST_P256 |-> <<Sig("ECDSA-P256", "no"), Hash("SHA-256", "yes")>>,
   ECC_NIST_P384 |-> <<Sig("ECDSA-P384", "no"), Hash("SHA-384", "yes")>>,
   ECC_NIST_P521 |-> <<Sig("ECDSA-P521", "no"), Hash("SHA-512", "yes")>>,
   ECC_SECG_P256K1 |-> <<Sig("ECDSA-secp256k1", "no"), Hash("SHA-256", "yes")>>,
   ED25519 |-> <<Sig("Ed25519", "no")>>, ED448 |-> <<Sig("Ed448", "no")>>,
   ML_DSA_44 |-> <<Sig("ML-DSA-44", "yes")>>, ML_DSA_65 |-> <<Sig("ML-DSA-65", "yes")>>,
   ML_DSA_87 |-> <<Sig("ML-DSA-87", "yes")>>,
   SLH_DSA_128S |-> <<Sig("SLH-DSA-SHA2-128s", "yes")>>, SLH_DSA_192S |-> <<Sig("SLH-DSA-SHA2-192s", "yes")>>,
   AES_128 |-> <<Encrypt("AES-128", "no")>>, AES |-> <<Encrypt("AES-256", "yes")>>,
   SYMMETRIC_DEFAULT |-> <<Encrypt("AES-256", "yes")>>,
   HMAC_224 |-> <<Hash("SHA-256", "yes")>>, HMAC_256 |-> <<Hash("SHA-256", "yes")>>,
   HMAC_384 |-> <<Hash("SHA-384", "yes")>>, HMAC_512 |-> <<Hash("SHA-512", "yes")>>,
   SM2 |-> <<Sig("unknown:SM2", "unknown")>>]

(* chain: what an address of each type spends with.                        *)
ChainPrimitives ==
  [P2TR |-> <<Sig("Schnorr-secp256k1", "no"), Hash("SHA-256", "yes")>>,
   P2PKH |-> <<Sig("ECDSA-secp256k1", "no"), Hash("SHA-256", "yes")>>,
   ethereum |-> <<Sig("ECDSA-secp256k1", "no"), Hash("Keccak-256", "yes")>>,
   qrl |-> <<Sig("XMSS", "yes"), Hash("SHA-256", "yes")>>]

=============================================================================
