------------------------------ MODULE TlsParse ------------------------------
(***************************************************************************)
(* The parser of TLS hellos (net: tls/mod.rs, parse_handshake), byte by    *)
(* byte, and the summary of codepoints it makes.  A buffer is a sequence   *)
(* of bytes and a position counts from 0, as the code's Cursor does.  All  *)
(* errors are one: the summary that is not ok.                             *)
(***************************************************************************)
EXTENDS Algos, TLC

(* Which codepoint has which name.                                         *)
ciphersuite_name ==
  (\h1301 :> "TLS_AES_128_GCM_SHA256") @@ (\h1302 :> "TLS_AES_256_GCM_SHA384")
    @@ (\h1303 :> "TLS_CHACHA20_POLY1305_SHA256") @@ (\h1304 :> "TLS_AES_128_CCM_SHA256")
    @@ (\h1305 :> "TLS_AES_128_CCM_8_SHA256")
    @@ (\hC02F :> "TLS_ECDHE_RSA_WITH_AES_128_GCM_SHA256")
    @@ (\hC030 :> "TLS_ECDHE_RSA_WITH_AES_256_GCM_SHA384")
    @@ (\hC02B :> "TLS_ECDHE_ECDSA_WITH_AES_128_GCM_SHA256")
    @@ (\hC02C :> "TLS_ECDHE_ECDSA_WITH_AES_256_GCM_SHA384")
    @@ (\hCCA8 :> "TLS_ECDHE_RSA_WITH_CHACHA20_POLY1305_SHA256")
    @@ (\hCCA9 :> "TLS_ECDHE_ECDSA_WITH_CHACHA20_POLY1305_SHA256")
    @@ (\hC013 :> "TLS_ECDHE_RSA_WITH_AES_128_CBC_SHA")
    @@ (\hC014 :> "TLS_ECDHE_RSA_WITH_AES_256_CBC_SHA")
    @@ (\h009C :> "TLS_RSA_WITH_AES_128_GCM_SHA256") @@ (\h009D :> "TLS_RSA_WITH_AES_256_GCM_SHA384")
    @@ (\h002F :> "TLS_RSA_WITH_AES_128_CBC_SHA") @@ (\h0035 :> "TLS_RSA_WITH_AES_256_CBC_SHA")
    @@ (\h000A :> "TLS_RSA_WITH_3DES_EDE_CBC_SHA") @@ (\h0005 :> "TLS_RSA_WITH_RC4_128_SHA")

named_group_name ==
  (\h0017 :> "secp256r1") @@ (\h0018 :> "secp384r1") @@ (\h0019 :> "secp521r1")
    @@ (\h001D :> "x25519") @@ (\h001E :> "x448") @@ (\h0100 :> "ffdhe2048")
    @@ (\h0101 :> "ffdhe3072") @@ (\h0102 :> "ffdhe4096") @@ (\h11EC :> "X25519MLKEM768")
    @@ (\h11EB :> "SecP256r1MLKEM768") @@ (\h11ED :> "P384MLKEM1024")
    @@ (\h0768 :> "MLKEM768") @@ (\h0769 :> "MLKEM512") @@ (\h076A :> "MLKEM1024")

signature_scheme_name ==
  (\h0201 :> "rsa_pkcs1_sha1") @@ (\h0401 :> "rsa_pkcs1_sha256") @@ (\h0501 :> "rsa_pkcs1_sha384")
    @@ (\h0601 :> "rsa_pkcs1_sha512") @@ (\h0804 :> "rsa_pss_rsae_sha256")
    @@ (\h0805 :> "rsa_pss_rsae_sha384") @@ (\h0806 :> "rsa_pss_rsae_sha512")
    @@ (\h0809 :> "rsa_pss_pss_sha256") @@ (\h080A :> "rsa_pss_pss_sha384")
    @@ (\h080B :> "rsa_pss_pss_sha512") @@ (\h0403 :> "ecdsa_secp256r1_sha256")
    @@ (\h0503 :> "ecdsa_secp384r1_sha384") @@ (\h0603 :> "ecdsa_secp521r1_sha512")
    @@ (\h0807 :> "ed25519") @@ (\h0808 :> "ed448") @@ (\h0904 :> "mldsa44")
    @@ (\h0905 :> "mldsa65") @@ (\h0906 :> "mldsa87") @@ (\h0910 :> "slhdsa_sha2_128s")
    @@ (\h0911 :> "slhdsa_sha2_256s")

(* The names of those codepoints that have one, in order.                  *)
Named(codes, table) ==
  LET known == SelectSeq(codes, LAMBDA c : c \in DOMAIN table)
  IN  [i \in DOMAIN known |-> table[known[i]]]

(***************************************************************************)
(* Cursor.                                                                 *)
(***************************************************************************)
need(buf, p, n) == p + n <= Len(buf)
read_u8(buf, p) == buf[p + 1]
read_u16(buf, p) == 256 * buf[p + 1] + buf[p + 2]
read_u24(buf, p) == 256 * read_u16(buf, p) + buf[p + 3]

(* The loop `while pos < end { read_u16 }': an odd length reads one byte   *)
(* more than it says, and nothing holds the vector to its extension.       *)
Bytes(len) == 2 * ((len + 1) \div 2)
Words(buf, p, len) == [i \in 1..Bytes(len) \div 2 |-> read_u16(buf, p + 2 * (i - 1))]

(***************************************************************************)
(* HandshakeSummary; legacy_version and msg_kind make no primitive.        *)
(***************************************************************************)
Summary(ok, suites, groups, schemes, versions) ==
  [ok |-> ok, ciphersuites |-> suites, supported_groups |-> groups,
   signature_schemes |-> schemes, supported_versions |-> versions]

ParseError == Summary(FALSE, <<>>, <<>>, <<>>, <<>>)

(* Mutant of AfterExtension: parsing goes on behind what was read.         *)
AfterExtensionRead(data, len, read) == IF read = 0 THEN data + len ELSE data + read

(* Where the next extension begins: the declared length decides.           *)
AfterExtension(data, len, read) == data + len

(* The vector of an extension at p: where its words start and their length *)
(* in bytes; supported_versions of a server is a single word.              *)
Vector(buf, p, type, client) ==
  CASE type \in {\h000A, \h000D}   -> [from |-> p + 2, len |-> read_u16(buf, p), head |-> 2]
    [] type = \h002B /\ client     -> [from |-> p + 1, len |-> read_u8(buf, p), head |-> 1]
    [] type = \h002B /\ ~client    -> [from |-> p, len |-> 2, head |-> 0]
    [] OTHER                       -> [from |-> p, len |-> 0, head |-> 0]

HeadBytes(type, client) ==
  CASE type \in {\h000A, \h000D} -> 2 [] type = \h002B /\ client -> 1 [] OTHER -> 0

Extensions(buf, at, end, client, suites) ==
  LET walk[p \in Nat] ==
        IF p >= end THEN Summary(TRUE, suites, <<>>, <<>>, <<>>)
        ELSE IF ~need(buf, p, 4) THEN ParseError
        ELSE LET type == read_u16(buf, p)
                 data == p + 4
                 v == Vector(buf, data, type, client)
                 words == Words(buf, v.from, v.len)
                 rest == walk[AfterExtension(data, read_u16(buf, p + 2), v.head + Bytes(v.len))]
             IN  IF ~need(buf, data, HeadBytes(type, client)) THEN ParseError
                 ELSE IF ~need(buf, v.from, Bytes(v.len)) THEN ParseError
                 ELSE IF ~rest.ok THEN ParseError
                 ELSE CASE type = \h000A -> [rest EXCEPT !.supported_groups = words \o @]
                        [] type = \h000D -> [rest EXCEPT !.signature_schemes = words \o @]
                        [] type = \h002B -> [rest EXCEPT !.supported_versions = words \o @]
                        [] OTHER         -> rest
  IN  walk[at]

(* The offsets of the fields up to the extensions: header 4, version 2,    *)
(* random 32, then the session id with its length at 38.                   *)
parse_handshake(buf) ==
  LET client == read_u8(buf, 0) = 1
      suites_at == 39 + read_u8(buf, 38)
      from == IF client THEN suites_at + 2 ELSE suites_at
      bytes == IF client THEN read_u16(buf, suites_at) ELSE 2
      comp == from + bytes
      exts == IF client THEN comp + 1 + read_u8(buf, comp) ELSE comp + 1
      wellFormed ==
        /\ need(buf, 0, 4) /\ read_u8(buf, 0) \in {1, 2}
        /\ need(buf, 4, read_u24(buf, 1))
        /\ need(buf, 38, 1) /\ need(buf, 39, read_u8(buf, 38))
        /\ client => need(buf, suites_at, 2)
        /\ bytes % 2 = 0 /\ need(buf, from, bytes)
        /\ need(buf, comp, 1) /\ need(buf, exts, 0)
      suites == Words(buf, from, bytes)
  IN  IF ~wellFormed THEN ParseError
      ELSE IF ~need(buf, exts, 2) THEN Summary(TRUE, suites, <<>>, <<>>, <<>>)
      ELSE IF ~need(buf, exts + 2, read_u16(buf, exts)) THEN ParseError
      ELSE Extensions(buf, exts + 2, exts + 2 + read_u16(buf, exts), client, suites)

(* primitives_from_summary, from the codepoints.                           *)
SummaryPrimitives(s) ==
  primitives_from_summary(Named(s.ciphersuites, ciphersuite_name),
                          Named(s.supported_groups, named_group_name),
                          Named(s.signature_schemes, signature_scheme_name))

(***************************************************************************)
(* What a peer sends (RFC 8446): a hello with its lists, `pad' bytes       *)
(* behind the groups inside their extension, and a key share of `share'    *)
(* bytes.  Without extensions the block is left out altogether.            *)
(***************************************************************************)
Hello(client, suites, groups, schemes, extensions, pad, share) ==
  [client |-> client, suites |-> suites, groups |-> groups, schemes |-> schemes,
   extensions |-> extensions, pad |-> pad, share |-> share]

Byte == 0..255
Word == 0..65535
Zeros(n) == [i \in 1..n |-> 0]
Be16(n) == <<n \div 256, n % 256>>
Codes(codes) == FlattenSeq([i \in DOMAIN codes |-> Be16(codes[i])])
Extension(type, data) == Be16(type) \o Be16(Len(data)) \o data

HelloBody(h) ==
  LET exts == (IF h.share = 0 THEN <<>> ELSE Extension(\h0033, Zeros(h.share)))
                \o (IF h.groups = <<>> THEN <<>>
                      ELSE Extension(\h000A, Be16(2 * Len(h.groups)) \o Codes(h.groups) \o Zeros(h.pad)))
                \o Extension(\h002B, IF h.client THEN <<2, 3, 4>> ELSE <<3, 4>>)
                \o (IF h.schemes = <<>> THEN <<>>
                      ELSE Extension(\h000D, Be16(2 * Len(h.schemes)) \o Codes(h.schemes)))
  IN  <<3, 3>> \o Zeros(32) \o <<0>>
        \o (IF h.client THEN Be16(2 * Len(h.suites)) \o Codes(h.suites) \o <<1, 0>>
              ELSE Codes(h.suites) \o <<0>>)
        \o (IF h.extensions THEN Be16(Len(exts)) \o exts ELSE <<>>)

Encoded(h) ==
  <<IF h.client THEN 1 ELSE 2, 0>> \o Be16(Len(HelloBody(h))) \o HelloBody(h)

=============================================================================
