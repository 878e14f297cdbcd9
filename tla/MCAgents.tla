------------------------------ MODULE MCAgents ------------------------------
(* The agents: three sessions over a cache of two; seven frames over a     *)
(* ring of two; and for every command a tree in which each level occurs    *)
(* twice where it can.                                                     *)
EXTENDS Agents

Tcp == [eth_proto |-> \h0800, ip_ihl |-> 20, ip_proto |-> 6, tcp_hdr_len |-> 20,
        rec_type |-> \h16, major |-> 3]

Packet(header, session, hello, tail, cut) ==
  [header |-> header, session |-> session, hello |-> hello, tail |-> tail, cut |-> cut]

(* A hybrid hello of 82 bytes with padding behind its groups, one with     *)
(* reserved codepoints, the hellos of a server of TLS 1.3 and of one of    *)
(* TLS 1.2 without extensions, both followed by a certificate.             *)
Hybrid == Hello(TRUE, <<\h1301, \hC02F>>, <<\h11EC, \h001D>>, <<\h0403, \h0905>>, TRUE, 2, 0)
Grease == Hello(TRUE, <<\h1A1A, \h1302>>, <<\h2A2A, \h001D>>, <<\h0804>>, TRUE, 1, 0)
Server13 == Hello(FALSE, <<\h1302>>, <<>>, <<>>, TRUE, 0, 4)
Server12 == Hello(FALSE, <<\hC02F>>, <<>>, <<>>, FALSE, 0, 0)
CertificateMessage == <<11, 0, 0, 4>>

MCFrame ==
  [hybrid |-> Packet(Tcp, "s1", Hybrid, <<>>, 0),
   grease |-> Packet(Tcp, "s2", Grease, <<20, 3>>, 0),
   share |-> Packet(Tcp, "s3", [Hybrid EXCEPT !.share = 16], <<>>, 0),
   split |-> Packet(Tcp, "s4", Hybrid, <<>>, 9),
   server13 |-> Packet(Tcp, "s5", Server13, CertificateMessage, 0),
   server12 |-> Packet(Tcp, "s6", Server12, CertificateMessage, 0),
   ipv6 |-> Packet([Tcp EXCEPT !.eth_proto = \h86DD], "s7", Hybrid, <<>>, 0)]

Above(level) == [level |-> level]
Thing(level, parts, asset, what) ==
  [level |-> level, parts |-> parts, asset |-> asset, what |-> what]

Cert(fp, sig) == Thing(3, <<<<"sha256">>, <<fp>>>>, fp, sig)

(* Two roots or mounts; a file with two certificates, and one of them once *)
(* more elsewhere; a certificate whose algorithm has no name here.         *)
Certificates ==
  <<Above(0), Above(1), Above(2), Cert("c1", "RSA-PKCS1-SHA256"), Cert("c2", "ML-DSA-65"),
    Above(2), Cert("c3", "SLH-DSA-SHA2-128s"), Above(1), Above(2), Cert("c1", "RSA-PKCS1-SHA256")>>

(* An old certificate, and one beside it.                                  *)
OldCertificates ==
  <<Above(0), Above(1), Above(2), Cert("c4", "RSA-PKCS1-SHA1"), Cert("c5", "ECDSA-SHA384")>>

Kms(arn, spec) == Thing(2, <<<<arn>>>>, arn, spec)

KmsKeys ==
  <<Above(0), Above(1), Kms("k1", "RSA_2048"), Kms("k2", "ML_DSA_65"),
    Above(1), Kms("k3", "SYMMETRIC_DEFAULT"), Above(1), Kms("k4", "HMAC_224")>>

Object(slot, label, asset, key) ==
  Thing(3, <<<<"pkcs11">>, <<"token">>, <<slot>>, <<label>>>>, asset, key)

(* A public and a secret key of one label, and a second slot.              *)
Slots ==
  <<Above(0), Above(1), Above(2), Object("0", "k", "o1", "ECC_NIST_P384"), Object("0", "m", "o2", "ML_DSA_65"),
    Above(2), Object("0", "k", "o3", "AES_128"), Above(1), Above(2), Object("1", "k", "o4", "RSA_2048")>>

SlotKey(vendor, slot, key, asset, type) ==
  Thing(1, <<vendor, slot, key>>, asset, type)

(* Slot a/b with key c, and slot a with key b/c.                           *)
Exported ==
  <<Above(0), SlotKey(<<"v">>, <<"a", "b">>, <<"c">>, "e1", "ED25519"),
    SlotKey(<<"v">>, <<"a">>, <<"b", "c">>, "e2", "SLH_DSA_128S"),
    SlotKey(<<"v">>, <<"a">>, <<"c">>, "e3", "AES"), SlotKey(<<"v">>, <<"d">>, <<"c">>, "e4", "AES_128")>>

Address(chain, name, prefix, len) ==
  Thing(1, <<<<chain>>, <<name>>>>, name, [prefix |-> prefix, len |-> len])

Bitcoin ==
  <<Above(0), Address("bitcoin", "b1", "bc1q", 42), Address("bitcoin", "b2", "bc1q", 50),
    Address("bitcoin", "b3", "bc1p", 62), Address("bitcoin", "b4", "1", 26),
    Address("bitcoin", "b5", "3", 36), Address("bitcoin", "b1", "bc1q", 42)>>

Ethereum ==
  <<Above(0), Address("ethereum", "x1", "0x", 40), Address("ethereum", "x2", "0x", 39)>>

Qrl == <<Above(0), Address("qrl", "q1", "Q", 78), Address("qrl", "q2", "Q", 79)>>

Host(name, ip, asset, suite, group, sig) ==
  Thing(1, <<<<name>>, <<ip>>>>, asset, [suite |-> suite, group |-> group, sig |-> sig])

(* One host on two ports, and a record of a scan that failed.              *)
Records ==
  <<Above(0),
    Host("a", "1", "a:443", "TLS_AES_256_GCM_SHA384", "X25519MLKEM768", "ECDSA_SHA256"),
    Host("a", "1", "a:8443", "TLS_RSA_WITH_AES_128_CBC_SHA", "none", "SHA1_RSA"),
    Host("b", "2", "b:443", "none", "none", "none")>>

Negotiated(name, code) == Host(name, "9", name, "none", code, "Ed25519")

(* A host for every codepoint the probe has a name for, for those of       *)
(* ML-KEM, and for one that nobody knows, each before a host of another.   *)
Code ==
  HybridCode \union MlKemCode \union UnassignedCode
    \union {\h0017, \h0018, \h0019, \h001D, \h001E, \h0100, \h0101, \h0102, \hFFFF}

Probed == {<<Above(0), Negotiated("a", code), Negotiated("b", \h001D)>> : code \in Code}

MCTrees ==
  [host_scan |-> {Certificates, OldCertificates}, vault_scan |-> {Certificates}, aws_kms_scan |-> {KmsKeys},
   pkcs11_scan |-> {Slots}, inventory_scan |-> {Exported}, bitcoin_scan |-> {Bitcoin},
   ethereum_scan |-> {Ethereum}, qrl_scan |-> {Qrl}, zgrab_array |-> {Records},
   zgrab_lines |-> {Records}, pq_probe |-> Probed]

=============================================================================
