------------------------------ MODULE MCAdvice ------------------------------
(***************************************************************************)
(* One asset of each agent, reported with everything that the agent's      *)
(* tables can say of it; a key and a certificate share the identity "db".  *)
(***************************************************************************)
EXTENDS Advice, Algos

Agent(module, kind, identity, prims, channel) ==
  Event(module, kind, identity, prims, channel, NoAgility)

Hybrid(health) == [state |-> "qkd_hybrid_psk", link_health |-> health]

Keys == {Agent("ree0xq-id", "hsm_slot", "db", KeyPrimitives[k], NoChannel) : k \in DOMAIN KeyPrimitives}
Certs == {Agent("ree0xq-cert", "x509_cert", "db", CertPrimitives(s), NoChannel) : s \in CertSig}
Coins == {Agent("ree0xq-chain", "blockchain_key", "wallet", ChainPrimitives[c], NoChannel) :
            c \in DOMAIN ChainPrimitives}
Links == {Agent("ree0xq-qkd", "qkd_kme", "KME-A", <<>>, Hybrid(h)) : h \in {"ok", "degraded"}}

Web(prims, channel) == Agent("ree0xq-net", "tls_session", "web", prims, channel)
Hello(suites, groups, schemes) == primitives_from_summary(suites, groups, schemes)

Sessions ==
  {Web(Hello(<<s>>, <<>>, <<>>), NoChannel) : s \in DOMAIN Tls12Suite}
    \union {Web(Hello(<<"TLS_AES_128_GCM_SHA256">>, <<"x25519">>, <<s>>), NoChannel) : s \in KnownScheme}
    \union {Web(<<ZgrabSig["MD5_RSA"]>>, NoChannel)}

(* The session after its migration, alone and over a QKD link.             *)
Clean == Hello(<<"TLS_AES_256_GCM_SHA384">>, <<"X25519MLKEM768">>, <<"mldsa65">>)
Migrations == {Web(Clean, NoChannel), Web(Clean, Hybrid("ok")),
               Web(Hello(<<"TLS_RSA_WITH_3DES_EDE_CBC_SHA">>, <<>>, <<>>), NoChannel)}

MCSeen == Keys \union Certs \union Coins \union Links \union Sessions \union Migrations
MCWrapped == Migrations
              \union {Agent("ree0xq-id", "hsm_slot", "db", KeyPrimitives["RSA_4096"], NoChannel)}

(* One block with the score of its level, and one that contradicts it.     *)
MCExternal == {[level |-> "negotiated", level_score |-> score["negotiated"]],
               [level |-> "locked", level_score |-> 110]}

(* An nginx configuration, a large C file that pins an algorithm on its    *)
(* second line, and an image that is not text.                             *)
MCTree ==
  { [path |-> <<"etc", "/", "nginx", ".conf">>, bytes |-> 1, text |-> TRUE, lines |-> <<{}, {"ssl_ciphers"}>>],
    [path |-> <<"src", "/", "tls", ".c">>, bytes |-> 2, text |-> TRUE, lines |-> <<{"fixed"}, {"hardcoded"}>>],
    [path |-> <<"logo", ".png">>, bytes |-> 1, text |-> FALSE, lines |-> <<{"hardcoded"}>>] }

RuleFile(rule, fault) == [yaml |-> TRUE, fault |-> fault, rule |-> rule]

Ciphers == Rule("nginx-ssl-ciphers", {RuleScope("config", <<"**/", "nginx", "*", ".conf">>)},
                "ssl_ciphers", "configurable", "config_pattern")
Pinned == Rule("code-hardcoded-algo", {RuleScope("code", <<"**/", "*", ".c">>)},
               "hardcoded", "pinned", "code_pattern")
Fixed == Rule("firmware", {RuleScope("code", NoGlob)}, "fixed", "locked", "firmware_string")

Shipped == {RuleFile(Ciphers, "none"), RuleFile(Pinned, "none"), RuleFile(Fixed, "none"),
            [yaml |-> FALSE, fault |-> "none", rule |-> Ciphers]}
MCRuleDirs == {Shipped, (Shipped \ {RuleFile(Fixed, "none")}) \union {RuleFile(Fixed, "regex")}}

MCPlans ==
  { <<Milestone("late", 6, <<"db", "db">>, <<"ML-DSA-65">>), Milestone("early", 4, <<"web", "gone">>, <<"ML-KEM-768">>)>>,
    <<Milestone("all", 4, <<"web", "db", "wallet", "KME-A">>, <<"ML-DSA-65">>)>> }

=============================================================================
