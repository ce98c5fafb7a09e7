------------------------------ MODULE MCStartup -------------------------------
(* Command lines of a command, perhaps a certificate with its key, and up to   *)
(* two phrases, in either order; files with at most three settings.            *)
EXTENDS Startup

Pair    == <<O("certificate"), W("crt"), O("private-key"), W("key")>>
Given(name, texts) == {<<O(name), W(t)>> : t \in texts}

\* A token of each kind with and without its value, the spellings of a Boolean and
\* of a number, a mistyped option, a stray word, and an option that is given last
\* and so may lack its value or take the next option for it.
Phrases ==
    Given("profile", {"pq-auth", "mtls", "exotic", "old", "unknown"})
        \cup {<<A("profile", "classical-x25519")>>, <<A("profile", "")>>, <<O("profile")>>, <<O("proflie"), W("pq-auth")>>}
        \cup {<<O("insecure-development-mode")>>, <<A("insecure-development-mode", "false")>>,
              <<A("insecure-development-mode", "maybe")>>, <<O("require-client-cert")>>}
        \cup {<<O("certificate"), W("crt")>>, <<O("ca-certificate"), W("ca")>>, <<O("config"), W("f")>>}
        \cup {<<O("keylog-file"), W("k")>>, <<A("keylog-file", "")>>, <<O("metrics"), W("m")>>, <<O("output"), W("m")>>}
        \cup Given("max-frame-size", {"0", "1", "many"}) \cup Given("message", {"{}", "text"})
        \cup Given("log-level", {"warn", "loud"}) \cup {<<O("json")>>, <<O("help")>>, <<O("version")>>, <<W("stray")>>}

Named(program) == Commands[program] \cup {"help", "bench"}

MCCommandLines ==
    UNION {[program : {p},
            argv : {<<W(c)>> \o s \o t \o u : c \in Named(p), s \in {<<>>, Pair}, t \in Phrases \cup {<<>>}, u \in Phrases}
                   \cup {<<>>} \cup Phrases] : p \in {"server", "client"}}

MCFiles ==
    {[profile |-> p] : p \in {"", "pq-auth", "mtls"}}
        \cup {[x \in s |-> TRUE] : s \in {{"certificate", "private_key"}, {"certificate", "private_key", "mtls"},
                                          {"certificate", "private_key", "insecure"}, {"keylog", "metrics"}}}

\* A profile as it should be, one with ML-DSA, one with mutual TLS, one with a
\* group OpenSSL has and the probe does not, and one with a group it lacks.
P(mtls, candidates, supported, pq) ==
    [mtls |-> mtls, candidates |-> candidates, supported |-> supported, pq_auth |-> pq]

MCCatalogue == [id \in {"classical-x25519", "pq-auth", "mtls", "exotic", "old"} |->
                 CASE id = "pq-auth" -> P(FALSE, TRUE, TRUE, TRUE)
                   [] id = "mtls"    -> P(TRUE, TRUE, TRUE, FALSE)
                   [] id = "exotic"  -> P(FALSE, FALSE, TRUE, FALSE)
                   [] id = "old"     -> P(FALSE, TRUE, FALSE, FALSE)
                   [] OTHER          -> P(FALSE, TRUE, TRUE, FALSE)]
=============================================================================
