-------------------------- MODULE MCProfileRegistry ---------------------------
(* Profile nodes for TLC: one that replaces a built-in profile and one that is *)
(* new, with up to two groups of every kind and spelling; and hosts with       *)
(* everything, without post-quantum groups, and with a group nobody asks for.  *)
EXTENDS Capabilities

MCSuiteKeys == {"tls_aes_256_gcm_sha384", "tls_chacha20_poly1305_sha256",
                "tls_aes_128_gcm_sha256"}

Names == {Listed(k) : k \in {"x25519", "mlkem768", "brainpool", "tls_aes_256_gcm_sha384"}}
         \cup [key : {"x25519mlkem768"}, as : Spellings]

Plain == Profile("new", <<Listed("x25519mlkem768")>>, <<>>, "ecdsa-p256", FALSE, TRUE)

SomeSuites == {<<>>, <<Listed("tls_aes_256_gcm_sha384")>>, <<Listed("x25519")>>}

Nodes ==
    {[Plain EXCEPT !.groups = gs, !.allow_classical_fallback = f] :
        gs \in UNION {[1 .. n -> Names] : n \in 0 .. 2}, f \in BOOLEAN}
    \cup
    {[Plain EXCEPT !.id = id, !.groups = <<g>>, !.experimental = e] :
        id \in {"classical-x25519", "new", ""}, g \in Names, e \in BOOLEAN}
    \cup
    {[Plain EXCEPT !.cipher_suites = s, !.authentication = a, !.experimental = e] :
        s \in SomeSuites, a \in Authentications, e \in BOOLEAN}

Full == [tls13 |-> TRUE, groups |-> kCandidateGroups, suites |-> kCandidateCipherSuites,
         mldsa |-> TRUE, ignores_case |-> TRUE, skips_suites |-> TRUE]

SomeHosts ==
    {[Full EXCEPT !.groups = gs, !.ignores_case = i] :
        gs \in {kCandidateGroups, {"x25519", "secp256r1"}, {"x25519", "brainpool"}}, i \in BOOLEAN}
    \cup
    {[Full EXCEPT !.suites = {"tls_aes_256_gcm_sha384"}, !.skips_suites = b] : b \in BOOLEAN}
    \cup
    {[Full EXCEPT !.tls13 = FALSE], [Full EXCEPT !.mldsa = FALSE]}
=============================================================================
