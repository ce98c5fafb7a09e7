--------------------------- MODULE SecurityProfile ----------------------------
(* Security profiles: which definitions SecurityProfile::create accepts and    *)
(* which negotiated groups a profile permits                                   *)
(* (src/src/common/security_profile.cpp).  A name is its lower-case form, key, *)
(* and its capitalisation, as: the one OpenSSL lists it with, or another.      *)
EXTENDS Naturals, Sequences

CONSTANT SuiteKeys    \* the names of cipher suites, which start with TLS_

kHybridGroups    == {"x25519mlkem768", "secp256r1mlkem768", "secp384r1mlkem1024"}
kPureMlKemGroups == {"mlkem512", "mlkem768", "mlkem1024"}

Spellings == {"listed", "other"}
Name      == [key : STRING, as : Spellings]
Listed(k) == [key |-> k, as |-> "listed"]

\* What inspect() reports when OpenSSL does not name the group.
NoName == Listed("")

iequals(a, b) == a.key = b.key

contains(groups, g) == \E i \in 1 .. Len(groups) : iequals(groups[i], g)

is_hybrid_group(g)       == g.key \in kHybridGroups
is_post_quantum_group(g) == is_hybrid_group(g) \/ g.key \in kPureMlKemGroups

has_pq(groups)        == \E i \in 1 .. Len(groups) : is_post_quantum_group(groups[i])
has_classical(groups) == \E i \in 1 .. Len(groups) : ~is_post_quantum_group(groups[i])
has_pure_pq(groups)   == \E i \in 1 .. Len(groups) :
                            is_post_quantum_group(groups[i]) /\ ~is_hybrid_group(groups[i])

\* starts_with("TLS_") is a comparison of characters: it knows one spelling.
starts_with_TLS(g) == g.key \in SuiteKeys /\ g.as = "listed"

Authentications == {"ecdsa-p256", "ecdsa-p384", "ml-dsa-65"}

Definition == [id                         : STRING,
               groups                     : Seq(Name),
               cipher_suites              : Seq(Name),
               authentication             : Authentications,
               require_client_certificate : BOOLEAN,
               allow_classical_fallback   : BOOLEAN,
               experimental               : BOOLEAN]

default_cipher_suites == <<Listed("tls_aes_256_gcm_sha384"),
                           Listed("tls_chacha20_poly1305_sha256"),
                           Listed("tls_aes_128_gcm_sha256")>>

suites_of(def) ==
    IF def.cipher_suites = <<>> THEN default_cipher_suites ELSE def.cipher_suites

\* create() accepts the definition.  (Its versions are TLS 1.3, the only value
\* their type has.)
Consistent(def) ==
    /\ def.id # ""
    /\ def.groups # <<>>
    /\ \A i, j \in 1 .. Len(def.groups) : def.groups[i] = def.groups[j] => i = j
    /\ \A i \in 1 .. Len(suites_of(def)) : starts_with_TLS(suites_of(def)[i])
    /\ \A i \in 1 .. Len(def.groups) : ~starts_with_TLS(def.groups[i])
    /\ ~(has_pq(def.groups) /\ has_classical(def.groups) /\ ~def.allow_classical_fallback)
    /\ has_pure_pq(def.groups) => def.experimental
    /\ def.authentication = "ml-dsa-65" => def.experimental

\* The profile it makes of it.
create(def) == [def EXCEPT !.cipher_suites = suites_of(def)]

offers_post_quantum_key_establishment(p) == has_pq(p.groups)

permits_negotiated_group(p, g) ==
    /\ g.key # ""
    /\ contains(p.groups, g)
    /\ ~(/\ ~p.allow_classical_fallback
         /\ ~is_post_quantum_group(g)
         /\ offers_post_quantum_key_establishment(p))
=============================================================================
