-------------------------- MODULE ConnectionRecord ----------------------------
(* ConnectionMetrics (src/include/pqtls/metrics.hpp): what a record claims of  *)
(* a connection, as the server (src/src/server/server.cpp) and the client      *)
(* (src/src/client/client.cpp) fill it in, and what                            *)
(* tools/result_validator.py, which reads the records later, objects to.       *)
(* Timings, byte counts and addresses are left out.                            *)
EXTENDS SecurityProfile

CONSTANT PqNamed    \* the names of profiles that start with hybrid- or pure-

\* The names of signatures OpenSSL may report, and those of them that contain
\* mldsa, ML-DSA or dilithium, in this spelling.
Signatures   == {"SHA256", "mldsa65", "id-ml-dsa-65"}
PqSignatures == {"mldsa65"}

Categories == {"none", "configuration", "network", "timeout", "certificate", "tls-policy",
               "handshake", "protocol", "internal"}

ConnectionMetrics ==
    [requested_profile        : STRING,
     tls_version              : {"", "TLSv1.3"},
     negotiated_group         : Name \cup {NoName},
     authentication           : Authentications \cup Signatures \cup {""},
     pq_key_establishment     : BOOLEAN,
     hybrid_key_establishment : BOOLEAN,
     pq_authentication        : BOOLEAN,
     protocol_message_count   : Nat,
     success                  : BOOLEAN,
     error_category           : Categories]

NewMetrics(id) ==
    [requested_profile |-> id, tls_version |-> "", negotiated_group |-> NoName,
     authentication |-> "",
     pq_key_establishment |-> FALSE, hybrid_key_establishment |-> FALSE,
     pq_authentication |-> FALSE, protocol_message_count |-> 0,
     success |-> FALSE, error_category |-> "none"]

is_post_quantum_authentication(a) == a = "ml-dsa-65"

\* After SSL_accept: the authentication is the server's own.
server_negotiation_fields(m, profile, group) ==
    [m EXCEPT !.tls_version              = "TLSv1.3",
              !.negotiated_group         = group,
              !.authentication           = profile.authentication,
              !.pq_key_establishment     = is_post_quantum_group(group),
              !.hybrid_key_establishment = is_hybrid_group(group),
              !.pq_authentication        = is_post_quantum_authentication(profile.authentication)]

\* After SSL_connect: the authentication is the one the server signed with or,
\* when nothing was signed, the profile's, which then claims nothing.
populate_negotiation_fields(m, profile, group, signature) ==
    [m EXCEPT !.tls_version              = "TLSv1.3",
              !.negotiated_group         = group,
              !.authentication           = IF signature = "" THEN profile.authentication ELSE signature,
              !.pq_key_establishment     = is_post_quantum_group(group),
              !.hybrid_key_establishment = is_hybrid_group(group),
              !.pq_authentication        = signature \in PqSignatures]

\* to_json(): the category of a success is written as null.
null       == "null"
to_json(m) == [m EXCEPT !.error_category = IF @ = "none" THEN null ELSE @]

-----------------------------------------------------------------------------
(* The validator, with its own lists of groups and names.                     *)

HYBRID_GROUPS  == {"x25519mlkem768", "secp256r1mlkem768", "secp384r1mlkem1024"}
PURE_PQ_GROUPS == {"mlkem512", "mlkem768", "mlkem1024"}
PQ_GROUPS      == HYBRID_GROUPS \cup PURE_PQ_GROUPS

ERROR_CATEGORIES == {null, "none", "configuration", "capability", "certificate", "tls-policy",
                     "handshake", "network", "protocol", "timeout", "internal"}

\* The authentications that contain one of its markers, whatever their case.
PqMarked == {"mldsa65", "id-ml-dsa-65", "ml-dsa-65"}

If(problem, name) == IF problem THEN {name} ELSE {}

\* builtin_structural_check(): what is left of it when every field is present.
builtin_structural_check(m) ==
    If(m.error_category \notin ERROR_CATEGORIES, "unknown category")

\* semantic_check(): what the record may not claim.
semantic_check(m) ==
    LET group == m.negotiated_group.key IN
    UNION {If(m.success /\ m.tls_version = "", "no version"),
           If(m.success /\ group = "", "no group"),
           If(m.success /\ m.error_category \notin {null, "none"}, "success with a category"),
           If(m.success /\ m.tls_version \notin {"", "TLSv1.3", "TLS1.3"}, "another version"),
           If(group # "" /\ m.pq_key_establishment /\ group \notin PQ_GROUPS, "claims PQ"),
           If(m.success /\ group \in PQ_GROUPS /\ ~m.pq_key_establishment, "does not claim PQ"),
           If(group # "" /\ m.hybrid_key_establishment /\ group \notin HYBRID_GROUPS, "claims hybrid"),
           If(m.hybrid_key_establishment /\ ~m.pq_key_establishment, "hybrid without PQ"),
           If(/\ m.pq_authentication /\ m.authentication # ""
              /\ m.authentication \notin PqMarked, "claims PQ authentication"),
           If(/\ m.success /\ m.requested_profile \in PqNamed
              /\ group # "" /\ group \notin PQ_GROUPS, "downgrade")}

\* validate_file(): the problems of the line written for a record.
problems(m) == builtin_structural_check(to_json(m)) \cup semantic_check(to_json(m))

\* What the validator may say of a record made under this profile: nothing,
\* except that it takes the fallback of a profile that permits one, and whose name
\* promises none, for a downgrade.
Objectionable(profile) ==
    IF profile.allow_classical_fallback /\ profile.id \in PqNamed THEN {"downgrade"} ELSE {}
=============================================================================
