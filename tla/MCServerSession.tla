--------------------------- MODULE MCServerSession ----------------------------
(* A server that asks for client certificates, with a hybrid profile that may  *)
(* fall back to one classical group and claims ML-DSA authentication.          *)
EXTENDS ServerSession

MCProfile == create([id |-> "hybrid-pq-auth", groups |-> <<Listed("x25519mlkem768"), Listed("x25519")>>,
                     cipher_suites |-> <<>>, authentication |-> "ml-dsa-65",
                     require_client_certificate |-> FALSE, allow_classical_fallback |-> TRUE,
                     experimental |-> TRUE])

\* Two permitted groups, one in another spelling, and one that is not in the list.
MCGroups    == {[key |-> "x25519mlkem768", as |-> "other"], Listed("x25519"), Listed("secp256r1")}
MCPqNamed   == {"hybrid-pq-auth"}
MCSuiteKeys == {"tls_aes_256_gcm_sha384", "tls_chacha20_poly1305_sha256", "tls_aes_128_gcm_sha256"}

ASSUME MCAssumption == Consistent(MCProfile)
=============================================================================
