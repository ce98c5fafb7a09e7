------------------------------ MODULE MCSession -------------------------------
(* A client that insists on the hybrid group, and a server that would fall     *)
(* back to a classical one.                                                    *)
EXTENDS Session

MCProfile == create([id |-> "hybrid-preferred",
                     groups |-> <<Listed("x25519mlkem768"), Listed("x25519")>>,
                     cipher_suites |-> <<>>, authentication |-> "ecdsa-p256",
                     require_client_certificate |-> FALSE, allow_classical_fallback |-> TRUE,
                     experimental |-> FALSE])

MCClientProfile == [MCProfile EXCEPT !.groups = <<Listed("x25519mlkem768"), Listed("secp256r1mlkem768")>>,
                                     !.allow_classical_fallback = FALSE]

\* One group that both permit, and for each a group that only it does.
MCGroups    == {Listed("x25519mlkem768"), Listed("x25519"), Listed("secp256r1mlkem768")}
MCPqNamed   == {"hybrid-preferred"}
MCSuiteKeys == {"tls_aes_256_gcm_sha384", "tls_chacha20_poly1305_sha256", "tls_aes_128_gcm_sha256"}

\* More messages than the server's limit; a message it has to refuse, a reply it
\* cannot encode; a message and a reply over the client's limit; close and what
\* would follow it.
MCWorkloads == {<<>>, <<"ping">>, <<"ping", "telemetry", "ping">>, <<"error", "ping">>, <<"ping", "echo">>,
                <<"ping", BadLength>>, <<"telemetry", "close", "ping">>, <<"pong", "acknowledgement">>,
                <<"capabilities", "ping">>}

ASSUME MCAssumption == Consistent(MCProfile) /\ Consistent(MCClientProfile)
=============================================================================
