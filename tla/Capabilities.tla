---------------------------- MODULE Capabilities ------------------------------
(* Capabilities::detect (src/src/common/capabilities.cpp): what the OpenSSL of *)
(* this host accepts, asked name by name, and which profiles of the registry   *)
(* are usable as a result; and apply_common_policy                             *)
(* (src/src/common/tls_context.cpp), which later gives OpenSSL a profile's     *)
(* groups and suites as two lists.                                             *)
EXTENDS ProfileRegistry

CONSTANT Hosts    \* the builds of OpenSSL the program may run on

\* An OpenSSL: its groups, suites and algorithms; whether a group's name is
\* compared without case (3.5) or with it; whether a list of suites may contain
\* unknown ones as long as one is known, or must not.
Host == [tls13 : BOOLEAN, groups : SUBSET STRING, suites : SUBSET STRING, mldsa : BOOLEAN,
         ignores_case : BOOLEAN, skips_suites : BOOLEAN]

ASSUME HostsAssumption == Hosts \subseteq Host

VARIABLES
    host,   \* the host, once detect() has asked it
    caps    \* the Capabilities, or NoCapabilities

NoHost         == [tls13 |-> FALSE, groups |-> {}, suites |-> {}, mldsa |-> FALSE,
                   ignores_case |-> FALSE, skips_suites |-> FALSE]
NoCapabilities == [tls13_available |-> FALSE, tls_groups |-> {}, cipher_suites |-> {},
                   mldsa_available |-> FALSE, profiles |-> <<>>]

kCandidateGroups ==
    {"x25519", "secp256r1", "secp384r1", "secp521r1", "x448", "ffdhe2048", "ffdhe3072",
     "mlkem512", "mlkem768", "mlkem1024"} \cup kHybridGroups

kCandidateCipherSuites ==
    {"tls_aes_256_gcm_sha384", "tls_chacha20_poly1305_sha256", "tls_aes_128_gcm_sha256"}

-----------------------------------------------------------------------------
(* OpenSSL, external.                                                         *)

\* SSL_CTX_set1_groups_list succeeds if every name resolves.
set1_groups_list(h, names) ==
    \A i \in 1 .. Len(names) :
        names[i].key \in h.groups /\ (names[i].as = "listed" \/ h.ignores_case)

\* SSL_CTX_set_ciphersuites: names of suites are compared with case.
set_ciphersuites(h, names) ==
    LET known == {i \in 1 .. Len(names) : names[i].key \in h.suites /\ names[i].as = "listed"}
    IN  IF h.skips_suites THEN known # {} ELSE known = 1 .. Len(names)

-----------------------------------------------------------------------------
(* Detection.                                                                 *)

has_group(c, g)        == g.key \in c.tls_groups
has_cipher_suite(c, s) == s.key \in c.cipher_suites /\ s.as = "listed"

\* Each candidate is given to OpenSSL as a list of one name.
probed(h) ==
    [tls13_available |-> h.tls13,
     tls_groups      |-> {g \in kCandidateGroups : set1_groups_list(h, <<Listed(g)>>)},
     cipher_suites   |-> {s \in kCandidateCipherSuites : set_ciphersuites(h, <<Listed(s)>>)},
     mldsa_available |-> h.mldsa,
     profiles        |-> <<>>]

\* Mutant: only the first name of each list is looked up.
availabilityFirst(c, p) ==
    [profile_id |-> p.id,
     usable     |-> /\ c.tls13_available
                    /\ has_group(c, Head(p.groups))
                    /\ has_cipher_suite(c, Head(p.cipher_suites))
                    /\ p.authentication = "ml-dsa-65" => c.mldsa_available]

\* A profile is usable if there is no reason why it is not.
availability(c, p) ==
    [profile_id |-> p.id,
     usable     |-> /\ c.tls13_available
                    /\ \A i \in 1 .. Len(p.groups) : has_group(c, p.groups[i])
                    /\ \A i \in 1 .. Len(p.cipher_suites) : has_cipher_suite(c, p.cipher_suites[i])
                    /\ p.authentication = "ml-dsa-65" => c.mldsa_available]

\* detect(): the probes, then every profile of the registry.
detect(h) ==
    [probed(h) EXCEPT !.profiles =
        [i \in 1 .. Len(profiles) |-> availability(probed(h), profiles[i])]]

\* Capabilities::profile(): the entry of the first profile with this name.
profile_entries(id) == {i \in 1 .. Len(caps.profiles) : caps.profiles[i].profile_id = id}

Detect(h) ==
    /\ status = "loaded" /\ host = NoHost
    /\ host' = h
    /\ caps' = detect(h)
    /\ UNCHANGED registryVars

\* No probe context can be made: detect() throws and the command ends.
DetectThrows ==
    /\ status = "loaded" /\ host = NoHost
    /\ status' = "failed"
    /\ UNCHANGED <<profiles, nodes, host, caps>>

CapabilitiesInit == RegistryInit /\ host = NoHost /\ caps = NoCapabilities

CapabilitiesNext ==
    \/ RegistryNext /\ UNCHANGED <<host, caps>>
    \/ \E h \in Hosts : Detect(h)
    \/ DetectThrows

CapabilitiesSpec == CapabilitiesInit /\ [][CapabilitiesNext]_<<registryVars, host, caps>>

-----------------------------------------------------------------------------
\* How apply_common_policy ends for profile p.
apply_common_policy(h, p) ==
    CASE ~h.tls13                                -> "configuration"
      [] h.tls13 /\ ~set1_groups_list(h, p.groups) -> "capability"
      [] /\ h.tls13 /\ set1_groups_list(h, p.groups)
         /\ ~set_ciphersuites(h, p.cipher_suites) -> "configuration"
      [] OTHER                                   -> "applied"

\* What is reported usable can be used.  A profile permits after the handshake what
\* it offers in it (OfferedIsPermitted).  A profile that detect(), asking name by
\* name, calls usable is one whose lists OpenSSL then accepts as a whole, unless a
\* group is written in another spelling and this OpenSSL compares with case; and
\* one that it blocks names something the host does not have, or something nobody
\* asked for.  Every profile of the registry has one entry, its own.
UsableIsApplicable ==
    /\ OfferedIsPermitted
    /\ host # NoHost =>
        \A i \in 1 .. Len(profiles) :
            LET p == profiles[i] IN
            /\ profile_entries(p.id) = {i}
            /\ caps.profiles[i].usable =>
                  \/ apply_common_policy(host, p) = "applied"
                  \/ ~host.ignores_case /\ \E j \in 1 .. Len(p.groups) : p.groups[j].as = "other"
            /\ ~caps.profiles[i].usable =>
                  \/ apply_common_policy(host, p) # "applied"
                  \/ \E j \in 1 .. Len(p.groups) : p.groups[j].key \notin kCandidateGroups
                  \/ \E j \in 1 .. Len(p.cipher_suites) :
                        p.cipher_suites[j].key \notin host.suites \cap kCandidateCipherSuites
                  \/ p.authentication = "ml-dsa-65" /\ ~host.mldsa
=============================================================================
