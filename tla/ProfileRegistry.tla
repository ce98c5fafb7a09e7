--------------------------- MODULE ProfileRegistry ----------------------------
(* ProfileRegistry (src/src/common/security_profile.cpp): the built-in profiles *)
(* and, read from a file one node after the other, those that extend or        *)
(* replace them.                                                               *)
EXTENDS SecurityProfile

CONSTANTS
    Definitions,   \* the well-formed profile nodes a file may contain
    MaxNodes       \* bound: nodes of a file

ASSUME RegistryAssumption == Definitions \subseteq Definition /\ MaxNodes \in Nat

VARIABLES
    profiles,   \* profiles_
    status,     \* "loading", "loaded", or "failed" by an exception
    nodes       \* history: the nodes read

registryVars == <<profiles, status, nodes>>

Profile(id, groups, suites, auth, fallback, experimental) ==
    [id |-> id, groups |-> groups, cipher_suites |-> suites, authentication |-> auth,
     require_client_certificate |-> FALSE, allow_classical_fallback |-> fallback,
     experimental |-> experimental]

builtin ==
    LET all == default_cipher_suites IN
    <<Profile("classical-x25519", <<Listed("x25519")>>, all, "ecdsa-p256", TRUE, FALSE),
      Profile("classical-p256", <<Listed("secp256r1")>>, all, "ecdsa-p256", TRUE, FALSE),
      Profile("hybrid-x25519-mlkem768", <<Listed("x25519mlkem768")>>, all, "ecdsa-p256",
              FALSE, FALSE),
      Profile("hybrid-p256-mlkem768", <<Listed("secp256r1mlkem768")>>, all, "ecdsa-p256",
              FALSE, FALSE),
      Profile("hybrid-p384-mlkem1024", <<Listed("secp384r1mlkem1024")>>,
              <<Listed("tls_aes_256_gcm_sha384")>>, "ecdsa-p384", FALSE, FALSE),
      Profile("pure-mlkem768", <<Listed("mlkem768")>>, all, "ecdsa-p256", FALSE, TRUE),
      Profile("hybrid-pq-auth", <<Listed("x25519mlkem768")>>, all, "ml-dsa-65", FALSE, TRUE)>>

\* What create() returns.
Profiles == {p \in Definition : Consistent(p) /\ p.cipher_suites # <<>>}

\* create() accepts each of the built-in ones: the names of their suites start with
\* TLS_, those of their groups do not.
ASSUME BuiltinAssumption == \A i \in 1 .. Len(builtin) : builtin[i] \in Profiles

RegistryTypeOK ==
    /\ profiles \in Seq(Profiles)
    /\ status \in {"loading", "loaded", "failed"}
    /\ nodes \in Seq(Definitions)

RegistryInit == profiles = builtin /\ status = "loading" /\ nodes = <<>>

\* find(): the indices at which the profile is, of which it returns the first.
found(id) == {i \in 1 .. Len(profiles) : profiles[i].id = id}

add_or_replace(p) ==
    IF found(p.id) = {} THEN Append(profiles, p)
    ELSE [profiles EXCEPT ![CHOOSE i \in found(p.id) : \A j \in found(p.id) : i <= j] = p]

\* Mutant: a definition that is refused is skipped.
NodeSkips(def) ==
    /\ status = "loading" /\ Len(nodes) < MaxNodes
    /\ nodes' = Append(nodes, def)
    /\ \/ Consistent(def) /\ profiles' = add_or_replace(create(def))
       \/ ~Consistent(def) /\ UNCHANGED profiles
    /\ UNCHANGED status

\* parse_profile_node() and add_or_replace(): create() may throw.
Node(def) ==
    /\ status = "loading" /\ Len(nodes) < MaxNodes
    /\ nodes' = Append(nodes, def)
    /\ \/ Consistent(def) /\ profiles' = add_or_replace(create(def)) /\ UNCHANGED status
       \/ ~Consistent(def) /\ status' = "failed" /\ UNCHANGED profiles

\* The file, or a node, cannot be read: bad YAML, an unknown key or value.
BadNode ==
    /\ status = "loading"
    /\ status' = "failed"
    /\ UNCHANGED <<profiles, nodes>>

EndOfFile ==
    /\ status = "loading"
    /\ status' = "loaded"
    /\ UNCHANGED <<profiles, nodes>>

RegistryNext == (\E def \in Definitions : Node(def)) \/ BadNode \/ EndOfFile

RegistrySpec == RegistryInit /\ [][RegistryNext]_registryVars

-----------------------------------------------------------------------------
\* Every group a profile offers in the handshake is one it accepts afterwards, in
\* whatever spelling OpenSSL reports it, unless its name is empty.
OfferedIsPermitted ==
    \A i \in 1 .. Len(profiles) : \A j \in 1 .. Len(profiles[i].groups) :
        \A as \in Spellings :
            LET g == [profiles[i].groups[j] EXCEPT !.as = as] IN
            g.key # "" => permits_negotiated_group(profiles[i], g)

\* The registry has the profile of the last node with its name or, where no node
\* has it, the built-in one; the built-in names keep their places, every node is
\* in it, and no two profiles have one name.  All of them passed create().
LastWins ==
    LET same(id) == {n \in 1 .. Len(nodes) : nodes[n].id = id} IN
    /\ RegistryTypeOK
    /\ \A i, j \in 1 .. Len(profiles) : profiles[i].id = profiles[j].id => i = j
    /\ status # "failed" =>
        /\ \A i \in 1 .. Len(profiles) :
              LET with == same(profiles[i].id) IN
              IF with = {} THEN i <= Len(builtin) /\ profiles[i] = builtin[i]
              ELSE \E n \in with : /\ \A m \in with : m <= n
                                   /\ profiles[i] = create(nodes[n])
        /\ \A i \in 1 .. Len(builtin) : i <= Len(profiles) /\ profiles[i].id = builtin[i].id
        /\ \A n \in 1 .. Len(nodes) : found(nodes[n].id) # {}
=============================================================================
