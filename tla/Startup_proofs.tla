---------------------------- MODULE Startup_proofs ----------------------------
(* Proofs about what a command does before its first connection: for any file  *)
(* of profile nodes, the registry has the last definition of each name; for    *)
(* any OpenSSL, the profiles that detect() calls usable are those that can be   *)
(* applied; and for any command line, file and catalogue of profiles, a        *)
(* command runs with the settings it was given, nothing is opened with a       *)
(* configuration that is not valid, and no server listens with a profile that  *)
(* is not usable.                                                              *)
EXTENDS Capabilities, Startup, WellFoundedInduction, TLAPS

(* The registry.                                                               *)

(* What create() returns is a profile, with the name of its definition.        *)
LEMMA CreateType ==
    ASSUME NEW def \in Definition, Consistent(def)
    PROVE  create(def) \in Profiles /\ create(def).id = def.id
<1> DEFINE p == create(def)
<1>1. default_cipher_suites \in Seq(Name)
  <2>1. 1 \in 1 .. Len(builtin) /\ builtin[1].cipher_suites = default_cipher_suites
    BY DEF builtin, Profile
  <2>2. builtin[1] \in Definition
    BY <2>1, BuiltinAssumption DEF Profiles
  <2> QED
    BY <2>1, <2>2 DEF Definition
<1>2. default_cipher_suites # <<>>
  BY DEF default_cipher_suites
<1>3. suites_of(def) \in Seq(Name) /\ suites_of(def) # <<>>
  BY <1>1, <1>2 DEF suites_of, Definition
<1>4. /\ p \in Definition /\ p.id = def.id /\ p.groups = def.groups
      /\ p.cipher_suites = suites_of(def) /\ p.authentication = def.authentication
      /\ p.allow_classical_fallback = def.allow_classical_fallback
      /\ p.experimental = def.experimental
  BY <1>3 DEF create, Definition
<1> HIDE DEF p
<1>5. suites_of(p) = suites_of(def)
  BY <1>3, <1>4 DEF suites_of
<1>6. Consistent(p)
  BY <1>4, <1>5, Zenon DEF Consistent
<1> QED
  BY <1>3, <1>4, <1>6 DEF Profiles, p

(* No two profiles have one name.                                              *)
Unique == \A i, j \in 1 .. Len(profiles) : profiles[i].id = profiles[j].id => i = j

(* A profile that is added takes one place, the one of its name if there is    *)
(* one, and the others stay where they are.                                    *)
LEMMA AddOrReplace ==
    ASSUME profiles \in Seq(Profiles), Unique,
           NEW p \in Profiles, profiles' = add_or_replace(p)
    PROVE  /\ profiles' \in Seq(Profiles)
           /\ \E k \in 1 .. Len(profiles') :
                 /\ profiles'[k] = p
                 /\ k \in 1 .. Len(profiles) => profiles[k].id = p.id
                 /\ Len(profiles) <= Len(profiles')
                 /\ \A i \in 1 .. Len(profiles') : i # k =>
                       i \in 1 .. Len(profiles) /\ profiles'[i] = profiles[i] /\ profiles[i].id # p.id
<1>1. CASE found(p.id) = {}
  <2>1. profiles' = Append(profiles, p)
    BY <1>1 DEF add_or_replace
  <2>2. \A i \in 1 .. Len(profiles) : profiles[i].id # p.id
    BY <1>1 DEF found
  <2>3. /\ profiles' \in Seq(Profiles) /\ Len(profiles') = Len(profiles) + 1 /\ Len(profiles) \in Nat
        /\ profiles'[Len(profiles) + 1] = p
        /\ \A i \in 1 .. Len(profiles) : profiles'[i] = profiles[i]
    BY <2>1
  <2>4. Len(profiles) + 1 \in 1 .. Len(profiles')
    BY <2>3
  <2>5. \A i \in 1 .. Len(profiles') : i # Len(profiles) + 1 => i \in 1 .. Len(profiles)
    BY <2>3
  <2>6. Len(profiles) + 1 \notin 1 .. Len(profiles) /\ Len(profiles) <= Len(profiles')
    BY <2>3
  <2> QED
    BY <2>2, <2>3, <2>4, <2>5, <2>6
<1>2. CASE found(p.id) # {}
  <2>1. PICK k \in found(p.id) : TRUE
    BY <1>2
  <2>2. k \in 1 .. Len(profiles) /\ profiles[k].id = p.id
    BY <2>1 DEF found
  <2>3. found(p.id) = {k}
    BY <2>2 DEF found, Unique
  <2>4. (CHOOSE i \in found(p.id) : \A j \in found(p.id) : i <= j) = k
    <3>1. \A j \in found(p.id) : k <= j
      BY <2>2, <2>3
    <3> QED
      BY <2>3, <3>1
  <2>5. profiles' = [profiles EXCEPT ![k] = p]
    BY <1>2, <2>4, Zenon DEF add_or_replace
  <2>6. /\ profiles' \in Seq(Profiles) /\ Len(profiles') = Len(profiles) /\ profiles'[k] = p
        /\ \A i \in 1 .. Len(profiles) : i # k => profiles'[i] = profiles[i]
        /\ Len(profiles) \in Nat
    BY <2>2, <2>5
  <2>7. \A i \in 1 .. Len(profiles) : i # k => profiles[i].id # p.id
    BY <2>2 DEF Unique
  <2> QED
    BY <2>2, <2>6, <2>7
<1> QED
  BY <1>1, <1>2

(* The nodes with a name; the profile in place i is that of the last of them,  *)
(* or the built-in one.                                                        *)
With(id)  == {n \in 1 .. Len(nodes) : nodes[n].id = id}
Latest(i) ==
    IF With(profiles[i].id) = {} THEN i <= Len(builtin) /\ profiles[i] = builtin[i]
    ELSE \E n \in With(profiles[i].id) : /\ \A m \in With(profiles[i].id) : m <= n
                                         /\ profiles[i] = create(nodes[n])

(* What LastWins says of a registry whose file could be read so far.           *)
Held ==
    /\ \A i \in 1 .. Len(profiles) : Latest(i)
    /\ \A i \in 1 .. Len(builtin) : i <= Len(profiles) /\ profiles[i].id = builtin[i].id
    /\ \A n \in 1 .. Len(nodes) : found(nodes[n].id) # {}

(* LastWins, in these terms.                                                   *)
LEMMA LastWinsParts ==
    LastWins <=> RegistryTypeOK /\ Unique /\ (status # "failed" => Held)
  BY DEF LastWins, Unique, Held, Latest, With

(* A node that create() accepts keeps LastWins.                                *)
LEMMA NodeAccepted ==
    ASSUME RegistryTypeOK, Unique, Held, NEW def \in Definitions, Consistent(def),
           nodes' = Append(nodes, def), profiles' = add_or_replace(create(def))
    PROVE  profiles' \in Seq(Profiles) /\ Unique' /\ Held'
<1> DEFINE p == create(def)
           N == Len(nodes) + 1
<1>1. p \in Profiles /\ p.id = def.id
  BY CreateType, RegistryAssumption
<1>2. /\ Len(nodes) \in Nat /\ Len(nodes') = N /\ nodes'[N] = def
      /\ \A n \in 1 .. Len(nodes) : nodes'[n] = nodes[n]
  BY DEF RegistryTypeOK
<1>3. profiles \in Seq(Profiles) /\ profiles' = add_or_replace(p)
  BY DEF RegistryTypeOK
<1> HIDE DEF p
<1>4. profiles' \in Seq(Profiles)
  BY <1>1, <1>3, AddOrReplace
<1>5. PICK k \in 1 .. Len(profiles') :
         /\ profiles'[k] = p
         /\ k \in 1 .. Len(profiles) => profiles[k].id = p.id
         /\ Len(profiles) <= Len(profiles')
         /\ \A i \in 1 .. Len(profiles') : i # k =>
               i \in 1 .. Len(profiles) /\ profiles'[i] = profiles[i] /\ profiles[i].id # p.id
  BY <1>1, <1>3, AddOrReplace
<1>6. Len(profiles) \in Nat /\ Len(profiles') \in Nat
  BY <1>3, <1>4
<1>7. Unique'
  BY <1>1, <1>5 DEF Unique
<1>8. ASSUME NEW id, id # def.id PROVE With(id)' = With(id)
  BY <1>2, <1>8 DEF With
<1>9. With(def.id)' = With(def.id) \cup {N}
  BY <1>2 DEF With
<1>10. ASSUME NEW i \in 1 .. Len(profiles') PROVE Latest(i)'
  <2>1. CASE i = k
    <3>1. profiles'[i].id = def.id /\ profiles'[i] = create(nodes'[N])
      BY <1>1, <1>2, <1>5, <2>1 DEF p
    <3>2. N \in With(def.id)'
      BY <1>9
    <3>3. \A m \in With(def.id)' : m <= N
      BY <1>2 DEF With
    <3> QED
      BY <3>1, <3>2, <3>3 DEF Latest
  <2>2. CASE i # k
    <3>1. i \in 1 .. Len(profiles) /\ profiles'[i] = profiles[i] /\ profiles[i].id # def.id
      BY <1>1, <1>5, <2>2
    <3>2. PICK E : E = With(profiles[i].id)
      OBVIOUS
    <3>3. {n \in 1 .. Len(nodes') : nodes'[n].id = profiles'[i].id} = E
      BY <1>2, <3>1, <3>2 DEF With
    <3>4. IF E = {} THEN i <= Len(builtin) /\ profiles[i] = builtin[i]
          ELSE \E n \in E : (\A m \in E : m <= n) /\ profiles[i] = create(nodes[n])
      BY <3>1, <3>2, Zenon DEF Held, Latest
    <3>5. \A n \in E : nodes'[n] = nodes[n]
      BY <1>2, <3>2 DEF With
    <3>6. IF E = {} THEN i <= Len(builtin) /\ profiles'[i] = builtin[i]
          ELSE \E n \in E : (\A m \in E : m <= n) /\ profiles'[i] = create(nodes'[n])
      BY <3>1, <3>4, <3>5, Zenon
    <3> QED
      BY <3>3, <3>6, Zenon DEF Latest, With
  <2> QED
    BY <2>1, <2>2
<1>11. ASSUME NEW i \in 1 .. Len(builtin)
       PROVE  i <= Len(profiles') /\ profiles'[i].id = builtin[i].id
  <2>1. i \in Nat /\ i >= 1 /\ i <= Len(profiles) /\ profiles[i].id = builtin[i].id
    BY DEF Held
  <2>2. i \in 1 .. Len(profiles) /\ i \in 1 .. Len(profiles')
    BY <1>5, <1>6, <2>1
  <2> QED
    BY <1>5, <2>1, <2>2
<1>12. ASSUME NEW n \in 1 .. Len(nodes') PROVE \E i \in 1 .. Len(profiles') : profiles'[i].id = nodes'[n].id
  <2>1. CASE nodes'[n].id = def.id
    BY <1>1, <1>5, <2>1
  <2>2. CASE nodes'[n].id # def.id
    <3>1. n \in 1 .. Len(nodes) /\ nodes'[n] = nodes[n]
      BY <1>2, <2>2
    <3>2. PICK i \in 1 .. Len(profiles) : profiles[i].id = nodes[n].id
      BY <3>1 DEF Held, found
    <3>3. i \in 1 .. Len(profiles') /\ i # k
      BY <1>1, <1>5, <1>6, <2>2, <3>1, <3>2
    <3> QED
      BY <1>5, <3>1, <3>2, <3>3
  <2> QED
    BY <2>1, <2>2
<1>13. Held'
  <2>1. \A n \in 1 .. Len(nodes') : found(nodes[n].id)' # {}
    BY <1>12 DEF found
  <2> QED
    BY <1>10, <1>11, <2>1 DEF Held
<1> QED
  BY <1>4, <1>7, <1>13

(* Every step of the registry keeps LastWins, whatever the node.               *)
LEMMA LastWinsStep ==
    ASSUME LastWins, [RegistryNext]_registryVars PROVE LastWins'
<1>1. RegistryTypeOK /\ Unique /\ (status # "failed" => Held)
  BY LastWinsParts
<1>2. ASSUME NEW def \in Definitions, Node(def)
      PROVE  RegistryTypeOK' /\ Unique' /\ (status' # "failed" => Held')
  <2>1. status = "loading" /\ nodes' = Append(nodes, def)
    BY <1>2 DEF Node
  <2>2. nodes' \in Seq(Definitions)
    BY <1>1, <2>1 DEF RegistryTypeOK
  <2>3. CASE Consistent(def)
    <3>1. profiles' = add_or_replace(create(def)) /\ status' = status
      BY <1>2, <2>3 DEF Node
    <3>2. profiles' \in Seq(Profiles) /\ Unique' /\ Held'
      BY <1>1, <2>1, <2>3, <3>1, NodeAccepted
    <3> QED
      BY <1>1, <2>2, <3>1, <3>2 DEF RegistryTypeOK
  <2>4. CASE ~Consistent(def)
    <3>1. status' = "failed" /\ profiles' = profiles
      BY <1>2, <2>4 DEF Node
    <3> QED
      BY <1>1, <2>2, <3>1 DEF RegistryTypeOK, Unique
  <2> QED
    BY <2>3, <2>4
<1>3. ASSUME BadNode \/ EndOfFile \/ UNCHANGED registryVars
      PROVE  RegistryTypeOK' /\ Unique' /\ (status' # "failed" => Held')
  <2>1. /\ UNCHANGED <<profiles, nodes>> /\ status' \in {"loading", "loaded", "failed"}
        /\ status' # "failed" => status # "failed"
    BY <1>1, <1>3 DEF BadNode, EndOfFile, registryVars, RegistryTypeOK
  <2>2. Unique' = Unique /\ Held' = Held
    BY <2>1 DEF Unique, Held, Latest, With, found
  <2> QED
    BY <1>1, <2>1, <2>2 DEF RegistryTypeOK
<1>4. RegistryTypeOK' /\ Unique' /\ (status' # "failed" => Held')
  BY <1>2, <1>3 DEF RegistryNext
<1> QED
  BY <1>4, Zenon DEF LastWins, RegistryTypeOK, Unique, Held, Latest, With

(* The built-in profiles satisfy it.                                           *)
LEMMA LastWinsInit == RegistryInit => LastWins
<1> SUFFICES ASSUME RegistryInit PROVE RegistryTypeOK /\ Unique /\ Held
  BY LastWinsParts
<1>1. profiles = builtin /\ status = "loading" /\ nodes = <<>>
  BY DEF RegistryInit
<1>2. Len(builtin) = 7 /\ builtin = [i \in 1 .. 7 |-> builtin[i]]
  BY DEF builtin
<1>3. builtin \in Seq(Profiles)
  <2>1. \A i \in 1 .. 7 : builtin[i] \in Profiles
    BY <1>2, BuiltinAssumption
  <2> QED
    BY <1>2, <2>1
<1>4. RegistryTypeOK
  BY <1>1, <1>3 DEF RegistryTypeOK
<1>5. Unique
  <2>1. /\ builtin[1].id = "classical-x25519" /\ builtin[2].id = "classical-p256"
        /\ builtin[3].id = "hybrid-x25519-mlkem768" /\ builtin[4].id = "hybrid-p256-mlkem768"
        /\ builtin[5].id = "hybrid-p384-mlkem1024" /\ builtin[6].id = "pure-mlkem768"
        /\ builtin[7].id = "hybrid-pq-auth"
    BY DEF builtin, Profile
  <2> QED
    BY <1>1, <1>2, <2>1 DEF Unique
<1>6. Held
  <2>1. Len(nodes) = 0
    BY <1>1
  <2>2. \A id : With(id) = {}
    BY <2>1 DEF With
  <2> QED
    BY <1>1, <1>2, <2>1, <2>2 DEF Held, Latest
<1> QED
  BY <1>4, <1>5, <1>6

-----------------------------------------------------------------------------
(* The capabilities.                                                          *)

(* What detect() found does not change, nor do the profiles it looked at.      *)
Detected ==
    host # NoHost => host \in Hosts /\ status = "loaded" /\ caps = detect(host)

(* Every step keeps LastWins and Detected.                                     *)
LEMMA DetectedStep ==
    ASSUME LastWins, Detected, [CapabilitiesNext]_<<registryVars, host, caps>>
    PROVE  LastWins' /\ Detected'
<1>1. CASE RegistryNext /\ UNCHANGED <<host, caps>>
  <2>1. status = "loading"
    BY <1>1 DEF RegistryNext, Node, BadNode, EndOfFile
  <2> QED
    BY <1>1, <2>1, LastWinsStep DEF Detected
<1>2. ASSUME NEW h \in Hosts, Detect(h) PROVE LastWins' /\ Detected'
  <2>1. UNCHANGED registryVars /\ host' = h /\ caps' = detect(h) /\ status = "loaded"
    BY <1>2 DEF Detect
  <2>2. profiles' = profiles /\ status' = status
    BY <2>1 DEF registryVars
  <2>3. detect(host)' = detect(h)
    BY <2>1, <2>2 DEF detect
  <2> QED
    BY <2>1, <2>2, <2>3, LastWinsStep DEF Detected
<1>3. CASE DetectThrows
  <2>1. host = NoHost /\ UNCHANGED <<profiles, nodes, host, caps>> /\ status' = "failed"
    BY <1>3 DEF DetectThrows
  <2>2. RegistryTypeOK' /\ Unique'
    BY <2>1, LastWinsParts DEF RegistryTypeOK, Unique
  <2>3. LastWins'
    BY <2>1, <2>2 DEF LastWins, RegistryTypeOK, Unique
  <2> QED
    BY <2>1, <2>3 DEF Detected
<1>4. CASE UNCHANGED <<registryVars, host, caps>>
  <2>1. profiles' = profiles /\ status' = status
    BY <1>4 DEF registryVars
  <2>2. detect(host)' = detect(host)
    BY <1>4, <2>1 DEF detect
  <2> QED
    BY <1>4, <2>1, <2>2, LastWinsStep DEF Detected
<1> QED
  BY <1>1, <1>2, <1>3, <1>4 DEF CapabilitiesNext

(* LastWins and Detected hold in every reachable state.                        *)
LEMMA CapabilitiesInvariance == CapabilitiesSpec => [](LastWins /\ Detected)
<1>1. CapabilitiesInit => LastWins /\ Detected
  BY LastWinsInit DEF CapabilitiesInit, Detected
<1>2. LastWins /\ Detected /\ [CapabilitiesNext]_<<registryVars, host, caps>>
        => (LastWins /\ Detected)'
  BY DetectedStep
<1> QED
  BY <1>1, <1>2, PTL DEF CapabilitiesSpec

(* The registry has the last definition of each name, for any file.            *)
THEOREM LastAlwaysWins == CapabilitiesSpec => []LastWins
  BY CapabilitiesInvariance, PTL

(* Whether a group is post-quantum does not depend on its spelling.            *)
LEMMA SpellingIrrelevant ==
    ASSUME NEW g \in Name, NEW as \in Spellings
    PROVE  LET h == [g EXCEPT !.as = as] IN
           h.key = g.key /\ (is_post_quantum_group(h) <=> is_post_quantum_group(g))
  BY DEF Name, is_post_quantum_group, is_hybrid_group

(* The lists of a profile.                                                     *)
LEMMA ProfileLists ==
    ASSUME NEW p \in Profiles
    PROVE  /\ Consistent(p) /\ p.cipher_suites \in Seq(Name) /\ p.cipher_suites # <<>>
           /\ \A i \in 1 .. Len(p.groups) : p.groups[i] \in Name
           /\ \A i \in 1 .. Len(p.cipher_suites) : p.cipher_suites[i] \in Name
<1>1. /\ p.groups \in Seq(Name) /\ p.cipher_suites \in Seq(Name)
      /\ Consistent(p) /\ p.cipher_suites # <<>>
  BY DEF Profiles, Definition
<1>2. /\ \A i \in 1 .. Len(p.groups) : p.groups[i] \in Name
      /\ \A i \in 1 .. Len(p.cipher_suites) : p.cipher_suites[i] \in Name
  BY <1>1
<1> QED
  BY <1>1, <1>2

(* A profile permits what it offers.                                           *)
LEMMA PermitsOffered ==
    ASSUME NEW p \in Profiles, NEW j \in 1 .. Len(p.groups), NEW as \in Spellings,
           NEW g, g = [p.groups[j] EXCEPT !.as = as], g.key # ""
    PROVE  permits_negotiated_group(p, g)
<1>1. Consistent(p)
  BY ProfileLists, Zenon
<1>2. p.groups[j] \in Name
  BY ProfileLists, Zenon
<1>3. g.key = p.groups[j].key /\ (is_post_quantum_group(g) <=> is_post_quantum_group(p.groups[j]))
  BY <1>2, SpellingIrrelevant, Zenon
<1>4. contains(p.groups, g)
  BY <1>3, Zenon DEF contains, iequals
<1>5. ~is_post_quantum_group(g) => has_classical(p.groups)
  BY <1>3, Zenon DEF has_classical
<1>6. ~(has_pq(p.groups) /\ has_classical(p.groups) /\ ~p.allow_classical_fallback)
  BY <1>1, Zenon DEF Consistent
<1> QED
  BY <1>4, <1>5, <1>6, Zenon DEF permits_negotiated_group, offers_post_quantum_key_establishment

(* One name given to OpenSSL as a list.                                        *)
LEMMA OneName ==
    ASSUME NEW h \in Host, NEW k
    PROVE  /\ set1_groups_list(h, <<Listed(k)>>) <=> k \in h.groups
           /\ set_ciphersuites(h, <<Listed(k)>>) <=> k \in h.suites
<1>1. /\ Len(<<Listed(k)>>) = 1 /\ <<Listed(k)>>[1] = Listed(k)
      /\ Listed(k).key = k /\ Listed(k).as = "listed"
  BY DEF Listed
<1>2. 1 .. 1 = {1}
  OBVIOUS
<1>3. set1_groups_list(h, <<Listed(k)>>) <=> k \in h.groups
  BY <1>1, <1>2 DEF set1_groups_list
<1> DEFINE known == {i \in 1 .. 1 : k \in h.suites}
<1>4. set_ciphersuites(h, <<Listed(k)>>) <=> IF h.skips_suites THEN known # {} ELSE known = 1 .. 1
  BY <1>1, <1>2 DEF set_ciphersuites
<1>5. known = IF k \in h.suites THEN {1} ELSE {}
  BY <1>2
<1> QED
  BY <1>2, <1>3, <1>4, <1>5

(* The names that pass the probes.                                             *)
LEMMA Probed ==
    ASSUME NEW h \in Host
    PROVE  /\ \A g \in Name : has_group(probed(h), g) <=> g.key \in kCandidateGroups \cap h.groups
           /\ \A s \in Name : has_cipher_suite(probed(h), s) <=>
                 s.key \in kCandidateCipherSuites \cap h.suites /\ s.as = "listed"
           /\ probed(h).tls13_available = h.tls13 /\ probed(h).mldsa_available = h.mldsa
<1>1. /\ probed(h).tls_groups = kCandidateGroups \cap h.groups
      /\ probed(h).cipher_suites = kCandidateCipherSuites \cap h.suites
  BY OneName DEF probed
<1>2. probed(h).tls13_available = h.tls13 /\ probed(h).mldsa_available = h.mldsa
  BY DEF probed
<1> QED
  BY <1>1, <1>2 DEF has_group, has_cipher_suite

(* What detect() says of a profile in the registry, spelled out.               *)
LEMMA UsableMeans ==
    ASSUME NEW h \in Host, NEW p \in Profiles
    PROVE  /\ availability(probed(h), p).profile_id = p.id
           /\ availability(probed(h), p).usable <=>
                 /\ h.tls13
                 /\ \A i \in 1 .. Len(p.groups) : p.groups[i].key \in kCandidateGroups \cap h.groups
                 /\ \A i \in 1 .. Len(p.cipher_suites) :
                       p.cipher_suites[i].key \in kCandidateCipherSuites \cap h.suites
                 /\ p.authentication = "ml-dsa-65" => h.mldsa
           /\ \A i \in 1 .. Len(p.cipher_suites) : p.cipher_suites[i].as = "listed"
<1>1. Consistent(p) /\ p.cipher_suites # <<>>
  BY ProfileLists
<1>2. /\ \A i \in 1 .. Len(p.groups) : p.groups[i] \in Name
      /\ \A i \in 1 .. Len(p.cipher_suites) : p.cipher_suites[i] \in Name
  BY ProfileLists
<1>3. suites_of(p) = p.cipher_suites
  BY <1>1 DEF suites_of
<1>4. \A i \in 1 .. Len(p.cipher_suites) : p.cipher_suites[i].as = "listed"
  <2>1. \A i \in 1 .. Len(suites_of(p)) : starts_with_TLS(suites_of(p)[i])
    BY <1>1, Zenon DEF Consistent
  <2> QED
    BY <1>3, <2>1 DEF starts_with_TLS
<1> DEFINE c == probed(h)
<1>5. /\ availability(c, p).profile_id = p.id
      /\ availability(c, p).usable <=>
            /\ c.tls13_available
            /\ \A i \in 1 .. Len(p.groups) : has_group(c, p.groups[i])
            /\ \A i \in 1 .. Len(p.cipher_suites) : has_cipher_suite(c, p.cipher_suites[i])
            /\ p.authentication = "ml-dsa-65" => c.mldsa_available
  BY DEF availability
<1>6. /\ \A i \in 1 .. Len(p.groups) :
            has_group(c, p.groups[i]) <=> p.groups[i].key \in kCandidateGroups \cap h.groups
      /\ \A i \in 1 .. Len(p.cipher_suites) :
            has_cipher_suite(c, p.cipher_suites[i]) <=>
               p.cipher_suites[i].key \in kCandidateCipherSuites \cap h.suites
      /\ c.tls13_available = h.tls13 /\ c.mldsa_available = h.mldsa
  BY <1>2, <1>4, Probed
<1> HIDE DEF c
<1>7. availability(c, p).usable <=>
         /\ h.tls13
         /\ \A i \in 1 .. Len(p.groups) : p.groups[i].key \in kCandidateGroups \cap h.groups
         /\ \A i \in 1 .. Len(p.cipher_suites) :
               p.cipher_suites[i].key \in kCandidateCipherSuites \cap h.suites
         /\ p.authentication = "ml-dsa-65" => h.mldsa
  BY <1>5, <1>6
<1> QED
  BY <1>4, <1>5, <1>7 DEF c

(* When OpenSSL accepts the lists of a profile.                                *)
LEMMA AppliedMeans ==
    ASSUME NEW h \in Host, NEW p
    PROVE  apply_common_policy(h, p) = "applied" <=>
              h.tls13 /\ set1_groups_list(h, p.groups) /\ set_ciphersuites(h, p.cipher_suites)
<1>1. CASE ~h.tls13
  BY <1>1 DEF apply_common_policy
<1>2. CASE h.tls13 /\ ~set1_groups_list(h, p.groups)
  BY <1>2 DEF apply_common_policy
<1>3. CASE h.tls13 /\ set1_groups_list(h, p.groups) /\ ~set_ciphersuites(h, p.cipher_suites)
  BY <1>3 DEF apply_common_policy
<1>4. CASE h.tls13 /\ set1_groups_list(h, p.groups) /\ set_ciphersuites(h, p.cipher_suites)
  BY <1>4 DEF apply_common_policy
<1> QED
  BY <1>1, <1>2, <1>3, <1>4

(* Usable profiles can be applied, and the others cannot or were not asked     *)
(* for.                                                                        *)
LEMMA UsableApplies ==
    ASSUME NEW h \in Host, NEW p \in Profiles
    PROVE  /\ availability(probed(h), p).usable =>
                 \/ apply_common_policy(h, p) = "applied"
                 \/ ~h.ignores_case /\ \E j \in 1 .. Len(p.groups) : p.groups[j].as = "other"
           /\ ~availability(probed(h), p).usable =>
                 \/ apply_common_policy(h, p) # "applied"
                 \/ \E j \in 1 .. Len(p.groups) : p.groups[j].key \notin kCandidateGroups
                 \/ \E j \in 1 .. Len(p.cipher_suites) :
                       p.cipher_suites[j].key \notin h.suites \cap kCandidateCipherSuites
                 \/ p.authentication = "ml-dsa-65" /\ ~h.mldsa
<1>1. p.cipher_suites \in Seq(Name) /\ p.cipher_suites # <<>>
  BY ProfileLists
<1>2. \A i \in 1 .. Len(p.groups) : p.groups[i].as \in {"listed", "other"}
  BY ProfileLists DEF Name, Spellings
<1> DEFINE usableHere == availability(probed(h), p).usable
<1>3. usableHere <=>
         /\ h.tls13
         /\ \A i \in 1 .. Len(p.groups) : p.groups[i].key \in kCandidateGroups \cap h.groups
         /\ \A i \in 1 .. Len(p.cipher_suites) :
               p.cipher_suites[i].key \in kCandidateCipherSuites \cap h.suites
         /\ p.authentication = "ml-dsa-65" => h.mldsa
  BY UsableMeans
<1>4. \A i \in 1 .. Len(p.cipher_suites) : p.cipher_suites[i].as = "listed"
  BY UsableMeans
<1> HIDE DEF usableHere
<1>5. ASSUME usableHere, h.ignores_case \/ \A j \in 1 .. Len(p.groups) : p.groups[j].as # "other"
      PROVE  apply_common_policy(h, p) = "applied"
  <2>1. set1_groups_list(h, p.groups)
    BY <1>2, <1>3, <1>5 DEF set1_groups_list
  <2> DEFINE known == {i \in 1 .. Len(p.cipher_suites) :
                          p.cipher_suites[i].key \in h.suites /\ p.cipher_suites[i].as = "listed"}
  <2>2. known = 1 .. Len(p.cipher_suites)
    BY <1>3, <1>4, <1>5
  <2>3. 1 \in 1 .. Len(p.cipher_suites)
    BY <1>1
  <2>4. set_ciphersuites(h, p.cipher_suites) <=>
          IF h.skips_suites THEN known # {} ELSE known = 1 .. Len(p.cipher_suites)
    BY DEF set_ciphersuites
  <2> HIDE DEF known
  <2>5. set_ciphersuites(h, p.cipher_suites)
    BY <2>2, <2>3, <2>4
  <2> QED
    BY <1>3, <1>5, <2>1, <2>5, AppliedMeans
<1>6. ASSUME ~usableHere, apply_common_policy(h, p) = "applied",
             \A j \in 1 .. Len(p.groups) : p.groups[j].key \in kCandidateGroups,
             \A j \in 1 .. Len(p.cipher_suites) :
                p.cipher_suites[j].key \in h.suites \cap kCandidateCipherSuites,
             ~(p.authentication = "ml-dsa-65" /\ ~h.mldsa)
      PROVE  FALSE
  <2>1. h.tls13 /\ set1_groups_list(h, p.groups)
    BY <1>6, AppliedMeans
  <2>2. \A i \in 1 .. Len(p.groups) : p.groups[i].key \in h.groups
    BY <2>1 DEF set1_groups_list
  <2> QED
    BY <1>3, <1>6, <2>1, <2>2
<1> QED
  BY <1>5, <1>6 DEF usableHere

(* What is reported usable can be used, for any file of profiles and any       *)
(* OpenSSL.                                                                    *)
THEOREM UsableAlwaysApplicable == CapabilitiesSpec => []UsableIsApplicable
<1>1. LastWins /\ Detected => UsableIsApplicable
  <2> SUFFICES ASSUME LastWins, Detected PROVE UsableIsApplicable
    OBVIOUS
  <2>1. profiles \in Seq(Profiles) /\ Unique
    BY LastWinsParts DEF RegistryTypeOK
  <2>2. \A i \in 1 .. Len(profiles) : profiles[i] \in Profiles
    BY <2>1
  <2>3. OfferedIsPermitted
    BY <2>2, PermitsOffered, Zenon DEF OfferedIsPermitted
  <2>4. ASSUME host # NoHost, NEW i \in 1 .. Len(profiles)
        PROVE  LET p == profiles[i] IN
            /\ profile_entries(p.id) = {i}
            /\ caps.profiles[i].usable =>
                  \/ apply_common_policy(host, p) = "applied"
                  \/ ~host.ignores_case /\ \E j \in 1 .. Len(p.groups) : p.groups[j].as = "other"
            /\ ~caps.profiles[i].usable =>
                  \/ apply_common_policy(host, p) # "applied"
                  \/ \E j \in 1 .. Len(p.groups) : p.groups[j].key \notin kCandidateGroups
                  \/ \E j \in 1 .. Len(p.cipher_suites) :
                        p.cipher_suites[j].key \notin host.suites \cap kCandidateCipherSuites
                  \/ p.authentication = "ml-dsa-65" /\ ~host.mldsa
    <3>1. host \in Host /\ caps = detect(host)
      BY <2>4, HostsAssumption DEF Detected
    <3>2. caps.profiles = [j \in 1 .. Len(profiles) |-> availability(probed(host), profiles[j])]
      BY <3>1 DEF detect, probed
    <3>3. Len(profiles) \in Nat
      BY <2>1
    <3>4. Len(caps.profiles) = Len(profiles)
      BY <3>2, <3>3
    <3>5. \A j \in 1 .. Len(profiles) : caps.profiles[j] = availability(probed(host), profiles[j])
      BY <3>2
    <3>6. \A j \in 1 .. Len(profiles) : caps.profiles[j].profile_id = profiles[j].id
      BY <2>2, <3>1, <3>5, UsableMeans
    <3>7. profile_entries(profiles[i].id) = {i}
      BY <2>1, <3>4, <3>6 DEF profile_entries, Unique
    <3> QED
      BY <2>2, <3>1, <3>5, <3>7, UsableApplies
  <2> QED
    BY <2>3, <2>4, Zenon DEF UsableIsApplicable
<1> QED
  BY <1>1, CapabilitiesInvariance, PTL

-----------------------------------------------------------------------------
(* A command, from its arguments on.  What parse() makes of the tokens and     *)
(* what a layer of settings contains is left open here.                        *)

(* A profile the registry has is one this host can provide.                    *)
Provided == config.profile \in DOMAIN Catalogue => usable(Catalogue[config.profile])

(* What each stage can rely on, and what has been opened by then.              *)
Prepared ==
    /\ stage \in {"start", "build", "validate", "registry", "capabilities", "writer"} => opened = {}
    /\ stage \in {"build", "validate"} => command # "capabilities"
    /\ stage \in {"registry", "capabilities"} => command = "capabilities" \/ Valid(config)
    /\ stage \in {"writer", "context", "run"} =>
          /\ Valid(config)
          /\ command = "serve" => Provided
    /\ stage = "run" => PolicyApplies(config) /\ Verifiable(config)
    /\ opened # {} => Valid(config)
    /\ "keylog" \in opened => ~production /\ PolicyApplies(config)
    /\ stage \in {"context", "run"} => "listener" \notin opened
    /\ "listener" \in opened =>
          command = "serve" /\ Provided /\ PolicyApplies(config) /\ Verifiable(config)

(* What only a change of the configuration can change.                         *)
LEMMA SameConfiguration ==
    ASSUME UNCHANGED <<args, production, mldsa, config>>
    PROVE  /\ command' = command
           /\ Valid(config)' <=> Valid(config)
           /\ Provided' <=> Provided
           /\ PolicyApplies(config)' <=> PolicyApplies(config)
           /\ Verifiable(config)' <=> Verifiable(config)
<1>1. command' = command
  BY DEF command
<1>2. enforce_insecure_mode_policy(config)' <=> enforce_insecure_mode_policy(config)
  BY DEF enforce_insecure_mode_policy
<1>3. Valid(config)' <=> Valid(config)
  BY <1>1, <1>2, Zenon DEF Valid
<1>4. Provided' <=> Provided
  BY DEF Provided, usable
<1>5. PolicyApplies(config)' <=> PolicyApplies(config)
  BY <1>2 DEF PolicyApplies
<1>6. Verifiable(config)' <=> Verifiable(config)
  BY <1>1 DEF Verifiable
<1> QED
  BY <1>1, <1>3, <1>4, <1>5, <1>6

(* A command that ends, and has opened nothing more, leaves all as it was.     *)
LEMMA EndKept ==
    ASSUME Prepared, NEW c, Exit(c), UNCHANGED <<args, production, mldsa, config, opened>>
    PROVE  Prepared'
  BY SameConfiguration DEF Prepared, Exit

(* Every step keeps what the stages rely on.                                   *)
LEMMA PreparedStep == ASSUME Prepared, [Next]_vars PROVE Prepared'
<1>1. CASE Usage \/ Parse
  <2>1. stage = "start" /\ UNCHANGED opened
    BY <1>1, Zenon DEF Usage, Parse
  <2>2. opened' = {}
    BY <2>1 DEF Prepared
  <2>3. \/ stage' \in {"done"}
        \/ stage' = "registry" /\ command' = "capabilities"
        \/ stage' = "build" /\ command' # "capabilities"
    BY <1>1, Zenon DEF Usage, Parse, Exit, Goto, command
  <2> QED
    BY <2>2, <2>3 DEF Prepared
<1>2. CASE build_config
  <2>1. /\ stage = "build" /\ stage' = "validate" /\ opened' = opened /\ command' = command
    BY <1>2 DEF build_config, Goto, inputs, command
  <2> QED
    BY <2>1 DEF Prepared
<1>3. CASE build_config_throws
  <2>1. UNCHANGED <<args, production, mldsa, config, opened>> /\ \E c : Exit(c)
    BY <1>3 DEF build_config_throws, inputs
  <2> QED
    BY <2>1, EndKept
<1>4. CASE validate
  <2>1. UNCHANGED <<args, production, mldsa, config, opened>> /\ stage = "validate"
    BY <1>4 DEF validate, inputs
  <2>2. CASE Valid(config)
    <3>1. stage' = "registry"
      BY <1>4, <2>2 DEF validate, Goto
    <3> QED
      BY <2>1, <2>2, <3>1, SameConfiguration DEF Prepared
  <2>3. CASE ~Valid(config)
    <3>1. Exit("configuration")
      BY <1>4, <2>3 DEF validate
    <3> QED
      BY <2>1, <3>1, EndKept
  <2> QED
    BY <2>2, <2>3
<1>5. CASE load_registry
  <2>1. UNCHANGED <<args, production, mldsa, config, opened>> /\ stage = "registry"
    BY <1>5 DEF load_registry, inputs
  <2>2. CASE \E c : Exit(c)
    BY <2>1, <2>2, EndKept
  <2>3. CASE stage' = "capabilities"
    BY <2>1, <2>3, SameConfiguration DEF Prepared
  <2>4. CASE stage' = "writer" /\ command \in {"connect", "benchmark"}
    BY <2>1, <2>4, SameConfiguration DEF Prepared
  <2> QED
    BY <1>5, <2>2, <2>3, <2>4 DEF load_registry, Goto
<1>6. CASE capabilities
  <2>1. UNCHANGED <<args, production, mldsa, config, opened>> /\ stage = "capabilities"
    BY <1>6 DEF capabilities, inputs
  <2>2. CASE \E c : Exit(c)
    BY <2>1, <2>2, EndKept
  <2>3. CASE stage' = "writer" /\ command = "serve" /\ Provided
    BY <2>1, <2>3, SameConfiguration DEF Prepared
  <2> QED
    BY <1>6, <2>2, <2>3 DEF capabilities, Goto, Provided
<1>7. CASE open_metrics
  <2>1. UNCHANGED <<args, production, mldsa, config>> /\ stage = "writer"
    BY <1>7 DEF open_metrics, inputs
  <2>2. CASE Exit("configuration") /\ UNCHANGED opened
    BY <2>1, <2>2, EndKept
  <2>3. CASE stage' = "context" /\ opened' \in {opened, opened \cup {"metrics"}}
    BY <2>1, <2>3, SameConfiguration DEF Prepared
  <2> QED
    BY <1>7, <2>2, <2>3 DEF open_metrics, Goto
<1>8. CASE create_context
  <2>1. UNCHANGED <<args, production, mldsa, config>> /\ stage = "context"
    BY <1>8 DEF create_context, inputs
  <2>2. CASE (\E c : Exit(c)) /\ UNCHANGED opened
    BY <2>1, <2>2, EndKept
  <2>3. CASE /\ PolicyApplies(config)
             /\ opened' = IF config.keylog THEN opened \cup {"keylog"} ELSE opened
             /\ (\E c : Exit(c)) \/ (stage' = "run" /\ Verifiable(config))
    <3>1. "keylog" \in opened' => ~production /\ PolicyApplies(config)
      BY <2>3 DEF Prepared, PolicyApplies, enforce_insecure_mode_policy
    <3>2. stage' \in {"done", "run"} /\ (stage' = "run" => Verifiable(config))
      BY <2>3 DEF Exit
    <3>3. "listener" \notin opened'
      BY <2>1, <2>3 DEF Prepared
    <3>4. Valid(config) /\ (command = "serve" => Provided)
      BY <2>1 DEF Prepared
    <3> QED
      BY <2>1, <2>3, <3>1, <3>2, <3>3, <3>4, SameConfiguration DEF Prepared
  <2> QED
    BY <1>8, <2>2, <2>3 DEF create_context, Goto
<1>9. CASE run
  <2>1. UNCHANGED <<args, production, mldsa, config>> /\ stage = "run"
    BY <1>9 DEF run, inputs
  <2>2. CASE (\E c : Exit(c)) /\ UNCHANGED opened
    BY <2>1, <2>2, EndKept
  <2>3. CASE command = "serve" /\ (\E c : Exit(c)) /\ opened' = opened \cup {"listener"}
    <3>1. stage' = "done"
      BY <2>3 DEF Exit
    <3>2. Valid(config) /\ Provided /\ PolicyApplies(config) /\ Verifiable(config)
      BY <2>1, <2>3 DEF Prepared
    <3>3. "keylog" \in opened' => ~production /\ PolicyApplies(config)
      BY <2>3 DEF Prepared
    <3> QED
      BY <2>1, <2>3, <3>1, <3>2, <3>3, SameConfiguration DEF Prepared
  <2> QED
    BY <1>9, <2>2, <2>3 DEF run
<1>10. CASE UNCHANGED vars
  <2>1. UNCHANGED <<args, production, mldsa, config, stage, opened>>
    BY <1>10 DEF vars
  <2> QED
    BY <2>1, SameConfiguration DEF Prepared
<1> QED
  BY <1>1, <1>2, <1>3, <1>4, <1>5, <1>6, <1>7, <1>8, <1>9, <1>10 DEF Next

(* What a command that was refused has left open.                              *)
Refusals ==
    /\ stage # "done" => exit = Running
    /\ command = "serve" /\ exit = 3 => opened = {}
    /\ exit \in {2, 3} /\ opened # {} =>
          \/ command = "connect" /\ last = "run"
          \/ /\ last = "context" /\ "listener" \notin opened
             /\ ~PolicyApplies(config) \/ config.keylog \/ ~Verifiable(config)

(* The categories behind the exit codes of a refusal, and some others.         *)
LEMMA ExitCodes ==
    /\ exit_code_for("configuration") = 2 /\ exit_code_for("capability") = 3
    /\ exit_code_for("internal") = 70 /\ exit_code_for("certificate") = 4
    /\ exit_code_for("handshake") = 6 /\ exit_code_for("network") = 7 /\ exit_code_for("none") = 0
  BY DEF exit_code_for

(* Every step keeps it: before the context nothing is open, and after it only  *)
(* connect has an exit code of a refusal.                                      *)
LEMMA RefusalsStep == ASSUME Prepared, Refusals, [Next]_vars PROVE Refusals'
<1>1. CASE opened' = {} /\ (stage' # "done" => exit' = Running)
  BY <1>1 DEF Refusals
<1>2. CASE stage' # "done" /\ exit' = Running
  BY <1>2 DEF Refusals, Running
<1>3. ASSUME stage \in {"start", "build", "validate", "registry", "capabilities"}, UNCHANGED opened,
             (\E c : Exit(c)) \/ (\E n : Goto(n))
      PROVE  Refusals'
  <2>1. opened' = {} /\ (stage' # "done" => exit' = Running)
    BY <1>3 DEF Prepared, Refusals, Exit, Goto
  <2> QED
    BY <1>1, <2>1
<1>4. CASE Usage \/ Parse
  BY <1>3, <1>4, Zenon DEF Usage, Parse
<1>5. CASE build_config \/ build_config_throws
  BY <1>3, <1>5 DEF build_config, build_config_throws
<1>6. CASE validate \/ load_registry
  BY <1>3, <1>6 DEF validate, load_registry
<1>7. CASE capabilities
  BY <1>3, <1>7 DEF capabilities
<1>8. CASE open_metrics
  <2>1. CASE Exit("configuration") /\ UNCHANGED opened
    <3>1. opened' = {} /\ stage' = "done"
      BY <1>8, <2>1 DEF open_metrics, Exit, Prepared
    <3> QED
      BY <1>1, <3>1
  <2>2. CASE Goto("context")
    BY <1>2, <1>8, <2>2 DEF open_metrics, Goto, Refusals
  <2> QED
    BY <1>8, <2>1, <2>2 DEF open_metrics
<1>9. CASE create_context
  <2>1. UNCHANGED <<args, production, mldsa, config>> /\ stage = "context"
    BY <1>9 DEF create_context, inputs
  <2>2. "listener" \notin opened' /\ (command = "serve" => Provided)
    BY <1>9, <2>1 DEF create_context, Prepared
  <2>3. CASE stage' = "run"
    BY <1>2, <1>9, <2>1, <2>3 DEF create_context, Exit, Goto, Refusals
  <2>4. CASE \E c \in {"internal", "certificate", "handshake"} : Exit(c)
    <3>1. stage' = "done" /\ exit' \in {70, 4, 6}
      BY <2>4, ExitCodes DEF Exit
    <3> QED
      BY <3>1 DEF Refusals
  <2>5. CASE Exit("configuration") /\ (~PolicyApplies(config) \/ config.keylog \/ ~Verifiable(config))
    <3>1. stage' = "done" /\ exit' = 2 /\ last' = "context"
      BY <2>1, <2>5, ExitCodes DEF Exit
    <3> QED
      BY <2>1, <2>2, <2>5, <3>1, SameConfiguration DEF Refusals
  <2>6. CASE Exit("capability") /\ ~PolicyApplies(config) /\ PolicyError(config) = "capability"
    <3>1. stage' = "done" /\ exit' = 3 /\ last' = "context"
      BY <2>1, <2>6, ExitCodes DEF Exit
    <3>2. command # "serve"
      BY <2>2, <2>6 DEF PolicyError, PolicyApplies, Provided, usable
    <3> QED
      BY <2>1, <2>2, <2>6, <3>1, <3>2, SameConfiguration DEF Refusals
  <2> QED
    BY <1>9, <2>3, <2>4, <2>5, <2>6 DEF create_context, Goto, PolicyError
<1>10. CASE run
  <2>1. UNCHANGED <<args, production, mldsa, config>> /\ stage = "run"
    BY <1>10 DEF run, inputs
  <2>2. CASE command = "connect" /\ \E c : Exit(c)
    <3>1. stage' = "done" /\ last' = "run"
      BY <2>1, <2>2 DEF Exit
    <3> QED
      BY <2>1, <2>2, <3>1, SameConfiguration DEF Refusals
  <2>3. CASE \E c \in {"network", "none", "internal", "handshake"} : Exit(c)
    <3>1. stage' = "done" /\ exit' \in {7, 0, 70, 6}
      BY <2>3, ExitCodes DEF Exit
    <3> QED
      BY <3>1 DEF Refusals
  <2> QED
    BY <1>10, <2>2, <2>3 DEF run
<1>11. CASE UNCHANGED vars
  <2>1. UNCHANGED <<args, production, mldsa, config, stage, opened, exit, last>>
    BY <1>11 DEF vars
  <2> QED
    BY <2>1, SameConfiguration DEF Refusals, Running
<1> QED
  BY <1>4, <1>5, <1>6, <1>7, <1>8, <1>9, <1>10, <1>11 DEF Next

(* For any command line, configuration file, host and catalogue of profiles:   *)
(* nothing is opened with a configuration that validate() refuses; a server    *)
(* listens only with a profile it can provide, and one it cannot leaves        *)
(* nothing open; a start that is refused with a metrics file or a key log open *)
(* was refused by the TLS context; and production never runs with development  *)
(* options.                                                                    *)
THEOREM OpensAlwaysUsable == Spec => []OpensOnlyUsable
<1>1. Init => Prepared /\ Refusals
  BY DEF Init, Prepared, Refusals, Running
<1>2. Prepared /\ Refusals /\ [Next]_vars => (Prepared /\ Refusals)'
  BY PreparedStep, RefusalsStep
<1>3. Prepared /\ Refusals => OpensOnlyUsable
  <2> SUFFICES ASSUME Prepared, Refusals PROVE OpensOnlyUsable
    OBVIOUS
  <2>1. production => /\ stage = "run" => ~config.insecure /\ ~config.keylog
                      /\ "keylog" \notin opened
    BY Zenon DEF Prepared, Valid, enforce_insecure_mode_policy
  <2>2. /\ opened # {} => Valid(config)
        /\ "keylog" \in opened => PolicyApplies(config)
    BY DEF Prepared
  <2>3. ASSUME "listener" \in opened
        PROVE  /\ config.profile \in DOMAIN Catalogue
               /\ usable(Catalogue[config.profile])
               /\ config.certificate /\ config.private_key
               /\ config.mtls \/ Catalogue[config.profile].mtls => config.ca
    <3>1. Valid(config) /\ command = "serve" /\ Provided /\ PolicyApplies(config) /\ Verifiable(config)
      BY <2>3 DEF Prepared
    <3>2. config.profile \in DOMAIN Catalogue
      BY <3>1 DEF PolicyApplies
    <3>3. usable(Catalogue[config.profile])
      BY <3>1, <3>2 DEF Provided
    <3>4. config.certificate /\ config.private_key
      BY <3>1, Zenon DEF Valid, Server
    <3>5. config.mtls \/ Catalogue[config.profile].mtls => config.ca
      BY <3>1 DEF Verifiable
    <3> QED
      BY <3>2, <3>3, <3>4, <3>5
  <2> QED
    BY <2>1, <2>2, <2>3 DEF OpensOnlyUsable, Refusals
<1> QED
  BY <1>1, <1>2, <1>3, PTL DEF Spec

-----------------------------------------------------------------------------
(* What parse() makes of a command line of any length, by induction on its     *)
(* tokens.                                                                     *)

(* Induction over the natural numbers, for a set of them.                      *)
LEMMA NatSetInduction ==
    ASSUME NEW T \in SUBSET Nat, 0 \in T, \A n \in T : n + 1 \in T
    PROVE  T = Nat
<1> DEFINE R == OpToRel(<, Nat)
           U == Nat \ T
<1> SUFFICES ASSUME U # {} PROVE FALSE
  BY Zenon
<1>1. IsWellFoundedOn(R, Nat)
  BY NatLessThanWellFounded, Zenon
<1>2. \A x, y \in Nat : x < y => <<x, y>> \in R
  BY DEF OpToRel
<1>3. U \subseteq Nat
  OBVIOUS
<1> HIDE DEF R, U
<1>4. PICK n \in U : \A y \in U : ~(<<y, n>> \in R)
  BY <1>1, <1>3, WFMin, Zenon
<1>5. n \in Nat /\ n \notin T
  BY <1>4 DEF U
<1>6. n # 0 /\ n - 1 \in Nat /\ n - 1 < n
  BY <1>5
<1>7. n - 1 \in T
  BY <1>2, <1>4, <1>5, <1>6, Zenon DEF U
<1>8. (n - 1) + 1 \in T
  BY <1>7, Zenon
<1> QED
  BY <1>5, <1>6, <1>8

(* What one turn of parse() makes of the arguments.                            *)
After(flags, argv, f, n) ==
    CASE n = 0                          -> NoArguments
      [] n = 1 /\ argv[1].kind = "word" -> [NoArguments EXCEPT !.command = argv[1].name]
      [] OTHER                          -> Turn(flags, f[n - 1], argv[n])

(* After depends on the turn before only.                                      *)
LEMMA AfterLocal ==
    ASSUME NEW flags, NEW argv, NEW f, NEW g, NEW n, n # 0 => f[n - 1] = g[n - 1]
    PROVE  After(flags, argv, f, n) = After(flags, argv, g, n)
  BY DEF After

(* Turns is defined: it satisfies the equation that defines it.                *)
LEMMA TurnsEquation ==
    ASSUME NEW flags, NEW argv, Len(argv) \in Nat
    PROVE  Turns(flags, argv) = [n \in 0 .. Len(argv) |-> After(flags, argv, Turns(flags, argv), n)]
<1> DEFINE Solves(f, m) == f = [n \in 0 .. m |-> After(flags, argv, f, n)]
           T == {m \in Nat : \E f : Solves(f, m)}
<1>1. 0 \in T
  <2> DEFINE f == [n \in {0} |-> NoArguments]
  <2>1. 0 .. 0 = {0}
    OBVIOUS
  <2>2. After(flags, argv, f, 0) = NoArguments
    BY DEF After
  <2>3. Solves(f, 0)
    BY <2>1, <2>2
  <2> QED
    BY <2>3
<1>2. ASSUME NEW m \in T PROVE m + 1 \in T
  <2>1. m \in Nat /\ m + 1 \in Nat
    OBVIOUS
  <2>2. PICK f : Solves(f, m)
    OBVIOUS
  <2> DEFINE g == [n \in 0 .. m + 1 |-> IF n = m + 1 THEN After(flags, argv, f, n) ELSE f[n]]
  <2>3. ASSUME NEW n \in 0 .. m + 1 PROVE g[n] = After(flags, argv, g, n)
    <3>1. n # 0 => n - 1 \in 0 .. m + 1 /\ n - 1 # m + 1
      BY <2>1
    <3>2. n # 0 => g[n - 1] = f[n - 1]
      BY <3>1
    <3>3. After(flags, argv, g, n) = After(flags, argv, f, n)
      BY <3>2, AfterLocal
    <3>4. CASE n = m + 1
      BY <3>3, <3>4
    <3>5. CASE n # m + 1
      <4>1. n \in 0 .. m
        BY <2>1, <3>5
      <4>2. f[n] = After(flags, argv, f, n)
        BY <2>2, <4>1, Zenon
      <4> QED
        BY <3>3, <3>5, <4>2
    <3> QED
      BY <3>4, <3>5
  <2>4. Solves(g, m + 1)
    <3> DEFINE h == [n \in 0 .. m + 1 |-> After(flags, argv, g, n)]
    <3>1. \A n \in 0 .. m + 1 : g[n] = h[n]
      BY <2>3
    <3>2. g = [n \in 0 .. m + 1 |-> g[n]] /\ h = [n \in 0 .. m + 1 |-> h[n]]
      OBVIOUS
    <3> HIDE DEF g, h
    <3>3. g = h
      BY <3>1, <3>2
    <3> QED
      BY <3>3 DEF h
  <2> HIDE DEF g
  <2> QED
    BY <2>1, <2>4
<1> HIDE DEF T
<1>3. T = Nat
  <2>1. T \in SUBSET Nat
    BY DEF T
  <2> QED
    BY <1>1, <1>2, <2>1, NatSetInduction
<1>4. \E f : Solves(f, Len(argv))
  BY <1>3 DEF T
<1>5. Turns(flags, argv) = CHOOSE f : Solves(f, Len(argv))
  BY DEF Turns, After
<1> QED
  BY <1>4, <1>5

(* Whether token i is a value, given whether the one before is.                *)
ValueAfter(f, i) ==
    /\ i > 1 /\ line.argv[i - 1].kind = "option"
    /\ line.argv[i - 1].name \notin kFlags(line.program) /\ ~f[i - 1]

(* IsValue satisfies the equation that defines it.                             *)
LEMMA IsValueEquation ==
    ASSUME Len(line.argv) \in Nat, DOMAIN line.argv = 1 .. Len(line.argv)
    PROVE  IsValue = [i \in 1 .. Len(line.argv) |-> ValueAfter(IsValue, i)]
<1> DEFINE Solves(f, m) == f = [i \in 1 .. m |-> ValueAfter(f, i)]
           T == {m \in Nat : \E f : Solves(f, m)}
<1>1. 0 \in T
  <2> DEFINE f == [i \in 1 .. 0 |-> FALSE]
  <2>1. 1 .. 0 = {}
    OBVIOUS
  <2>2. Solves(f, 0)
    BY <2>1
  <2> QED
    BY <2>2, Zenon
<1>2. ASSUME NEW m \in T PROVE m + 1 \in T
  <2>1. m \in Nat /\ m + 1 \in Nat
    OBVIOUS
  <2>2. PICK f : Solves(f, m)
    OBVIOUS
  <2> DEFINE g == [i \in 1 .. m + 1 |-> IF i = m + 1 THEN ValueAfter(f, i) ELSE f[i]]
  <2>3. ASSUME NEW i \in 1 .. m + 1 PROVE g[i] = ValueAfter(g, i)
    <3>1. i > 1 => i - 1 \in 1 .. m + 1 /\ i - 1 # m + 1
      BY <2>1
    <3>2. i > 1 => g[i - 1] = f[i - 1]
      BY <3>1
    <3>3. ValueAfter(g, i) = ValueAfter(f, i)
      BY <3>2, Zenon DEF ValueAfter
    <3>4. CASE i = m + 1
      BY <3>3, <3>4
    <3>5. CASE i # m + 1
      <4>1. i \in 1 .. m
        BY <2>1, <3>5
      <4>2. f[i] = ValueAfter(f, i)
        BY <2>2, <4>1, Zenon
      <4> QED
        BY <3>3, <3>5, <4>2
    <3> QED
      BY <3>4, <3>5
  <2>4. Solves(g, m + 1)
    <3> DEFINE h == [i \in 1 .. m + 1 |-> ValueAfter(g, i)]
    <3>1. \A i \in 1 .. m + 1 : g[i] = h[i]
      BY <2>3
    <3>2. g = [i \in 1 .. m + 1 |-> g[i]] /\ h = [i \in 1 .. m + 1 |-> h[i]]
      OBVIOUS
    <3> HIDE DEF g, h
    <3>3. g = h
      BY <3>1, <3>2
    <3> QED
      BY <3>3 DEF h
  <2> HIDE DEF g
  <2> QED
    BY <2>1, <2>4
<1> HIDE DEF T
<1>3. T = Nat
  <2>1. T \in SUBSET Nat
    BY DEF T
  <2> QED
    BY <1>1, <1>2, <2>1, NatSetInduction
<1>4. \E f : Solves(f, Len(line.argv))
  BY <1>3 DEF T
<1>5. IsValue = CHOOSE f : Solves(f, Len(line.argv))
  BY DEF IsValue, ValueAfter
<1> QED
  BY <1>4, <1>5, Zenon

(* Token i is an option that waits for the next token.                         *)
Waits(i) ==
    IsOption(i) /\ line.argv[i].kind = "option" /\ line.argv[i].name \notin kFlags(line.program)

(* The options among the first n tokens that have what they need.              *)
Complete(n) == {i \in 1 .. n : IsOption(i) /\ ~(i = n /\ Waits(n))}

(* The options are those of the tokens in C, each as its last mention has it.  *)
Records(options, C) ==
    /\ DOMAIN options = {line.argv[i].name : i \in C}
    /\ \A name \in DOMAIN options :
          \E i \in C : /\ line.argv[i].name = name
                       /\ \A j \in C : line.argv[j].name = name => j <= i
                       /\ options[name] = Mentioned(i)

(* What parse() has made of the first n tokens.                                *)
Parsed(a, n) ==
    /\ DOMAIN a = {"command", "options", "positional", "pending"}
    /\ a.pending = IF n > 0 /\ Waits(n) THEN <<line.argv[n].name>> ELSE <<>>
    /\ Records(a.options, Complete(n))

(* An option that is mentioned after all others counts.                        *)
LEMMA RecordsMore ==
    ASSUME NEW C \in SUBSET Nat, NEW options, Records(options, C),
           NEW m \in Nat, \A j \in C : j < m, NEW more,
           DOMAIN more = DOMAIN options \cup {line.argv[m].name},
           more[line.argv[m].name] = Mentioned(m),
           \A name \in DOMAIN options \ {line.argv[m].name} : more[name] = options[name]
    PROVE  Records(more, C \cup {m})
<1> DEFINE D == C \cup {m}
<1>1. DOMAIN more = {line.argv[i].name : i \in D}
  BY DEF Records
<1>2. ASSUME NEW name \in DOMAIN more
      PROVE  \E i \in D : /\ line.argv[i].name = name
                          /\ \A j \in D : line.argv[j].name = name => j <= i
                          /\ more[name] = Mentioned(i)
  <2>1. CASE name = line.argv[m].name
    <3>1. more[name] = Mentioned(m) /\ m \in D
      BY <2>1
    <3>2. \A j \in Nat : j < m => j <= m
      OBVIOUS
    <3>3. ASSUME NEW j \in D PROVE j <= m
      <4>1. CASE j = m
        BY <4>1
      <4>2. CASE j \in C
        BY <3>2, <4>2
      <4> QED
        BY <4>1, <4>2
    <3> QED
      BY <2>1, <3>1, <3>3
  <2>2. CASE name # line.argv[m].name
    <3>1. name \in DOMAIN options /\ more[name] = options[name]
      BY <2>2
    <3>2. PICK i \in C : /\ line.argv[i].name = name
                         /\ \A j \in C : line.argv[j].name = name => j <= i
                         /\ options[name] = Mentioned(i)
      BY <3>1, Zenon DEF Records
    <3> QED
      BY <2>2, <3>1, <3>2
  <2> QED
    BY <2>1, <2>2, Zenon
<1> HIDE DEF D
<1>3. Records(more, D)
  BY <1>1, <1>2 DEF Records
<1> QED
  BY <1>3 DEF D

(* One turn of the loop.                                                       *)
LEMMA TurnParses ==
    ASSUME line.argv \in Seq(Token), NEW n \in 1 .. Len(line.argv),
           NEW a, Parsed(a, n - 1)
    PROVE  Parsed(Turn(kFlags(line.program), a, line.argv[n]), n)
<1> DEFINE t == line.argv[n]
           flags == kFlags(line.program)
           b == Turn(flags, a, t)
<1>1. Len(line.argv) \in Nat /\ DOMAIN line.argv = 1 .. Len(line.argv) /\ n \in Nat /\ n >= 1
  OBVIOUS
<1>2. t \in Token
  OBVIOUS
<1>3. t.kind \in {"word", "option", "assigned"}
  BY <1>2 DEF Token
<1>4. IsValue[n] <=> n > 1 /\ Waits(n - 1)
  <2>1. IsValue[n] = ValueAfter(IsValue, n)
    BY <1>1, IsValueEquation
  <2> QED
    BY <2>1, <1>1 DEF ValueAfter, Waits, IsOption
<1>5. DOMAIN a = {"command", "options", "positional", "pending"}
  BY DEF Parsed
<1>6. Complete(n - 1) \in SUBSET Nat
  BY <1>1 DEF Complete
<1>7. Records(a.options, Complete(n - 1))
  BY DEF Parsed
<1> SUFFICES Parsed(b, n)
  OBVIOUS
<1> HIDE DEF t, b
<1>8. CASE n > 1 /\ Waits(n - 1)
  <2>1. a.pending = <<line.argv[n - 1].name>>
    BY <1>1, <1>8 DEF Parsed
  <2>2. b = Put(a, line.argv[n - 1].name, Text(t))
    BY <2>1 DEF Turn, b
  <2>3. ~IsOption(n) /\ ~Waits(n)
    BY <1>4, <1>8 DEF IsOption, Waits
  <2>4. Complete(n) = Complete(n - 1) \cup {n - 1}
    BY <1>1, <1>8, <2>3 DEF Complete, Waits
  <2>5. Mentioned(n - 1) = Text(t)
    <3>1. line.argv[n - 1].kind = "option" /\ line.argv[n - 1].name \notin flags
      BY <1>8 DEF Waits
    <3>2. (n - 1) + 1 = n /\ n \in DOMAIN line.argv
      BY <1>1
    <3> QED
      BY <3>1, <3>2, Zenon DEF Mentioned, t
  <2>6. \A j \in Complete(n - 1) : j < n - 1
    BY <1>1, <1>8 DEF Complete
  <2>7. /\ DOMAIN b = {"command", "options", "positional", "pending"} /\ b.pending = <<>>
        /\ DOMAIN b.options = DOMAIN a.options \cup {line.argv[n - 1].name}
        /\ b.options[line.argv[n - 1].name] = Mentioned(n - 1)
        /\ \A o \in DOMAIN a.options \ {line.argv[n - 1].name} : b.options[o] = a.options[o]
    <3>1. /\ DOMAIN b = {"command", "options", "positional", "pending"} /\ b.pending = <<>>
          /\ DOMAIN b.options = DOMAIN a.options \cup {line.argv[n - 1].name}
          /\ b.options[line.argv[n - 1].name] = Text(t)
          /\ \A o \in DOMAIN a.options \ {line.argv[n - 1].name} : b.options[o] = a.options[o]
      BY <1>5, <2>2 DEF Put
    <3> QED
      BY <2>5, <3>1
  <2>8. n - 1 \in Nat
    BY <1>1
  <2>9. Records(b.options, Complete(n))
    <3>1. Records(b.options, Complete(n - 1) \cup {n - 1})
      BY <1>6, <1>7, <2>6, <2>7, <2>8, RecordsMore, Zenon
    <3> QED
      BY <2>4, <3>1
  <2> QED
    BY <2>3, <2>7, <2>9 DEF Parsed
<1>9. CASE ~(n > 1 /\ Waits(n - 1))
  <2>1. a.pending = <<>>
    BY <1>1, <1>9 DEF Parsed
  <2>2. IsOption(n) <=> t.kind # "word"
    BY <1>4, <1>9 DEF IsOption, t
  <2>3. Waits(n) <=> t.kind = "option" /\ t.name \notin flags
    BY <2>2 DEF Waits, t
  <2>4. Complete(n) = IF IsOption(n) /\ ~Waits(n) THEN Complete(n - 1) \cup {n} ELSE Complete(n - 1)
    BY <1>1, <1>9 DEF Complete
  <2>5. \A j \in Complete(n - 1) : j < n
    BY <1>1 DEF Complete
  <2>6. CASE t.kind = "word"
    <3>1. b = [a EXCEPT !.positional = Append(@, t.name)]
      BY <2>1, <2>6 DEF Turn, b
    <3> QED
      BY <1>5, <1>7, <2>1, <2>2, <2>3, <2>4, <2>6, <3>1 DEF Parsed
  <2>7. CASE t.kind = "assigned" \/ (t.kind = "option" /\ t.name \in flags)
    <3>1. b = Put(a, t.name, Mentioned(n))
      <4>1. CASE t.kind = "assigned"
        <5>1. Mentioned(n) = t.value
          BY <4>1 DEF Mentioned, t
        <5> QED
          BY <2>1, <4>1, <5>1 DEF Turn, b
      <4>2. CASE t.kind = "option" /\ t.name \in flags
        <5>1. Mentioned(n) = "true"
          BY <4>2 DEF Mentioned, t
        <5> QED
          BY <2>1, <4>2, <5>1 DEF Turn, b
      <4> QED
        BY <2>7, <4>1, <4>2
    <3>2. Complete(n) = Complete(n - 1) \cup {n}
      BY <2>2, <2>3, <2>4, <2>7
    <3>3. /\ DOMAIN b = {"command", "options", "positional", "pending"} /\ b.pending = <<>>
          /\ DOMAIN b.options = DOMAIN a.options \cup {line.argv[n].name}
          /\ b.options[line.argv[n].name] = Mentioned(n)
          /\ \A o \in DOMAIN a.options \ {line.argv[n].name} : b.options[o] = a.options[o]
      <4>1. b = Put(a, line.argv[n].name, Mentioned(n))
        BY <3>1 DEF t
      <4> QED
        BY <1>5, <4>1 DEF Put
    <3>4. Records(b.options, Complete(n))
      <4>1. Records(b.options, Complete(n - 1) \cup {n})
        BY <1>1, <1>6, <1>7, <2>5, <3>3, RecordsMore, Zenon
      <4> QED
        BY <3>2, <4>1
    <3> QED
      BY <2>3, <2>7, <3>3, <3>4 DEF Parsed
  <2>8. CASE t.kind = "option" /\ t.name \notin flags
    <3>1. b = [a EXCEPT !.pending = <<t.name>>]
      BY <2>1, <2>8 DEF Turn, b
    <3> QED
      BY <1>1, <1>5, <1>7, <2>3, <2>4, <2>8, <3>1 DEF Parsed, t
  <2> QED
    BY <1>3, <2>6, <2>7, <2>8
<1> QED
  BY <1>8, <1>9

(* parse() has each option as its last mention has it, however long the line.  *)
LEMMA ParseRecords ==
    ASSUME line.argv \in Seq(Token)
    PROVE  Parsed(parsed, Len(line.argv))
<1> DEFINE N == Len(line.argv)
           after == Turns(kFlags(line.program), line.argv)
           T == {n \in Nat : n <= N => Parsed(after[n], n)}
<1>1. N \in Nat
  OBVIOUS
<1>2. \A n \in 0 .. N : after[n] = After(kFlags(line.program), line.argv, after, n)
  BY <1>1, TurnsEquation
<1> HIDE DEF N, after
<1>3. 0 \in T
  <2>1. after[0] = NoArguments
    BY <1>1, <1>2 DEF After
  <2>2. Complete(0) = {}
    BY DEF Complete
  <2>3. Records(NoArguments.options, {})
    BY DEF Records, NoArguments
  <2>4. DOMAIN NoArguments = {"command", "options", "positional", "pending"} /\ NoArguments.pending = <<>>
    BY DEF NoArguments
  <2>5. Parsed(after[0], 0)
    <3>1. ~(0 > 0)
      OBVIOUS
    <3> QED
      BY <2>1, <2>2, <2>3, <2>4, <3>1, Zenon DEF Parsed
  <2> QED
    BY <2>5
<1>4. ASSUME NEW n \in T PROVE n + 1 \in T
  <2> SUFFICES ASSUME n + 1 <= N PROVE Parsed(after[n + 1], n + 1)
    OBVIOUS
  <2>1. n \in Nat /\ n + 1 \in 1 .. N /\ (n + 1) - 1 = n /\ Parsed(after[n], n)
    BY <1>1
  <2>2. CASE n = 0 /\ line.argv[1].kind = "word"
    <3>1. after[n + 1] = [NoArguments EXCEPT !.command = line.argv[1].name]
      BY <1>2, <2>1, <2>2 DEF After
    <3>2. Complete(1) = {} /\ ~Waits(1)
      BY <2>2 DEF Complete, IsOption, Waits
    <3>3. Records(NoArguments.options, {})
      BY DEF Records, NoArguments
    <3>4. /\ DOMAIN after[n + 1] = {"command", "options", "positional", "pending"}
          /\ after[n + 1].pending = <<>> /\ after[n + 1].options = NoArguments.options
      BY <3>1, Zenon DEF NoArguments
    <3>5. Parsed(after[n + 1], 1)
      BY <3>2, <3>3, <3>4, Zenon DEF Parsed
    <3> QED
      BY <2>2, <3>5
  <2>3. CASE ~(n = 0 /\ line.argv[1].kind = "word")
    <3>1. after[n + 1] = Turn(kFlags(line.program), after[n], line.argv[n + 1])
      BY <1>2, <2>1, <2>3 DEF After
    <3>2. Parsed(after[n], (n + 1) - 1)
      BY <2>1
    <3> QED
      BY <2>1, <3>1, <3>2, TurnParses, Zenon DEF N
  <2> QED
    BY <2>2, <2>3
<1> HIDE DEF T
<1>5. T = Nat
  <2>1. T \in SUBSET Nat
    BY DEF T
  <2> QED
    BY <1>3, <1>4, <2>1, NatSetInduction
<1>6. Parsed(after[N], N)
  BY <1>1, <1>5 DEF T
<1> QED
  BY <1>6 DEF N, after, parsed, parse

(* The last mention of an option, and what it says.                            *)
LastMention(name) == CHOOSE i \in Mentions(name) : \A j \in Mentions(name) : j <= i

(* When no option lacks its value, parse() has the options that are mentioned, *)
(* each as its last mention has it.                                            *)
LEMMA LastMentionCounts ==
    ASSUME line.argv \in Seq(Token), ~requires_a_value(parsed)
    PROVE  /\ \A i \in DOMAIN line.argv : IsOption(i) => has(parsed, line.argv[i].name)
           /\ \A name : /\ has(parsed, name) <=> Mentions(name) # {}
                        /\ has(parsed, name) => parsed.options[name] = Mentioned(LastMention(name))
<1> DEFINE N == Len(line.argv)
           C == Complete(N)
<1>1. N \in Nat /\ DOMAIN line.argv = 1 .. N
  OBVIOUS
<1>2. Parsed(parsed, N)
  BY ParseRecords
<1>3. parsed.pending = <<>>
  BY DEF requires_a_value
<1> HIDE DEF N
<1>4. ~(N > 0 /\ Waits(N))
  <2>1. <<line.argv[N].name>> # <<>>
    OBVIOUS
  <2> QED
    BY <1>2, <1>3, <2>1, Zenon DEF Parsed
<1>5. C = {i \in 1 .. N : IsOption(i)}
  BY <1>1, <1>4 DEF Complete
<1>6. Records(parsed.options, C)
  BY <1>2 DEF Parsed
<1> HIDE DEF C
<1>7. ASSUME NEW i \in DOMAIN line.argv, IsOption(i) PROVE has(parsed, line.argv[i].name)
  BY <1>1, <1>5, <1>6, <1>7 DEF Records, has
<1>8. ASSUME NEW name, has(parsed, name)
      PROVE  Mentions(name) # {} /\ parsed.options[name] = Mentioned(LastMention(name))
  <2>1. PICK i \in C : /\ line.argv[i].name = name
                       /\ \A j \in C : line.argv[j].name = name => j <= i
                       /\ parsed.options[name] = Mentioned(i)
    BY <1>6, <1>8 DEF Records, has
  <2>2. i \in Mentions(name) /\ \A j \in Mentions(name) : j <= i
    BY <1>1, <1>5, <2>1 DEF Mentions
  <2>3. Mentions(name) \subseteq Nat
    BY <1>1 DEF Mentions
  <2>4. LastMention(name) \in Mentions(name) /\ \A j \in Mentions(name) : j <= LastMention(name)
    BY <2>2 DEF LastMention
  <2>5. LastMention(name) = i
    BY <2>2, <2>3, <2>4
  <2> QED
    BY <2>1, <2>2, <2>5
<1>9. ASSUME NEW name, Mentions(name) # {} PROVE has(parsed, name)
  <2>1. PICK i \in Mentions(name) : TRUE
    BY <1>9
  <2> QED
    BY <1>7, <2>1 DEF Mentions
<1> QED
  BY <1>7, <1>8, <1>9, Zenon

(* Each setting is the one in force.                                           *)
Asked ==
    /\ \A s \in Settings \ {"metrics"} : config[s] = InForce(s)
    /\ config.metrics = (InForce("metrics") \/ InForce("output"))

(* build_config() gives each setting the value in force.                       *)
LEMMA BuiltAsAsked ==
    ASSUME line.argv \in Seq(Token), ~requires_a_value(parsed), NEW c,
           c = Override(Override(Defaults, file), layer(parsed))
    PROVE  DOMAIN c = Settings /\ \A s \in Settings : c[s] = InForce(s)
<1>1. DOMAIN Defaults = Settings
  BY Zenon DEF Defaults, Settings, OptionOf
<1>2. DOMAIN c = Settings
  BY <1>1 DEF Override
<1>3. ASSUME NEW s \in Settings PROVE c[s] = InForce(s)
  <2> DEFINE o == OptionOf[s]
  <2>1. s \in DOMAIN layer(parsed) <=> has(parsed, o)
    BY Zenon DEF layer, Applied
  <2>2. c[s] = IF has(parsed, o) THEN layer(parsed)[s]
               ELSE IF s \in DOMAIN file THEN file[s] ELSE Defaults[s]
    BY <1>1, <2>1, Zenon DEF Override
  <2>3. has(parsed, o) => layer(parsed)[s] = apply(s, parsed.options[o])
    BY Zenon DEF layer, Applied
  <2>4. InForce(s) = IF Mentions(o) # {} THEN apply(s, Mentioned(LastMention(o)))
                     ELSE IF s \in DOMAIN file THEN file[s] ELSE Defaults[s]
    BY Zenon DEF InForce, LastMention
  <2> HIDE DEF o
  <2> QED
    BY <2>2, <2>3, <2>4, LastMentionCounts, Zenon
<1> QED
  BY <1>2, <1>3

(* The end of a command that succeeded.                                        *)
Succeeded ==
    \/ last = "start"
    \/ command = "capabilities" /\ last = "capabilities"
    \/ command = "validate-config" /\ last = "capabilities" /\ usable(Catalogue[config.profile])
    \/ last = "run" /\ Valid(config)

(* What the arguments, and then the configuration, are at each stage.          *)
Configured ==
    /\ TypeOK
    /\ line \in CommandLines
    /\ stage \in {"start", "build"} => config = Defaults
    /\ stage \notin {"start", "done"} =>
          ~requires_a_value(args) /\ ~reject_unknown_options(args, kAcceptedOptions(line.program))
    /\ stage \in {"validate", "registry", "capabilities", "writer", "context", "run"} =>
          command = "capabilities" \/ Asked
    /\ stage \in {"build", "validate", "writer", "context", "run"} => command # "capabilities"
    /\ exit = 0 => Succeeded

(* What is asked for depends on the command line and the file only.            *)
LEMMA SameQuestion ==
    ASSUME UNCHANGED <<line, file>>
    PROVE  /\ parsed' = parsed
           /\ \A s : InForce(s)' = InForce(s)
           /\ kAcceptedOptions(line.program)' = kAcceptedOptions(line.program)
<1>1. line' = line /\ file' = file
  OBVIOUS
<1>2. IsValue' = IsValue
  BY <1>1 DEF IsValue
<1>3. \A i : (IsOption(i)' <=> IsOption(i)) /\ Mentioned(i)' = Mentioned(i)
  BY <1>1, <1>2 DEF IsOption, Mentioned
<1>4. \A name : Mentions(name)' = Mentions(name)
  BY <1>1, <1>3 DEF Mentions
<1>5. ASSUME NEW s PROVE InForce(s)' = InForce(s)
  <2>1. PICK at : at = Mentions(OptionOf[s])
    OBVIOUS
  <2>2. PICK i : i = CHOOSE k \in at : \A j \in at : j <= k
    OBVIOUS
  <2>3. InForce(s) = IF at # {} THEN apply(s, Mentioned(i))
                     ELSE IF s \in DOMAIN file THEN file[s] ELSE Defaults[s]
    BY <2>1, <2>2 DEF InForce
  <2>4. at = Mentions(OptionOf[s])'
    BY <1>4, <2>1
  <2>5. InForce(s)' = IF at # {} THEN apply(s, Mentioned(i)')
                      ELSE IF s \in DOMAIN file' THEN file'[s] ELSE Defaults[s]
    BY <2>2, <2>4 DEF InForce
  <2> QED
    BY <1>1, <1>3, <2>3, <2>5
<1>6. parsed' = parsed
  BY <1>1 DEF parsed
<1> QED
  BY <1>1, <1>5, <1>6

(* A step that changes neither the arguments nor the configuration, and ends   *)
(* the command in success only as RunsAsAsked has it.                          *)
LEMMA ConfiguredKept ==
    ASSUME Configured, stage \notin {"start", "done"}, UNCHANGED <<inputs, config>>,
           opened' \subseteq {"metrics", "keylog", "listener"}, last' = stage,
           \/ stage' = "done" /\ \E c \in Categories : exit' = exit_code_for(c)
           \/ /\ exit = Running /\ exit' = exit
              /\ stage' \in {"registry", "capabilities", "writer", "context", "run"}
              /\ stage' \in {"writer", "context", "run"} => command # "capabilities"
              /\ stage \in {"validate", "registry", "capabilities", "writer", "context", "run"},
           exit' = 0 => Succeeded'
    PROVE  Configured'
<1>1. /\ line' = line /\ args' = args /\ file' = file /\ production' = production
      /\ mldsa' = mldsa /\ config' = config
  BY DEF inputs
<1>2. parsed' = parsed /\ (Asked' <=> Asked) /\ command' = command
  BY <1>1, SameQuestion DEF Asked, command
<1>3. args = parsed
  BY DEF Configured, TypeOK
<1>4. stage' # "start"
  OBVIOUS
<1>5. \A c \in Categories : exit_code_for(c) # Running
  BY DEF Categories, exit_code_for, Running
<1>6. exit' \in {exit_code_for(c) : c \in Categories} \cup {Running} /\ (stage' = "done" <=> exit' # Running)
  BY <1>5
<1>7. TypeOK'
  BY <1>1, <1>2, <1>3, <1>4, <1>6, Zenon DEF Configured, TypeOK
<1> QED
  BY <1>1, <1>2, <1>4, <1>7 DEF Configured

(* Which exit codes are 0.                                                     *)
LEMMA OnlySuccessIsZero ==
    \A c \in Categories : exit_code_for(c) = 0 <=> c = "none"
  BY DEF Categories, exit_code_for

(* Every step keeps it.                                                        *)
LEMMA ConfiguredStep == ASSUME Configured, Prepared, [Next]_vars PROVE Configured'
<1> DEFINE Ends == stage' = "done" /\ \E c \in Categories : exit' = exit_code_for(c)
<1>1. \A c \in Categories : exit_code_for(c) # Running
  BY DEF Categories, exit_code_for, Running
<1>2. CASE Usage \/ Parse
  <2>1. /\ stage = "start" /\ args' = parsed /\ last' = "start"
        /\ UNCHANGED <<line, file, production, mldsa, config, opened>>
    BY <1>2, Zenon DEF Usage, Parse, Exit, Goto
  <2>2. parsed' = parsed /\ kAcceptedOptions(line.program)' = kAcceptedOptions(line.program)
    BY <2>1, SameQuestion
  <2>3. \/ Ends
        \/ /\ stage' = (IF args'.command = "capabilities" THEN "registry" ELSE "build") /\ exit' = exit
           /\ ~requires_a_value(parsed) /\ ~reject_unknown_options(parsed, kAcceptedOptions(line.program))
    BY <1>2, <2>1, Zenon DEF Usage, Parse, Exit, Goto, Refused, Categories
  <2>4. exit = Running
    BY <2>1 DEF Configured, TypeOK
  <2>5. exit' \in {exit_code_for(c) : c \in Categories} \cup {Running} /\ (stage' = "done" <=> exit' # Running)
    BY <1>1, <2>3, <2>4
  <2>6. stage' \in {"done", "registry", "build"}
    BY <2>3
  <2>7. TypeOK'
    BY <2>1, <2>2, <2>5, <2>6 DEF Configured, TypeOK
  <2>8. Succeeded'
    BY <2>1 DEF Succeeded
  <2> QED
    BY <2>1, <2>2, <2>3, <2>6, <2>7, <2>8 DEF Configured, command
<1>3. CASE build_config
  <2>1. /\ stage = "build" /\ stage' = "validate" /\ exit' = exit
        /\ UNCHANGED <<line, args, file, production, mldsa, opened>>
    BY <1>3 DEF build_config, Goto, inputs
  <2>2. parsed' = parsed /\ kAcceptedOptions(line.program)' = kAcceptedOptions(line.program) /\ command' = command
        /\ \A s : InForce(s)' = InForce(s)
    BY <2>1, SameQuestion DEF command
  <2>3. args = parsed /\ config = Defaults /\ ~requires_a_value(parsed) /\ exit = Running
        /\ line.argv \in Seq(Token)
    BY <2>1, StartupAssumption DEF Configured, TypeOK
  <2>4. PICK c : c = Override(Override(Defaults, file), layer(parsed))
    OBVIOUS
  <2>5. config' = [c EXCEPT !.metrics = @ \/ c.output]
    BY <1>3, <2>3, <2>4 DEF build_config
  <2>6. DOMAIN c = Settings /\ \A s \in Settings : c[s] = InForce(s)
    BY <2>3, <2>4, BuiltAsAsked
  <2>7. "metrics" \in Settings /\ "output" \in Settings
    BY DEF Settings, OptionOf
  <2>8. DOMAIN config' = Settings
    BY <2>5, <2>6
  <2>9. \A s \in Settings \ {"metrics"} : config'[s] = InForce(s)
    BY <2>5, <2>6
  <2>10. config'.metrics = (InForce("metrics") \/ InForce("output"))
    BY <2>5, <2>6, <2>7
  <2>11. Asked'
    BY <2>2, <2>9, <2>10 DEF Asked
  <2>12. TypeOK'
    BY <2>1, <2>2, <2>3, <2>8 DEF Configured, TypeOK
  <2> QED
    BY <2>1, <2>2, <2>3, <2>11, <2>12 DEF Configured, Running
<1>4. CASE build_config_throws
  <2>1. /\ stage = "build" /\ UNCHANGED <<inputs, config, opened>>
        /\ \E c \in {"configuration", "internal"} : Exit(c)
    BY <1>4 DEF build_config_throws
  <2>2. Ends /\ last' = stage /\ exit' # 0
    BY <2>1, OnlySuccessIsZero DEF Exit, Categories
  <2>3. opened' \subseteq {"metrics", "keylog", "listener"}
    BY <2>1 DEF Configured, TypeOK
  <2> QED
    BY <2>1, <2>2, <2>3, ConfiguredKept, Zenon
<1>5. CASE validate
  <2>1. /\ stage = "validate" /\ UNCHANGED <<inputs, config, opened>> /\ exit = Running
    BY <1>5 DEF validate, Configured, TypeOK
  <2>2. \/ Ends /\ last' = stage /\ exit' # 0
        \/ stage' = "registry" /\ last' = stage /\ exit' = exit
    BY <1>5, OnlySuccessIsZero DEF validate, Exit, Goto, Categories
  <2>3. opened' \subseteq {"metrics", "keylog", "listener"} /\ (exit' = 0 => Succeeded')
    BY <2>1, <2>2 DEF Configured, TypeOK, Running
  <2> QED
    BY <2>1, <2>2, <2>3, ConfiguredKept
<1>6. CASE load_registry
  <2>1. /\ stage = "registry" /\ UNCHANGED <<inputs, config, opened>> /\ exit = Running
    BY <1>6 DEF load_registry, Configured, TypeOK
  <2>2. \/ (\E c \in {"configuration", "internal", "protocol"} : Exit(c))
        \/ Goto("capabilities")
        \/ Goto("writer") /\ command # "capabilities"
    BY <1>6 DEF load_registry
  <2>3. \/ Ends /\ last' = stage /\ exit' # 0
        \/ /\ stage' \in {"capabilities", "writer"} /\ last' = stage /\ exit' = exit
           /\ stage' = "writer" => command # "capabilities"
    BY <2>2, OnlySuccessIsZero DEF Exit, Goto, Categories
  <2>4. opened' \subseteq {"metrics", "keylog", "listener"} /\ (exit' = 0 => Succeeded')
    BY <2>1, <2>3 DEF Configured, TypeOK, Running
  <2> QED
    BY <2>1, <2>3, <2>4, ConfiguredKept
<1>7. CASE capabilities
  <2>1. /\ stage = "capabilities" /\ UNCHANGED <<inputs, config, opened>> /\ exit = Running
    BY <1>7 DEF capabilities, Configured, TypeOK
  <2>2. \/ \E c \in {"internal", "capability"} : Exit(c)
        \/ Exit("none") /\ command = "capabilities"
        \/ Exit("none") /\ command = "validate-config" /\ usable(Catalogue[config.profile])
        \/ Goto("writer") /\ command # "capabilities"
    BY <1>7 DEF capabilities
  <2>3. command' = command /\ (usable(Catalogue[config.profile])' <=> usable(Catalogue[config.profile]))
    BY <2>1 DEF inputs, command, usable
  <2>4. \/ Ends /\ last' = stage /\ (exit' = 0 => Succeeded')
        \/ stage' = "writer" /\ last' = stage /\ exit' = exit /\ command # "capabilities"
    BY <2>1, <2>2, <2>3, OnlySuccessIsZero DEF Exit, Goto, Categories, Succeeded
  <2>5. opened' \subseteq {"metrics", "keylog", "listener"} /\ (exit' = 0 => Succeeded')
    BY <2>1, <2>4 DEF Configured, TypeOK, Running
  <2> QED
    BY <2>1, <2>4, <2>5, ConfiguredKept
<1>8. CASE open_metrics
  <2>1. /\ stage = "writer" /\ UNCHANGED <<inputs, config>> /\ exit = Running
        /\ opened \subseteq {"metrics", "keylog", "listener"}
    BY <1>8 DEF open_metrics, Configured, TypeOK
  <2>2. opened' \subseteq {"metrics", "keylog", "listener"}
    BY <1>8, <2>1, Zenon DEF open_metrics
  <2>3. \/ Ends /\ last' = stage /\ exit' # 0
        \/ stage' = "context" /\ last' = stage /\ exit' = exit
    BY <1>8, OnlySuccessIsZero DEF open_metrics, Exit, Goto, Categories
  <2>4. command # "capabilities"
    BY <2>1 DEF Configured
  <2> QED
    BY <2>1, <2>2, <2>3, <2>4, ConfiguredKept DEF Running
<1>9. CASE create_context
  <2>1. /\ stage = "context" /\ UNCHANGED <<inputs, config>> /\ exit = Running
        /\ opened \subseteq {"metrics", "keylog", "listener"}
    BY <1>9 DEF create_context, Configured, TypeOK
  <2>2. opened' \in {opened, opened \cup {"keylog"}}
    BY <1>9 DEF create_context
  <2>3. Goto("run") \/ \E c \in {"handshake", "internal", "capability", "configuration", "certificate"} : Exit(c)
    BY <1>9 DEF create_context, PolicyError
  <2>4. \/ Ends /\ last' = stage /\ exit' # 0
        \/ stage' = "run" /\ last' = stage /\ exit' = exit
    BY <2>3, OnlySuccessIsZero DEF Exit, Goto, Categories
  <2>5. command # "capabilities" /\ opened' \subseteq {"metrics", "keylog", "listener"}
    BY <2>1, <2>2 DEF Configured
  <2> QED
    BY <2>1, <2>4, <2>5, ConfiguredKept DEF Running
<1>10. CASE run
  <2>1. /\ stage = "run" /\ UNCHANGED <<inputs, config>>
        /\ opened \subseteq {"metrics", "keylog", "listener"}
    BY <1>10 DEF run, Configured, TypeOK
  <2>2. opened' \in {opened, opened \cup {"listener"}} /\ \E c \in Categories : Exit(c)
    BY <1>10 DEF run, Categories
  <2>3. Ends /\ last' = "run"
    BY <2>1, <2>2 DEF Exit
  <2>4. Valid(config)'
    BY <2>1, SameConfiguration DEF Prepared, inputs
  <2>5. Succeeded' /\ opened' \subseteq {"metrics", "keylog", "listener"}
    BY <2>1, <2>2, <2>3, <2>4 DEF Succeeded
  <2> QED
    BY <2>1, <2>3, <2>5, ConfiguredKept
<1>11. CASE UNCHANGED vars
  <2>1. UNCHANGED <<line, args, file, production, mldsa, config, stage, opened, exit, last>>
    BY <1>11 DEF vars
  <2>2. /\ parsed' = parsed /\ (\A s : InForce(s)' = InForce(s)) /\ command' = command
        /\ Valid(config)' <=> Valid(config)
    BY <2>1, SameQuestion, SameConfiguration
  <2>3. (Asked' <=> Asked) /\ (Succeeded' <=> Succeeded)
    BY <2>1, <2>2 DEF Asked, Succeeded, usable
  <2>4. TypeOK'
    BY <2>1, <2>2 DEF TypeOK, Configured
  <2> QED
    BY <2>1, <2>2, <2>3, <2>4 DEF Configured
<1> QED
  BY <1>2, <1>3, <1>4, <1>5, <1>6, <1>7, <1>8, <1>9, <1>10, <1>11 DEF Next

(* A command runs with what it was told and nothing else, and only what its    *)
(* documentation calls success ends with code 0: for any command line, however *)
(* long, any configuration file and any catalogue of profiles.                 *)
THEOREM RunsAlwaysAsAsked == Spec => []RunsAsAsked
<1>1. Init => Prepared
  BY DEF Init, Prepared
<1>2. Init => Configured
  <2> SUFFICES ASSUME Init PROVE Configured
    OBVIOUS
  <2>1. DOMAIN Defaults = Settings
    BY DEF Defaults, Settings, OptionOf
  <2>2. TypeOK
    BY <2>1, StartupAssumption DEF Init, TypeOK
  <2> QED
    BY <2>2 DEF Init, Configured, Running
<1>3. Prepared /\ [Next]_vars => Prepared'
  BY PreparedStep
<1>4. Configured /\ Prepared /\ [Next]_vars => Configured'
  BY ConfiguredStep
<1>5. Configured => RunsAsAsked
  <2> SUFFICES ASSUME Configured PROVE RunsAsAsked
    OBVIOUS
  <2>1. ASSUME stage \in {"writer", "context", "run"}
        PROVE  Asked /\ \A i \in DOMAIN line.argv : IsOption(i) => line.argv[i].name \in kAcceptedOptions(line.program)
    <3>1. args = parsed /\ line.argv \in Seq(Token) /\ Asked /\ ~requires_a_value(parsed)
          /\ ~reject_unknown_options(parsed, kAcceptedOptions(line.program))
      BY <2>1, StartupAssumption DEF Configured, TypeOK
    <3>2. \A i \in DOMAIN line.argv : IsOption(i) => has(parsed, line.argv[i].name)
      BY <3>1, LastMentionCounts, Zenon
    <3> QED
      BY <3>1, <3>2 DEF reject_unknown_options, has
  <2>2. exit = 0 => Succeeded
    BY DEF Configured
  <2>3. TypeOK
    BY DEF Configured
  <2> QED
    BY <2>1, <2>2, <2>3, Zenon DEF RunsAsAsked, Asked, Succeeded
<1> QED
  BY <1>1, <1>2, <1>3, <1>4, <1>5, PTL DEF Spec
=============================================================================
