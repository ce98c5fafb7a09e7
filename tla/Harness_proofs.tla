--------------------------- MODULE Harness_proofs ---------------------------
(***************************************************************************)
(* Theorems about Harness, for any matrix, any number of invocations and    *)
(* any interleaving of the harness with the servers it left behind.         *)
(***************************************************************************)
EXTENDS Harness, TLAPS

Records == [id : Ids, run : 1 .. MaxRuns, cell : DOMAIN Matrix, by : Servers]
Clients == [id : Ids, run : 1 .. MaxRuns, cell : DOMAIN Matrix,
            claimed : 0 .. Warmups + Connections, good : BOOLEAN]

(* TypeOK, and the types of the records, the clients and the manifests as a *)
(* whole.                                                                   *)
Types ==
  /\ TypeOK
  /\ records \subseteq Records /\ clients \subseteq Clients
  /\ DOMAIN manifest = Ids
  /\ pc \notin {"idle", "crashed"} => run \in 1 .. MaxRuns

---------------------------------------------------------------------------
(* A server that lives is that of the cell in flight, or was left by an     *)
(* invocation that crashed; a client likewise, and an invocation has one.   *)
ServerInv ==
  /\ pc = "crashed" => run \in crashed
  /\ pc \notin {"idle", "crashed"} => run \notin crashed
  /\ \A s \in procs : s[1] \in crashed \/ (s = Own /\ pc \in {"probe", "client", "exit", "wait"})
  /\ \A c \in clients :
       c.run \in crashed \/ (c.run = run /\ c.id = id /\ c.cell = runnable[cell] /\ pc = "client")
  /\ \A c, d \in clients : c.run = d.run => c = d
  /\ StaleOnlyAfterCrash

---------------------------------------------------------------------------
Before == {"first", "spawn", "probe", "client", "exit", "wait", "return"}

(* The cells that this invocation may still measure.                        *)
ToMeasure ==
  CASE pc = "gate"     -> DOMAIN Matrix
    [] pc \in Before   -> {runnable[k] : k \in cell .. Len(runnable)}
    [] pc = "write"    -> {runnable[k] : k \in cell + 1 .. Len(runnable)}
    [] OTHER           -> {}

Listed(list) == {list[o].cell : o \in DOMAIN list}

(* The runnable cells are in the order of the matrix; they and those listed *)
(* already are together those the gate has seen, each once.                 *)
PlanInv ==
  /\ Len(runnable) <= Len(Matrix)
  /\ \A j, k \in DOMAIN runnable : j < k => runnable[j] < runnable[k]
  /\ pc = "gate" =>
       /\ \A k \in DOMAIN runnable : runnable[k] < cell
       /\ Listed(outcomes) \cup {runnable[k] : k \in DOMAIN runnable} = 1 .. cell - 1
       /\ Len(outcomes) + Len(runnable) = cell - 1
  /\ pc \in Before =>
       /\ Listed(outcomes) \cup ToMeasure = DOMAIN Matrix
       /\ Len(outcomes) + Len(runnable) = Len(Matrix) + cell - 1
  /\ pc = "write" =>
       /\ Listed(outcomes) \cup ToMeasure = DOMAIN Matrix
       /\ Len(outcomes) + Len(runnable) = Len(Matrix) + cell
  /\ (pc = "idle" /\ runnable # <<>>) =>
       /\ manifest[id].run = run /\ Len(manifest[id].runs) = Len(Matrix)
       /\ Listed(manifest[id].runs) = DOMAIN Matrix

---------------------------------------------------------------------------
(* The connection of that cell that succeeded is on disk, or was lost.      *)
Shown(i, r, c) ==
  <<r, c>> \in lost \/ \E by \in Servers : [id |-> i, run |-> r, cell |-> c, by |-> by] \in records

Completes(list, c) == \E o \in DOMAIN list : list[o].cell = c /\ list[o].status = "completed"

(* A client that has measured something has a record to show for it, as has *)
(* one that ended well, and so does what the list and the manifests call    *)
(* completed.                                                               *)
ShownInv ==
  /\ \A c \in clients : c.good => Shown(c.id, c.run, c.cell)
  /\ (pc \in {"exit", "wait", "return"} /\ code = 0) => Shown(id, run, runnable[cell])
  /\ pc \notin {"idle", "crashed"} =>
       \A c \in DOMAIN Matrix : Completes(outcomes, c) => Shown(id, run, c)
  /\ \A i \in Ids, c \in DOMAIN Matrix :
       Completes(manifest[i].runs, c) => Shown(i, manifest[i].run, c)

(* A manifest is the work of the invocation it names: none before the gate  *)
(* is passed, then torn while it is rewritten, and otherwise the list.      *)
FileInv ==
  /\ pc = "gate" => \A i \in Ids : manifest[i].run # run
  /\ pc = "first" => cell = 1
  /\ \A i \in Ids : ~manifest[i].whole =>
       \/ i = id /\ manifest[i].run = run /\ pc \in {"first", "write"}
       \/ manifest[i].run \in crashed
  /\ (manifest[id].run = run /\ run > 0 /\ manifest[id].whole) =>
       manifest[id].runs = outcomes \/ (manifest[id].runs = <<>> /\ cell = 1)

IInv == Types /\ ServerInv /\ PlanInv /\ ShownInv /\ FileInv

(* Initially no invocation has started.                                     *)
LEMMA InitInv == Init => IInv
<1> SUFFICES ASSUME Init PROVE IInv
  OBVIOUS
<1>1. Types
  <2>1. \A i \in Ids : /\ manifest[i].run \in 0 .. run
                       /\ manifest[i].whole \in BOOLEAN /\ manifest[i].runs \in Seq(Outcomes)
    <3>1. run = 0 /\ \A i \in Ids : manifest[i] = [run |-> 0, whole |-> TRUE, runs |-> <<>>]
      BY DEF Init
    <3>2. \A i \in Ids : manifest[i].run = 0 /\ manifest[i].whole = TRUE /\ manifest[i].runs = <<>>
      BY <3>1
    <3>3. 0 \in 0 .. run /\ <<>> \in Seq(Outcomes)
      BY <3>1
    <3> QED
      BY <3>2, <3>3, Zenon
  <2>2. DOMAIN manifest = Ids
    BY DEF Init
  <2> QED
    BY <2>1, <2>2, HarnessAssumption DEF Init, Types, TypeOK, Stages, Measuring
<1>2. ServerInv
  BY DEF Init, ServerInv, StaleOnlyAfterCrash
<1>3. PlanInv
  BY HarnessAssumption DEF Init, PlanInv, Before
<1>4. ShownInv
  BY DEF Init, ShownInv, Completes
<1>5. FileInv
  <2>1. \A i \in Ids : manifest[i].runs = <<>> /\ manifest[i].run = 0 /\ manifest[i].whole
    BY DEF Init
  <2>2. run = 0 /\ outcomes = <<>> /\ cell = 1 /\ pc = "idle" /\ id \in Ids
    BY DEF Init
  <2> QED
    BY <2>1, <2>2 DEF FileInv
<1> QED
  BY <1>1, <1>2, <1>3, <1>4, <1>5 DEF IInv

---------------------------------------------------------------------------
(* The steps that write a manifest, and what each leaves in it.             *)
LEMMA ManifestIs ==
  ASSUME Types, [Next]_vars
  PROVE  /\ DOMAIN manifest' = Ids
         /\ \/ manifest' = manifest /\ ~OpenManifest /\ ~Return /\ ~WriteMetadata /\ ~WriteManifest
            \/ /\ OpenManifest \/ Return
               /\ \A i \in Ids \ {id} : manifest'[i] = manifest[i]
               /\ manifest'[id].run = run /\ manifest'[id].whole = FALSE /\ manifest'[id].runs = <<>>
            \/ /\ WriteMetadata
               /\ \A i \in Ids \ {id} : manifest'[i] = manifest[i]
               /\ manifest'[id].run = run /\ manifest'[id].whole = TRUE /\ manifest'[id].runs = <<>>
            \/ /\ WriteManifest
               /\ \A i \in Ids \ {id} : manifest'[i] = manifest[i]
               /\ manifest'[id].run = run /\ manifest'[id].whole = TRUE /\ manifest'[id].runs = outcomes
<1>0. DOMAIN manifest = Ids /\ id \in Ids
  BY Zenon DEF Types, TypeOK
<1>1. CASE OpenManifest \/ Return
  <2>1. manifest' = [manifest EXCEPT ![id] = [run |-> run, whole |-> FALSE, runs |-> <<>>]]
    BY <1>1, Zenon DEF OpenManifest, Return
  <2>2. /\ DOMAIN manifest' = Ids
        /\ \A i \in Ids \ {id} : manifest'[i] = manifest[i]
        /\ manifest'[id].run = run /\ manifest'[id].whole = FALSE /\ manifest'[id].runs = <<>>
    BY <1>0, <2>1
  <2> QED
    BY <1>1, <2>2, Zenon
<1>2. CASE WriteMetadata
  <2>1. manifest' = [manifest EXCEPT ![id] = [run |-> run, whole |-> TRUE, runs |-> <<>>]]
    BY <1>2, Zenon DEF WriteMetadata
  <2>2. /\ DOMAIN manifest' = Ids
        /\ \A i \in Ids \ {id} : manifest'[i] = manifest[i]
        /\ manifest'[id].run = run /\ manifest'[id].whole = TRUE /\ manifest'[id].runs = <<>>
    BY <1>0, <2>1
  <2> QED
    BY <1>2, <2>2, Zenon
<1>3. CASE WriteManifest
  <2>1. manifest' = [manifest EXCEPT ![id] = [run |-> run, whole |-> TRUE, runs |-> outcomes]]
    BY <1>3, Zenon DEF WriteManifest
  <2>2. /\ DOMAIN manifest' = Ids
        /\ \A i \in Ids \ {id} : manifest'[i] = manifest[i]
        /\ manifest'[id].run = run /\ manifest'[id].whole = TRUE /\ manifest'[id].runs = outcomes
    BY <1>0, <2>1
  <2> QED
    BY <1>3, <2>2, Zenon
<1>4. CASE ~OpenManifest /\ ~Return /\ ~WriteMetadata /\ ~WriteManifest
  <2> USE DEF files
  <2>1. CASE HarnessStep
    BY <1>0, <1>4, <2>1, Zenon DEF HarnessStep, Gate, NothingToRun, Spawn, PortOpen, PortClosed,
       ClientExits, Terminate, Waited, Kill
  <2>2. CASE \/ \E i \in Ids, u \in Availability : Start(i, u)
             \/ Crash \/ UNCHANGED vars
    BY <1>0, <1>4, <2>2, Zenon DEF Start, Crash, vars
  <2>3. CASE \/ \E c \in clients : Connect(c) \/ OrphanEnds(c)
             \/ \E s \in procs : Bind(s) \/ ServerEnds(s)
    BY <1>0, <1>4, <2>3, Zenon DEF Connect, OrphanEnds, Bind, ServerEnds
  <2> QED
    BY <1>0, <1>4, <2>1, <2>2, <2>3, Zenon DEF Next
<1> QED
  BY <1>1, <1>2, <1>3, <1>4, Zenon

ManifestTyped ==
  /\ DOMAIN manifest = Ids
  /\ \A i \in Ids : /\ manifest[i].run \in 0 .. run
                    /\ manifest[i].whole \in BOOLEAN /\ manifest[i].runs \in Seq(Outcomes)

(* The manifests keep their types.                                          *)
LEMMA ManifestTypes ==
  ASSUME Types, [Next]_vars
  PROVE  ManifestTyped'
<1>0. /\ \A i \in Ids : /\ manifest[i].run \in 0 .. run
                         /\ manifest[i].whole \in BOOLEAN /\ manifest[i].runs \in Seq(Outcomes)
      /\ outcomes \in Seq(Outcomes) /\ run \in Nat
  BY HarnessAssumption DEF Types, TypeOK
<1>1. run' = run \/ run' = run + 1
  <2>1. CASE \E i \in Ids, u \in Availability : Start(i, u)
    BY <2>1 DEF Start
  <2>2. CASE HarnessStep
    BY <2>2, Zenon DEF HarnessStep, Gate, NothingToRun, OpenManifest, WriteMetadata, Spawn, PortOpen,
       PortClosed, ClientExits, Terminate, Waited, Kill, Return, WriteManifest, plan
  <2>3. CASE \/ Crash \/ UNCHANGED vars \/ \E c \in clients : Connect(c) \/ OrphanEnds(c)
             \/ \E s \in procs : Bind(s) \/ ServerEnds(s)
    BY <2>3, Zenon DEF Crash, Connect, OrphanEnds, Bind, ServerEnds, plan, vars
  <2> QED
    BY <2>1, <2>2, <2>3, Zenon DEF Next
<1>2. 0 .. run \subseteq 0 .. run' /\ run \in 0 .. run'
  BY <1>0, <1>1
<1>3. DOMAIN manifest' = Ids
  BY ManifestIs, Zenon
<1>4. ASSUME NEW i \in Ids
      PROVE  /\ manifest'[i].run \in 0 .. run'
             /\ manifest'[i].whole \in BOOLEAN /\ manifest'[i].runs \in Seq(Outcomes)
  <2>1. CASE manifest'[i] = manifest[i]
    BY <1>0, <1>2, <2>1
  <2>2. ASSUME NEW w \in BOOLEAN, NEW list \in Seq(Outcomes),
               manifest'[i].run = run, manifest'[i].whole = w, manifest'[i].runs = list
        PROVE  /\ manifest'[i].run \in 0 .. run'
               /\ manifest'[i].whole \in BOOLEAN /\ manifest'[i].runs \in Seq(Outcomes)
    BY <1>2, <2>2
  <2>3. <<>> \in Seq(Outcomes)
    OBVIOUS
  <2> QED
    BY <1>0, <2>1, <2>2, <2>3, ManifestIs, Zenon
<1> QED
  BY <1>3, <1>4, Zenon DEF ManifestTyped

(* The step that reaps a server leaves the types of the servers intact.     *)
LEMMA ReapTypes ==
  ASSUME Types, NEW s, Reap(s)
  PROVE  /\ procs' \subseteq procs
         /\ bound' \subseteq procs' /\ listener' \in bound' \cup {Nobody}
         /\ procs' \subseteq Servers
  BY DEF Types, TypeOK, Servers, Reap

(* The harness's own position, plan and outcomes keep their types when an   *)
(* invocation starts and passes the gate.                                   *)
LEMMA GateTypes ==
  ASSUME Types, ManifestTyped', PlanInv, NEW i \in Ids, NEW u,
         Start(i, u) \/ Gate \/ NothingToRun \/ OpenManifest
  PROVE  Types'
<1> USE HarnessAssumption DEF Types, TypeOK, ManifestTyped, Stages, Measuring
<1>1. CASE Start(i, u)
  BY <1>1 DEF Start, servers, files
<1>2. CASE Gate
  <2>1. cell \in DOMAIN Matrix /\ cell' \in 1 .. Len(Matrix) + 1
    BY <1>2 DEF Gate
  <2>2. runnable' \in Seq(DOMAIN Matrix)
    <3>1. Append(runnable, cell) \in Seq(DOMAIN Matrix)
      BY <2>1
    <3>2. runnable' = runnable \/ runnable' = Append(runnable, cell)
      BY <1>2, Zenon DEF Gate
    <3> QED
      BY <3>1, <3>2, Zenon
  <2>3. outcomes' \in Seq(Outcomes)
    <3>1. [cell |-> cell, status |-> "skipped"] \in Outcomes
      BY <2>1 DEF Outcomes
    <3>2. Append(outcomes, [cell |-> cell, status |-> "skipped"]) \in Seq(Outcomes)
      BY <3>1
    <3>3. \/ outcomes' = outcomes
          \/ outcomes' = Append(outcomes, [cell |-> cell, status |-> "skipped"])
      BY <1>2, Zenon DEF Gate
    <3> QED
      BY <3>2, <3>3, Zenon
  <2> QED
    BY <1>2, <2>1, <2>2, <2>3, Zenon DEF Gate, servers, files
<1>3. CASE NothingToRun
  BY <1>3 DEF NothingToRun, servers, plan, files
<1>4. CASE OpenManifest
  <2>1. 1 \in DOMAIN runnable
    BY <1>4 DEF OpenManifest
  <2> QED
    <3>1. cell' \in 1 .. Len(Matrix) + 1 /\ cell' \in DOMAIN runnable' /\ pc' = "first"
      BY <1>4, <2>1 DEF OpenManifest, plan
    <3> QED
      BY <1>4, <3>1, Zenon DEF OpenManifest, servers, plan
<1> QED
  BY <1>1, <1>2, <1>3, <1>4, Zenon

(* ... and through a cell.                                                  *)
LEMMA CellTypes ==
  ASSUME Types, ManifestTyped', PlanInv, HarnessStep, ~Gate, ~NothingToRun, ~OpenManifest
  PROVE  Types'
<1> USE HarnessAssumption DEF Types, TypeOK, ManifestTyped, Stages, Measuring
<1>0. /\ pc \in Measuring => runnable[cell] \in DOMAIN Matrix
      /\ Len(runnable) \in Nat /\ DOMAIN runnable = 1 .. Len(runnable)
  OBVIOUS
<1>1. CASE WriteMetadata
  BY <1>1, Zenon DEF WriteMetadata, servers, plan, files
<1>2. CASE Spawn
  <2>1. Own \in Servers
    BY <1>0, <1>2 DEF Spawn, Own, Servers
  <2>2. procs' \subseteq Servers /\ bound' \subseteq procs'
    <3>1. procs' = procs \cup {Own} /\ bound' = bound
      BY <1>2 DEF Spawn
    <3>2. procs \subseteq Servers /\ bound \subseteq procs
      OBVIOUS
    <3> HIDE DEF Types, TypeOK, ManifestTyped, Stages, Measuring
    <3> QED
      BY <2>1, <3>1, <3>2
  <2> QED
    BY <1>2, <2>2, Zenon DEF Spawn, plan, files
<1>3. CASE PortOpen
  <2> DEFINE new == [id |-> id, run |-> run, cell |-> runnable[cell], claimed |-> 0, good |-> FALSE]
  <2>1. new \in Clients
    BY <1>0, <1>3 DEF PortOpen, Clients
  <2>2. clients' \subseteq Clients
    <3>1. clients \subseteq Clients /\ clients' = clients \cup {new}
      BY <1>3 DEF PortOpen
    <3> HIDE DEF new, Types, TypeOK, ManifestTyped, Stages, Measuring
    <3> QED
      BY <2>1, <3>1
  <2>3. \A c \in clients' : c.claimed \in 0 .. Warmups + Connections /\ c.good \in BOOLEAN
    BY <2>2 DEF Clients
  <2> QED
    BY <1>3, <2>2, <2>3 DEF PortOpen, servers, files, plan
<1>31. CASE PortClosed
  BY <1>31 DEF PortClosed, servers, plan, files
<1>5. CASE ClientExits
  <2>1. clients' \subseteq clients /\ code' \in {0, 6, 124}
    BY <1>5 DEF ClientExits
  <2> QED
    BY <1>5, <2>1 DEF ClientExits, servers, files, plan
<1>6. CASE Terminate
  BY <1>6, Zenon DEF Terminate, servers, plan, files
<1>61. CASE Waited
  BY <1>61 DEF Waited, servers, plan, files
<1>7. CASE Kill
  BY <1>7, ReapTypes, Zenon DEF Kill, plan, files
<1>8. CASE Return
  <2>1. [cell |-> runnable[cell], status |-> IF code = 0 THEN "completed" ELSE "failed"]
          \in Outcomes
    BY <1>0, <1>8 DEF Return, Outcomes
  <2>2. outcomes' \in Seq(Outcomes)
    BY <1>8, <2>1 DEF Return
  <2> QED
    BY <1>8, <2>2, Zenon DEF Return, servers, plan, files
<1>9. CASE WriteManifest
  <2>0. /\ Len(runnable) <= Len(Matrix) /\ Len(Matrix) \in Nat
        /\ cell \in 1 .. Len(runnable)
    BY <1>0, <1>9 DEF WriteManifest, PlanInv
  <2>1. cell' \in 1 .. Len(Matrix) + 1 /\ cell' \in DOMAIN runnable
    <3>1. cell' = cell \/ (cell < Len(runnable) /\ cell' = cell + 1)
      BY <1>9, Zenon DEF WriteManifest
    <3> HIDE DEF Types, TypeOK, ManifestTyped, Stages, Measuring
    <3>2. cell' \in 1 .. Len(runnable)
      BY <1>0, <2>0, <3>1
    <3>3. cell' \in 1 .. Len(Matrix) + 1
      BY <1>0, <2>0, <3>2
    <3> QED
      BY <1>0, <3>2, <3>3
  <2> QED
    BY <1>9, <2>1, Zenon DEF WriteManifest, servers, plan, files
<1> QED
  BY <1>1, <1>2, <1>3, <1>31, <1>5, <1>6, <1>61, <1>7, <1>8, <1>9, Zenon DEF HarnessStep

(* What a connection does to its client, and the record it may leave.       *)
LEMMA ConnectIs ==
  ASSUME Types, NEW c \in clients, Connect(c)
  PROVE  /\ UNCHANGED <<pc, run, id, runnable, cell, code, outcomes, procs, bound, listener,
                        manifest, crashed>>
         /\ \E d \in Clients :
              /\ clients' = (clients \ {c}) \cup {d}
              /\ d.id = c.id /\ d.run = c.run /\ d.cell = c.cell
              /\ \/ d.good = c.good /\ UNCHANGED <<records, lost>>
                 \/ /\ listener # Nobody /\ lost' = lost
                    /\ records' = records \cup
                         {[id |-> c.id, run |-> c.run, cell |-> c.cell, by |-> listener]}
                 \/ records' = records /\ lost' = lost \cup {<<c.run, c.cell>>}
<1>1. UNCHANGED <<pc, run, id, runnable, cell, code, outcomes, procs, bound, listener,
                  manifest, crashed>>
  BY DEF Connect, plan, servers
<1>2. c \in Clients /\ c.claimed + 1 \in 0 .. Warmups + Connections
  <2>1. c \in Clients /\ c.claimed < Warmups + Connections
    BY Zenon DEF Types, Connect
  <2>2. c.claimed \in 0 .. Warmups + Connections
    BY <2>1, Zenon DEF Clients
  <2> QED
    BY <2>1, <2>2, HarnessAssumption
<1> DEFINE d(g) == [c EXCEPT !.claimed = @ + 1, !.good = g]
<1>3. ASSUME NEW g \in BOOLEAN
      PROVE  d(g) \in Clients /\ d(g).id = c.id /\ d(g).run = c.run /\ d(g).cell = c.cell
             /\ d(g).good = g
  BY <1>2, <1>3, Zenon DEF Clients
<1>4. c.good \in BOOLEAN /\ (c.good \/ c.claimed >= Warmups) \in BOOLEAN
  BY <1>2 DEF Clients
<1>5. CASE UNCHANGED <<records, lost>> /\ clients' = (clients \ {c}) \cup {[c EXCEPT !.claimed = @ + 1]}
  <2>1. [c EXCEPT !.claimed = @ + 1] \in Clients
    BY <1>2 DEF Clients
  <2>2. LET e == [c EXCEPT !.claimed = @ + 1]
        IN  e.id = c.id /\ e.run = c.run /\ e.cell = c.cell /\ e.good = c.good
    BY <1>2 DEF Clients
  <2> QED
    BY <1>1, <1>5, <2>1, <2>2, Zenon
<1>6. CASE /\ listener # Nobody
           /\ \/ /\ records' = records \cup
                      {[id |-> c.id, run |-> c.run, cell |-> c.cell, by |-> listener]}
                 /\ UNCHANGED lost
              \/ lost' = lost \cup {<<c.run, c.cell>>} /\ UNCHANGED records
           /\ clients' = (clients \ {c}) \cup {d(c.good \/ c.claimed >= Warmups)}
  <2> DEFINE e == d(c.good \/ c.claimed >= Warmups)
  <2>1. e \in Clients /\ e.id = c.id /\ e.run = c.run /\ e.cell = c.cell
    BY <1>3, <1>4, Zenon
  <2>2. clients' = (clients \ {c}) \cup {e}
    BY <1>6
  <2> HIDE DEF e
  <2> QED
    BY <1>1, <1>6, <2>1, <2>2, Zenon
<1> QED
  BY <1>5, <1>6, Zenon DEF Connect

(* A connection keeps the types.                                            *)
LEMMA ConnectTypes ==
  ASSUME Types, NEW c \in clients, Connect(c)
  PROVE  Types'
<1>1. PICK d \in Clients :
        /\ clients' = (clients \ {c}) \cup {d}
        /\ \/ records' = records
           \/ /\ listener # Nobody
              /\ records' = records \cup
                   {[id |-> c.id, run |-> c.run, cell |-> c.cell, by |-> listener]}
  BY ConnectIs, Zenon
<1>2. clients' \subseteq Clients
  BY <1>1, Zenon DEF Types
<1>3. records' \subseteq Records
  <2>1. CASE listener # Nobody
    <3>1. listener \in Servers
      BY <2>1, Zenon DEF Types, TypeOK
    <3>2. [id |-> c.id, run |-> c.run, cell |-> c.cell, by |-> listener] \in Records
      <4>1. c \in Clients
        BY Zenon DEF Types
      <4> QED
        BY <3>1, <4>1 DEF Clients, Records
    <3> QED
      BY <1>1, <3>2, Zenon DEF Types
  <2> QED
    BY <1>1, <2>1, Zenon DEF Types
<1>4. \A e \in clients' : e.claimed \in 0 .. Warmups + Connections /\ e.good \in BOOLEAN
  BY <1>2 DEF Clients
<1> QED
  BY <1>2, <1>3, <1>4, ConnectIs, Zenon DEF Types, TypeOK

(* Every step keeps the types.                                              *)
LEMMA TypesStep ==
  ASSUME Types, PlanInv, [Next]_vars
  PROVE  Types'
<1>1. CASE \E i \in Ids, u \in Availability : Start(i, u)
  BY <1>1, GateTypes, ManifestTypes
<1>2. CASE HarnessStep
  <2>1. CASE Gate \/ NothingToRun \/ OpenManifest
    BY <2>1, GateTypes, ManifestTypes, Zenon DEF Types, TypeOK
  <2> QED
    BY <1>2, <2>1, CellTypes, ManifestTypes
<1>3. CASE Crash
  BY <1>3, HarnessAssumption DEF Crash, Types, TypeOK, Stages, Measuring, servers, plan, files
<1>4. ASSUME NEW s \in procs, Bind(s) \/ ServerEnds(s)
      PROVE  Types'
  <2>1. /\ procs' \subseteq Servers
        /\ bound' \subseteq procs' /\ listener' \in bound' \cup {Nobody}
    BY <1>4, ReapTypes DEF Bind, ServerEnds, Types, TypeOK
  <2>2. UNCHANGED <<pc, run, id, runnable, cell, code, outcomes, clients, manifest, records, crashed>>
    BY <1>4 DEF Bind, ServerEnds, plan, files
  <2> QED
    BY <2>1, <2>2 DEF Types, TypeOK
<1>5. CASE UNCHANGED vars
  BY <1>5 DEF vars, plan, servers, files, Types, TypeOK
<1>6. ASSUME NEW c \in clients, Connect(c) PROVE Types'
  BY <1>6, ConnectTypes
<1>7. ASSUME NEW c \in clients, OrphanEnds(c) PROVE Types'
  <2>1. clients' \subseteq clients
    BY <1>7 DEF OrphanEnds
  <2> QED
    BY <1>7, <2>1 DEF OrphanEnds, Types, TypeOK, plan, servers, files
<1> QED
  BY <1>1, <1>2, <1>3, <1>4, <1>5, <1>6, <1>7, Zenon DEF Next

---------------------------------------------------------------------------
(* A step that writes no record and forgets no crash leaves the records     *)
(* with the servers they name.                                              *)
LEMMA StaleKept ==
  ASSUME StaleOnlyAfterCrash, records' = records, crashed \subseteq crashed'
  PROVE  StaleOnlyAfterCrash'
  BY DEF StaleOnlyAfterCrash

(* No server but that of the cell in flight is alive when a cell ends: each *)
(* step of the harness keeps the servers accounted for.                     *)
LEMMA ServerStep ==
  ASSUME Types, ServerInv, [Next]_vars
  PROVE  ServerInv'
<1> DEFINE Busy == {"probe", "client", "exit", "wait"}
           Alone == \A c, d \in clients : c.run = d.run => c = d
           Owned == \A c \in clients : \/ c.run \in crashed
                                        \/ /\ c.run = run /\ c.id = id /\ c.cell = runnable[cell]
                                           /\ pc = "client"
<1>0. /\ \A s \in procs : s[1] \in crashed \/ (s = Own /\ pc \in Busy)
      /\ pc = "crashed" => run \in crashed
      /\ pc \notin {"idle", "crashed"} => run \notin crashed
      /\ StaleOnlyAfterCrash /\ Alone /\ Owned
  BY Zenon DEF ServerInv
<1> USE DEF files
<1>1. ASSUME NEW i \in Ids, NEW u, Start(i, u) PROVE ServerInv'
  <2>1. StaleOnlyAfterCrash'
    BY <1>0, <1>1, StaleKept DEF Start
  <2>2. /\ UNCHANGED <<procs, clients, crashed>> /\ run' = run + 1 /\ pc' = "gate"
        /\ pc \in {"idle", "crashed"}
    BY <1>1 DEF Start, servers
  <2>3. run' \notin crashed
    BY <2>2, HarnessAssumption DEF Types, TypeOK
  <2> QED
    BY <1>0, <2>1, <2>2, <2>3 DEF ServerInv
<1>2. CASE Gate \/ NothingToRun \/ OpenManifest \/ WriteMetadata
  <2>1. /\ pc \notin Busy /\ pc \notin {"idle", "crashed"} /\ pc' # "crashed"
        /\ UNCHANGED <<run, procs, clients, records, crashed>>
    BY <1>2 DEF Gate, NothingToRun, OpenManifest, WriteMetadata, servers, plan
  <2>2. StaleOnlyAfterCrash'
    BY <1>0, <2>1, StaleKept
  <2> QED
    BY <1>0, <2>1, <2>2 DEF ServerInv
<1>3. CASE Spawn
  <2>1. StaleOnlyAfterCrash'
    BY <1>0, <1>3, StaleKept DEF Spawn
  <2>2. Own' = Own /\ UNCHANGED <<run, clients, crashed>>
    BY <1>3 DEF Spawn, plan, Own
  <2> QED
    BY <1>0, <1>3, <2>1, <2>2 DEF Spawn, ServerInv
<1>4. CASE PortClosed \/ Terminate
  <2>1. /\ pc' \in Busy \/ (pc' = "return" /\ Own \notin procs)
        /\ pc \notin {"client", "idle", "crashed"}
        /\ UNCHANGED <<procs, clients, records, crashed, run, runnable, cell>>
    BY <1>4 DEF PortClosed, Terminate, plan, servers
  <2>2. StaleOnlyAfterCrash'
    BY <1>0, <2>1, StaleKept
  <2> QED
    BY <1>0, <2>1, <2>2 DEF ServerInv, Own
<1>5. CASE PortOpen
  <2> DEFINE new == [id |-> id, run |-> run, cell |-> runnable[cell], claimed |-> 0, good |-> FALSE]
  <2>1. /\ pc = "probe" /\ pc' = "client" /\ clients' = clients \cup {new}
        /\ UNCHANGED <<procs, records, crashed, run, id, runnable, cell>>
    BY <1>5 DEF PortOpen, plan, servers
  <2>2. StaleOnlyAfterCrash'
    BY <1>0, <2>1, StaleKept
  <2>3. \A c \in clients : c.run # run
    BY <1>0, <2>1
  <2>4. new.id = id /\ new.run = run /\ new.cell = runnable[cell]
    OBVIOUS
  <2> HIDE DEF new
  <2>5. Owned' /\ Alone'
    BY <1>0, <2>1, <2>3, <2>4
  <2> QED
    BY <1>0, <2>1, <2>2, <2>5 DEF ServerInv, Own
<1>6. CASE ClientExits
  <2>1. /\ pc = "client" /\ pc' = "exit"
        /\ UNCHANGED <<procs, records, crashed, run, id, runnable, cell>>
    BY <1>6 DEF ClientExits, plan, servers
  <2>2. PICK c \in clients : c.run = run /\ clients' = clients \ {c}
    BY <1>6 DEF ClientExits
  <2>3. StaleOnlyAfterCrash'
    BY <1>0, <2>1, StaleKept
  <2>4. Owned' /\ Alone'
    BY <1>0, <2>1, <2>2
  <2> QED
    BY <1>0, <2>1, <2>3, <2>4 DEF ServerInv, Own
<1>7. CASE Waited \/ Kill
  <2>1. pc = "wait" /\ pc' = "return" /\ UNCHANGED <<run, clients, records, crashed>>
    BY <1>7 DEF Waited, Kill, plan
  <2>2. procs' \subseteq procs /\ Own \notin procs'
    BY <1>7 DEF Waited, Kill, Reap, servers
  <2>3. StaleOnlyAfterCrash'
    BY <1>0, <2>1, StaleKept
  <2> QED
    BY <1>0, <2>1, <2>2, <2>3 DEF ServerInv
<1>8. CASE Return \/ WriteManifest
  <2>1. /\ pc \notin Busy /\ pc' # "crashed" /\ pc \notin {"idle", "crashed"}
        /\ UNCHANGED <<run, procs, clients, records, crashed>>
    BY <1>8 DEF Return, WriteManifest, servers, plan
  <2>2. StaleOnlyAfterCrash'
    BY <1>0, <2>1, StaleKept
  <2> QED
    BY <1>0, <2>1, <2>2 DEF ServerInv
<1>9. CASE Crash
  <2>1. /\ pc' = "crashed" /\ crashed' = crashed \cup {run}
        /\ UNCHANGED <<procs, clients, records, run>>
    BY <1>9 DEF Crash, plan, servers
  <2>2. StaleOnlyAfterCrash'
    BY <1>0, <2>1, StaleKept
  <2>3. /\ \A s \in procs' : s[1] \in crashed'
        /\ \A c \in clients' : c.run \in crashed'
    BY <1>0, <2>1 DEF Own
  <2> QED
    BY <1>0, <2>1, <2>2, <2>3 DEF ServerInv
<1>10. ASSUME NEW s \in procs, Bind(s) \/ ServerEnds(s) PROVE ServerInv'
  <2>1. procs' \subseteq procs
    BY <1>10 DEF Bind, ServerEnds, Reap
  <2>2. UNCHANGED <<pc, run, id, runnable, cell, clients, records, crashed>>
    BY <1>10 DEF Bind, ServerEnds, plan
  <2>3. StaleOnlyAfterCrash'
    BY <1>0, <2>2, StaleKept
  <2> QED
    BY <1>0, <2>1, <2>2, <2>3 DEF ServerInv, Own
<1>11. CASE UNCHANGED vars
  <2>1. UNCHANGED <<pc, run, id, runnable, cell, clients, records, crashed, procs>>
    BY <1>11 DEF vars, plan, servers
  <2>2. StaleOnlyAfterCrash'
    BY <1>0, <2>1, StaleKept
  <2> QED
    BY <1>0, <2>1, <2>2 DEF ServerInv, Own
<1>12. ASSUME NEW c \in clients, Connect(c) PROVE ServerInv'
  <2>1. UNCHANGED <<pc, run, id, runnable, cell, procs, crashed>>
    BY <1>12, ConnectIs
  <2>2. PICK d : /\ clients' = (clients \ {c}) \cup {d}
                 /\ d.id = c.id /\ d.run = c.run /\ d.cell = c.cell
                 /\ \/ records' = records
                    \/ /\ listener # Nobody
                       /\ records' = records \cup
                            {[id |-> c.id, run |-> c.run, cell |-> c.cell, by |-> listener]}
    BY <1>12, ConnectIs, Zenon
  <2>3. Owned' /\ Alone'
    BY <1>0, <2>1, <2>2
  <2>4. CASE records' = records
    <3>1. StaleOnlyAfterCrash'
      BY <1>0, <2>1, <2>4, StaleKept
    <3> QED
      BY <1>0, <2>1, <2>3, <3>1 DEF ServerInv, Own
  <2>5. CASE /\ listener # Nobody
             /\ records' = records \cup
                  {[id |-> c.id, run |-> c.run, cell |-> c.cell, by |-> listener]}
    <3> DEFINE rec == [id |-> c.id, run |-> c.run, cell |-> c.cell, by |-> listener]
    <3>1. listener \in procs
      BY <2>5, Zenon DEF Types, TypeOK
    <3>2. listener = <<c.run, c.cell>> \/ c.run \in crashed \/ listener[1] \in crashed
      BY <1>0, <3>1 DEF Own
    <3>3. rec.by = <<rec.run, rec.cell>> \/ {rec.run, rec.by[1]} \cap crashed # {}
      BY <3>2
    <3>4. records' = records \cup {rec}
      BY <2>5
    <3> HIDE DEF rec
    <3>5. StaleOnlyAfterCrash'
      BY <1>0, <2>1, <3>3, <3>4, Zenon DEF StaleOnlyAfterCrash
    <3> QED
      BY <1>0, <2>1, <2>3, <3>5 DEF ServerInv, Own
  <2> QED
    BY <2>2, <2>4, <2>5
<1>13. ASSUME NEW c \in clients, OrphanEnds(c) PROVE ServerInv'
  <2>1. /\ clients' \subseteq clients
        /\ UNCHANGED <<pc, run, id, runnable, cell, records, crashed, procs>>
    BY <1>13 DEF OrphanEnds, plan, servers
  <2>2. StaleOnlyAfterCrash'
    BY <1>0, <2>1, StaleKept
  <2> QED
    BY <1>0, <2>1, <2>2 DEF ServerInv, Own
<1> QED
  BY <1>1, <1>2, <1>3, <1>4, <1>5, <1>6, <1>7, <1>8, <1>9, <1>10, <1>11, <1>12, <1>13, Zenon
     DEF Next, HarnessStep

---------------------------------------------------------------------------
(* An outcome added to a list adds its cell.                                *)
LEMMA ListedAppend ==
  ASSUME NEW list \in Seq(Outcomes), NEW o \in Outcomes
  PROVE  /\ Listed(Append(list, o)) = Listed(list) \cup {o.cell}
         /\ Len(Append(list, o)) = Len(list) + 1
<1>1. /\ DOMAIN Append(list, o) = DOMAIN list \cup {Len(list) + 1}
      /\ \A n \in DOMAIN list : Append(list, o)[n] = list[n]
      /\ Append(list, o)[Len(list) + 1] = o
      /\ Len(Append(list, o)) = Len(list) + 1
  OBVIOUS
<1>2. Listed(Append(list, o)) = Listed(list) \cup {o.cell}
  <2> DEFINE t == Append(list, o)
  <2>1. /\ DOMAIN t = DOMAIN list \cup {Len(list) + 1} /\ t[Len(list) + 1] = o
        /\ \A n \in DOMAIN list : t[n] = list[n]
    BY <1>1
  <2> HIDE DEF t
  <2>2. {t[n].cell : n \in DOMAIN t} = {list[n].cell : n \in DOMAIN list} \cup {o.cell}
    BY <2>1
  <2> QED
    BY <2>2, Zenon DEF Listed, t
<1> QED
  BY <1>1, <1>2

(* What the invocation may still measure, stage by stage.                   *)
LEMMA ToMeasureIs ==
  /\ pc = "gate" => ToMeasure = DOMAIN Matrix
  /\ pc \in Before => ToMeasure = {runnable[k] : k \in cell .. Len(runnable)}
  /\ pc = "write" => ToMeasure = {runnable[k] : k \in cell + 1 .. Len(runnable)}
  /\ pc \in {"idle", "crashed"} => ToMeasure = {}
  BY DEF ToMeasure, Before

LEMMA ToMeasureIsPrime ==
  /\ pc' = "gate" => ToMeasure' = DOMAIN Matrix
  /\ pc' \in Before => ToMeasure' = {runnable'[k] : k \in cell' .. Len(runnable')}
  /\ pc' = "write" => ToMeasure' = {runnable'[k] : k \in cell' + 1 .. Len(runnable')}
  /\ pc' \in {"idle", "crashed"} => ToMeasure' = {}
  BY DEF ToMeasure, Before

(* A step between two stages of a cell keeps the plan, as does a step of a  *)
(* server.                                                                  *)
LEMMA PlanKept ==
  ASSUME PlanInv, UNCHANGED <<run, runnable, cell, outcomes, id, manifest>>,
         pc' = pc \/ (pc \in Before /\ pc' \in Before) \/ pc' = "crashed"
  PROVE  PlanInv'
<1>1. CASE pc' = pc
  <2>1. ToMeasure' = ToMeasure
    BY <1>1 DEF ToMeasure
  <2> QED
    BY <1>1, <2>1 DEF PlanInv, Listed
<1>2. CASE pc \in Before /\ pc' \in Before
  <2>1. ToMeasure' = ToMeasure
    <3>1. ToMeasure = {runnable[k] : k \in cell .. Len(runnable)}
      BY <1>2, ToMeasureIs
    <3>2. ToMeasure' = {runnable'[k] : k \in cell' .. Len(runnable')}
      BY <1>2, ToMeasureIsPrime
    <3> QED
      BY <3>1, <3>2
  <2>2. pc' \notin {"gate", "write", "idle"}
    BY <1>2 DEF Before
  <2> QED
    BY <1>2, <2>1, <2>2 DEF PlanInv, Listed
<1>3. CASE pc' = "crashed"
  BY <1>3 DEF PlanInv, Before
<1> QED
  BY <1>1, <1>2, <1>3

(* The gate sorts each cell of the matrix into one of the two lists.        *)
LEMMA PlanGate ==
  ASSUME Types, PlanInv, Gate
  PROVE  PlanInv'
<1>1. /\ pc = "gate" /\ pc' = "gate" /\ cell' = cell + 1
      /\ cell \in 1 .. Len(Matrix) /\ Len(Matrix) \in Nat /\ DOMAIN Matrix = 1 .. Len(Matrix)
      /\ runnable \in Seq(DOMAIN Matrix) /\ outcomes \in Seq(Outcomes)
  BY HarnessAssumption DEF Gate, Types, TypeOK
<1>2. /\ \A j, k \in DOMAIN runnable : j < k => runnable[j] < runnable[k]
      /\ \A k \in DOMAIN runnable : runnable[k] < cell
      /\ Listed(outcomes) \cup {runnable[k] : k \in DOMAIN runnable} = 1 .. cell - 1
      /\ Len(outcomes) + Len(runnable) = cell - 1
  BY <1>1 DEF PlanInv
<1> SUFFICES
      /\ Len(runnable') <= Len(Matrix)
      /\ \A j, k \in DOMAIN runnable' : j < k => runnable'[j] < runnable'[k]
      /\ \A k \in DOMAIN runnable' : runnable'[k] < cell'
      /\ Listed(outcomes') \cup {runnable'[k] : k \in DOMAIN runnable'} = 1 .. cell' - 1
      /\ Len(outcomes') + Len(runnable') = cell' - 1
  BY <1>1 DEF PlanInv, Before, Listed
<1>3. CASE runnable' = Append(runnable, cell) /\ outcomes' = outcomes
  <2>1. /\ Len(runnable') = Len(runnable) + 1
        /\ DOMAIN runnable' = DOMAIN runnable \cup {Len(runnable) + 1}
        /\ \A k \in DOMAIN runnable : runnable'[k] = runnable[k] /\ k <= Len(runnable)
        /\ runnable'[Len(runnable) + 1] = cell
        /\ Len(runnable) \in Nat /\ Len(outcomes) \in Nat
        /\ \A k \in DOMAIN runnable : k \in Nat /\ runnable[k] \in Nat
    BY <1>1, <1>3
  <2>2. {runnable'[k] : k \in DOMAIN runnable'} = {runnable[k] : k \in DOMAIN runnable} \cup {cell}
    BY <2>1
  <2>3. 1 .. cell' - 1 = (1 .. cell - 1) \cup {cell}
    BY <1>1
  <2>4. Listed(outcomes') \cup {runnable'[k] : k \in DOMAIN runnable'} = 1 .. cell' - 1
    <3>1. Listed(outcomes') = Listed(outcomes)
      BY <1>3
    <3> QED
      BY <1>2, <2>2, <2>3, <3>1, Zenon
  <2>5. Len(outcomes') + Len(runnable') = cell' - 1 /\ Len(runnable') <= Len(Matrix)
    <3>1. /\ Len(outcomes) \in Nat /\ Len(runnable) \in Nat /\ Len(outcomes') = Len(outcomes)
          /\ Len(runnable') = Len(runnable) + 1
      BY <1>3, <2>1
    <3>2. /\ Len(outcomes) + Len(runnable) = cell - 1 /\ cell' = cell + 1
          /\ cell \in 1 .. Len(Matrix) /\ Len(Matrix) \in Nat
      BY <1>1, <1>2
    <3> QED
      BY <3>1, <3>2
  <2>6. \A k \in DOMAIN runnable' : runnable'[k] < cell'
    BY <1>1, <1>2, <2>1
  <2>7. ASSUME NEW j \in DOMAIN runnable', NEW k \in DOMAIN runnable', j < k
        PROVE  runnable'[j] < runnable'[k]
    <3>1. j \in DOMAIN runnable
      BY <2>1, <2>7
    <3>2. CASE k \in DOMAIN runnable
      BY <1>2, <2>1, <2>7, <3>1, <3>2
    <3>3. CASE k = Len(runnable) + 1
      BY <1>2, <2>1, <3>1, <3>3
    <3> QED
      BY <2>1, <3>2, <3>3
  <2> QED
    BY <2>4, <2>5, <2>6, <2>7
<1>4. CASE outcomes' = Append(outcomes, [cell |-> cell, status |-> "skipped"])
           /\ runnable' = runnable
  <2>1. [cell |-> cell, status |-> "skipped"] \in Outcomes
    BY <1>1 DEF Outcomes
  <2>2. Listed(outcomes') = Listed(outcomes) \cup {cell} /\ Len(outcomes') = Len(outcomes) + 1
    BY <1>1, <1>4, <2>1, ListedAppend
  <2>3. 1 .. cell' - 1 = (1 .. cell - 1) \cup {cell}
    BY <1>1
  <2>4. Listed(outcomes') \cup {runnable'[k] : k \in DOMAIN runnable'} = 1 .. cell' - 1
    BY <1>2, <1>4, <2>2, <2>3, Zenon
  <2>5. /\ Len(outcomes) \in Nat /\ Len(runnable) \in Nat
        /\ \A k \in DOMAIN runnable : runnable[k] \in Nat
    BY <1>1
  <2>6. Len(outcomes') + Len(runnable') = cell' - 1 /\ Len(runnable') <= Len(Matrix)
    BY <1>1, <1>2, <1>4, <2>2, <2>5
  <2>7. \A k \in DOMAIN runnable' : runnable'[k] < cell'
    BY <1>1, <1>2, <1>4, <2>5
  <2> QED
    BY <1>2, <1>4, <2>4, <2>6, <2>7
<1> QED
  BY <1>3, <1>4, Zenon DEF Gate

(* Past the gate, what is not yet listed is runnable.                       *)
LEMMA PlanOpen ==
  ASSUME Types, PlanInv, OpenManifest
  PROVE  PlanInv'
<1>1. /\ pc = "gate" /\ pc' = "first" /\ cell' = 1 /\ cell = Len(Matrix) + 1
      /\ Len(Matrix) \in Nat /\ DOMAIN Matrix = 1 .. Len(Matrix)
      /\ runnable' = runnable /\ outcomes' = outcomes
      /\ runnable \in Seq(DOMAIN Matrix)
  BY HarnessAssumption DEF OpenManifest, Types, TypeOK, plan
<1>2. /\ Listed(outcomes) \cup {runnable[k] : k \in DOMAIN runnable} = 1 .. cell - 1
      /\ Len(outcomes) + Len(runnable) = cell - 1
      /\ Len(runnable) <= Len(Matrix)
      /\ \A j, k \in DOMAIN runnable : j < k => runnable[j] < runnable[k]
  BY <1>1 DEF PlanInv
<1>3. ToMeasure' = {runnable[k] : k \in DOMAIN runnable}
  <2>1. ToMeasure' = {runnable'[k] : k \in cell' .. Len(runnable')}
    BY <1>1, ToMeasureIsPrime DEF Before
  <2>2. DOMAIN runnable = 1 .. Len(runnable)
    BY <1>1
  <2> QED
    BY <1>1, <2>1, <2>2
<1>4. Listed(outcomes') \cup ToMeasure' = DOMAIN Matrix
  <2>1. DOMAIN Matrix = 1 .. cell - 1
    BY <1>1
  <2> QED
    BY <1>1, <1>2, <1>3, <2>1
<1>5. Len(outcomes') + Len(runnable') = Len(Matrix) + cell' - 1
  <2>1. Len(outcomes) + Len(runnable) = cell - 1
    BY <1>2
  <2>2. cell = Len(Matrix) + 1 /\ Len(Matrix) \in Nat /\ cell' = 1
    BY <1>1
  <2>3. Len(outcomes') = Len(outcomes) /\ Len(runnable') = Len(runnable)
    BY <1>1
  <2>4. Len(Matrix) + 1 - 1 = Len(Matrix)
    BY <2>2
  <2> QED
    BY <2>1, <2>2, <2>3, <2>4
<1> QED
  BY <1>1, <1>2, <1>4, <1>5 DEF PlanInv, Listed

(* The outcome of the cell in flight takes its place in the list.           *)
LEMMA PlanReturn ==
  ASSUME Types, PlanInv, Return
  PROVE  PlanInv'
<1> DEFINE o == [cell |-> runnable[cell], status |-> IF code = 0 THEN "completed" ELSE "failed"]
<1>1. /\ pc = "return" /\ pc \in Before /\ pc' = "write" /\ cell' = cell /\ runnable' = runnable
      /\ outcomes' = Append(outcomes, o)
  BY DEF Return, plan, Before
<1>2. /\ runnable \in Seq(DOMAIN Matrix) /\ outcomes \in Seq(Outcomes)
      /\ cell \in DOMAIN runnable
  BY <1>1 DEF Types, TypeOK, Measuring
<1>3. o \in Outcomes
  BY <1>2 DEF Outcomes
<1>4. /\ Listed(outcomes') = Listed(outcomes) \cup {runnable[cell]}
      /\ Len(outcomes') = Len(outcomes) + 1
  BY <1>1, <1>2, <1>3, ListedAppend
<1>5. ToMeasure = {runnable[k] : k \in cell .. Len(runnable)}
  BY <1>1, ToMeasureIs
<1>6. ToMeasure' = {runnable[k] : k \in cell + 1 .. Len(runnable)}
  BY <1>1, ToMeasureIsPrime
<1>7. ToMeasure = ToMeasure' \cup {runnable[cell]}
  <2>1. cell .. Len(runnable) = (cell + 1 .. Len(runnable)) \cup {cell}
    BY <1>2
  <2> QED
    BY <1>5, <1>6, <2>1
<1>8. Listed(outcomes') \cup ToMeasure' = DOMAIN Matrix
  <2>1. Listed(outcomes) \cup ToMeasure = DOMAIN Matrix
    BY <1>1 DEF PlanInv
  <2> QED
    BY <1>4, <1>7, <2>1, Zenon
<1>9. Len(outcomes') + Len(runnable') = Len(Matrix) + cell'
  <2>1. Len(outcomes) + Len(runnable) = Len(Matrix) + cell - 1
    BY <1>1 DEF PlanInv
  <2>2. Len(outcomes) \in Nat /\ Len(runnable) \in Nat /\ cell \in Nat
    BY <1>2
  <2> QED
    BY <1>1, <1>4, <2>1, <2>2, HarnessAssumption
<1> QED
  BY <1>1, <1>8, <1>9, Zenon DEF PlanInv, Before, Listed

(* After the last cell the list, and the manifest with it, is complete.     *)
LEMMA PlanWrite ==
  ASSUME Types, PlanInv, WriteManifest
  PROVE  PlanInv'
<1>1. /\ pc = "write" /\ UNCHANGED <<run, runnable, outcomes, id>>
      /\ manifest' = [manifest EXCEPT ![id] = [run |-> run, whole |-> TRUE, runs |-> outcomes]]
  BY DEF WriteManifest, plan
<1>2. /\ runnable \in Seq(DOMAIN Matrix) /\ Len(outcomes) \in Nat /\ Len(runnable) \in Nat
      /\ cell \in 1 .. Len(runnable) /\ Len(Matrix) \in Nat
  BY <1>1, HarnessAssumption DEF Types, TypeOK, Measuring
<1>3. ToMeasure = {runnable[k] : k \in cell + 1 .. Len(runnable)}
  BY <1>1, ToMeasureIs
<1>4. /\ Listed(outcomes) \cup ToMeasure = DOMAIN Matrix
      /\ Len(outcomes) + Len(runnable) = Len(Matrix) + cell
      /\ Len(runnable) <= Len(Matrix)
      /\ \A j, k \in DOMAIN runnable : j < k => runnable[j] < runnable[k]
  BY <1>1 DEF PlanInv
<1>5. CASE cell < Len(runnable) /\ cell' = cell + 1 /\ pc' = "spawn"
  <2>1. pc' \in Before /\ ToMeasure' = ToMeasure
    <3>1. pc' \in Before
      BY <1>5 DEF Before
    <3>2. ToMeasure' = {runnable'[k] : k \in cell' .. Len(runnable')}
      BY <3>1, ToMeasureIsPrime
    <3> QED
      BY <1>1, <1>3, <1>5, <3>1, <3>2
  <2>2. Len(outcomes') + Len(runnable') = Len(Matrix) + cell' - 1
    BY <1>1, <1>2, <1>4, <1>5
  <2> QED
    BY <1>1, <1>4, <1>5, <2>1, <2>2 DEF PlanInv, Listed
<1>6. CASE cell >= Len(runnable) /\ cell' = cell /\ pc' = "idle"
  <2>1. cell = Len(runnable)
    BY <1>2, <1>6
  <2>2. ToMeasure = {}
    BY <1>2, <1>3, <2>1
  <2>3. manifest'[id'].runs = outcomes /\ manifest'[id'].run = run'
    BY <1>1 DEF Types, TypeOK
  <2>4. Len(outcomes) = Len(Matrix) /\ Listed(outcomes) = DOMAIN Matrix
    BY <1>2, <1>4, <2>1, <2>2
  <2> QED
    BY <1>1, <1>4, <1>6, <2>3, <2>4 DEF PlanInv, Listed, Before
<1> QED
  <2>1. \/ cell < Len(runnable) /\ cell' = cell + 1 /\ pc' = "spawn"
        \/ ~(cell < Len(runnable)) /\ cell' = cell /\ pc' = "idle"
    BY Zenon DEF WriteManifest
  <2> QED
    BY <1>2, <1>5, <1>6, <2>1

(* Every step keeps the plan.                                               *)
LEMMA PlanStep ==
  ASSUME Types, PlanInv, [Next]_vars
  PROVE  PlanInv'
<1>1. ASSUME NEW i \in Ids, NEW u, Start(i, u) PROVE PlanInv'
  <2>1. pc' = "gate" /\ runnable' = <<>> /\ outcomes' = <<>> /\ cell' = 1
    BY <1>1 DEF Start
  <2>2. pc' \notin Before /\ pc' \notin {"write", "idle"}
    BY <2>1 DEF Before
  <2>3. /\ Len(runnable') <= Len(Matrix) /\ Len(outcomes') + Len(runnable') = cell' - 1
        /\ DOMAIN runnable' = {} /\ DOMAIN outcomes' = {} /\ 1 .. cell' - 1 = {}
    BY <2>1, HarnessAssumption
  <2>4. Listed(outcomes') \cup {runnable'[k] : k \in DOMAIN runnable'} = 1 .. cell' - 1
    BY <2>3 DEF Listed
  <2> QED
    BY <2>2, <2>3, <2>4 DEF PlanInv, Listed
<1>2. CASE NothingToRun
  <2>1. pc' = "idle" /\ runnable' = <<>>
    BY <1>2 DEF NothingToRun, plan
  <2> QED
    BY <2>1, HarnessAssumption DEF PlanInv, Before
<1>3. CASE WriteMetadata
  <2>1. pc' = "spawn" /\ pc = "first" /\ UNCHANGED <<runnable, cell, outcomes>>
    BY <1>3 DEF WriteMetadata, plan
  <2>2. ToMeasure' = ToMeasure
    <3>1. ToMeasure = {runnable[k] : k \in cell .. Len(runnable)}
      BY <2>1, ToMeasureIs DEF Before
    <3>2. ToMeasure' = {runnable'[k] : k \in cell' .. Len(runnable')}
      BY <2>1, ToMeasureIsPrime DEF Before
    <3> QED
      BY <2>1, <3>1, <3>2
  <2> QED
    BY <2>1, <2>2 DEF PlanInv, Listed, Before
<1>4. CASE Spawn \/ PortOpen \/ PortClosed \/ ClientExits \/ Terminate \/ Waited \/ Kill
  <2>1. /\ UNCHANGED <<run, runnable, cell, outcomes, id, manifest>>
        /\ pc \in Before /\ pc' \in Before
    BY <1>4 DEF Spawn, PortOpen, PortClosed, ClientExits, Terminate, Waited, Kill,
                plan, files, Before
  <2> QED
    BY <2>1, PlanKept
<1>5. CASE Crash
  <2>1. UNCHANGED <<run, runnable, cell, outcomes, id, manifest>> /\ pc' = "crashed"
    BY <1>5 DEF Crash, plan, files
  <2> QED
    BY <2>1, PlanKept
<1>6. ASSUME NEW s \in procs, Bind(s) \/ ServerEnds(s) PROVE PlanInv'
  <2>1. UNCHANGED <<run, runnable, cell, outcomes, id, manifest, pc>>
    BY <1>6 DEF Bind, ServerEnds, plan, files
  <2> QED
    BY <2>1, PlanKept
<1>7. CASE UNCHANGED vars
  <2>1. UNCHANGED <<run, runnable, cell, outcomes, id, manifest, pc>>
    BY <1>7 DEF vars, plan, files
  <2> QED
    BY <2>1, PlanKept
<1>8. ASSUME NEW c \in clients, Connect(c) \/ OrphanEnds(c) PROVE PlanInv'
  <2>1. UNCHANGED <<run, runnable, cell, outcomes, id, manifest, pc>>
    BY <1>8 DEF Connect, OrphanEnds, plan, files
  <2> QED
    BY <2>1, PlanKept
<1> QED
  BY <1>1, <1>2, <1>3, <1>4, <1>5, <1>6, <1>7, <1>8, PlanGate, PlanOpen, PlanReturn, PlanWrite
     DEF Next, HarnessStep

---------------------------------------------------------------------------
(* What is on disk stays there, and what was lost stays lost.               *)
LEMMA ShownKept ==
  ASSUME records \subseteq records', lost \subseteq lost', NEW i, NEW r, NEW c, Shown(i, r, c)
  PROVE  Shown(i, r, c)'
  BY Zenon DEF Shown

(* A client connects: when it comes to have measured something, a record    *)
(* of its cell was written or lost in the same step.                        *)
LEMMA ShownConnect ==
  ASSUME Types, ShownInv, NEW c \in clients, Connect(c)
  PROVE  ShownInv'
<1>1. UNCHANGED <<pc, run, id, runnable, cell, code, outcomes, listener, manifest>>
  BY ConnectIs, Zenon
<1> DEFINE rec == [id |-> c.id, run |-> c.run, cell |-> c.cell, by |-> listener]
<1>2. PICK d :
        /\ clients' = (clients \ {c}) \cup {d}
        /\ d.id = c.id /\ d.run = c.run /\ d.cell = c.cell
        /\ \/ d.good = c.good /\ records' = records /\ lost' = lost
           \/ listener # Nobody /\ lost' = lost /\ records' = records \cup {rec}
           \/ records' = records /\ lost' = lost \cup {<<c.run, c.cell>>}
  BY ConnectIs, Zenon
<1>3. records \subseteq records' /\ lost \subseteq lost'
  BY <1>2, Zenon
<1>4. d.good => Shown(d.id, d.run, d.cell)'
  <2>1. CASE d.good = c.good
    BY <1>2, <1>3, <2>1, ShownKept, Zenon DEF ShownInv
  <2>2. CASE listener # Nobody /\ records' = records \cup {rec}
    <3>1. listener \in Servers
      BY <2>2, Zenon DEF Types, TypeOK
    <3> QED
      BY <1>2, <2>2, <3>1, Zenon DEF Shown
  <2>3. CASE lost' = lost \cup {<<c.run, c.cell>>}
    BY <1>2, <2>3, Zenon DEF Shown
  <2> QED
    BY <1>2, <2>1, <2>2, <2>3, Zenon
<1>5. \A e \in clients' : e.good => Shown(e.id, e.run, e.cell)'
  <2>1. ASSUME NEW e \in clients', e.good PROVE Shown(e.id, e.run, e.cell)'
    <3>1. CASE e \in clients
      BY <1>3, <2>1, <3>1, ShownKept, Zenon DEF ShownInv
    <3> QED
      BY <1>2, <1>4, <2>1, <3>1, Zenon
  <2> QED
    BY <2>1, Zenon
<1>6. \A i, q, k : Shown(i, q, k) => Shown(i, q, k)'
  BY <1>3, ShownKept, Zenon
<1> QED
  <2>1. ((pc \in {"exit", "wait", "return"} /\ code = 0) => Shown(id, run, runnable[cell]))'
    BY <1>1, <1>6, Zenon DEF ShownInv
  <2>2. (pc \notin {"idle", "crashed"} =>
           \A k \in DOMAIN Matrix : Completes(outcomes, k) => Shown(id, run, k))'
    BY <1>1, <1>6, Zenon DEF ShownInv
  <2>3. (\A i \in Ids, k \in DOMAIN Matrix :
           Completes(manifest[i].runs, k) => Shown(i, manifest[i].run, k))'
    BY <1>1, <1>6, Zenon DEF ShownInv
  <2> QED
    BY <1>5, <2>1, <2>2, <2>3, Zenon DEF ShownInv

(* A step other than a connection leaves what is shown as it is.            *)
LEMMA QuietStep ==
  ASSUME [Next]_vars, \A c \in clients : ~Connect(c)
  PROVE  UNCHANGED <<records, lost>>
<1> USE DEF files
<1>1. CASE HarnessStep
  BY <1>1, Zenon DEF HarnessStep, Gate, NothingToRun, OpenManifest, WriteMetadata, Spawn, PortOpen,
     PortClosed, ClientExits, Terminate, Waited, Kill, Return, WriteManifest
<1>2. CASE \E i \in Ids, u \in Availability : Start(i, u)
  BY <1>2, Zenon DEF Start
<1>3. CASE Crash \/ UNCHANGED vars
  BY <1>3, Zenon DEF Crash, vars
<1>4. CASE \E c \in clients : OrphanEnds(c)
  BY <1>4, Zenon DEF OrphanEnds
<1>5. CASE \E s \in procs : Bind(s) \/ ServerEnds(s)
  BY <1>5, Zenon DEF Bind, ServerEnds
<1> QED
  BY <1>1, <1>2, <1>3, <1>4, <1>5, Zenon DEF Next

(* A client starts with nothing measured.                                   *)
LEMMA ClientsStep ==
  ASSUME [Next]_vars, \A c \in clients : ~Connect(c)
  PROVE  \A c \in clients' : c \in clients \/ ~c.good
<1>1. CASE PortOpen
  <2>1. clients' = clients \cup {[id |-> id, run |-> run, cell |-> runnable[cell],
                                  claimed |-> 0, good |-> FALSE]}
    BY <1>1 DEF PortOpen
  <2>2. [id |-> id, run |-> run, cell |-> runnable[cell], claimed |-> 0, good |-> FALSE].good = FALSE
    OBVIOUS
  <2> QED
    BY <2>1, <2>2, Zenon
<1>2. CASE ClientExits \/ \E c \in clients : OrphanEnds(c)
  BY <1>2, Zenon DEF ClientExits, OrphanEnds
<1>3. CASE /\ ~PortOpen /\ ~ClientExits
           /\ HarnessStep \/ Crash \/ UNCHANGED vars
              \/ (\E i \in Ids, u \in Availability : Start(i, u))
              \/ (\E s \in procs : Bind(s) \/ ServerEnds(s))
  <2>1. clients' = clients
    BY <1>3, Zenon DEF HarnessStep, Gate, NothingToRun, OpenManifest, WriteMetadata, Spawn,
       PortClosed, Terminate, Waited, Kill, Return, WriteManifest, Start, Crash, Bind, ServerEnds,
       vars
  <2> QED
    BY <2>1, Zenon
<1> QED
  BY <1>1, <1>2, <1>3, Zenon DEF Next

(* A client ends well only when it has measured something.                  *)
LEMMA CodeStep ==
  ASSUME Types, ServerInv, ShownInv, [Next]_vars, \A c \in clients : ~Connect(c),
         pc' \in {"exit", "wait", "return"}, code' = 0
  PROVE  Shown(id, run, runnable[cell])'
<1>0. UNCHANGED <<records, lost>>
  BY QuietStep
<1>1. ASSUME UNCHANGED <<run, id, runnable, cell>>, Shown(id, run, runnable[cell])
      PROVE  Shown(id, run, runnable[cell])'
  BY <1>0, <1>1 DEF Shown
<1>2. ASSUME UNCHANGED <<pc, code>> \/ (pc \in {"exit", "wait", "return"} /\ code' = code)
      PROVE  Shown(id, run, runnable[cell])
  BY <1>2, Zenon DEF ShownInv
<1>3. CASE ClientExits
  <2>1. PICK c \in clients : c.run = run /\ code' \in {IF c.good THEN 0 ELSE 6, 124}
    BY <1>3 DEF ClientExits
  <2>2. c.good
    BY <2>1
  <2>3. pc = "client" /\ UNCHANGED <<run, id, runnable, cell>>
    BY <1>3 DEF ClientExits, plan
  <2>4. c.id = id /\ c.cell = runnable[cell]
    BY <2>1, <2>3 DEF ServerInv
  <2> QED
    BY <1>1, <2>1, <2>2, <2>3, <2>4, Zenon DEF ShownInv
<1>4. CASE Terminate \/ Waited \/ Kill
  <2>1. /\ UNCHANGED <<run, id, runnable, cell, code>> /\ pc \in {"exit", "wait", "return"}
    BY <1>4 DEF Terminate, Waited, Kill, plan
  <2> QED
    BY <1>1, <1>2, <2>1
<1>5. CASE PortClosed
  BY <1>5 DEF PortClosed
<1>6. CASE \/ Gate \/ NothingToRun \/ OpenManifest \/ WriteMetadata \/ Spawn \/ PortOpen
           \/ Return \/ WriteManifest \/ Crash
           \/ (\E i \in Ids, u \in Availability : Start(i, u))
  <2>1. pc' \in {"gate", "idle", "first", "spawn", "probe", "client", "write", "crashed"}
    BY <1>6, Zenon DEF Gate, NothingToRun, OpenManifest, WriteMetadata, Spawn, PortOpen, Return,
                WriteManifest, Crash, Start
  <2> QED
    BY <2>1
<1>7. CASE \/ (\E s \in procs : Bind(s) \/ ServerEnds(s)) \/ UNCHANGED vars
           \/ (\E c \in clients : OrphanEnds(c))
  <2>1. UNCHANGED <<run, id, runnable, cell, code, pc>>
    BY <1>7 DEF Bind, ServerEnds, OrphanEnds, vars, plan
  <2> QED
    BY <1>1, <1>2, <2>1
<1> QED
  BY <1>3, <1>4, <1>5, <1>6, <1>7, Zenon DEF Next, HarnessStep

(* A cell is put on the list as completed only when it is shown.            *)
LEMMA OutcomesStep ==
  ASSUME Types, ShownInv, [Next]_vars, \A d \in clients : ~Connect(d), NEW c \in DOMAIN Matrix,
         pc' \notin {"idle", "crashed"}, Completes(outcomes', c)
  PROVE  Shown(id, run, c)'
<1>0. UNCHANGED <<records, lost>>
  BY QuietStep
<1>1. ASSUME pc \notin {"idle", "crashed"}, UNCHANGED <<run, id>>, Completes(outcomes, c)
      PROVE  Shown(id, run, c)'
  <2>1. Shown(id, run, c)
    BY <1>1, Zenon DEF ShownInv
  <2> QED
    BY <1>0, <1>1, <2>1 DEF Shown
<1>2. ASSUME NEW j \in Ids, NEW u, Start(j, u) PROVE FALSE
  <2>1. outcomes' = <<>>
    BY <1>2 DEF Start
  <2> QED
    BY <2>1 DEF Completes
<1>3. CASE Gate
  <2>1. pc = "gate" /\ UNCHANGED <<run, id>> /\ outcomes \in Seq(Outcomes)
    BY <1>3 DEF Gate, Types, TypeOK
  <2>2. \/ outcomes' = outcomes
        \/ outcomes' = Append(outcomes, [cell |-> cell, status |-> "skipped"])
    BY <1>3, Zenon DEF Gate
  <2>3. ASSUME outcomes' = Append(outcomes, [cell |-> cell, status |-> "skipped"])
        PROVE  Completes(outcomes, c)
    <3>1. PICK o \in DOMAIN outcomes' : outcomes'[o].cell = c /\ outcomes'[o].status = "completed"
      BY DEF Completes
    <3>2. \/ o \in DOMAIN outcomes /\ outcomes'[o] = outcomes[o]
          \/ outcomes'[o] = [cell |-> cell, status |-> "skipped"]
      BY <2>1, <2>3, <3>1
    <3> QED
      BY <3>1, <3>2 DEF Completes
  <2> QED
    BY <1>1, <2>1, <2>2, <2>3
<1>4. CASE Return
  <2> DEFINE st == IF code = 0 THEN "completed" ELSE "failed"
  <2>1. /\ pc = "return" /\ UNCHANGED <<run, id, runnable, cell>>
        /\ outcomes' = Append(outcomes, [cell |-> runnable[cell], status |-> st])
    BY <1>4 DEF Return, plan
  <2>2. PICK o \in DOMAIN outcomes' : outcomes'[o].cell = c /\ outcomes'[o].status = "completed"
    BY DEF Completes
  <2>3. \/ o \in DOMAIN outcomes /\ outcomes'[o] = outcomes[o]
        \/ outcomes'[o] = [cell |-> runnable[cell], status |-> st]
    <3>1. outcomes \in Seq(Outcomes)
      BY DEF Types, TypeOK
    <3> QED
      BY <2>1, <2>2, <3>1
  <2>4. CASE o \in DOMAIN outcomes /\ outcomes'[o] = outcomes[o]
    BY <1>1, <2>1, <2>2, <2>4 DEF Completes
  <2>5. CASE outcomes'[o] = [cell |-> runnable[cell], status |-> st]
    <3>1. outcomes'[o].cell = runnable[cell] /\ outcomes'[o].status = st
      BY <2>5
    <3>2. st = "completed"
      BY <2>2, <3>1
    <3>3. c = runnable[cell] /\ code = 0
      BY <2>2, <3>1, <3>2
    <3>4. Shown(id, run, c)
      BY <2>1, <3>3, Zenon DEF ShownInv
    <3> QED
      BY <1>0, <2>1, <3>4, Zenon DEF Shown
  <2> QED
    BY <2>3, <2>4, <2>5
<1>5. CASE HarnessStep /\ ~Gate /\ ~Return
  <2>1. UNCHANGED <<run, id, outcomes>> /\ pc \notin {"idle", "crashed"}
    BY <1>5, Zenon DEF HarnessStep, NothingToRun, OpenManifest, WriteMetadata, Spawn, PortOpen,
       PortClosed, ClientExits, Terminate, Waited, Kill, WriteManifest, plan
  <2> QED
    BY <1>1, <2>1
<1>6. CASE \/ (\E s \in procs : Bind(s) \/ ServerEnds(s)) \/ UNCHANGED vars
           \/ (\E d \in clients : OrphanEnds(d))
  <2>1. UNCHANGED <<run, id, outcomes, pc>>
    BY <1>6 DEF Bind, ServerEnds, OrphanEnds, vars, plan
  <2> QED
    BY <1>1, <2>1
<1>7. CASE Crash
  BY <1>7 DEF Crash
<1> QED
  BY <1>2, <1>3, <1>4, <1>5, <1>6, <1>7 DEF Next

(* A manifest is written from the list, and otherwise emptied or left as it *)
(* is.                                                                      *)
LEMMA ManifestStep ==
  ASSUME Types, ShownInv, [Next]_vars, \A d \in clients : ~Connect(d),
         NEW i \in Ids, NEW c \in DOMAIN Matrix, Completes(manifest'[i].runs, c)
  PROVE  Shown(i, manifest[i].run, c)'
<1>0. UNCHANGED <<records, lost>>
  BY QuietStep
<1>1. CASE manifest'[i] = manifest[i]
  <2>1. Shown(i, manifest[i].run, c)
    BY <1>1, Zenon DEF ShownInv
  <2> QED
    BY <1>0, <1>1, <2>1, Zenon DEF Shown
<1>2. CASE i = id /\ manifest'[id].runs = <<>>
  BY <1>2 DEF Completes
<1>3. CASE WriteManifest /\ i = id /\ manifest'[id].run = run /\ manifest'[id].runs = outcomes
  <2>1. pc = "write" /\ Completes(outcomes, c) /\ manifest'[i].run = run
    BY <1>3, Zenon DEF WriteManifest, Completes
  <2>2. Shown(id, run, c)
    BY <2>1, Zenon DEF ShownInv
  <2> QED
    BY <1>0, <1>3, <2>1, <2>2, Zenon DEF Shown
<1> QED
  BY <1>1, <1>2, <1>3, ManifestIs, Zenon

(* What is called completed stays shown, through every step.                *)
LEMMA ShownStep ==
  ASSUME Types, ServerInv, ShownInv, [Next]_vars
  PROVE  ShownInv'
<1>1. CASE \E c \in clients : Connect(c)
  BY <1>1, ShownConnect
<1>2. CASE \A c \in clients : ~Connect(c)
  <2>1. UNCHANGED <<records, lost>>
    BY <1>2, QuietStep
  <2>2. \A c \in clients' : c.good => Shown(c.id, c.run, c.cell)'
    <3>1. ASSUME NEW c \in clients', c.good PROVE Shown(c.id, c.run, c.cell)'
      <4>1. c \in clients
        BY <1>2, <3>1, ClientsStep, Zenon
      <4>2. Shown(c.id, c.run, c.cell)
        BY <3>1, <4>1, Zenon DEF ShownInv
      <4> QED
        BY <2>1, <4>2 DEF Shown
    <3> QED
      BY <3>1
  <2>3. ((pc \in {"exit", "wait", "return"} /\ code = 0) => Shown(id, run, runnable[cell]))'
    BY <1>2, CodeStep
  <2>4. (pc \notin {"idle", "crashed"} =>
           \A c \in DOMAIN Matrix : Completes(outcomes, c) => Shown(id, run, c))'
    <3>1. ASSUME pc' \notin {"idle", "crashed"}, NEW c \in DOMAIN Matrix, Completes(outcomes', c)
          PROVE  Shown(id, run, c)'
      BY <1>2, <3>1, OutcomesStep
    <3> QED
      BY <3>1, Zenon DEF Completes
  <2>5. (\A i \in Ids, c \in DOMAIN Matrix :
           Completes(manifest[i].runs, c) => Shown(i, manifest[i].run, c))'
    <3>1. ASSUME NEW i \in Ids, NEW c \in DOMAIN Matrix, Completes(manifest'[i].runs, c)
          PROVE  Shown(i, manifest[i].run, c)'
      BY <1>2, <3>1, ManifestStep
    <3> QED
      BY <3>1, Zenon DEF Completes
  <2> QED
    BY <2>2, <2>3, <2>4, <2>5, Zenon DEF ShownInv
<1> QED
  BY <1>1, <1>2

---------------------------------------------------------------------------
(* The manifest is torn only while it is rewritten, or where an invocation  *)
(* was killed in between.                                                   *)
LEMMA FileStep ==
  ASSUME Types, FileInv, [Next]_vars
  PROVE  FileInv'
<1>0. /\ \A i \in Ids : manifest[i].run \in 0 .. run
      /\ run \in Nat /\ id \in Ids /\ cell \in Nat
  BY HarnessAssumption DEF Types, TypeOK
<1>1. ASSUME NEW j \in Ids, NEW u, Start(j, u) PROVE FileInv'
  <2>1. /\ manifest' = manifest /\ crashed' = crashed /\ run' = run + 1 /\ pc' = "gate"
        /\ id' \in Ids /\ pc \in {"idle", "crashed"}
    BY <1>1 DEF Start, files
  <2>2. \A i \in Ids : manifest'[i].run # run'
    BY <1>0, <2>1
  <2> QED
    BY <2>1, <2>2 DEF FileInv
<1>2. CASE OpenManifest \/ Return
  <2>1. /\ \A i \in Ids \ {id} : manifest'[i] = manifest[i]
        /\ manifest'[id].run = run /\ manifest'[id].whole = FALSE
    BY <1>2, ManifestIs, Zenon DEF OpenManifest, Return, WriteMetadata, WriteManifest
  <2>2. /\ manifest'[id].run = run /\ ~manifest'[id].whole
        /\ UNCHANGED <<run, id, crashed>> /\ pc \notin {"first", "write"}
        /\ (pc' = "first" /\ cell' = 1) \/ pc' = "write"
    BY <1>2, <2>1 DEF OpenManifest, Return, plan
  <2> QED
    BY <2>1, <2>2 DEF FileInv
<1>3. CASE WriteMetadata \/ WriteManifest
  <2>1. \A i \in Ids \ {id} : manifest'[i] = manifest[i]
    BY <1>3, ManifestIs, Zenon DEF OpenManifest, Return, WriteMetadata, WriteManifest
  <2>2. /\ manifest'[id].run = run /\ manifest'[id].whole
        /\ manifest'[id].runs = outcomes \/ (manifest'[id].runs = <<>> /\ cell' = 1)
    <3>1. CASE WriteMetadata
      <4>1. manifest'[id].run = run /\ manifest'[id].whole = TRUE /\ manifest'[id].runs = <<>>
        BY <3>1, ManifestIs, Zenon DEF OpenManifest, Return, WriteMetadata, WriteManifest
      <4>2. cell' = 1
        BY <3>1, Zenon DEF WriteMetadata, FileInv
      <4> QED
        BY <4>1, <4>2
    <3>2. CASE WriteManifest
      <4>1. manifest'[id].run = run /\ manifest'[id].whole = TRUE /\ manifest'[id].runs = outcomes
        BY <3>2, ManifestIs, Zenon DEF OpenManifest, Return, WriteMetadata, WriteManifest
      <4> QED
        BY <4>1
    <3> QED
      BY <1>3, <3>1, <3>2
  <2>3. UNCHANGED <<run, id, crashed, outcomes>> /\ pc' \in {"spawn", "idle"}
    BY <1>3, Zenon DEF WriteMetadata, WriteManifest, plan
  <2> QED
    BY <2>1, <2>2, <2>3 DEF FileInv
<1>4. CASE Gate
  <2>1. pc = "gate" /\ pc' = "gate" /\ UNCHANGED <<manifest, run, id, crashed>>
    BY <1>4 DEF Gate, files
  <2> QED
    BY <1>0, <2>1 DEF FileInv
<1>5. CASE \/ NothingToRun \/ Spawn \/ PortOpen \/ PortClosed
           \/ ClientExits \/ Terminate \/ Waited \/ Kill
  <2>1. /\ UNCHANGED <<manifest, run, id, crashed, outcomes, cell>>
        /\ pc \notin {"first", "write"} /\ pc' \notin {"gate", "first"}
    BY <1>5 DEF NothingToRun, Spawn, PortOpen, PortClosed, ClientExits, Terminate,
                Waited, Kill, plan, files
  <2> QED
    BY <2>1 DEF FileInv
<1>6. CASE Crash
  <2>1. /\ UNCHANGED <<manifest, run, id, outcomes, cell>> /\ crashed' = crashed \cup {run}
        /\ pc' = "crashed"
    BY <1>6 DEF Crash, plan, files
  <2> QED
    BY <2>1 DEF FileInv
<1>7. CASE \/ (\E s \in procs : Bind(s) \/ ServerEnds(s)) \/ UNCHANGED vars
           \/ (\E d \in clients : Connect(d) \/ OrphanEnds(d))
  <2>1. UNCHANGED <<pc, manifest, run, id, crashed, outcomes, cell>>
    BY <1>7, Zenon DEF Bind, ServerEnds, Connect, OrphanEnds, vars, plan, files
  <2> QED
    BY <2>1 DEF FileInv
<1> QED
  BY <1>1, <1>2, <1>3, <1>4, <1>5, <1>6, <1>7, Zenon DEF Next, HarnessStep

---------------------------------------------------------------------------
(* The invariant is inductive.                                              *)
LEMMA InvStep == IInv /\ [Next]_vars => IInv'
  BY TypesStep, ServerStep, PlanStep, ShownStep, FileStep DEF IInv

(* The harness stays within the invariant, killed and restarted at will.    *)
THEOREM HarnessInvariance == Spec => []IInv
  BY InitInv, InvStep, PTL DEF Spec

(* A record names the server of its own cell, unless its client or that     *)
(* server was left by an invocation that was killed: ServerProcess.__exit__ *)
(* sees to it that none outlives its cell otherwise.                        *)
THEOREM HarnessStaleOnlyAfterCrash == Spec => []StaleOnlyAfterCrash
<1>1. IInv => StaleOnlyAfterCrash
  BY DEF IInv, ServerInv
<1> QED
  BY <1>1, HarnessInvariance, PTL

(* The manifest is right whenever the harness is killed and however often   *)
(* an experiment is run again: what it calls completed has a record of its  *)
(* own invocation, on disk or lost to it, a finished invocation lists every *)
(* cell of the matrix once, and a manifest that is whole lacks no cell but  *)
(* the one in flight.                                                       *)
THEOREM HarnessManifestRight == Spec => []ManifestRight
<1>1. IInv => ManifestRight
  <2> SUFFICES ASSUME IInv PROVE ManifestRight
    OBVIOUS
  <2>1. TypeOK
    BY DEF IInv, Types
  <2>2. ASSUME NEW i \in Ids, NEW o \in DOMAIN manifest[i].runs,
               manifest[i].runs[o].status = "completed"
        PROVE  Shown(i, manifest[i].run, manifest[i].runs[o].cell)
    <3>1. manifest[i].runs[o].cell \in DOMAIN Matrix
      <4>1. manifest[i].runs \in Seq(Outcomes)
        BY <2>1 DEF TypeOK
      <4>2. manifest[i].runs[o] \in Outcomes
        BY <2>2, <4>1
      <4> QED
        BY <4>2 DEF Outcomes
    <3> QED
      BY <2>2, <3>1 DEF IInv, ShownInv, Completes
  <2>3. (pc = "idle" /\ runnable # <<>>) =>
          /\ manifest[id].run = run /\ Len(manifest[id].runs) = Len(Matrix)
          /\ {manifest[id].runs[o].cell : o \in DOMAIN manifest[id].runs} = DOMAIN Matrix
    BY Zenon DEF IInv, PlanInv, Listed
  <2>4. /\ \A i \in Ids : ~manifest[i].whole =>
             \/ manifest[i].run = run /\ pc \in {"first", "write"}
             \/ manifest[i].run \in crashed
        /\ (manifest[id].run = run /\ run > 0 /\ manifest[id].whole) =>
             manifest[id].runs = outcomes \/ (manifest[id].runs = <<>> /\ cell = 1)
    BY Zenon DEF IInv, FileInv
  <2> QED
    BY <2>1, <2>2, <2>3, <2>4, Zenon DEF ManifestRight, Shown
<1> QED
  BY <1>1, HarnessInvariance, PTL
=============================================================================
