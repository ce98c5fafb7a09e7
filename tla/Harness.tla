------------------------------ MODULE Harness ------------------------------
(***************************************************************************)
(* scripts/run-benchmarks.py: the matrix of benchmark cells, one server     *)
(* process and one client process per cell, the port probe between them,    *)
(* and the manifest rewritten after every cell.  The harness itself may be  *)
(* killed between any two steps and started again; the server and the       *)
(* client it spawned outlive it.                                            *)
(***************************************************************************)
EXTENDS Integers, Sequences, FiniteSets

CONSTANTS Matrix,        \* the cells, in order: [profile, payload]
          Availability,  \* the sets of profiles that `pqtls-client capabilities` may
                         \* report usable to an invocation
          Ids,           \* experiment ids an invocation may be given
          Warmups,       \* --warmup: connections before the measured ones of a cell
          Connections,   \* measured connections per cell
          MaxRuns,       \* bound: invocations of the harness
          MaxCrashes,    \* bound: invocations that are killed
          Nobody         \* no server process

ASSUME HarnessAssumption ==
  /\ Len(Matrix) \in Nat /\ DOMAIN Matrix = 1 .. Len(Matrix)
  /\ Warmups \in Nat /\ Connections \in Nat \ {0} /\ MaxRuns \in Nat
  /\ MaxCrashes \in Nat

VARIABLES pc,         \* the statement the harness is at; "idle" when none runs
          run,        \* invocations so far; the number of the current one
          id,         \* its experiment id
          usable,     \* the profiles reported usable to it
          runnable,   \* the runnable list: cells of the matrix, by their position
          cell,       \* at the gate the next cell of the matrix, then the position in
                      \* runnable of the cell being measured
          code,       \* exit code of the cell's client, or of the attempt to run it
          outcomes,   \* the outcomes list: [cell, status] in order
          procs,      \* live server processes, <<run, cell>>
          bound,      \* servers that have called bind()
          listener,   \* the server that holds the port
          clients,    \* live client processes: [id, run, cell], the connections claimed,
                      \* and whether a measured one succeeded
          manifest,   \* manifest file of each id: the invocation that opened it last (0:
                      \* there is no file), whether it is whole or truncated and not yet
                      \* written, and the outcomes it lists
          records,    \* on disk, the client records of connections that succeeded
          lost,       \* history: the <<run, cell>> of such records that did not reach the disk
          crashed     \* history: invocations that were killed

plan == <<run, id, usable, runnable>>
servers == <<procs, bound, listener>>
files == <<manifest, records, lost>>
vars == <<pc, plan, cell, code, outcomes, servers, clients, files, crashed>>

(* The server process of the cell in flight.                                *)
Own == <<run, runnable[cell]>>

Init ==
  /\ pc = "idle" /\ run = 0 /\ id \in Ids /\ usable = {} /\ runnable = <<>>
  /\ cell = 1 /\ code = 0
  /\ outcomes = <<>>
  /\ procs = {} /\ bound = {} /\ listener = Nobody
  /\ clients = {}
  /\ manifest = [i \in Ids |-> [run |-> 0, whole |-> TRUE, runs |-> <<>>]]
  /\ records = {} /\ lost = {} /\ crashed = {}

---------------------------------------------------------------------------
(* The harness.                                                             *)

(* An invocation: the client is asked for its capabilities, and the matrix  *)
(* is built.                                                                *)
Start(i, u) ==
  /\ pc \in {"idle", "crashed"} /\ run < MaxRuns
  /\ run' = run + 1 /\ id' = i /\ usable' = u /\ runnable' = <<>>
  /\ cell' = 1 /\ code' = 0 /\ outcomes' = <<>>
  /\ pc' = "gate"
  /\ UNCHANGED <<servers, clients, files, crashed>>

(* The capability gate: a cell whose profile is not usable is skipped.      *)
Gate ==
  /\ pc = "gate" /\ cell <= Len(Matrix)
  /\ \/ /\ Matrix[cell].profile \in usable
        /\ runnable' = Append(runnable, cell) /\ UNCHANGED outcomes
     \/ /\ Matrix[cell].profile \notin usable
        /\ outcomes' = Append(outcomes, [cell |-> cell, status |-> "skipped"])
        /\ UNCHANGED runnable
  /\ cell' = cell + 1
  /\ UNCHANGED <<pc, run, id, usable, code, servers, clients, files, crashed>>

(* No cell is runnable: an error, and no manifest.                          *)
NothingToRun ==
  /\ pc = "gate" /\ cell > Len(Matrix) /\ runnable = <<>>
  /\ pc' = "idle"
  /\ UNCHANGED <<plan, cell, code, outcomes, servers, clients, files, crashed>>

(* The manifest is opened, and truncated.                                   *)
OpenManifest ==
  /\ pc = "gate" /\ cell > Len(Matrix) /\ runnable # <<>>
  /\ manifest' = [manifest EXCEPT ![id] = [run |-> run, whole |-> FALSE, runs |-> <<>>]]
  /\ cell' = 1 /\ pc' = "first"
  /\ UNCHANGED <<plan, code, outcomes, servers, clients, records, lost, crashed>>

(* The first manifest has the metadata and an empty list of runs.           *)
WriteMetadata ==
  /\ pc = "first"
  /\ manifest' = [manifest EXCEPT ![id] = [run |-> run, whole |-> TRUE, runs |-> <<>>]]
  /\ pc' = "spawn"
  /\ UNCHANGED <<plan, cell, code, outcomes, servers, clients, records, lost, crashed>>

(* ServerProcess.__enter__: the process is started, and the port probed.    *)
Spawn ==
  /\ pc = "spawn"
  /\ procs' = procs \cup {Own}
  /\ pc' = "probe"
  /\ UNCHANGED <<plan, cell, code, outcomes, bound, listener, clients, files, crashed>>

(* wait_for_port: something accepts, and the client is started; or fifteen  *)
(* seconds pass.                                                            *)
PortOpen ==
  /\ pc = "probe" /\ listener # Nobody
  /\ clients' = clients \cup {[id |-> id, run |-> run, cell |-> runnable[cell],
                               claimed |-> 0, good |-> FALSE]}
  /\ code' = 0 /\ pc' = "client"
  /\ UNCHANGED <<plan, cell, outcomes, servers, files, crashed>>

PortClosed ==
  /\ pc = "probe"
  /\ code' = -1 /\ pc' = "exit"
  /\ UNCHANGED <<plan, cell, outcomes, servers, clients, files, crashed>>

(* The client ends: well when some measured connection succeeded, however   *)
(* many failed, were given up by a worker that could not be set up, or left *)
(* no record.  At the timeout it is killed.                                 *)
ClientExits ==
  /\ pc = "client"
  /\ \E c \in clients :
       /\ c.run = run
       /\ clients' = clients \ {c}
       /\ code' \in {IF c.good THEN 0 ELSE 6, 124}
  /\ pc' = "exit"
  /\ UNCHANGED <<plan, cell, outcomes, servers, files, crashed>>

(* ServerProcess.__exit__: a server still alive is asked to stop, and       *)
(* killed when it does not within ten seconds.                              *)
Terminate ==
  /\ pc = "exit"
  /\ pc' = IF Own \in procs THEN "wait" ELSE "return"
  /\ UNCHANGED <<plan, cell, code, outcomes, servers, clients, files, crashed>>

Waited ==
  /\ pc = "wait" /\ Own \notin procs
  /\ pc' = "return"
  /\ UNCHANGED <<plan, cell, code, outcomes, servers, clients, files, crashed>>

(* A process is gone, and the port with it if it held it.                   *)
Reap(s) ==
  /\ procs' = procs \ {s} /\ bound' = bound \ {s}
  /\ listener' = IF listener = s THEN Nobody ELSE listener

\* Mutant: the harness does not kill a server that will not stop.
KillGivesUp ==
  /\ pc = "wait" /\ Own \in procs
  /\ pc' = "return"
  /\ UNCHANGED <<plan, cell, code, outcomes, servers, clients, files, crashed>>

\* Mutant: nothing happens when the ten seconds have passed.
KillNever == FALSE /\ UNCHANGED vars

Kill ==
  /\ pc = "wait" /\ Own \in procs
  /\ Reap(Own)
  /\ pc' = "return"
  /\ UNCHANGED <<plan, cell, code, outcomes, clients, files, crashed>>

\* Mutant: the exit code of the client is not looked at.
ReturnCompleted ==
  /\ pc = "return"
  /\ outcomes' = Append(outcomes, [cell |-> runnable[cell], status |-> "completed"])
  /\ manifest' = [manifest EXCEPT ![id] = [run |-> run, whole |-> FALSE, runs |-> <<>>]]
  /\ code' = 0 /\ pc' = "write"
  /\ UNCHANGED <<plan, cell, servers, clients, records, lost, crashed>>

(* run_one returns, its outcome is listed, and the manifest is truncated.   *)
Return ==
  /\ pc = "return"
  /\ outcomes' = Append(outcomes,
       [cell |-> runnable[cell], status |-> IF code = 0 THEN "completed" ELSE "failed"])
  /\ manifest' = [manifest EXCEPT ![id] = [run |-> run, whole |-> FALSE, runs |-> <<>>]]
  /\ code' = 0 /\ pc' = "write"
  /\ UNCHANGED <<plan, cell, servers, clients, records, lost, crashed>>

(* The manifest is written with every outcome; the next cell follows, or    *)
(* the summary and the end.                                                 *)
WriteManifest ==
  /\ pc = "write"
  /\ manifest' = [manifest EXCEPT ![id] = [run |-> run, whole |-> TRUE, runs |-> outcomes]]
  /\ IF cell < Len(runnable) THEN cell' = cell + 1 /\ pc' = "spawn"
                             ELSE cell' = cell /\ pc' = "idle"
  /\ UNCHANGED <<plan, code, outcomes, servers, clients, records, lost, crashed>>

(* The harness is killed, or an exception run_one does not handle (the      *)
(* second wait for a killed server, a full disk) ends it.  What it wrote    *)
(* and what it spawned stays.                                               *)
Crash ==
  /\ pc \notin {"idle", "crashed"} /\ Cardinality(crashed) < MaxCrashes
  /\ pc' = "crashed" /\ code' = 0 /\ crashed' = crashed \cup {run}
  /\ UNCHANGED <<plan, cell, outcomes, servers, clients, files>>

---------------------------------------------------------------------------
(* The client and server processes, as the harness sees them.               *)

(* A client runs a connection, to whatever holds the port: its warm-ups     *)
(* first, then those it measures.  Both leave a record, unless the stream   *)
(* of the metrics file has failed.                                          *)
Connect(c) ==
  /\ c.claimed < Warmups + Connections
  /\ \/ /\ UNCHANGED <<records, lost>>
        /\ clients' = (clients \ {c}) \cup {[c EXCEPT !.claimed = @ + 1]}
     \/ /\ listener # Nobody
        /\ \/ /\ records' = records \cup
                   {[id |-> c.id, run |-> c.run, cell |-> c.cell, by |-> listener]}
              /\ UNCHANGED lost
           \/ lost' = lost \cup {<<c.run, c.cell>>} /\ UNCHANGED records
        /\ clients' = (clients \ {c}) \cup
             {[c EXCEPT !.claimed = @ + 1, !.good = @ \/ c.claimed >= Warmups]}
  /\ UNCHANGED <<pc, plan, cell, code, outcomes, servers, manifest, crashed>>

(* A client that outlived its harness ends.                                 *)
OrphanEnds(c) ==
  /\ c.run # run \/ pc = "crashed"
  /\ clients' = clients \ {c}
  /\ UNCHANGED <<pc, plan, cell, code, outcomes, servers, files, crashed>>

(* A server binds the port, or finds it taken and exits.                    *)
Bind(s) ==
  /\ s \in procs \ bound
  /\ IF listener = Nobody
     THEN listener' = s /\ bound' = bound \cup {s} /\ procs' = procs
     ELSE Reap(s)
  /\ UNCHANGED <<pc, plan, cell, code, outcomes, clients, files, crashed>>

(* A server ends: the signal, a failure to start, or the operator.          *)
ServerEnds(s) ==
  /\ s \in procs
  /\ Reap(s)
  /\ UNCHANGED <<pc, plan, cell, code, outcomes, clients, files, crashed>>

HarnessStep ==
  \/ Gate \/ NothingToRun \/ OpenManifest \/ WriteMetadata \/ Spawn \/ PortOpen \/ PortClosed
  \/ ClientExits \/ Terminate \/ Waited \/ Kill \/ Return \/ WriteManifest

Next ==
  \/ \E i \in Ids, u \in Availability : Start(i, u)
  \/ HarnessStep \/ Crash
  \/ \E c \in clients : Connect(c) \/ OrphanEnds(c)
  \/ \E s \in procs : Bind(s) \/ ServerEnds(s)

Spec == Init /\ [][Next]_vars

(* The harness is an ordinary process: while it lives it takes its steps,   *)
(* each bounded by a timeout of its own.                                    *)
FairSpec == Spec /\ WF_vars(HarnessStep)

---------------------------------------------------------------------------
Stages == {"idle", "gate", "first", "spawn", "probe", "client", "exit", "wait", "return",
           "write", "crashed"}
Measuring == {"first", "spawn", "probe", "client", "exit", "wait", "return", "write"}
Servers == (1 .. MaxRuns) \X DOMAIN Matrix
Outcomes == [cell : DOMAIN Matrix, status : {"completed", "failed", "skipped"}]

(* The values of the harness, of the processes and of the files.            *)
TypeOK ==
  /\ pc \in Stages /\ run \in 0 .. MaxRuns /\ id \in Ids
  /\ runnable \in Seq(DOMAIN Matrix)
  /\ cell \in 1 .. Len(Matrix) + 1 /\ (pc \in Measuring => cell \in DOMAIN runnable)
  /\ code \in {-1, 0, 6, 124}
  /\ outcomes \in Seq(Outcomes)
  /\ procs \subseteq Servers
  /\ bound \subseteq procs /\ listener \in bound \cup {Nobody}
  /\ \A c \in clients : c.claimed \in 0 .. Warmups + Connections /\ c.good \in BOOLEAN
  /\ \A i \in Ids : /\ manifest[i].run \in 0 .. run
                    /\ manifest[i].whole \in BOOLEAN /\ manifest[i].runs \in Seq(Outcomes)
  /\ crashed \subseteq 1 .. run

(* A record was measured against the server of its own cell, unless the     *)
(* client that wrote it or the server it met was left by an invocation that *)
(* was killed: no server of the same or of a finished invocation outlives   *)
(* its cell.                                                                *)
StaleOnlyAfterCrash ==
  \A r \in records : r.by = <<r.run, r.cell>> \/ {r.run, r.by[1]} \cap crashed # {}

(* A cell the manifest calls completed has, from the very invocation that   *)
(* wrote the manifest, the record of a connection that succeeded, or one    *)
(* that the disk did not take.  An invocation that found a cell to run and  *)
(* ran to its end lists every cell of the matrix once.  Once the first cell *)
(* of an invocation has ended, what the manifest lists is all that is known *)
(* of every cell but the one in flight, whenever it is read, unless the     *)
(* invocation was killed after truncating the file and before writing it.   *)
ManifestRight ==
  /\ TypeOK
  /\ \A i \in Ids : \A o \in DOMAIN manifest[i].runs :
       manifest[i].runs[o].status = "completed" =>
         LET r == manifest[i].run  c == manifest[i].runs[o].cell
         IN  <<r, c>> \in lost \/ \E by \in Servers :
               [id |-> i, run |-> r, cell |-> c, by |-> by] \in records
  /\ (pc = "idle" /\ runnable # <<>>) =>
       /\ manifest[id].run = run /\ Len(manifest[id].runs) = Len(Matrix)
       /\ {manifest[id].runs[o].cell : o \in DOMAIN manifest[id].runs} = DOMAIN Matrix
  /\ \A i \in Ids : ~manifest[i].whole =>
       \/ manifest[i].run = run /\ pc \in {"first", "write"}
       \/ manifest[i].run \in crashed
  /\ (manifest[id].run = run /\ run > 0 /\ manifest[id].whole) =>
       manifest[id].runs = outcomes \/ (manifest[id].runs = <<>> /\ cell = 1)

(* Every invocation ends, even when a server ignores the signal or a client *)
(* never returns.                                                           *)
HarnessEnds == (pc # "idle") ~> (pc \in {"idle", "crashed"})
=============================================================================
