-------------------------- MODULE Measurement_proofs --------------------------
(* Proofs about a measurement.  run_benchmark: for any number of connections,  *)
(* warm-ups and threads, no connection is lost or counted twice, and the       *)
(* summary agrees with the metrics file.  The network conditions under which   *)
(* it runs: for any interfaces and any MTU values, what apply-netem.sh changes *)
(* can be found and undone, wherever a script was interrupted.                 *)
EXTENDS Benchmark, Netem, FiniteSetTheorems, TLAPS

(* What the position of a worker says.  A worker that has not got past its      *)
(* setup is in its warm-up and has read no counter; the exchange is tried on a  *)
(* counter that was above zero; a worker is done, or holds abandoned connections, only once the        *)
(* measured pool is empty; and threads start in order.                          *)
Positions ==
    /\ \A t \in Threads :
          /\ pc[t] \in {"new", "setup", "abandon"} => stage[t] = "warm"
          /\ pc[t] = "count" => stage[t] = "measured"
          /\ pc[t] \in {"new", "setup"} => seen[t] = 0
          /\ pc[t] \in {"cas", "run"} => seen[t] > 0
          /\ pc[t] \in {"abandon", "done"} => left["measured"] = 0
          /\ held[t] # 0 => pc[t] = "abandon"
          /\ t > spawned => pc[t] = "new"
          /\ stage[t] = "measured" => session[t] # "warm"
    /\ main = "returned" => \A t \in Threads : pc[t] \in Ended
    /\ <<"measured", "warm">> \notin offers

Counting == {t \in Threads : pc[t] = "count"}

(* Conservation without the types.                                             *)
Balanced ==
    \/ Settled = Connections /\ \A t \in Threads : held[t] = 0
    \/ \E t \in Threads :
          /\ pc[t] = "abandon"
          /\ Settled + held[t] = Connections
          /\ \A u \in Threads \ {t} : held[u] = 0

(* The records in the file are those of the connections counted and of the     *)
(* warm-ups made.                                                              *)
Agreed == written + unrun + left["warm"] + Cardinality(WarmingUp)
            = successful + failed + Cardinality(Counting) + Warmups

IInv == TypeOK /\ Positions /\ Balanced /\ Agreed

-----------------------------------------------------------------------------

(* The threads are finitely many and numbered from one.                        *)
LEMMA ThreadsFinite ==
    /\ IsFiniteSet(Threads)
    /\ Cardinality(Threads) \in Nat
    /\ Threads = 1 .. Cardinality(Threads)
<1> DEFINE n == IF Concurrency <= Connections THEN Concurrency ELSE Connections
<1>1. n \in Nat \ {0}
  BY BenchmarkAssumption
<1>2. Threads = 1 .. n
  BY DEF Threads
<1> HIDE DEF n
<1> QED
  BY <1>1, <1>2, FS_Interval

(* Sets of threads are finite, and one thread more or less counts for one.     *)
LEMMA CountThreads ==
    ASSUME NEW S, S \subseteq Threads, NEW t \in Threads
    PROVE  /\ Cardinality(S) \in Nat
           /\ t \notin S => Cardinality(S \cup {t}) = Cardinality(S) + 1
           /\ t \in S => Cardinality(S \ {t}) = Cardinality(S) - 1
<1>1. IsFiniteSet(S)
  BY ThreadsFinite, FS_Subset
<1> QED
  BY <1>1, FS_CardinalityType, FS_AddElement, FS_RemoveElement

(* Every step keeps the types.                                                 *)
LEMMA TypeStep == ASSUME TypeOK, Positions, Next PROVE TypeOK'
<1> USE DEF TypeOK, shared, results, PC, Stages
<1>1. CASE Spawn
  BY <1>1, ThreadsFinite DEF Spawn
<1>2. CASE SpawnFails \/ SpawnedAll \/ Join \/ Terminated
  BY <1>2 DEF SpawnFails, SpawnedAll, Join, Terminated, vars
<1>3. ASSUME NEW t \in Threads, Setup(t) \/ SetupFails(t) \/ Die(t) PROVE TypeOK'
  BY <1>3 DEF Setup, SetupFails, Die
<1>4. ASSUME NEW t \in Threads, Abandon(t) PROVE TypeOK'
  BY <1>4 DEF Abandon
<1>5. ASSUME NEW t \in Threads, Load(t) \/ CasFails(t) PROVE TypeOK'
  BY <1>5 DEF Load, CasFails, Observe, Drained
<1>6. ASSUME NEW t \in Threads, Cas(t) PROVE TypeOK'
  BY <1>6 DEF Cas, Runs, Positions
<1>7. ASSUME NEW t \in Threads, Run(t) PROVE TypeOK'
  BY <1>7 DEF Run
<1>8. ASSUME NEW t \in Threads, Count(t) PROVE TypeOK'
  BY <1>8 DEF Count
<1> QED
  BY <1>1, <1>2, <1>3, <1>4, <1>5, <1>6, <1>7, <1>8 DEF Next, WorkerStep

(* Every step keeps what the positions say.                                    *)
LEMMA PositionsStep == ASSUME TypeOK, Positions, Next PROVE Positions'
<1> USE DEF TypeOK, Positions, shared, results, PC, Stages, Ended, Runs
<1>1. CASE Spawn
  BY <1>1, ThreadsFinite DEF Spawn
<1>2. CASE SpawnFails \/ SpawnedAll \/ Join \/ Terminated
  BY <1>2 DEF SpawnFails, SpawnedAll, Join, Terminated, vars
<1>3. ASSUME NEW t \in Threads, Setup(t) \/ SetupFails(t) \/ Die(t) PROVE Positions'
  BY <1>3 DEF Setup, SetupFails, Die
<1>4. ASSUME NEW t \in Threads, Abandon(t) PROVE Positions'
  BY <1>4 DEF Abandon
<1>5. ASSUME NEW t \in Threads, Load(t) \/ CasFails(t) PROVE Positions'
  BY <1>5 DEF Load, CasFails, Observe, Drained
<1>6. ASSUME NEW t \in Threads, Cas(t) PROVE Positions'
  BY <1>6 DEF Cas
<1>7. ASSUME NEW t \in Threads, Run(t) PROVE Positions'
  BY <1>7 DEF Run
<1>8. ASSUME NEW t \in Threads, Count(t) PROVE Positions'
  BY <1>8 DEF Count
<1> QED
  BY <1>1, <1>2, <1>3, <1>4, <1>5, <1>6, <1>7, <1>8 DEF Next, WorkerStep

-----------------------------------------------------------------------------

(* The four sets that are counted, and what a step does to their sizes.       *)
LEMMA Sizes ==
    ASSUME TypeOK
    PROVE  /\ Cardinality(Claimed) \in Nat /\ Cardinality(Lost) \in Nat
           /\ Cardinality(Counting) \in Nat /\ Cardinality(WarmingUp) \in Nat
<1>1. \A S \in SUBSET Threads : Cardinality(S) \in Nat
  BY ThreadsFinite, FS_Subset, FS_CardinalityType
<1> QED
  BY <1>1 DEF Claimed, Lost, Counting, WarmingUp

(* The thread that is started next was not started before.                     *)
LEMMA NextThread ==
    ASSUME TypeOK, Positions, Spawn
    PROVE  spawned + 1 \in Threads /\ pc[spawned + 1] = "new"
<1>1. spawned + 1 \in Threads
  BY ThreadsFinite DEF Spawn, TypeOK
<1>2. spawned + 1 > spawned
  BY DEF TypeOK
<1> QED
  BY <1>1, <1>2 DEF Positions

(* The calling thread moves no connection: the sets stay as they are.          *)
LEMMA QuietMain ==
    ASSUME TypeOK, Positions, Spawn \/ SpawnFails \/ SpawnedAll \/ Join \/ Terminated
    PROVE  /\ Claimed' = Claimed /\ Lost' = Lost
           /\ Counting' = Counting /\ WarmingUp' = WarmingUp
<1>1. CASE Spawn
  <2>1. \A t \in Threads : pc'[t] = IF t = spawned + 1 THEN "setup" ELSE pc[t]
    BY <1>1 DEF Spawn, TypeOK
  <2>2. stage' = stage /\ seen' = seen
    BY <1>1 DEF Spawn
  <2> QED
    BY <1>1, <2>1, <2>2, NextThread DEF Claimed, Lost, Counting, WarmingUp
<1>2. CASE SpawnFails \/ SpawnedAll \/ Join \/ Terminated
  BY <1>2 DEF SpawnFails, SpawnedAll, Join, Terminated, vars, Claimed, Lost, Counting, WarmingUp
<1> QED
  BY <1>1, <1>2

(* So do the steps of a worker before it claims a connection.                  *)
LEMMA QuietWorker ==
    ASSUME TypeOK, Positions, NEW t \in Threads,
           Setup(t) \/ SetupFails(t) \/ Abandon(t) \/ Load(t) \/ CasFails(t)
    PROVE  /\ Claimed' = Claimed /\ Lost' = Lost
           /\ Counting' = Counting /\ WarmingUp' = WarmingUp
<1> USE DEF TypeOK, Positions, shared, results, PC, Stages, Claimed, Lost, Counting, WarmingUp, Runs
<1>1. CASE Setup(t) \/ SetupFails(t) \/ Abandon(t)
  BY <1>1 DEF Setup, SetupFails, Abandon
<1>2. CASE Load(t) \/ CasFails(t)
  BY <1>2 DEF Load, CasFails, Observe, Drained
<1> QED
  BY <1>1, <1>2

(* A claim of a warm-up and the warm-up itself move the worker in and out of   *)
(* those that are warming up, and nothing else.                                *)
LEMMA WarmWorker ==
    ASSUME TypeOK, Positions, NEW t \in Threads, stage[t] = "warm", Cas(t) \/ Run(t) \/ Die(t)
    PROVE  /\ Claimed' = Claimed /\ Lost' = Lost /\ Counting' = Counting
           /\ Cas(t) => t \notin WarmingUp /\ WarmingUp' = WarmingUp \cup {t}
           /\ Run(t) => t \in WarmingUp /\ WarmingUp' = WarmingUp \ {t}
           /\ Die(t) => WarmingUp' = WarmingUp
<1> USE DEF TypeOK, Positions, shared, results, PC, Stages, Claimed, Lost, Counting, WarmingUp, Runs
<1>1. CASE Cas(t)
  BY <1>1 DEF Cas, Run, Die
<1>2. CASE Run(t)
  BY <1>2 DEF Cas, Run, Die
<1>3. CASE Die(t)
  BY <1>3 DEF Cas, Run, Die
<1> QED
  BY <1>1, <1>2, <1>3

(* Every connection stays in exactly one place, and a record stays matched to  *)
(* a count.                                                                    *)
LEMMA BalanceStep == ASSUME IInv, Next PROVE Balanced' /\ Agreed'
<1> USE DEF IInv
<1>0. TypeOK' /\ Positions'
  BY TypeStep, PositionsStep
<1>s. /\ Cardinality(Claimed) \in Nat /\ Cardinality(Lost) \in Nat
      /\ Cardinality(Counting) \in Nat /\ Cardinality(WarmingUp) \in Nat
      /\ Warmups \in Nat
  BY Sizes, BenchmarkAssumption
<1> DEFINE Quiet == /\ Claimed' = Claimed /\ Lost' = Lost
                    /\ Counting' = Counting /\ WarmingUp' = WarmingUp
<1>1. CASE Spawn
  <2>1. Quiet
    BY <1>1, QuietMain
  <2>2. UNCHANGED <<held, left, successful, failed, unrun, written>>
    BY <1>1 DEF Spawn, shared, results
  <2>3. \A t \in Threads : pc[t] = "abandon" => pc'[t] = "abandon"
    BY <1>1, NextThread DEF Spawn, TypeOK
  <2> QED
    BY <2>1, <2>2, <2>3 DEF Balanced, Agreed, Settled
<1>2. CASE SpawnFails \/ SpawnedAll \/ Join \/ Terminated
  <2>1. Quiet
    BY <1>2, QuietMain
  <2> QED
    BY <1>2, <2>1 DEF SpawnFails, SpawnedAll, Join, Terminated, vars, shared, results, Balanced,
                      Agreed, Settled
<1>3. ASSUME NEW t \in Threads, Setup(t) \/ Load(t) \/ CasFails(t)
      PROVE  Balanced' /\ Agreed'
  <2>1. Quiet
    BY <1>3, QuietWorker
  <2>2. UNCHANGED <<held, successful, failed, unrun>>
    BY <1>3 DEF Setup, Load, CasFails, Observe, shared, results
  <2>3. left' = left /\ written' = written
    BY <1>3 DEF Setup, Load, CasFails, Observe, shared, results, TypeOK, Stages
  <2>4. \A u \in Threads : pc[u] = "abandon" => pc'[u] = "abandon"
    BY <1>3 DEF Setup, Load, CasFails, Observe, Drained, Runs, TypeOK
  <2> QED
    BY <2>1, <2>2, <2>3, <2>4 DEF Balanced, Agreed, Settled
<1>4. ASSUME NEW t \in Threads, stage[t] = "warm", Cas(t) \/ Run(t) \/ Die(t)
      PROVE  Balanced' /\ Agreed'
  <2> USE DEF TypeOK, Stages, shared, results, Runs, PC
  <2>1. Claimed' = Claimed /\ Lost' = Lost /\ Counting' = Counting
    BY <1>4, WarmWorker
  <2>2. UNCHANGED <<held, successful, failed, unrun>>
    BY <1>4 DEF Cas, Run, Die
  <2>3. left'["measured"] = left["measured"]
    BY <1>4 DEF Cas, Run, Die
  <2>4. \A u \in Threads : pc[u] = "abandon" => pc'[u] = "abandon"
    BY <1>4 DEF Cas, Run, Die
  <2>5. Balanced'
    BY <2>1, <2>2, <2>3, <2>4 DEF Balanced, Settled
  <2>6. Agreed'
    <3>1. CASE Cas(t)
      <4>1. t \notin WarmingUp /\ WarmingUp' = WarmingUp \cup {t}
        BY <1>4, <3>1, WarmWorker
      <4>2. Cardinality(WarmingUp') = Cardinality(WarmingUp) + 1
        BY <4>1, CountThreads DEF WarmingUp
      <4>3. left'["warm"] = left["warm"] - 1 /\ written' = written
        BY <1>4, <3>1 DEF Cas
      <4> QED
        BY <1>s, <2>1, <2>2, <4>2, <4>3 DEF Agreed
    <3>2. CASE Run(t)
      <4>1. t \in WarmingUp /\ WarmingUp' = WarmingUp \ {t}
        BY <1>4, <3>2, WarmWorker
      <4>2. Cardinality(WarmingUp') = Cardinality(WarmingUp) - 1
        BY <4>1, CountThreads DEF WarmingUp
      <4>3. left' = left /\ written' = written + 1
        BY <3>2 DEF Run
      <4> QED
        BY <1>s, <2>1, <2>2, <4>2, <4>3 DEF Agreed
    <3>3. CASE Die(t)
      <4>1. WarmingUp' = WarmingUp
        BY <1>4, <3>3, WarmWorker
      <4>2. left' = left /\ written' = written
        BY <3>3 DEF Die
      <4> QED
        BY <2>1, <2>2, <4>1, <4>2 DEF Agreed
    <3> QED
      BY <1>4, <3>1, <3>2, <3>3
  <2> QED
    BY <2>5, <2>6
<1>5. ASSUME NEW t \in Threads, SetupFails(t) PROVE Balanced' /\ Agreed'
  <2>1. Quiet
    BY <1>5, QuietWorker
  <2>2. /\ UNCHANGED <<successful, failed, unrun, written>>
        /\ left'["measured"] = 0 /\ left["measured"] \in Nat /\ left'["warm"] = left["warm"]
        /\ held' = [held EXCEPT ![t] = left["measured"]] /\ held[t] = 0
        /\ pc'[t] = "abandon" /\ \A u \in Threads \ {t} : pc'[u] = pc[u]
    BY <1>5 DEF SetupFails, Runs, shared, results, TypeOK, Positions, Stages
  <2>3. Agreed'
    BY <2>1, <2>2 DEF Agreed
  <2>4. CASE Settled = Connections /\ \A u \in Threads : held[u] = 0
    <3>1. Settled' + held'[t] = Connections
      BY <1>s, <2>1, <2>2, <2>4 DEF Settled, TypeOK
    <3>2. \A u \in Threads \ {t} : held'[u] = 0
      BY <2>2, <2>4 DEF TypeOK
    <3> QED
      BY <2>2, <2>3, <3>1, <3>2 DEF Balanced
  <2>5. ASSUME NEW v \in Threads, pc[v] = "abandon", Settled + held[v] = Connections,
               \A u \in Threads \ {v} : held[u] = 0
        PROVE  Balanced'
    <3>1. v # t /\ left["measured"] = 0
      BY <1>5, <2>5 DEF SetupFails, Runs, Positions
    <3>2. held' = held /\ Settled' = Settled
      BY <2>1, <2>2, <3>1 DEF Settled, TypeOK
    <3> QED
      BY <2>2, <2>5, <3>1, <3>2 DEF Balanced
  <2> QED
    BY <2>3, <2>4, <2>5 DEF Balanced
<1>6. ASSUME NEW t \in Threads, Abandon(t) PROVE Balanced' /\ Agreed'
  <2>1. Quiet
    BY <1>6, QuietWorker
  <2>2. /\ UNCHANGED <<left, successful, written>>
        /\ failed' = failed + held[t] /\ unrun' = unrun + held[t] /\ held[t] \in Nat
        /\ held' = [held EXCEPT ![t] = 0]
        /\ \A u \in Threads \ {t} : pc'[u] = pc[u] /\ held'[u] = held[u]
        /\ held'[t] = 0
    BY <1>6 DEF Abandon, shared, results, TypeOK
  <2>3. Agreed'
    BY <1>s, <2>1, <2>2 DEF Agreed, TypeOK, Stages
  <2>4. Settled' = Settled + held[t]
    BY <1>s, <2>1, <2>2 DEF Settled, TypeOK, Stages
  <2>5. Settled \in Nat
    BY <1>s DEF Settled, TypeOK, Stages
  <2>6. CASE Settled = Connections /\ \A u \in Threads : held[u] = 0
    BY <2>2, <2>3, <2>4, <2>5, <2>6 DEF Balanced
  <2>7. ASSUME NEW v \in Threads, pc[v] = "abandon", Settled + held[v] = Connections,
               \A u \in Threads \ {v} : held[u] = 0
        PROVE  Balanced'
    <3>1. CASE v = t
      BY <2>2, <2>4, <2>7, <3>1 DEF Balanced
    <3>2. CASE v # t
      <4>1. held[t] = 0
        BY <2>7, <3>2
      <4>2. Settled' = Settled
        BY <2>4, <2>5, <4>1
      <4> QED
        BY <2>2, <2>7, <3>2, <4>2 DEF Balanced
    <3> QED
      BY <3>1, <3>2
  <2> QED
    BY <2>3, <2>6, <2>7 DEF Balanced
<1>7. ASSUME NEW t \in Threads, stage[t] = "measured", Cas(t) \/ Run(t) \/ Die(t)
      PROVE  Balanced' /\ Agreed'
  <2> USE DEF TypeOK, Stages, shared, results, Runs, PC
  <2>1. UNCHANGED <<held, successful, failed, unrun, stage>>
    BY <1>7 DEF Cas, Run, Die
  <2>2. \A u \in Threads : pc[u] = "abandon" => pc'[u] = "abandon"
    BY <1>7 DEF Cas, Run, Die, Positions
  <2>3. Settled' = Settled /\ Agreed'
    <3>1. CASE Cas(t)
      <4>1. /\ t \notin Claimed /\ Claimed' = Claimed \cup {t} /\ Lost' = Lost
            /\ Counting' = Counting /\ WarmingUp' = WarmingUp /\ written' = written
        BY <1>7, <3>1 DEF Cas, Claimed, Lost, Counting, WarmingUp
      <4>2. Cardinality(Claimed') = Cardinality(Claimed) + 1
        BY <4>1, CountThreads DEF Claimed
      <4>3. left'["measured"] = left["measured"] - 1 /\ left'["warm"] = left["warm"]
        BY <1>7, <3>1 DEF Cas
      <4> QED
        BY <1>s, <2>1, <4>1, <4>2, <4>3 DEF Settled, Agreed
    <3>2. CASE Run(t)
      <4>1. /\ t \notin Counting /\ Counting' = Counting \cup {t} /\ Lost' = Lost
            /\ Claimed' = Claimed /\ WarmingUp' = WarmingUp /\ left' = left
        BY <1>7, <3>2 DEF Run, Claimed, Lost, Counting, WarmingUp
      <4>2. Cardinality(Counting') = Cardinality(Counting) + 1
        BY <4>1, CountThreads DEF Counting
      <4>3. written' = written + 1
        BY <1>7, <3>2 DEF Run
      <4> QED
        BY <1>s, <2>1, <4>1, <4>2, <4>3 DEF Settled, Agreed
    <3>3. CASE Die(t)
      <4>1. /\ t \in Claimed /\ Claimed' = Claimed \ {t} /\ t \notin Lost
            /\ Lost' = Lost \cup {t} /\ Counting' = Counting /\ WarmingUp' = WarmingUp
            /\ left' = left /\ written' = written
        BY <1>7, <3>3 DEF Die, Positions, Claimed, Lost, Counting, WarmingUp
      <4>2. Cardinality(Claimed') = Cardinality(Claimed) - 1
        BY <4>1, CountThreads DEF Claimed
      <4>3. Cardinality(Lost') = Cardinality(Lost) + 1
        BY <4>1, CountThreads DEF Lost
      <4> QED
        BY <1>s, <2>1, <4>1, <4>2, <4>3 DEF Settled, Agreed
    <3> QED
      BY <1>7, <3>1, <3>2, <3>3
  <2> QED
    BY <2>1, <2>2, <2>3 DEF Balanced
<1>8. ASSUME NEW t \in Threads, Count(t) PROVE Balanced' /\ Agreed'
  <2> USE DEF TypeOK, Stages, shared, results, Runs, PC
  <2>1. UNCHANGED <<held, unrun, stage, left, written>>
    BY <1>8 DEF Count
  <2>2. \A u \in Threads : pc[u] = "abandon" => pc'[u] = "abandon"
    BY <1>8 DEF Count
  <2>3. /\ t \in Claimed /\ Claimed' = Claimed \ {t} /\ Lost' = Lost
        /\ t \in Counting /\ Counting' = Counting \ {t} /\ WarmingUp' = WarmingUp
    BY <1>8 DEF Count, Positions, Claimed, Lost, Counting, WarmingUp
  <2>4. Cardinality(Claimed') = Cardinality(Claimed) - 1
    BY <2>3, CountThreads DEF Claimed
  <2>5. Cardinality(Counting') = Cardinality(Counting) - 1
    BY <2>3, CountThreads DEF Counting
  <2>6. \/ successful' = successful + 1 /\ failed' = failed
        \/ successful' = successful /\ failed' = failed + 1
    BY <1>8 DEF Count
  <2>7. Settled' = Settled
    BY <1>s, <2>1, <2>3, <2>4, <2>6 DEF Settled
  <2>8. Agreed'
    BY <1>s, <2>1, <2>3, <2>5, <2>6 DEF Agreed
  <2> QED
    BY <2>1, <2>2, <2>7, <2>8 DEF Balanced
<1>9. ASSUME NEW t \in Threads, WorkerStep(t) \/ SetupFails(t) \/ Die(t)
      PROVE  Balanced' /\ Agreed'
  <2>1. stage[t] \in {"warm", "measured"}
    BY DEF TypeOK, Stages
  <2>2. CASE Setup(t) \/ Load(t) \/ CasFails(t)
    BY <1>3, <2>2
  <2>3. CASE Cas(t) \/ Run(t) \/ Die(t)
    <3>1. CASE stage[t] = "warm"
      BY <1>4, <2>3, <3>1
    <3>2. CASE stage[t] = "measured"
      BY <1>7, <2>3, <3>2
    <3> QED
      BY <2>1, <3>1, <3>2
  <2>4. CASE SetupFails(t) \/ Abandon(t) \/ Count(t)
    BY <1>5, <1>6, <1>8, <2>4
  <2> QED
    BY <1>9, <2>2, <2>3, <2>4 DEF WorkerStep
<1> QED
  BY <1>1, <1>2, <1>9 DEF Next

-----------------------------------------------------------------------------

(* The inductive invariant holds in every reachable state.                     *)
LEMMA Invariance == Spec => []IInv
<1>1. Init => IInv
  <2> SUFFICES ASSUME Init PROVE IInv
    OBVIOUS
  <2>1. TypeOK /\ Positions
    BY BenchmarkAssumption, ThreadsFinite DEF Init, TypeOK, Positions, PC, Stages, Ended
  <2>2. Claimed = {} /\ Lost = {} /\ Counting = {} /\ WarmingUp = {}
    BY DEF Init, Claimed, Lost, Counting, WarmingUp
  <2>3. Balanced /\ Agreed
    BY <2>2, FS_EmptySet, BenchmarkAssumption DEF Init, Balanced, Settled, Agreed, Stages
  <2> QED
    BY <2>1, <2>3 DEF IInv
<1>2. IInv /\ [Next]_vars => IInv'
  <2>1. ASSUME IInv, Next PROVE IInv'
    BY <2>1, TypeStep, PositionsStep, BalanceStep DEF IInv
  <2>2. ASSUME IInv, UNCHANGED vars PROVE IInv'
    BY <2>2 DEF vars, shared, results, IInv, TypeOK, Positions, Balanced, Agreed, Settled, Claimed,
                Lost, Counting, WarmingUp
  <2> QED
    BY <2>1, <2>2
<1> QED
  BY <1>1, <1>2, PTL DEF Spec

(* No connection is lost or counted twice, whatever the threads do to the two  *)
(* counters and whichever setups and workers fail.                             *)
THEOREM ConnectionsConserved == Spec => []Conservation
<1>1. IInv => Conservation
  BY DEF IInv, Balanced, Conservation
<1> QED
  BY <1>1, Invariance, PTL

(* The file has a record of every connection the summary counts as run and,    *)
(* beside them, of every warm-up made; the summary is complete unless workers  *)
(* died, and no measured connection resumes a session of the warm-up.          *)
THEOREM SummaryCorrect == Spec => []SummaryRight
<1>1. IInv => SummaryRight
  <2> SUFFICES ASSUME IInv PROVE SummaryRight
    OBVIOUS
  <2>1. written + unrun = successful + failed + Cardinality({t \in Threads : pc[t] = "count"})
                           + WarmedUp
    <3>1. /\ Cardinality(Counting) \in Nat /\ Cardinality(WarmingUp) \in Nat
          /\ Warmups \in Nat /\ left["warm"] \in Nat
      BY Sizes, BenchmarkAssumption DEF IInv, TypeOK, Stages
    <3>2. written + unrun = successful + failed + Cardinality(Counting) + WarmedUp
      BY <3>1 DEF IInv, Agreed, TypeOK, WarmedUp
    <3> QED
      BY <3>2 DEF Counting
  <2>2. ASSUME main = "returned"
        PROVE  /\ (\E t \in Threads : pc[t] = "done") => left["measured"] = 0
               /\ successful + failed + Cardinality(Lost) + left["measured"] = Connections
    <3>1. Claimed = {} /\ ~ \E t \in Threads : pc[t] = "abandon"
      BY <2>2 DEF IInv, Positions, Ended, Claimed
    <3>2. Cardinality(Claimed) = 0
      BY <3>1, FS_EmptySet
    <3>3. Settled = Connections
      BY <3>1 DEF IInv, Balanced
    <3>4. Cardinality(Lost) \in Nat
      BY Sizes DEF IInv
    <3>5. successful + failed + Cardinality(Lost) + left["measured"] = Connections
      BY <3>2, <3>3, <3>4 DEF Settled, IInv, TypeOK, Stages
    <3> QED
      BY <3>5 DEF IInv, Positions
  <2> QED
    BY <2>1, <2>2 DEF SummaryRight, IInv, Positions
<1> QED
  BY <1>1, Invariance, PTL

-----------------------------------------------------------------------------
(* The scripts.  ShapedIsListed is not inductive: a reset removes the state    *)
(* file in a later command than the conditions, and an apply adds the          *)
(* conditions after it saved the state.  Commands records what each command may  *)
(* assume of the ones before it.                                               *)

(* What the commands already run guarantee to the next one.                 *)
Commands ==
  /\ command \in {"clear", "add", "mtu"} => state[iface] \in Mtus /\ applies[iface] > 0
  /\ command \in {"restore", "remove"} /\ "tc" \notin ignored[iface] => qdisc[iface] = "default"
  /\ command = "remove" /\ want.restore /\ "ip" \notin ignored[iface] =>
       state[iface] = NoFile \/ (state[iface] \in Mtus /\ mtu[iface] = state[iface])

(* The MTU saved by the only apply since a reset is the one from before it.  *)
Saved == \A i \in Interfaces : applies[i] = 1 /\ state[i] \in Mtus => state[i] = before[i]

NetemInv == NetemTypeOK /\ ShapedIsListed /\ Commands /\ Saved

(* The initial state satisfies the inductive invariant when there is an     *)
(* interface at all; with none, NetemInit has no solution.                       *)
LEMMA NetemInitially == NetemInit => NetemInv
  BY NetemAssumption DEF NetemInit, NetemInv, NetemTypeOK, ShapedIsListed, Commands, Saved, NoMtu

(* Every command of the two scripts keeps the types.                        *)
LEMMA NetemTypeStep == ASSUME NetemTypeOK, NetemNext PROVE NetemTypeOK'
<1>1. ASSUME NEW i \in Interfaces, NEW netem \in BOOLEAN, NEW m \in Mtus \cup {NoMtu},
             Apply(i, netem, m)
      PROVE  NetemTypeOK'
  <2>1. want' \in [netem : BOOLEAN, mtu : Mtus \cup {NoMtu}, restore : BOOLEAN]
    BY <1>1, Zenon DEF Apply
  <2> QED
    BY <1>1, <2>1, Zenon DEF Apply, NetemTypeOK, history
<1>2. CASE OpenState
  BY <1>2, Zenon DEF OpenState, NetemTypeOK, history, Goto
<1>3. CASE SaveState
  <2>1. applies' \in [Interfaces -> 0 .. 2]
    <3> applies[iface] \in 0 .. 2
      BY Zenon DEF NetemTypeOK
    <3>1. (IF applies[iface] < 2 THEN applies[iface] + 1 ELSE applies[iface]) \in 0 .. 2
      OBVIOUS
    <3> QED
      BY <1>3, <3>1, Zenon DEF SaveState, NetemTypeOK
  <2>2. before' \in [Interfaces -> Mtus]
    BY <1>3, Zenon DEF SaveState, NetemTypeOK
  <2> QED
    BY <1>3, <2>1, <2>2, Zenon DEF SaveState, NetemTypeOK, Goto
<1>4. CASE ClearQdisc
  <2>1. {} \in SUBSET {"tc", "ip"} /\ {"tc"} \in SUBSET {"tc", "ip"}
    OBVIOUS
  <2>2. ignored' \in [Interfaces -> SUBSET {"tc", "ip"}]
    BY <1>4, <2>1, Zenon DEF ClearQdisc, DeleteQdisc, NetemTypeOK
  <2>3. qdisc' \in [Interfaces -> {"default", "netem"}]
    BY <1>4, Zenon DEF ClearQdisc, DeleteQdisc, NetemTypeOK
  <2> QED
    BY <1>4, <2>2, <2>3, Zenon DEF ClearQdisc, NetemTypeOK, Goto
<1>5. CASE AddQdisc
  BY <1>5, Zenon DEF AddQdisc, NetemTypeOK, history, Goto
<1>6. CASE SetMtu
  BY <1>6, Zenon DEF SetMtu, NetemTypeOK, history, End
<1>7. CASE ApplyFails
  BY <1>7, Zenon DEF ApplyFails, NetemTypeOK, history, End
<1>8. ASSUME NEW is \in SUBSET Interfaces, NEW restore \in BOOLEAN, Reset(is, restore)
      PROVE  NetemTypeOK'
  <2>1. want' \in [netem : BOOLEAN, mtu : Mtus \cup {NoMtu}, restore : BOOLEAN]
    BY <1>8, Zenon DEF Reset
  <2> QED
    BY <1>8, <2>1, Zenon DEF Reset, NetemTypeOK, history
<1>9. CASE ResetQdisc
  <2>1. {} \in SUBSET {"tc", "ip"} /\ {"tc"} \in SUBSET {"tc", "ip"}
    OBVIOUS
  <2>2. ignored' \in [Interfaces -> SUBSET {"tc", "ip"}]
    BY <1>9, <2>1, Zenon DEF ResetQdisc, DeleteQdisc, NetemTypeOK
  <2>3. qdisc' \in [Interfaces -> {"default", "netem"}]
    BY <1>9, Zenon DEF ResetQdisc, DeleteQdisc, NetemTypeOK
  <2> QED
    BY <1>9, <2>2, <2>3, Zenon DEF ResetQdisc, NetemTypeOK, Goto
<1>10. CASE RestoreMtu
  <2>1. mtu' \in [Interfaces -> Mtus]
    BY <1>10, Zenon DEF RestoreMtu, NetemTypeOK
  <2>2. ignored' \in [Interfaces -> SUBSET {"tc", "ip"}]
    <3>1. ignored[iface] \cup {"ip"} \in SUBSET {"tc", "ip"}
      BY Zenon DEF NetemTypeOK
    <3>2. CASE ignored' = [ignored EXCEPT ![iface] = @ \cup {"ip"}]
      BY <3>1, <3>2, Zenon DEF NetemTypeOK
    <3>3. ignored' = ignored \/ ignored' = [ignored EXCEPT ![iface] = @ \cup {"ip"}]
      BY <1>10, Zenon DEF RestoreMtu
    <3> QED
      BY <3>2, <3>3, Zenon DEF NetemTypeOK
  <2> QED
    BY <1>10, <2>1, <2>2, Zenon DEF RestoreMtu, NetemTypeOK, Goto
<1>11. CASE RestoreDies
  BY <1>11, Zenon DEF RestoreDies, NetemTypeOK, history, End
<1>12. CASE RemoveState
  <2>1. applies' \in [Interfaces -> 0 .. 2]
    <3>1. applies' = [applies EXCEPT ![iface] = 0]
      BY <1>12 DEF RemoveState
    <3>2. 0 \in 0 .. 2
      OBVIOUS
    <3> QED
      BY <3>1, <3>2, Zenon DEF NetemTypeOK
  <2>2. CASE todo = {}
    BY <1>12, <2>1, <2>2, Zenon DEF RemoveState, NetemTypeOK, End
  <2>3. CASE todo # {}
    BY <1>12, <2>1, <2>3, Zenon DEF RemoveState, NetemTypeOK
  <2> QED
    BY <2>2, <2>3
<1>13. CASE Interrupt
  BY <1>13, Zenon DEF Interrupt, NetemTypeOK, history, End
<1> QED
  BY <1>1, <1>2, <1>3, <1>4, <1>5, <1>6, <1>7, <1>8, <1>9, <1>10, <1>11, <1>12, <1>13
     DEF NetemNext

(* Every command keeps the inductive invariant: the conditions are added    *)
(* under a saved state, and the state file is removed after tc was told to  *)
(* delete them.                                                             *)
LEMMA NetemStep == ASSUME NetemInv, NetemNext PROVE NetemInv'
<1> USE NetemAssumption DEF NetemInv
<1> DEFINE Goal == ShapedIsListed /\ Commands /\ Saved
<1>0. NetemTypeOK /\ NetemTypeOK'
  BY NetemTypeStep
<1>1. ASSUME NEW i \in Interfaces, NEW netem \in BOOLEAN, NEW m \in Mtus \cup {NoMtu},
             Apply(i, netem, m)
      PROVE  Goal'
  BY <1>1 DEF Apply, ShapedIsListed, Commands, Saved, history
<1>2. CASE OpenState
  <2>1. \A i \in Interfaces : state'[i] = IF i = iface THEN Torn ELSE state[i]
    BY <1>0, <1>2, Zenon DEF OpenState, NetemTypeOK
  <2>2. UNCHANGED <<qdisc, applies, ignored, before>> /\ command' = "save"
    BY <1>2 DEF OpenState, history, Goto
  <2> QED
    BY <1>0, <2>1, <2>2, Zenon DEF ShapedIsListed, Commands, Saved
<1>3. CASE SaveState
  <2>1. /\ \A i \in Interfaces : i # iface =>
             state'[i] = state[i] /\ applies'[i] = applies[i] /\ before'[i] = before[i]
        /\ state'[iface] = mtu[iface] /\ mtu[iface] \in Mtus
        /\ before'[iface] = IF applies[iface] = 0 THEN mtu[iface] ELSE before[iface]
        /\ applies'[iface] = IF applies[iface] < 2 THEN applies[iface] + 1 ELSE applies[iface]
        /\ applies[iface] \in 0 .. 2 /\ iface \in Interfaces
    BY <1>0, <1>3, Zenon DEF SaveState, NetemTypeOK
  <2>2. applies'[iface] > 0 /\ (applies'[iface] = 1 => applies[iface] = 0)
    BY <2>1
  <2>3. UNCHANGED <<qdisc, ignored, iface>> /\ command' = "clear"
    BY <1>3 DEF SaveState, Goto
  <2>4. NoFile \notin Mtus
    OBVIOUS
  <2>5. ShapedIsListed'
    BY <2>1, <2>2, <2>3, <2>4, Zenon DEF ShapedIsListed
  <2>6. Commands'
    BY <2>1, <2>2, <2>3 DEF Commands
  <2>7. Saved'
    BY <2>1, <2>2, Zenon DEF Saved
  <2> QED
    BY <1>0, <2>5, <2>6, <2>7
<1>4. CASE ClearQdisc \/ ResetQdisc
  <2>1. /\ \A i \in Interfaces : i # iface => qdisc'[i] = qdisc[i] /\ ignored'[i] = ignored[i]
        /\ qdisc'[iface] = "default" \/ ignored'[iface] = {"tc"}
        /\ iface \in Interfaces
    BY <1>0, <1>4, Zenon DEF ClearQdisc, ResetQdisc, DeleteQdisc, NetemTypeOK
  <2>2. UNCHANGED <<state, before, applies, iface, mtu>>
    BY <1>4, Zenon DEF ClearQdisc, ResetQdisc, Goto
  <2>3. \/ command' = "restore"
        \/ command = "clear" /\ command' = "add"
    BY <1>4, Zenon DEF ClearQdisc, ResetQdisc, Goto
  <2>4. ShapedIsListed'
    BY <2>1, <2>2, Zenon DEF ShapedIsListed
  <2>5. Commands' /\ Saved'
    BY <2>1, <2>2, <2>3 DEF Commands, Saved
  <2> QED
    BY <1>0, <2>4, <2>5
<1>5. CASE AddQdisc
  <2>1. \A i \in Interfaces : i # iface => qdisc'[i] = qdisc[i]
    BY <1>0, <1>5, Zenon DEF AddQdisc, NetemTypeOK
  <2>2. UNCHANGED <<state, before, applies, ignored, iface, mtu>> /\ command' = "mtu"
    BY <1>5 DEF AddQdisc, Goto, history
  <2>3. command = "add" /\ state[iface] \in Mtus /\ applies[iface] > 0
    BY <1>5 DEF AddQdisc, Commands
  <2>4. NoFile \notin Mtus
    OBVIOUS
  <2>5. ShapedIsListed'
    BY <2>1, <2>2, <2>3, <2>4, Zenon DEF ShapedIsListed
  <2> QED
    BY <1>0, <2>2, <2>3, <2>5 DEF Commands, Saved
<1>6. CASE SetMtu \/ ApplyFails \/ RestoreDies \/ Interrupt
  <2>1. UNCHANGED <<state, qdisc, before, applies, ignored>> /\ command' = "idle"
    BY <1>6, Zenon DEF SetMtu, ApplyFails, RestoreDies, Interrupt, End, history
  <2> QED
    BY <1>0, <2>1 DEF ShapedIsListed, Commands, Saved
<1>7. ASSUME NEW is \in SUBSET Interfaces, NEW restore \in BOOLEAN, Reset(is, restore)
      PROVE  Goal'
  BY <1>7 DEF Reset, ShapedIsListed, Commands, Saved, history
<1>8. CASE RestoreMtu
  <2>1. UNCHANGED <<state, qdisc, before, applies, iface, want>>
    BY <1>8, Zenon DEF RestoreMtu, Goto
  <2>2. command = "restore" /\ command' = "remove"
    BY <1>8, Zenon DEF RestoreMtu, Goto
  <2>3. \A i \in Interfaces : "tc" \in ignored[i] => "tc" \in ignored'[i]
    <3>1. ignored' = ignored \/ ignored' = [ignored EXCEPT ![iface] = @ \cup {"ip"}]
      BY <1>8, Zenon DEF RestoreMtu
    <3>2. ASSUME ignored' = [ignored EXCEPT ![iface] = @ \cup {"ip"}], NEW i \in Interfaces
          PROVE  ignored'[i] = ignored[i] \/ ignored'[i] = ignored[i] \cup {"ip"}
      BY <1>0, <3>2, Zenon DEF NetemTypeOK
    <3> QED
      BY <3>1, <3>2
  <2>4. want.restore /\ "ip" \notin ignored'[iface] =>
          state[iface] = NoFile \/ (state[iface] \in Mtus /\ mtu'[iface] = state[iface])
    <3> SUFFICES ASSUME want.restore, "ip" \notin ignored'[iface], state[iface] # NoFile
                 PROVE  state[iface] \in Mtus /\ mtu'[iface] = state[iface]
      OBVIOUS
    <3>1. state[iface] # Torn
      BY <1>8 DEF RestoreMtu
    <3>2. state[iface] \in Mtus
      BY <1>0, <3>1, Zenon DEF NetemTypeOK
    <3>3. ignored' # [ignored EXCEPT ![iface] = @ \cup {"ip"}]
      <4>1. [ignored EXCEPT ![iface] = @ \cup {"ip"}][iface] = ignored[iface] \cup {"ip"}
        BY <1>0, Zenon DEF NetemTypeOK
      <4> QED
        BY <4>1, Zenon
    <3>4. mtu' = [mtu EXCEPT ![iface] = state[iface]]
      BY <1>8, <3>3, Zenon DEF RestoreMtu
    <3> QED
      BY <1>0, <3>2, <3>4, Zenon DEF NetemTypeOK
  <2>5. ShapedIsListed' /\ Saved'
    BY <2>1, <2>3, Zenon DEF ShapedIsListed, Saved
  <2>6. "tc" \notin ignored'[iface] => qdisc[iface] = "default"
    BY <1>0, <2>2, <2>3, Zenon DEF Commands, NetemTypeOK
  <2>7. Commands'
    BY <2>1, <2>2, <2>4, <2>6 DEF Commands
  <2> QED
    BY <1>0, <2>5, <2>7
<1>9. CASE RemoveState
  <2>1. /\ \A i \in Interfaces : i # iface => state'[i] = state[i] /\ applies'[i] = applies[i]
        /\ state'[iface] = NoFile /\ iface \in Interfaces
    BY <1>0, <1>9, Zenon DEF RemoveState, NetemTypeOK
  <2>2. UNCHANGED <<qdisc, before, ignored>> /\ command' \in {"idle", "reset"} /\ command = "remove"
    BY <1>9, Zenon DEF RemoveState, End
  <2>3. "tc" \notin ignored[iface] => qdisc[iface] = "default"
    BY <2>2 DEF Commands
  <2>4. NoFile \notin Mtus /\ "default" # "netem"
    OBVIOUS
  <2>5. ShapedIsListed'
    BY <2>1, <2>2, <2>3, <2>4, Zenon DEF ShapedIsListed
  <2>6. Saved'
    BY <2>1, <2>2, <2>4, Zenon DEF Saved
  <2> QED
    BY <1>0, <2>2, <2>5, <2>6 DEF Commands
<1> QED
  BY <1>0, <1>1, <1>2, <1>3, <1>4, <1>5, <1>6, <1>7, <1>8, <1>9, Zenon DEF NetemNext

(* The inductive invariant holds in every reachable state.                  *)
LEMMA NetemInvariance == NetemSpec => []NetemInv
<1>1. ASSUME NetemInv, UNCHANGED netemVars PROVE NetemInv'
  <2>1. NetemTypeOK'
    BY <1>1, Zenon DEF NetemInv, NetemTypeOK, netemVars
  <2>2. ShapedIsListed'
    BY <1>1 DEF NetemInv, ShapedIsListed, netemVars
  <2>3. Commands'
    BY <1>1 DEF NetemInv, Commands, netemVars
  <2>4. Saved'
    BY <1>1 DEF NetemInv, Saved, netemVars
  <2> QED
    BY <2>1, <2>2, <2>3, <2>4 DEF NetemInv
<1> QED
  BY NetemInitially, NetemStep, <1>1, PTL DEF NetemSpec

(* The scripts keep the types of the kernel state and of the state files.   *)
THEOREM NetemTypes == NetemSpec => []NetemTypeOK
  BY NetemInvariance, PTL DEF NetemInv

(* However the scripts are interrupted, `reset-netem.sh --all` finds every  *)
(* interface that apply-netem.sh left shaped, but for those whose netem     *)
(* conditions tc refused to delete.                                         *)
THEOREM ShapedAreListed == NetemSpec => []ShapedIsListed
  BY NetemInvariance, PTL DEF NetemInv

(* apply-netem.sh changes the MTU only after the old one is in the state    *)
(* file, and reset-netem.sh only while it still is.                         *)
THEOREM ChangesAreCovered == NetemSpec => ChangeIsCovered
<1>1. ASSUME NetemInv, NetemNext, NEW i \in Interfaces, mtu'[i] # mtu[i]
      PROVE  state[i] \in Mtus
  <2>1. CASE SetMtu
    BY <1>1, <2>1, Zenon DEF SetMtu, NetemInv, Commands, NetemTypeOK
  <2>2. CASE RestoreMtu
    BY <1>1, <2>2, Zenon DEF RestoreMtu, NetemInv, NetemTypeOK
  <2>3. UNCHANGED mtu \/ SetMtu \/ RestoreMtu
    BY <1>1, Zenon DEF NetemNext, Apply, OpenState, SaveState, ClearQdisc, AddQdisc, ApplyFails,
                Reset, ResetQdisc, RestoreDies, RemoveState, Interrupt
  <2> QED
    BY <1>1, <2>1, <2>2, <2>3
<1>2. ASSUME NetemInv, [NetemNext]_netemVars
      PROVE  [\A i \in Interfaces : mtu'[i] # mtu[i] => state[i] \in Mtus]_netemVars
  BY <1>1, <1>2 DEF netemVars
<1> QED
  BY <1>2, NetemInvariance, PTL DEF NetemSpec, ChangeIsCovered

(* A reset that removes a state file has undone the apply it stands for,    *)
(* whatever was interrupted before, unless tc or ip refused its command.    *)
THEOREM OneApplyUndone == NetemSpec => OneApplyIsUndone
<1> DEFINE Undone(i) ==
      /\ "tc" \notin ignored[i] => qdisc'[i] = "default"
      /\ (want.restore /\ applies[i] = 1 /\ "ip" \notin ignored[i]) => mtu'[i] = before[i]
<1>1. ASSUME NetemInv, NetemNext, NEW i \in Interfaces, state[i] # NoFile, state'[i] = NoFile
      PROVE  Undone(i)
  <2>1. \/ UNCHANGED state
        \/ OpenState \/ SaveState \/ RemoveState
    BY <1>1, Zenon DEF NetemNext, Apply, ClearQdisc, AddQdisc, SetMtu, ApplyFails,
                Reset, ResetQdisc, RestoreMtu, RestoreDies, Interrupt
  <2>2. ~ OpenState /\ ~ SaveState
    <3>1. \A v : state' = [state EXCEPT ![iface] = v] => v = NoFile
      BY <1>1, Zenon DEF NetemInv, NetemTypeOK
    <3>2. mtu[iface] \in Mtus
      BY <1>1, Zenon DEF NetemInv, NetemTypeOK
    <3> QED
      BY <3>1, <3>2, NetemAssumption, Zenon DEF OpenState, SaveState
  <2>3. RemoveState
    BY <1>1, <2>1, <2>2, Zenon
  <2>4. i = iface /\ command = "remove" /\ UNCHANGED <<qdisc, mtu>>
    BY <1>1, <2>3, Zenon DEF RemoveState, NetemInv, NetemTypeOK
  <2>5. "tc" \notin ignored[i] => qdisc[i] = "default"
    BY <1>1, <2>4 DEF NetemInv, Commands
  <2>6. ASSUME want.restore, applies[i] = 1, "ip" \notin ignored[i] PROVE mtu[i] = before[i]
    <3>1. state[i] \in Mtus /\ mtu[i] = state[i]
      BY <1>1, <2>4, <2>6 DEF NetemInv, Commands
    <3> QED
      BY <1>1, <2>6, <3>1 DEF NetemInv, Saved
  <2> QED
    BY <2>4, <2>5, <2>6
<1>2. ASSUME NetemInv, [NetemNext]_netemVars
      PROVE  [\A i \in Interfaces : (state[i] # NoFile /\ state'[i] = NoFile) => Undone(i)]_netemVars
  BY <1>1, <1>2, Zenon DEF netemVars
<1> QED
  BY <1>2, NetemInvariance, PTL DEF NetemSpec, OneApplyIsUndone
=============================================================================
