------------------------------ MODULE Benchmark -------------------------------
(* run_benchmark (src/src/client/client.cpp): threads that claim connections   *)
(* from two shared counters, first the warm-up ones and then the measured      *)
(* ones, run each claimed connection, and add its outcome to a shared summary. *)
EXTENDS Naturals, FiniteSets

CONSTANTS
    Connections,   \* config.connections, which the configuration keeps above 0
    Concurrency,   \* config.concurrency, likewise
    Warmups,       \* config.warmup_connections
    ReuseSession,  \* config.reuse_session
    MaxDeaths      \* bound: exceptions that end a worker

ASSUME BenchmarkAssumption ==
    /\ Connections \in Nat \ {0}
    /\ Concurrency \in Nat \ {0}
    /\ Warmups \in Nat
    /\ ReuseSession \in BOOLEAN
    /\ MaxDeaths \in Nat

Threads == 1 .. (IF Concurrency <= Connections THEN Concurrency ELSE Connections)
Stages  == {"warm", "measured"}

VARIABLES
    main,        \* the calling thread: "spawn", "join", "returned", "aborted"
    spawned,     \* the number of threads it has started
    pc,          \* where each worker is
    stage,       \* the loop a worker is in: its warm-up or its measured connections
    left,        \* warmup_remaining and remaining
    seen,        \* the value claim() of a worker last read
    held,        \* abandoned: the connections a failed worker took out of the pool
    session,     \* the stage cached_session_ of a worker comes from, or "none"
    ok,          \* the result of the last run_once of a worker
    successful,  \* summary.successful
    failed,      \* summary.failed
    categories,  \* the number of summary.failure_categories
    written,     \* records in the metrics file, which do not say what stage they are from
    unrun,       \* history: connections counted as failed without being run
    offers       \* history: <<stage, session>> of each connection made

shared  == <<successful, failed, categories, unrun>>
results == <<ok, session, written, offers>>
vars    == <<main, spawned, pc, stage, left, seen, held, shared, results>>

PC    == {"new", "setup", "abandon", "load", "cas", "run", "count", "done", "dead"}
Ended == {"done", "dead"}

TypeOK ==
    /\ main \in {"spawn", "join", "returned", "aborted"}
    /\ spawned \in 0 .. Cardinality(Threads)
    /\ pc \in [Threads -> PC]
    /\ stage \in [Threads -> Stages]
    /\ left \in [Stages -> Nat]
    /\ seen \in [Threads -> Nat]
    /\ held \in [Threads -> Nat]
    /\ session \in [Threads -> Stages \cup {"none"}]
    /\ ok \in [Threads -> BOOLEAN]
    /\ successful \in Nat /\ failed \in Nat /\ categories \in Nat /\ unrun \in Nat
    /\ written \in Nat
    /\ offers \subseteq Stages \X (Stages \cup {"none"})

Init ==
    /\ main = "spawn" /\ spawned = 0
    /\ pc = [t \in Threads |-> "new"]
    /\ stage = [t \in Threads |-> "warm"]
    /\ left = [s \in Stages |-> IF s = "warm" THEN Warmups ELSE Connections]
    /\ seen = [t \in Threads |-> 0]
    /\ held = [t \in Threads |-> 0]
    /\ session = [t \in Threads |-> "none"]
    /\ ok = [t \in Threads |-> FALSE]
    /\ successful = 0 /\ failed = 0 /\ categories = 0 /\ unrun = 0
    /\ written = 0
    /\ offers = {}

-----------------------------------------------------------------------------
(* The calling thread *)

Spawn ==
    /\ main = "spawn" /\ spawned < Cardinality(Threads)
    /\ spawned' = spawned + 1
    /\ pc' = [pc EXCEPT ![spawned + 1] = "setup"]
    /\ UNCHANGED <<main, stage, left, seen, held, shared, results>>

\* A thread cannot be started: no summary is returned, and if there are threads
\* already, destroying their joinable handles ends the process.
SpawnFails ==
    /\ main = "spawn" /\ spawned < Cardinality(Threads)
    /\ main' = "aborted"
    /\ UNCHANGED <<spawned, pc, stage, left, seen, held, shared, results>>

SpawnedAll ==
    /\ main = "spawn" /\ spawned = Cardinality(Threads)
    /\ main' = "join"
    /\ UNCHANGED <<spawned, pc, stage, left, seen, held, shared, results>>

Join ==
    /\ main = "join"
    /\ \A t \in Threads : pc[t] \in Ended
    /\ main' = "returned"
    /\ UNCHANGED <<spawned, pc, stage, left, seen, held, shared, results>>

-----------------------------------------------------------------------------
(* A worker *)

Runs(t, at) == main # "aborted" /\ pc[t] = at

\* The client is built and given the writer.
Setup(t) ==
    /\ Runs(t, "setup")
    /\ pc' = [pc EXCEPT ![t] = "load"]
    /\ UNCHANGED <<main, spawned, stage, left, seen, held, shared, results>>

\* Mutant: the connections taken out of the pool stay in it.
SetupFailsKeeps(t) ==
    /\ Runs(t, "setup")
    /\ held' = [held EXCEPT ![t] = left["measured"]]
    /\ pc' = [pc EXCEPT ![t] = "abandon"]
    /\ UNCHANGED <<main, spawned, stage, left, seen, shared, results>>

\* The client cannot be built: remaining.exchange(0).
SetupFails(t) ==
    /\ Runs(t, "setup")
    /\ held' = [held EXCEPT ![t] = left["measured"]]
    /\ left' = [left EXCEPT !["measured"] = 0]
    /\ pc' = [pc EXCEPT ![t] = "abandon"]
    /\ UNCHANGED <<main, spawned, stage, seen, shared, results>>

\* Under the mutex: they are failures, under one category.
Abandon(t) ==
    /\ Runs(t, "abandon")
    /\ failed' = failed + held[t]
    /\ unrun' = unrun + held[t]
    /\ categories' = categories + 1
    /\ held' = [held EXCEPT ![t] = 0]
    /\ pc' = [pc EXCEPT ![t] = "done"]
    /\ UNCHANGED <<main, spawned, stage, left, seen, successful, results>>

\* claim() reports that the pool is empty.  After the warm-up the session is
\* cleared and the measured connections start.
Drained(t) ==
    /\ stage' = [stage EXCEPT ![t] = "measured"]
    /\ pc' = [pc EXCEPT ![t] = IF stage[t] = "warm" THEN "load" ELSE "done"]
    /\ session' = IF stage[t] = "warm" THEN [session EXCEPT ![t] = "none"] ELSE session

\* claim() has read the counter, at first or because its exchange failed.
Observe(t) ==
    /\ seen' = [seen EXCEPT ![t] = left[stage[t]]]
    /\ \/ /\ left[stage[t]] = 0
          /\ Drained(t)
       \/ /\ left[stage[t]] > 0
          /\ pc' = [pc EXCEPT ![t] = "cas"]
          /\ UNCHANGED <<stage, session>>
    /\ UNCHANGED <<main, spawned, left, held, shared, ok, written, offers>>

Load(t) == Runs(t, "load") /\ Observe(t)

\* Mutant: a failed exchange does not bring back the counter's value.
CasFailsBlind(t) == Runs(t, "cas") /\ UNCHANGED vars

\* The exchange fails: the counter has changed, or a weak exchange failed anyway.
CasFails(t) == Runs(t, "cas") /\ Observe(t)

Cas(t) ==
    /\ Runs(t, "cas")
    /\ left[stage[t]] = seen[t]
    /\ left' = [left EXCEPT ![stage[t]] = seen[t] - 1]
    /\ pc' = [pc EXCEPT ![t] = "run"]
    /\ UNCHANGED <<main, spawned, stage, seen, held, shared, results>>

\* Mutant: the record of a failed connection is not written.
RunRecordsSuccess(t) ==
    /\ Runs(t, "run")
    /\ offers' = offers \cup {<<stage[t], session[t]>>}
    /\ \E good \in BOOLEAN :
          /\ ok' = [ok EXCEPT ![t] = good]
          /\ written' = IF good THEN written + 1 ELSE written
    /\ pc' = [pc EXCEPT ![t] = IF stage[t] = "warm" THEN "load" ELSE "count"]
    /\ UNCHANGED <<main, spawned, stage, left, seen, held, shared, session>>

\* run_once makes a connection, with the cached session if there is one, writes
\* its record, warm-up or not, and may leave a new session.  A warm-up result is
\* not counted.
Run(t) ==
    /\ Runs(t, "run")
    /\ offers' = offers \cup {<<stage[t], session[t]>>}
    /\ \E good \in BOOLEAN, cached \in BOOLEAN :
          /\ good /\ ReuseSession => cached
          /\ cached => ReuseSession
          /\ ok' = [ok EXCEPT ![t] = good]
          /\ session' = IF cached THEN [session EXCEPT ![t] = stage[t]] ELSE session
    /\ written' = written + 1
    /\ pc' = [pc EXCEPT ![t] = IF stage[t] = "warm" THEN "load" ELSE "count"]
    /\ UNCHANGED <<main, spawned, stage, left, seen, held, shared>>

\* Under the mutex: the result of a measured connection joins the summary.
Count(t) ==
    /\ Runs(t, "count")
    /\ \/ /\ ok[t]
          /\ successful' = successful + 1
          /\ UNCHANGED <<failed, categories>>
       \/ /\ ~ok[t]
          /\ failed' = failed + 1
          /\ categories' = categories + 1
          /\ UNCHANGED successful
    /\ pc' = [pc EXCEPT ![t] = "load"]
    /\ UNCHANGED <<main, spawned, stage, left, seen, held, unrun, results>>

\* An exception that run_once, make_request or the writer lets out ends the worker.
Die(t) ==
    /\ Runs(t, "setup") \/ Runs(t, "run")
    /\ Cardinality({u \in Threads : pc[u] = "dead"}) < MaxDeaths
    /\ pc' = [pc EXCEPT ![t] = "dead"]
    /\ UNCHANGED <<main, spawned, stage, left, seen, held, shared, results>>

-----------------------------------------------------------------------------
Terminated == main \in {"returned", "aborted"} /\ UNCHANGED vars

WorkerStep(t) ==
    Setup(t) \/ Abandon(t) \/ Load(t) \/ Cas(t) \/ CasFails(t) \/ Run(t) \/ Count(t)

Next ==
    \/ Spawn \/ SpawnFails \/ SpawnedAll \/ Join \/ Terminated
    \/ \E t \in Threads :
          WorkerStep(t) \/ SetupFails(t) \/ Die(t)

Spec == Init /\ [][Next]_vars

\* Every thread is scheduled, a connection ends because its socket has timeouts,
\* and an exchange whose value is still the expected one succeeds in the end.
FairSpec ==
    /\ Spec
    /\ WF_vars(Spawn \/ SpawnedAll \/ Join)
    /\ \A t \in Threads : WF_vars(WorkerStep(t)) /\ SF_vars(Cas(t))

-----------------------------------------------------------------------------
\* The measured connections a worker has claimed and not yet counted, and those
\* that ended with their worker.
Claimed == {t \in Threads : stage[t] = "measured" /\ pc[t] \in {"run", "count"}}
Lost    == {t \in Threads : stage[t] = "measured" /\ pc[t] = "dead"}
Settled == successful + failed + Cardinality(Claimed) + Cardinality(Lost) + left["measured"]

\* Every requested connection is in exactly one place: counted, claimed, lost
\* with its worker, in the pool, or held by the one worker whose setup failed;
\* and the variables have their types (no counter goes below zero).
Conservation ==
    /\ TypeOK
    /\ \/ Settled = Connections /\ \A t \in Threads : held[t] = 0
       \/ \E t \in Threads :
             /\ pc[t] = "abandon"
             /\ Settled + held[t] = Connections
             /\ \A u \in Threads \ {t} : held[u] = 0

\* The warm-ups a worker has claimed and not yet made, and those that ended with
\* their worker, which has claimed one if its claim() ever read the counter.
WarmingUp == {t \in Threads :
                 stage[t] = "warm" /\ (pc[t] = "run" \/ (pc[t] = "dead" /\ seen[t] > 0))}
WarmedUp  == Warmups - left["warm"] - Cardinality(WarmingUp)

\* What the one metrics file holds beside what the summary counts: a record of
\* each connection counted, or about to be, unless it was counted without being
\* run; and, among them and alike, a record of every warm-up made.  A reader who
\* takes the file for the measurements counts the warm-ups in; they are discarded
\* from the summary only.  When run_benchmark returns, no connection is left over
\* unless every worker died, and those that did not end with their worker are in
\* the summary.  No measured connection resumes a session of the warm-up.
SummaryRight ==
    /\ written + unrun = successful + failed + Cardinality({t \in Threads : pc[t] = "count"})
                           + WarmedUp
    /\ main = "returned" =>
          /\ (\E t \in Threads : pc[t] = "done") => left["measured"] = 0
          /\ successful + failed + Cardinality(Lost) + left["measured"] = Connections
    /\ <<"measured", "warm">> \notin offers

\* run_benchmark returns, or the process ends because a thread cannot be started.
BenchmarkEnds == <>(main \in {"returned", "aborted"})
=============================================================================
