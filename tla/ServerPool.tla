------------------------------ MODULE ServerPool ------------------------------
(* The connection pool of PqTlsServer (src/src/server/server.cpp): the thread  *)
(* that calls run() and accepts connections, the worker threads that take them *)
(* off a bounded queue, and stop(), which a signal handler may call at any     *)
(* moment of the server's life.                                                *)
(*                                                                             *)
(* A step is one access to shared state.  A critical section of queue_mutex_   *)
(* is one step, except in a worker that finds the wait predicate false: it     *)
(* holds the mutex from that check until the condition variable enqueues it    *)
(* and releases the mutex, and stop() takes no mutex, so the two are separate. *)
(* What happens inside handle_connection is the module ServerSession; here it  *)
(* ends with the socket closed and a record written, or with an exception that *)
(* leaves the worker thread.                                                   *)
EXTENDS Naturals, Sequences, FiniteSets

CONSTANTS
    Conns,            \* the client connections that may arrive
    Workers,          \* the worker threads run() starts
    MaxConnections,   \* config_.max_connections
    MaxDeaths,        \* bound: workers that an exception may terminate
    None              \* no connection, no thread

ASSUME ConstantsAssumption ==
    /\ IsFiniteSet(Workers)
    /\ MaxConnections \in Nat \ {0}
    /\ Cardinality(Workers) = MaxConnections
    /\ MaxDeaths \in Nat
    /\ None \notin Conns \cup Workers

VARIABLES
    rpc,        \* where the thread that owns the server is, in command_serve and run()
    hand,       \* the accepted socket that thread holds, or None
    wpc,        \* where each worker is in worker_loop
    conn,       \* the connection each worker handles, or None
    spc,        \* where the signal handler is in stop()
    gServer,    \* g_server # nullptr
    listener,   \* listener_ is open
    stopping,   \* stopping_
    running,    \* running_
    queue,      \* queue_
    mutex,      \* the worker that holds queue_mutex_ across steps, or None
    waiting,    \* the threads blocked in queue_cv_
    net,        \* where each connection is, from the kernel's point of view
    closes,     \* how often each accepted socket has been closed
    accepted,   \* connections_accepted_
    rejected,   \* connections_rejected_
    records     \* the connections for which handle_connection wrote a record

vars == <<rpc, hand, wpc, conn, spc, gServer, listener, stopping, running,
          queue, mutex, waiting, net, closes, accepted, rejected, records>>

flagVars   == <<stopping, running>>
countVars  == <<accepted, rejected>>
stopVars   == <<spc, gServer>>

RunPC == {"serve", "listen", "start", "reset", "spawn", "loop", "accept", "push",
          "count", "notify", "ending", "wake", "join", "drain", "returned",
          "dtorStop", "dtorRunning", "dtorWake", "dtorWakeAgain", "dtorJoin", "gone"}

WorkerPC == {"unborn", "lock", "block", "wait", "handle", "done", "dead"}

TypeOK ==
    /\ rpc \in RunPC
    /\ hand \in Conns \cup {None}
    /\ wpc \in [Workers -> WorkerPC]
    /\ conn \in [Workers -> Conns \cup {None}]
    /\ spc \in {"idle", "flag", "clear", "wake"}
    /\ gServer \in BOOLEAN
    /\ listener \in BOOLEAN
    /\ stopping \in BOOLEAN
    /\ running \in BOOLEAN
    /\ queue \in Seq(Conns)
    /\ mutex \in Workers \cup {None}
    /\ waiting \in SUBSET Workers
    /\ net \in [Conns -> {"none", "backlog", "reset", "taken"}]
    /\ closes \in [Conns -> Nat]
    /\ accepted \in Nat
    /\ rejected \in Nat
    /\ records \in SUBSET Conns

Init ==
    /\ rpc = "serve"
    /\ hand = None
    /\ wpc = [w \in Workers |-> "unborn"]
    /\ conn = [w \in Workers |-> None]
    /\ spc = "idle"
    /\ gServer = FALSE
    /\ listener = FALSE
    /\ stopping = FALSE
    /\ running = FALSE
    /\ queue = <<>>
    /\ mutex = None
    /\ waiting = {}
    /\ net = [c \in Conns |-> "none"]
    /\ closes = [c \in Conns |-> 0]
    /\ accepted = 0
    /\ rejected = 0
    /\ records = {}

-----------------------------------------------------------------------------
(* The kernel and the condition variable. *)

\* A client's connection completes in the kernel and waits in the backlog.
ClientConnects(c) ==
    /\ listener
    /\ net[c] = "none"
    /\ net' = [net EXCEPT ![c] = "backlog"]
    /\ UNCHANGED <<rpc, hand, wpc, conn, stopVars, listener, flagVars, queue, mutex,
                   waiting, closes, countVars, records>>

\* Closing the listening socket resets the connections that nobody accepted.
CloseListener ==
    /\ listener' = FALSE
    /\ net' = [c \in Conns |-> IF net[c] = "backlog" THEN "reset" ELSE net[c]]

\* notify_all: every blocked thread goes back to acquire the mutex.
NotifyAll ==
    /\ waiting' = {}
    /\ wpc' = [w \in Workers |-> IF w \in waiting THEN "lock" ELSE wpc[w]]

\* notify_one: one blocked thread does, if there is one.
NotifyOne ==
    \/ waiting = {} /\ UNCHANGED <<waiting, wpc>>
    \/ \E w \in waiting : /\ waiting' = waiting \ {w}
                          /\ wpc' = [wpc EXCEPT ![w] = "lock"]

\* The C++ standard allows a wait to return although nobody notified.
SpuriousWakeup(w) ==
    /\ w \in waiting
    /\ waiting' = waiting \ {w}
    /\ wpc' = [wpc EXCEPT ![w] = "lock"]
    /\ UNCHANGED <<rpc, hand, conn, stopVars, listener, flagVars, queue, mutex, net,
                   closes, countVars, records>>

-----------------------------------------------------------------------------
(* The owning thread: command_serve, run() and the destructor. *)

\* g_server = &server, and the signal handlers are installed.
Publish ==
    /\ rpc = "serve"
    /\ rpc' = "listen"
    /\ gServer' = TRUE
    /\ UNCHANGED <<hand, wpc, conn, spc, listener, flagVars, queue, mutex, waiting, net,
                   closes, countVars, records>>

\* tcp_listen returns the listening socket.
Listen ==
    /\ rpc = "listen"
    /\ rpc' = "start"
    /\ listener' = TRUE
    /\ UNCHANGED <<hand, wpc, conn, stopVars, flagVars, queue, mutex, waiting, net,
                   closes, countVars, records>>

\* tcp_listen throws, or a thread cannot be started: the exception leaves run()
\* and command_serve, and the server is destroyed on the way.
RunThrows ==
    /\ rpc \in {"listen", "spawn"}
    /\ rpc' = "dtorStop"
    /\ UNCHANGED <<hand, wpc, conn, stopVars, listener, flagVars, queue, mutex, waiting,
                   net, closes, countVars, records>>

SetRunning ==
    /\ rpc = "start"
    /\ rpc' = "reset"
    /\ running' = TRUE
    /\ UNCHANGED <<hand, wpc, conn, stopVars, listener, stopping, queue, mutex, waiting,
                   net, closes, countVars, records>>

\* stopping_.store(false), whatever stop() has stored before.
ClearStopping ==
    /\ rpc = "reset"
    /\ rpc' = "spawn"
    /\ stopping' = FALSE
    /\ UNCHANGED <<hand, wpc, conn, stopVars, listener, running, queue, mutex, waiting,
                   net, closes, countVars, records>>

\* Start the next worker; the accept loop begins once all are started.
Spawn(w) ==
    /\ rpc = "spawn"
    /\ wpc[w] = "unborn"
    /\ wpc' = [wpc EXCEPT ![w] = "lock"]
    /\ rpc' = IF \E v \in Workers \ {w} : wpc[v] = "unborn" THEN "spawn" ELSE "loop"
    /\ UNCHANGED <<hand, conn, stopVars, listener, flagVars, queue, mutex, waiting, net,
                   closes, countVars, records>>

\* while (!stopping_.load())
TestStop ==
    /\ rpc = "loop"
    /\ rpc' = IF stopping THEN "ending" ELSE "accept"
    /\ UNCHANGED <<hand, wpc, conn, stopVars, listener, flagVars, queue, mutex, waiting,
                   net, closes, countVars, records>>

\* poll times out or is interrupted, or accept fails: back to the stop flag.
PollNothing ==
    /\ rpc = "accept"
    /\ rpc' = "loop"
    /\ UNCHANGED <<hand, wpc, conn, stopVars, listener, flagVars, queue, mutex, waiting,
                   net, closes, countVars, records>>

\* accept returns a connection, which the local Socket now owns.
Accept(c) ==
    /\ rpc = "accept"
    /\ net[c] = "backlog"
    /\ rpc' = "push"
    /\ hand' = c
    /\ net' = [net EXCEPT ![c] = "taken"]
    /\ UNCHANGED <<wpc, conn, stopVars, listener, flagVars, queue, mutex, waiting, closes,
                   countVars, records>>

\* Mutant: a refused connection is not counted.
RefuseUncounted ==
    /\ rpc = "push"
    /\ mutex = None
    /\ Len(queue) >= MaxConnections
    /\ rpc' = "loop"
    /\ hand' = None
    /\ closes' = [closes EXCEPT ![hand] = @ + 1]
    /\ UNCHANGED <<wpc, conn, stopVars, listener, flagVars, queue, mutex, waiting, net,
                   countVars, records>>

\* Mutant: the bound is off by one.
RefuseOneLess ==
    /\ rpc = "push"
    /\ mutex = None
    /\ Len(queue) + 1 >= MaxConnections
    /\ rpc' = "loop"
    /\ hand' = None
    /\ closes' = [closes EXCEPT ![hand] = @ + 1]
    /\ rejected' = rejected + 1
    /\ UNCHANGED <<wpc, conn, stopVars, listener, flagVars, queue, mutex, waiting, net,
                   accepted, records>>

\* Under the mutex: the queue is full, so the connection is counted as refused
\* and closed when the Socket leaves its scope.
Refuse ==
    /\ rpc = "push"
    /\ mutex = None
    /\ Len(queue) >= MaxConnections
    /\ rpc' = "loop"
    /\ hand' = None
    /\ closes' = [closes EXCEPT ![hand] = @ + 1]
    /\ rejected' = rejected + 1
    /\ UNCHANGED <<wpc, conn, stopVars, listener, flagVars, queue, mutex, waiting, net,
                   accepted, records>>

\* Mutant: the Socket keeps the descriptor and closes it on scope exit.
PushWithoutRelease ==
    /\ rpc = "push"
    /\ mutex = None
    /\ Len(queue) < MaxConnections
    /\ rpc' = "count"
    /\ hand' = None
    /\ queue' = Append(queue, hand)
    /\ closes' = [closes EXCEPT ![hand] = @ + 1]
    /\ UNCHANGED <<wpc, conn, stopVars, listener, flagVars, mutex, waiting, net,
                   countVars, records>>

\* Mutant: the queue is extended without its mutex.
PushUnlocked ==
    /\ rpc = "push"
    /\ Len(queue) < MaxConnections
    /\ rpc' = "count"
    /\ hand' = None
    /\ queue' = Append(queue, hand)
    /\ UNCHANGED <<wpc, conn, stopVars, listener, flagVars, mutex, waiting, net, closes,
                   countVars, records>>

\* Under the mutex: the descriptor is released into the queue.
Push ==
    /\ rpc = "push"
    /\ mutex = None
    /\ Len(queue) < MaxConnections
    /\ rpc' = "count"
    /\ hand' = None
    /\ queue' = Append(queue, hand)
    /\ UNCHANGED <<wpc, conn, stopVars, listener, flagVars, mutex, waiting, net, closes,
                   countVars, records>>

CountAccepted ==
    /\ rpc = "count"
    /\ rpc' = "notify"
    /\ accepted' = accepted + 1
    /\ UNCHANGED <<hand, wpc, conn, stopVars, listener, flagVars, queue, mutex, waiting,
                   net, closes, rejected, records>>

Notify ==
    /\ rpc = "notify"
    /\ rpc' = "loop"
    /\ NotifyOne
    /\ UNCHANGED <<hand, conn, stopVars, listener, flagVars, queue, mutex, net, closes,
                   countVars, records>>

\* The loop has ended: running_ is cleared and the listening socket closed.
EndLoop ==
    /\ rpc = "ending"
    /\ rpc' = "wake"
    /\ running' = FALSE
    /\ CloseListener
    /\ UNCHANGED <<hand, wpc, conn, stopVars, stopping, queue, mutex, waiting, closes,
                   countVars, records>>

WakeWorkers ==
    /\ rpc = "wake"
    /\ rpc' = "join"
    /\ NotifyAll
    /\ UNCHANGED <<hand, conn, stopVars, listener, flagVars, queue, mutex, net, closes,
                   countVars, records>>

Finished(w) == wpc[w] \in {"done", "dead"}

\* Mutant: run() does not wait for its workers.
JoinNobody ==
    /\ rpc = "join"
    /\ rpc' = "drain"
    /\ UNCHANGED <<hand, wpc, conn, stopVars, listener, flagVars, queue, mutex, waiting,
                   net, closes, countVars, records>>

\* join() returns for every worker.
JoinWorkers ==
    /\ rpc = "join"
    /\ \A w \in Workers : Finished(w)
    /\ rpc' = "drain"
    /\ UNCHANGED <<hand, wpc, conn, stopVars, listener, flagVars, queue, mutex, waiting,
                   net, closes, countVars, records>>

\* Close anything still queued.
Drain ==
    /\ rpc = "drain"
    /\ mutex = None
    /\ rpc' = "returned"
    /\ queue' = <<>>
    /\ closes' = [c \in Conns |->
                    closes[c] + Cardinality({i \in DOMAIN queue : queue[i] = c})]
    /\ UNCHANGED <<hand, wpc, conn, stopVars, listener, flagVars, mutex, waiting, net,
                   countVars, records>>

\* Mutant: g_server is not cleared.
UnpublishForgets ==
    /\ rpc = "returned"
    /\ rpc' = "dtorStop"
    /\ UNCHANGED <<hand, wpc, conn, stopVars, listener, flagVars, queue, mutex, waiting, net,
                   closes, countVars, records>>

\* run() has returned: g_server = nullptr, and the server goes out of scope.
Unpublish ==
    /\ rpc = "returned"
    /\ rpc' = "dtorStop"
    /\ gServer' = FALSE
    /\ UNCHANGED <<hand, wpc, conn, spc, listener, flagVars, queue, mutex, waiting, net,
                   closes, countVars, records>>

\* ~PqTlsServer calls stop() ...
DtorStop ==
    /\ rpc = "dtorStop"
    /\ rpc' = "dtorRunning"
    /\ stopping' = TRUE
    /\ UNCHANGED <<hand, wpc, conn, stopVars, listener, running, queue, mutex, waiting,
                   net, closes, countVars, records>>

DtorRunning ==
    /\ rpc = "dtorRunning"
    /\ rpc' = "dtorWake"
    /\ running' = FALSE
    /\ UNCHANGED <<hand, wpc, conn, stopVars, listener, stopping, queue, mutex, waiting,
                   net, closes, countVars, records>>

\* ... whose notify_all is followed by one of the destructor's own ...
DtorWake ==
    /\ rpc \in {"dtorWake", "dtorWakeAgain"}
    /\ rpc' = IF rpc = "dtorWake" THEN "dtorWakeAgain" ELSE "dtorJoin"
    /\ NotifyAll
    /\ UNCHANGED <<hand, conn, stopVars, listener, flagVars, queue, mutex, net, closes,
                   countVars, records>>

\* ... and joins the workers that were started and not joined by run().
DtorJoin ==
    /\ rpc = "dtorJoin"
    /\ \A w \in Workers : Finished(w) \/ wpc[w] = "unborn"
    /\ rpc' = "gone"
    /\ CloseListener
    /\ UNCHANGED <<hand, wpc, conn, stopVars, flagVars, queue, mutex, waiting, closes,
                   countVars, records>>

-----------------------------------------------------------------------------
(* A worker: worker_loop. *)

\* Acquire the mutex and evaluate the wait predicate.  A queued connection is
\* taken and the mutex released.
Take(w) ==
    /\ wpc[w] = "lock"
    /\ mutex = None
    /\ queue # <<>>
    /\ wpc' = [wpc EXCEPT ![w] = "handle"]
    /\ conn' = [conn EXCEPT ![w] = Head(queue)]
    /\ queue' = Tail(queue)
    /\ UNCHANGED <<rpc, hand, stopVars, listener, flagVars, mutex, waiting, net, closes,
                   countVars, records>>

\* The queue is empty and the server stops: the worker returns.
Exit(w) ==
    /\ wpc[w] = "lock"
    /\ mutex = None
    /\ queue = <<>>
    /\ stopping
    /\ wpc' = [wpc EXCEPT ![w] = "done"]
    /\ UNCHANGED <<rpc, hand, conn, stopVars, listener, flagVars, queue, mutex, waiting,
                   net, closes, countVars, records>>

\* The predicate is false: the worker goes on to block, still holding the mutex.
FindNothing(w) ==
    /\ wpc[w] = "lock"
    /\ mutex = None
    /\ queue = <<>>
    /\ ~stopping
    /\ wpc' = [wpc EXCEPT ![w] = "block"]
    /\ mutex' = w
    /\ UNCHANGED <<rpc, hand, conn, stopVars, listener, flagVars, queue, waiting, net,
                   closes, countVars, records>>

\* The condition variable enqueues the worker and releases the mutex.
Block(w) ==
    /\ wpc[w] = "block"
    /\ wpc' = [wpc EXCEPT ![w] = "wait"]
    /\ waiting' = waiting \cup {w}
    /\ mutex' = None
    /\ UNCHANGED <<rpc, hand, conn, stopVars, listener, flagVars, queue, net, closes,
                   countVars, records>>

\* Mutant: without a timeout, handle_connection ends only when the server stops.
FinishAtStop(w) ==
    /\ wpc[w] = "handle"
    /\ stopping
    /\ wpc' = [wpc EXCEPT ![w] = "lock"]
    /\ conn' = [conn EXCEPT ![w] = None]
    /\ closes' = [closes EXCEPT ![conn[w]] = @ + 1]
    /\ records' = records \cup {conn[w]}
    /\ UNCHANGED <<rpc, hand, stopVars, listener, flagVars, queue, mutex, waiting, net,
                   countVars>>

\* handle_connection returns: the record is written, the Socket closes.
Finish(w) ==
    /\ wpc[w] = "handle"
    /\ wpc' = [wpc EXCEPT ![w] = "lock"]
    /\ conn' = [conn EXCEPT ![w] = None]
    /\ closes' = [closes EXCEPT ![conn[w]] = @ + 1]
    /\ records' = records \cup {conn[w]}
    /\ UNCHANGED <<rpc, hand, stopVars, listener, flagVars, queue, mutex, waiting, net,
                   countVars>>

\* An exception outside handle_connection's try block (the identifier before it,
\* the metrics record after it) closes the Socket and ends the worker thread.
Die(w) ==
    /\ wpc[w] = "handle"
    /\ Cardinality({v \in Workers : wpc[v] = "dead"}) < MaxDeaths
    /\ wpc' = [wpc EXCEPT ![w] = "dead"]
    /\ conn' = [conn EXCEPT ![w] = None]
    /\ closes' = [closes EXCEPT ![conn[w]] = @ + 1]
    /\ UNCHANGED <<rpc, hand, stopVars, listener, flagVars, queue, mutex, waiting, net,
                   countVars, records>>

-----------------------------------------------------------------------------
(* stop(), called by handle_signal. *)

\* handle_signal finds g_server set and enters stop().
SignalArrives ==
    /\ spc = "idle"
    /\ gServer
    /\ spc' = "flag"
    /\ UNCHANGED <<rpc, hand, wpc, conn, gServer, listener, flagVars, queue, mutex,
                   waiting, net, closes, countVars, records>>

StopFlag ==
    /\ spc = "flag"
    /\ spc' = "clear"
    /\ stopping' = TRUE
    /\ UNCHANGED <<rpc, hand, wpc, conn, gServer, listener, running, queue, mutex,
                   waiting, net, closes, countVars, records>>

StopRunning ==
    /\ spc = "clear"
    /\ spc' = "wake"
    /\ running' = FALSE
    /\ UNCHANGED <<rpc, hand, wpc, conn, gServer, listener, stopping, queue, mutex,
                   waiting, net, closes, countVars, records>>

\* Mutant: stop() only stores its flags.
StopWakesNobody ==
    /\ spc = "wake"
    /\ spc' = "idle"
    /\ UNCHANGED <<rpc, hand, wpc, conn, gServer, listener, flagVars, queue, mutex,
                   waiting, net, closes, countVars, records>>

\* notify_all, without the mutex.
StopWake ==
    /\ spc = "wake"
    /\ spc' = "idle"
    /\ NotifyAll
    /\ UNCHANGED <<rpc, hand, conn, gServer, listener, flagVars, queue, mutex, net,
                   closes, countVars, records>>

\* The process has left the server behind.
Terminated == rpc = "gone" /\ spc = "idle" /\ UNCHANGED vars

-----------------------------------------------------------------------------
(* The handler runs on one of the threads, which waits for it.  So the owning  *)
(* thread goes on while a signal is handled only if some worker can be the one *)
(* that was interrupted.                                                       *)
NotInterrupted ==
    spc = "idle" \/ \E w \in Workers : wpc[w] \notin {"unborn", "done", "dead"}

RunStep ==
    /\ NotInterrupted
    /\ \/ Publish \/ Listen \/ SetRunning \/ ClearStopping \/ TestStop
       \/ (\E w \in Workers : Spawn(w))
       \/ PollNothing \/ CountAccepted \/ Notify \/ EndLoop \/ WakeWorkers \/ JoinWorkers
       \/ Unpublish \/ DtorStop \/ DtorRunning \/ DtorWake \/ DtorJoin

LockedRunStep == NotInterrupted /\ (Refuse \/ Push \/ Drain)

AcceptSome == NotInterrupted /\ \E c \in Conns : Accept(c)

LockedWorkerStep(w) == Take(w) \/ Exit(w) \/ FindNothing(w)

HandlerStep == StopFlag \/ StopRunning \/ StopWake

Next ==
    \/ RunStep \/ LockedRunStep \/ AcceptSome \/ (NotInterrupted /\ RunThrows)
    \/ \E w \in Workers : \/ LockedWorkerStep(w) \/ Block(w) \/ Finish(w) \/ Die(w)
                          \/ SpuriousWakeup(w)
    \/ \E c \in Conns : ClientConnects(c)
    \/ SignalArrives \/ HandlerStep
    \/ Terminated

Spec == Init /\ [][Next]_vars

(* Every thread that can run, or can again and again because signals keep      *)
(* interrupting it, eventually runs; a thread that keeps asking for a mutex    *)
(* that keeps being free eventually gets it; poll eventually reports a         *)
(* connection that stays in the backlog; handle_connection returns, because    *)
(* every socket operation in it has a timeout and the messages are bounded.    *)
(* Nothing is assumed of clients, signals, exceptions or spurious wakeups.     *)
Fairness ==
    /\ SF_vars(RunStep)
    /\ SF_vars(LockedRunStep)
    /\ SF_vars(AcceptSome)
    /\ WF_vars(HandlerStep)
    /\ \A w \in Workers : /\ SF_vars(LockedWorkerStep(w))
                          /\ WF_vars(Block(w))
                          /\ WF_vars(Finish(w))

FairSpec == Spec /\ Fairness

-----------------------------------------------------------------------------
(* Properties *)

Queued == {queue[i] : i \in DOMAIN queue}
Taken  == {c \in Conns : net[c] = "taken"}

\* The places a connection taken from the kernel can be in.
Held(c) == c = hand \/ c \in Queued \/ \E w \in Workers : conn[w] = c

\* Every socket that accept() returned has exactly one owner (the accepting
\* thread, one slot of the queue, or one worker) until it is closed, and it is
\* closed once: no descriptor leaks, is served twice, or is closed twice, in
\* any interleaving of accepting, refusing, serving, dying and shutting down.
Ownership ==
    /\ \A c \in Conns : closes[c] = IF c \in Taken /\ ~Held(c) THEN 1 ELSE 0
    /\ \A i, j \in DOMAIN queue : queue[i] = queue[j] => i = j
    /\ \A v, w \in Workers : conn[v] = conn[w] => v = w \/ conn[v] = None
    /\ \A w \in Workers : conn[w] \notin Queued \cup ({hand} \ {None})
    /\ hand \notin Queued

\* No client is turned away while a worker is idle: when a connection is refused,
\* every worker serves a connection, is on its way to one in the queue, or has
\* been ended by an exception.  The limit alone does not say so; it takes that no
\* wakeup is lost, and that the queue is as long as there are workers.
RefusesOnlyBusy ==
    [][rejected' > rejected => \A w \in Workers : wpc[w] \in {"lock", "handle", "dead"}]_vars

\* The two counters together have counted every accepted socket, except the one
\* the accepting thread is just dealing with.
CountersAddUp ==
    accepted + rejected + (IF rpc \in {"push", "count"} THEN 1 ELSE 0)
      = Cardinality(Taken)

\* No worker outlives the server: when run() returns, or the server is
\* destroyed, no thread is blocked, holds the mutex or serves a connection, and
\* every socket ever accepted has been closed.
CleanShutdown ==
    rpc \in {"returned", "gone"} =>
        /\ waiting = {} /\ mutex = None
        /\ \A w \in Workers : wpc[w] \in {"unborn", "done", "dead"}
        /\ \A c \in Taken : closes[c] = 1

\* A waiting worker never sleeps on work: while some worker is blocked, every
\* queued connection is matched by a worker on its way to the queue or by the
\* notify_one the accepting thread still owes.
WakeupsCoverQueue ==
    waiting # {} =>
        Len(queue) <= Cardinality({w \in Workers : wpc[w] = "lock"})
                        + (IF rpc \in {"count", "notify"} THEN 1 ELSE 0)

\* stop() never runs on a server that has been destroyed, however far it had come
\* when run() returned, except after run() itself threw, before all its workers
\* were started: then g_server is not cleared.
StopOnLiveServer ==
    rpc = "gone" /\ spc # "idle" => \E w \in Workers : wpc[w] = "unborn"

\* Every accepted connection is eventually closed (served, refused or drained),
\* unless exceptions have ended every worker: no wakeup for queued work is lost,
\* and one worker that survives serves them all.  When none does, what is queued
\* waits for stop().
ConnectionsEnd ==
    \A c \in Conns :
        (net[c] = "taken") ~> (closes[c] = 1 \/ \A w \in Workers : wpc[w] = "dead")

InLoop == rpc \in {"loop", "accept", "push", "count", "notify"}

\* A stop() that arrives while the server serves makes run() return and the
\* server go away.
StopReturns == (InLoop /\ stopping) ~> (rpc = "gone")

\* An operator who repeats the signal for as long as the handler finds a server
\* gets rid of it, although one signal alone may be lost: on run(), which clears
\* the flag when it starts, or on a worker that is about to block.
RepeatedStopReturns == WF_vars(SignalArrives) => (gServer ~> (rpc = "gone"))
=============================================================================
