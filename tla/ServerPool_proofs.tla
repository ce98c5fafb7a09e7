-------------------------- MODULE ServerPool_proofs --------------------------
(* Safety of the connection pool, for any number of connections and workers:  *)
(* the inductive invariant, that every step keeps it, and what follows.       *)
EXTENDS ServerPool, FiniteSetTheorems, TLAPS

(* The inductive invariant.  Threads says how each thread's position determines *)
(* what it owns; Phases, which positions of the workers and of the queue go     *)
(* with which phase of run().  Ownership is inductive only with both: that a    *)
(* connection is closed once needs that the thread closing it was its owner.    *)
Threads ==
    /\ hand # None <=> rpc = "push"
    /\ hand # None => hand \in Taken
    /\ \A w \in Workers : /\ conn[w] # None <=> wpc[w] = "handle"
                          /\ conn[w] # None => conn[w] \in Taken
                          /\ w \in waiting <=> wpc[w] = "wait"
                          /\ mutex = w <=> wpc[w] = "block"
    /\ Queued \subseteq Taken
    /\ mutex # None => queue = <<>>

BeforeSpawn == {"serve", "listen", "start", "reset"}
Destroying  == {"dtorStop", "dtorRunning", "dtorWake", "dtorWakeAgain", "dtorJoin"}

Phases ==
    /\ rpc \in BeforeSpawn => \A w \in Workers : wpc[w] = "unborn"
    /\ rpc \notin BeforeSpawn \cup {"spawn", "gone"} \cup Destroying =>
            \A w \in Workers : wpc[w] # "unborn"
    /\ rpc \in {"drain", "returned"} => \A w \in Workers : Finished(w)
    /\ rpc = "gone" => \A w \in Workers : Finished(w) \/ wpc[w] = "unborn"
    /\ rpc \in BeforeSpawn \cup {"spawn", "returned", "gone"} \cup Destroying =>
            queue = <<>>

IInv == TypeOK /\ Ownership /\ Threads /\ Phases /\ Len(queue) <= MaxConnections

-----------------------------------------------------------------------------
(* Ownership.  Only eight actions move or close a connection. *)

ownVars == <<hand, conn, queue, closes, Taken>>

\* What Append and Tail do to the elements of a sequence.
LEMMA RangeOfAppend ==
    ASSUME NEW S, NEW q \in Seq(S), NEW x \in S
    PROVE  {Append(q, x)[i] : i \in DOMAIN Append(q, x)} = {q[i] : i \in DOMAIN q} \cup {x}
<1> DEFINE r == Append(q, x)
<1>1. /\ Len(q) \in Nat /\ DOMAIN q = 1 .. Len(q) /\ DOMAIN r = 1 .. Len(q) + 1
      /\ \A i \in 1 .. Len(q) : r[i] = q[i]
      /\ r[Len(q) + 1] = x
  OBVIOUS
<1> HIDE DEF r
<1>2. \A i \in DOMAIN r : r[i] = x \/ \E j \in DOMAIN q : r[i] = q[j]
  <2> TAKE i \in DOMAIN r
  <2>1. i = Len(q) + 1 \/ i \in DOMAIN q
    BY <1>1
  <2> QED
    BY <1>1, <2>1
<1>3. \A j \in DOMAIN q : j \in DOMAIN r /\ r[j] = q[j]
  BY <1>1
<1>4. Len(q) + 1 \in DOMAIN r
  BY <1>1
<1> QED
  <2>1. \A y : y \in {r[i] : i \in DOMAIN r} => y \in {q[i] : i \in DOMAIN q} \cup {x}
    BY <1>2
  <2>2. \A y : y \in {q[i] : i \in DOMAIN q} \cup {x} => y \in {r[i] : i \in DOMAIN r}
    BY <1>1, <1>3, <1>4
  <2>3. {r[i] : i \in DOMAIN r} = {q[i] : i \in DOMAIN q} \cup {x}
    BY <2>1, <2>2, ZenonT(30)
  <2> QED
    BY <2>3 DEF r

\* The front and the tail of a queue together have its elements.
LEMMA RangeOfTail ==
    ASSUME NEW S, NEW q \in Seq(S), q # <<>>
    PROVE  {q[i] : i \in DOMAIN q} = {Tail(q)[i] : i \in DOMAIN Tail(q)} \cup {Head(q)}
<1> DEFINE r == Tail(q)
<1>1. /\ Len(q) \in Nat \ {0} /\ DOMAIN q = 1 .. Len(q) /\ DOMAIN r = 1 .. Len(q) - 1
      /\ \A i \in 1 .. Len(q) - 1 : r[i] = q[i + 1]
      /\ Head(q) = q[1]
  OBVIOUS
<1> HIDE DEF r
<1>2. \A i \in DOMAIN q : q[i] = Head(q) \/ \E j \in DOMAIN r : q[i] = r[j]
  <2> TAKE i \in DOMAIN q
  <2>1. CASE i = 1
    BY <1>1, <2>1
  <2>2. CASE i # 1
    <3>1. i - 1 \in DOMAIN r /\ r[i - 1] = q[(i - 1) + 1] /\ (i - 1) + 1 = i
      BY <1>1, <2>2
    <3> QED
      BY <3>1
  <2> QED
    BY <2>1, <2>2
<1>3. \A j \in DOMAIN r : j + 1 \in DOMAIN q /\ r[j] = q[j + 1]
  BY <1>1
<1>4. 1 \in DOMAIN q
  BY <1>1
<1> QED
  <2>1. \A y : y \in {q[i] : i \in DOMAIN q} => y \in {r[i] : i \in DOMAIN r} \cup {Head(q)}
    BY <1>2
  <2>2. \A y : y \in {r[i] : i \in DOMAIN r} \cup {Head(q)} => y \in {q[i] : i \in DOMAIN q}
    BY <1>1, <1>3, <1>4
  <2>3. {q[i] : i \in DOMAIN q} = {r[i] : i \in DOMAIN r} \cup {Head(q)}
    BY <2>1, <2>2, ZenonT(30)
  <2> QED
    BY <2>3 DEF r

\* The final drain of the queue closes each connection in it once.
LEMMA DrainCounts ==
    ASSUME IInv, NEW c \in Conns
    PROVE  Cardinality({i \in DOMAIN queue : queue[i] = c})
             = IF c \in Queued THEN 1 ELSE 0
<1> DEFINE S == {i \in DOMAIN queue : queue[i] = c}
<1>1. CASE c \in Queued
  <2>1. PICK i \in DOMAIN queue : queue[i] = c
    BY <1>1 DEF Queued
  <2>2. S = {i}
    BY <2>1 DEF IInv, Ownership
  <2> QED
    BY <1>1, <2>2, FS_Singleton, ZenonT(30)
<1>2. CASE c \notin Queued
  <2>1. S = {}
    BY <1>2 DEF Queued
  <2> QED
    BY <1>2, <2>1, FS_EmptySet
<1> QED
  BY <1>1, <1>2

\* A step that leaves the owners and the close counts alone.
LEMMA OwnershipQuiet ==
    ASSUME IInv, UNCHANGED ownVars
    PROVE  Ownership'
BY DEF IInv, Ownership, ownVars, Held, Queued

\* A newly accepted connection had no owner and was never closed.
LEMMA OwnershipAccept ==
    ASSUME IInv, NEW c \in Conns, Accept(c)
    PROVE  Ownership'
<1> USE ConstantsAssumption DEF IInv, TypeOK, Accept
<1>1. Taken' = Taken \cup {c} /\ c \notin Taken
  BY DEF Taken
<1>2. hand = None /\ hand' = c /\ Queued' = Queued
  BY DEF Threads, Queued
<1>3. c \notin Queued /\ \A w \in Workers : conn[w] # c
  BY <1>1 DEF Threads
<1>4. \A d \in Conns : Held(d)' <=> Held(d) \/ d = c
  BY <1>2 DEF Held
<1>5. \A d \in Conns : closes'[d] = IF d \in Taken' /\ ~Held(d)' THEN 1 ELSE 0
  BY <1>1, <1>4 DEF Ownership
<1> QED
  BY <1>2, <1>3, <1>5 DEF Ownership

\* A refused connection leaves the accepting thread and is closed.
LEMMA OwnershipRefuse ==
    ASSUME IInv, Refuse
    PROVE  Ownership'
<1> USE ConstantsAssumption DEF IInv, TypeOK, Refuse
<1>1. hand \in Conns /\ hand \in Taken /\ hand' = None
  BY DEF Threads
<1>2. Taken' = Taken /\ Queued' = Queued
  BY DEF Taken, Queued
<1>3. \A d \in Conns : Held(d)' <=> Held(d) /\ d # hand
  BY <1>1, <1>2 DEF Held, Ownership
<1>4. \A d \in Conns : closes'[d] = IF d \in Taken' /\ ~Held(d)' THEN 1 ELSE 0
  BY <1>1, <1>2, <1>3 DEF Ownership, Held
<1>5. None \notin Queued
  BY DEF Queued
<1> QED
  BY <1>1, <1>2, <1>4, <1>5 DEF Ownership

\* A pushed connection passes from the accepting thread to the queue's end.
LEMMA OwnershipPush ==
    ASSUME IInv, Push
    PROVE  Ownership'
<1> USE ConstantsAssumption DEF IInv, TypeOK, Push
<1>1. hand \in Conns /\ hand' = None /\ Taken' = Taken
  BY DEF Threads, Taken
<1>2. /\ DOMAIN queue' = 1 .. Len(queue) + 1
      /\ \A i \in 1 .. Len(queue) : queue'[i] = queue[i]
      /\ queue'[Len(queue) + 1] = hand
      /\ DOMAIN queue = 1 .. Len(queue)
  BY <1>1
<1>3. Queued' = Queued \cup {hand}
  <2>1. queue \in Seq(Conns) /\ queue' = Append(queue, hand)
    OBVIOUS
  <2> HIDE DEF IInv, TypeOK, Push
  <2> QED
    BY <1>1, <2>1, RangeOfAppend DEF Queued
<1>4. \A d \in Conns : Held(d)' <=> Held(d)
  BY <1>1, <1>3 DEF Held
<1>5. \A i, j \in DOMAIN queue' : queue'[i] = queue'[j] => i = j
  BY <1>2 DEF Ownership, Queued
<1>6. None \notin Queued'
  BY <1>1, <1>3 DEF Queued
<1> QED
  BY <1>1, <1>3, <1>4, <1>5, <1>6 DEF Ownership, Threads

\* A taken connection passes from the queue's front to one worker.
LEMMA OwnershipTake ==
    ASSUME IInv, NEW w \in Workers, Take(w)
    PROVE  Ownership'
<1> USE ConstantsAssumption DEF IInv, TypeOK, Take
<1> DEFINE c == Head(queue)
<1>1. /\ DOMAIN queue = 1 .. Len(queue) /\ Len(queue) \in Nat \ {0}
      /\ c = queue[1] /\ c \in Conns
      /\ DOMAIN queue' = 1 .. Len(queue) - 1
      /\ \A i \in 1 .. Len(queue) - 1 : queue'[i] = queue[i + 1]
  OBVIOUS
<1>2. Queued = Queued' \cup {c} /\ c \notin Queued' /\ Taken' = Taken
  <2>1. Queued = Queued' \cup {c}
    BY RangeOfTail, ZenonT(30) DEF Queued
  <2>2. \A j \in DOMAIN queue' : queue'[j] # c
    <3> TAKE j \in DOMAIN queue'
    <3>1. j + 1 \in DOMAIN queue /\ j + 1 # 1 /\ 1 \in DOMAIN queue
      BY <1>1
    <3> QED
      BY <1>1, <3>1 DEF Ownership
  <2>3. c \notin Queued'
    BY <2>2 DEF Queued
  <2> QED
    BY <2>1, <2>3 DEF Taken
<1>3. /\ conn[w] = None /\ conn'[w] = c
      /\ \A v \in Workers \ {w} : conn'[v] = conn[v] /\ conn[v] # c
  BY <1>1, <1>2 DEF Threads, Ownership
<1>4. \A d \in Conns : Held(d)' <=> Held(d)
  BY <1>2, <1>3 DEF Held
<1>5. \A i, j \in DOMAIN queue' : queue'[i] = queue'[j] => i = j
  <2> TAKE i, j \in DOMAIN queue'
  <2>1. /\ i \in Nat /\ j \in Nat
        /\ i + 1 \in DOMAIN queue /\ queue'[i] = queue[i + 1]
        /\ j + 1 \in DOMAIN queue /\ queue'[j] = queue[j + 1]
    BY <1>1, SMTT(30)
  <2>2. queue[i + 1] = queue[j + 1] => i + 1 = j + 1
    BY <2>1 DEF Ownership
  <2> QED
    BY <2>1, <2>2
<1>6. hand # c
  BY <1>2 DEF Ownership
<1>7. \A u, v \in Workers : conn'[u] = conn'[v] => u = v \/ conn'[u] = None
  BY <1>3 DEF Ownership
<1>8. \A v \in Workers : conn'[v] \notin Queued' \cup ({hand'} \ {None})
  BY <1>2, <1>3, <1>6 DEF Ownership
<1> QED
  BY <1>2, <1>4, <1>5, <1>7, <1>8 DEF Ownership

\* A worker that ends with its connection, by returning or by an exception.
LEMMA OwnershipRelease ==
    ASSUME IInv, NEW w \in Workers, Finish(w) \/ Die(w)
    PROVE  Ownership'
<1> USE ConstantsAssumption DEF IInv, TypeOK
<1> DEFINE c == conn[w]
<1>1. /\ conn' = [conn EXCEPT ![w] = None]
      /\ closes' = [closes EXCEPT ![c] = @ + 1]
      /\ Taken' = Taken /\ Queued' = Queued /\ hand' = hand /\ queue' = queue
  BY DEF Finish, Die, Taken, Queued
<1>2. c \in Conns /\ c \in Taken
  BY DEF Threads, Finish, Die
<1>3. \A d \in Conns : Held(d)' <=> Held(d) /\ d # c
  <2>1. c \notin Queued /\ c # hand /\ \A v \in Workers \ {w} : conn[v] # c
    BY <1>2 DEF Ownership
  <2>2. /\ conn'[w] = None
        /\ \A v \in Workers \ {w} : conn'[v] = conn[v]
    BY <1>1
  <2> QED
    BY <1>1, <1>2, <2>1, <2>2 DEF Held
<1>4. \A d \in Conns : closes'[d] = IF d \in Taken' /\ ~Held(d)' THEN 1 ELSE 0
  BY <1>1, <1>2, <1>3 DEF Ownership, Held
<1>5. None \notin Queued
  BY DEF Queued
<1> QED
  BY <1>1, <1>4, <1>5 DEF Ownership

\* Draining closes each queued connection once.
LEMMA OwnershipDrain ==
    ASSUME IInv, Drain
    PROVE  Ownership'
<1> USE ConstantsAssumption DEF IInv, TypeOK, Drain
<1>1. Taken' = Taken /\ Queued' = {}
  BY DEF Taken, Queued
<1>2. \A d \in Conns : closes'[d] = closes[d] + IF d \in Queued THEN 1 ELSE 0
  BY DrainCounts, ZenonT(30)
<1>3. \A d \in Conns : Held(d)' <=> Held(d) /\ d \notin Queued
  BY <1>1 DEF Held, Ownership
<1>4. \A d \in Conns : closes'[d] = IF d \in Taken' /\ ~Held(d)' THEN 1 ELSE 0
  BY <1>1, <1>2, <1>3 DEF Ownership, Held, Threads
<1> QED
  BY <1>1, <1>4 DEF Ownership

\* Every step of acceptor, workers and handler preserves Ownership.
LEMMA OwnershipStep ==
    ASSUME IInv, Next
    PROVE  Ownership'
<1>1. \/ UNCHANGED ownVars
      \/ \E c \in Conns : Accept(c)
      \/ Refuse \/ Push \/ Drain
      \/ \E w \in Workers : Take(w) \/ Finish(w) \/ Die(w)
  BY ZenonT(30) DEF Next, RunStep, LockedRunStep, AcceptSome, LockedWorkerStep, HandlerStep, flagVars, countVars, stopVars, ownVars, Taken,
        IInv, TypeOK, Publish, Listen, RunThrows, SetRunning, ClearStopping, Spawn, TestStop, PollNothing,
        Accept, Refuse, Push, CountAccepted, Notify, NotifyOne, EndLoop, CloseListener,
        WakeWorkers, NotifyAll, JoinWorkers, Drain, Unpublish, DtorStop, DtorRunning,
        DtorWake, DtorJoin, Take, Exit, FindNothing, Block, Finish, Die, SpuriousWakeup,
        ClientConnects, SignalArrives, StopFlag, StopRunning, StopWake, Terminated, vars
<1> QED
  BY <1>1, OwnershipQuiet, OwnershipAccept, OwnershipRefuse, OwnershipPush,
     OwnershipDrain, OwnershipTake, OwnershipRelease


-----------------------------------------------------------------------------
(* Every step preserves the other conjuncts of the invariant.                 *)

\* Every step preserves the types.
LEMMA TypeStep ==
    ASSUME IInv, Next
    PROVE  TypeOK'
<1>0. \A c \in Conns : Cardinality({i \in DOMAIN queue : queue[i] = c}) \in Nat
  BY DrainCounts
<1> USE ConstantsAssumption
    DEF IInv, TypeOK, stopVars, flagVars, countVars, RunPC, WorkerPC, Threads
<1>1. CASE Publish
  BY <1>1 DEF Publish
<1>2. CASE Listen
  BY <1>2 DEF Listen
<1>3. CASE RunThrows
  BY <1>3 DEF RunThrows
<1>4. CASE SetRunning
  BY <1>4 DEF SetRunning
<1>5. CASE ClearStopping
  BY <1>5, ZenonT(30) DEF ClearStopping
<1>6. ASSUME NEW w \in Workers, Spawn(w) PROVE TypeOK'
  BY <1>6 DEF Spawn
<1>7. CASE TestStop
  BY <1>7 DEF TestStop
<1>8. CASE PollNothing
  BY <1>8 DEF PollNothing
<1>9. ASSUME NEW c \in Conns, Accept(c) PROVE TypeOK'
  BY <1>9 DEF Accept
<1>10. CASE Refuse
  BY <1>10 DEF Refuse
<1>11. CASE Push
  BY <1>11 DEF Push
<1>12. CASE CountAccepted
  BY <1>12 DEF CountAccepted
<1>13. CASE Notify
  BY <1>13 DEF Notify, NotifyOne
<1>14. CASE EndLoop
  BY <1>14, ZenonT(30) DEF EndLoop, CloseListener
<1>15. CASE WakeWorkers
  BY <1>15 DEF WakeWorkers, NotifyAll
<1>16. CASE JoinWorkers
  BY <1>16 DEF JoinWorkers
<1>17. CASE Drain
  BY <1>17, <1>0 DEF Drain
<1>18. CASE Unpublish
  BY <1>18, ZenonT(30) DEF Unpublish
<1>19. CASE DtorStop
  BY <1>19 DEF DtorStop
<1>20. CASE DtorRunning
  BY <1>20, ZenonT(30) DEF DtorRunning
<1>21. CASE DtorWake
  BY <1>21 DEF DtorWake, NotifyAll
<1>22. CASE DtorJoin
  BY <1>22, ZenonT(30) DEF DtorJoin, CloseListener
<1>23. ASSUME NEW w \in Workers, Take(w) PROVE TypeOK'
  BY <1>23 DEF Take
<1>24. ASSUME NEW w \in Workers, Exit(w) PROVE TypeOK'
  BY <1>24 DEF Exit
<1>25. ASSUME NEW w \in Workers, FindNothing(w) PROVE TypeOK'
  BY <1>25 DEF FindNothing
<1>26. ASSUME NEW w \in Workers, Block(w) PROVE TypeOK'
  BY <1>26 DEF Block
<1>27. ASSUME NEW w \in Workers, SpuriousWakeup(w) PROVE TypeOK'
  BY <1>27 DEF SpuriousWakeup
<1>28. ASSUME NEW w \in Workers, Finish(w) PROVE TypeOK'
  BY <1>28 DEF Finish
<1>29. ASSUME NEW w \in Workers, Die(w) PROVE TypeOK'
  BY <1>29 DEF Die
<1>30. ASSUME NEW c \in Conns, ClientConnects(c) PROVE TypeOK'
  BY <1>30 DEF ClientConnects
<1>31. CASE SignalArrives
  BY <1>31 DEF SignalArrives
<1>32. CASE StopFlag
  BY <1>32 DEF StopFlag
<1>33. CASE StopRunning
  BY <1>33, ZenonT(30) DEF StopRunning
<1>34. CASE StopWake
  BY <1>34 DEF StopWake, NotifyAll
<1>35. CASE Terminated
  BY <1>35 DEF Terminated, vars
<1> HIDE DEF IInv, TypeOK, stopVars, flagVars, countVars, RunPC, WorkerPC, Threads
<1> QED
  BY <1>1, <1>2, <1>3, <1>4, <1>5, <1>6, <1>7, <1>8, <1>9,
     <1>10, <1>11, <1>12, <1>13, <1>14, <1>15, <1>16, <1>17, <1>18,
     <1>19, <1>20, <1>21, <1>22, <1>23, <1>24, <1>25, <1>26, <1>27,
     <1>28, <1>29, <1>30, <1>31, <1>32, <1>33, <1>34, <1>35
     DEF Next, RunStep, LockedRunStep, AcceptSome, LockedWorkerStep, HandlerStep

\* Every step preserves what a thread's position says it owns.
LEMMA ThreadsStep ==
    ASSUME IInv, Next
    PROVE  Threads'
<1> USE ConstantsAssumption
    DEF IInv, TypeOK, stopVars, flagVars, countVars, Threads, Taken, Queued, Phases,
        BeforeSpawn, Destroying, Finished, RunPC, WorkerPC
<1>1. CASE Publish
  BY <1>1 DEF Publish
<1>2. CASE Listen
  BY <1>2 DEF Listen
<1>3. CASE RunThrows
  BY <1>3 DEF RunThrows
<1>4. CASE SetRunning
  BY <1>4 DEF SetRunning
<1>5. CASE ClearStopping
  BY <1>5 DEF ClearStopping
<1>6. ASSUME NEW w \in Workers, Spawn(w) PROVE Threads'
  BY <1>6 DEF Spawn
<1>7. CASE TestStop
  BY <1>7 DEF TestStop
<1>8. CASE PollNothing
  BY <1>8 DEF PollNothing
<1>9. ASSUME NEW c \in Conns, Accept(c) PROVE Threads'
  BY <1>9 DEF Accept
<1>10. CASE Refuse
  BY <1>10 DEF Refuse
<1>11. CASE Push
  BY <1>11 DEF Push
<1>12. CASE CountAccepted
  BY <1>12 DEF CountAccepted
<1>13. CASE Notify
  BY <1>13 DEF Notify, NotifyOne
<1>14. CASE EndLoop
  BY <1>14 DEF EndLoop, CloseListener
<1>15. CASE WakeWorkers
  BY <1>15 DEF WakeWorkers, NotifyAll
<1>16. CASE JoinWorkers
  BY <1>16 DEF JoinWorkers
<1>17. CASE Drain
  BY <1>17 DEF Drain
<1>18. CASE Unpublish
  BY <1>18 DEF Unpublish
<1>19. CASE DtorStop
  BY <1>19 DEF DtorStop
<1>20. CASE DtorRunning
  BY <1>20 DEF DtorRunning
<1>21. CASE DtorWake
  BY <1>21 DEF DtorWake, NotifyAll
<1>22. CASE DtorJoin
  BY <1>22 DEF DtorJoin, CloseListener
<1>23. ASSUME NEW w \in Workers, Take(w) PROVE Threads'
  BY <1>23 DEF Take
<1>24. ASSUME NEW w \in Workers, Exit(w) PROVE Threads'
  BY <1>24 DEF Exit
<1>25. ASSUME NEW w \in Workers, FindNothing(w) PROVE Threads'
  BY <1>25 DEF FindNothing
<1>26. ASSUME NEW w \in Workers, Block(w) PROVE Threads'
  BY <1>26 DEF Block
<1>27. ASSUME NEW w \in Workers, SpuriousWakeup(w) PROVE Threads'
  BY <1>27 DEF SpuriousWakeup
<1>28. ASSUME NEW w \in Workers, Finish(w) PROVE Threads'
  BY <1>28 DEF Finish
<1>29. ASSUME NEW w \in Workers, Die(w) PROVE Threads'
  BY <1>29 DEF Die
<1>30. ASSUME NEW c \in Conns, ClientConnects(c) PROVE Threads'
  BY <1>30 DEF ClientConnects
<1>31. CASE SignalArrives
  BY <1>31 DEF SignalArrives
<1>32. CASE StopFlag
  BY <1>32 DEF StopFlag
<1>33. CASE StopRunning
  BY <1>33 DEF StopRunning
<1>34. CASE StopWake
  BY <1>34 DEF StopWake, NotifyAll
<1>35. CASE Terminated
  BY <1>35, SMTT(30) DEF Terminated, vars
<1> HIDE DEF IInv, TypeOK, stopVars, flagVars, countVars, Threads, Taken, Queued, Phases,
        BeforeSpawn, Destroying, Finished, RunPC, WorkerPC
<1> QED
  BY <1>1, <1>2, <1>3, <1>4, <1>5, <1>6, <1>7, <1>8, <1>9,
     <1>10, <1>11, <1>12, <1>13, <1>14, <1>15, <1>16, <1>17, <1>18,
     <1>19, <1>20, <1>21, <1>22, <1>23, <1>24, <1>25, <1>26, <1>27,
     <1>28, <1>29, <1>30, <1>31, <1>32, <1>33, <1>34, <1>35
     DEF Next, RunStep, LockedRunStep, AcceptSome, LockedWorkerStep, HandlerStep

\* Every step preserves what goes with each phase of run().
LEMMA PhasesStep ==
    ASSUME IInv, Next
    PROVE  Phases'
<1> USE ConstantsAssumption
    DEF IInv, TypeOK, stopVars, flagVars, countVars, Threads, Phases, BeforeSpawn, Destroying,
        Finished, RunPC, WorkerPC
<1>1. CASE Publish
  BY <1>1 DEF Publish
<1>2. CASE Listen
  BY <1>2 DEF Listen
<1>3. CASE RunThrows
  BY <1>3 DEF RunThrows
<1>4. CASE SetRunning
  BY <1>4 DEF SetRunning
<1>5. CASE ClearStopping
  BY <1>5 DEF ClearStopping
<1>6. ASSUME NEW w \in Workers, Spawn(w) PROVE Phases'
  BY <1>6 DEF Spawn
<1>7. CASE TestStop
  BY <1>7 DEF TestStop
<1>8. CASE PollNothing
  BY <1>8 DEF PollNothing
<1>9. ASSUME NEW c \in Conns, Accept(c) PROVE Phases'
  BY <1>9 DEF Accept
<1>10. CASE Refuse
  BY <1>10 DEF Refuse
<1>11. CASE Push
  BY <1>11 DEF Push
<1>12. CASE CountAccepted
  BY <1>12 DEF CountAccepted
<1>13. CASE Notify
  BY <1>13 DEF Notify, NotifyOne
<1>14. CASE EndLoop
  BY <1>14 DEF EndLoop, CloseListener
<1>15. CASE WakeWorkers
  BY <1>15 DEF WakeWorkers, NotifyAll
<1>16. CASE JoinWorkers
  BY <1>16 DEF JoinWorkers
<1>17. CASE Drain
  BY <1>17 DEF Drain
<1>18. CASE Unpublish
  BY <1>18 DEF Unpublish
<1>19. CASE DtorStop
  BY <1>19 DEF DtorStop
<1>20. CASE DtorRunning
  BY <1>20 DEF DtorRunning
<1>21. CASE DtorWake
  BY <1>21 DEF DtorWake, NotifyAll
<1>22. CASE DtorJoin
  BY <1>22 DEF DtorJoin, CloseListener
<1>23. ASSUME NEW w \in Workers, Take(w) PROVE Phases'
  BY <1>23 DEF Take
<1>24. ASSUME NEW w \in Workers, Exit(w) PROVE Phases'
  BY <1>24 DEF Exit
<1>25. ASSUME NEW w \in Workers, FindNothing(w) PROVE Phases'
  BY <1>25 DEF FindNothing
<1>26. ASSUME NEW w \in Workers, Block(w) PROVE Phases'
  BY <1>26 DEF Block
<1>27. ASSUME NEW w \in Workers, SpuriousWakeup(w) PROVE Phases'
  BY <1>27 DEF SpuriousWakeup
<1>28. ASSUME NEW w \in Workers, Finish(w) PROVE Phases'
  BY <1>28 DEF Finish
<1>29. ASSUME NEW w \in Workers, Die(w) PROVE Phases'
  BY <1>29 DEF Die
<1>30. ASSUME NEW c \in Conns, ClientConnects(c) PROVE Phases'
  BY <1>30 DEF ClientConnects
<1>31. CASE SignalArrives
  BY <1>31 DEF SignalArrives
<1>32. CASE StopFlag
  BY <1>32 DEF StopFlag
<1>33. CASE StopRunning
  BY <1>33 DEF StopRunning
<1>34. CASE StopWake
  BY <1>34 DEF StopWake, NotifyAll
<1>35. CASE Terminated
  BY <1>35, SMTT(30) DEF Terminated, vars
<1> HIDE DEF IInv, TypeOK, stopVars, flagVars, countVars, Threads, Phases, BeforeSpawn, Destroying,
        Finished, RunPC, WorkerPC
<1> QED
  BY <1>1, <1>2, <1>3, <1>4, <1>5, <1>6, <1>7, <1>8, <1>9,
     <1>10, <1>11, <1>12, <1>13, <1>14, <1>15, <1>16, <1>17, <1>18,
     <1>19, <1>20, <1>21, <1>22, <1>23, <1>24, <1>25, <1>26, <1>27,
     <1>28, <1>29, <1>30, <1>31, <1>32, <1>33, <1>34, <1>35
     DEF Next, RunStep, LockedRunStep, AcceptSome, LockedWorkerStep, HandlerStep

\* The queue grows only below its bound.
LEMMA BoundStep ==
    ASSUME IInv, Next
    PROVE  (Len(queue) <= MaxConnections)'
<1> USE ConstantsAssumption DEF IInv, TypeOK
<1>1. CASE UNCHANGED queue
  BY <1>1
<1>2. CASE Push
  BY <1>2 DEF Push, Threads
<1>3. CASE Drain
  BY <1>3 DEF Drain
<1>4. CASE \E w \in Workers : Take(w)
  BY <1>4 DEF Take
<1> QED
  BY <1>1, <1>2, <1>3, <1>4, ZenonT(30)
     DEF Next, RunStep, LockedRunStep, AcceptSome, LockedWorkerStep, HandlerStep,
         Publish, Listen, RunThrows, SetRunning, ClearStopping, Spawn, TestStop,
         PollNothing, Accept, Refuse, CountAccepted, Notify, EndLoop, WakeWorkers,
         JoinWorkers, Unpublish, DtorStop, DtorRunning, DtorWake, DtorJoin, Exit,
         FindNothing, Block, Finish, Die, SpuriousWakeup, ClientConnects,
         SignalArrives, StopFlag, StopRunning, StopWake, Terminated, vars

\* A server that has not started satisfies the inductive invariant.
LEMMA InitInv == Init => IInv
<1> SUFFICES ASSUME Init PROVE IInv
  OBVIOUS
<1> USE ConstantsAssumption DEF Init
<1>1. TypeOK
  <2>1. queue \in Seq(Conns) /\ waiting \in SUBSET Workers /\ records \in SUBSET Conns
    OBVIOUS
  <2>2. wpc \in [Workers -> WorkerPC] /\ rpc \in RunPC
    BY DEF RunPC, WorkerPC
  <2> QED
    BY <2>1, <2>2, ZenonT(30) DEF TypeOK
<1>2. Queued = {} /\ Taken = {}
  BY DEF Queued, Taken
<1>3. Ownership
  BY <1>2 DEF Ownership, Held
<1>4. Threads /\ Phases
  BY <1>2 DEF Threads, Phases, BeforeSpawn, Destroying
<1> QED
  BY <1>1, <1>3, <1>4 DEF IInv

\* Every step of the pool preserves the inductive invariant.
LEMMA InvStep == IInv /\ [Next]_vars => IInv'
<1> SUFFICES ASSUME IInv, [Next]_vars PROVE IInv'
  OBVIOUS
<1>1. CASE Next
  BY <1>1, TypeStep, OwnershipStep, ThreadsStep, PhasesStep, BoundStep DEF IInv
<1>2. CASE UNCHANGED vars
  <2>1. TypeOK'
    BY <1>2 DEF vars, IInv, TypeOK
  <2>2. Ownership'
    BY <1>2, OwnershipQuiet, SMTT(30) DEF vars, IInv, ownVars, Taken
  <2>3. Threads'
    BY <1>2 DEF vars, IInv, Threads, Taken, Queued
  <2>4. Phases'
    BY <1>2 DEF vars, IInv, Phases, Finished
  <2> QED
    BY <1>2, <2>1, <2>2, <2>3, <2>4 DEF vars, IInv
<1> QED
  BY <1>1, <1>2

\* The inductive invariant holds in every reachable state of the pool.
LEMMA Invariance == Spec => []IInv
BY InitInv, InvStep, PTL DEF Spec

-----------------------------------------------------------------------------
(* What follows from it.                                                      *)

\* The variables of the pool keep their types.
THEOREM TypeCorrect == Spec => []TypeOK
<1>1. IInv => TypeOK
  BY DEF IInv
<1> QED
  BY <1>1, Invariance, PTL

\* Every accepted socket has one owner until it is closed, and is closed once.
THEOREM OwnershipSafe == Spec => []Ownership
<1>1. IInv => Ownership
  BY DEF IInv
<1> QED
  BY <1>1, Invariance, PTL

\* When run() has returned, or the server is destroyed, no worker is left and
\* every accepted socket has been closed.
THEOREM ShutdownClean == Spec => []CleanShutdown
<1>1. IInv => CleanShutdown
  <2> SUFFICES ASSUME IInv, rpc \in {"returned", "gone"}
               PROVE  /\ waiting = {} /\ mutex = None
                      /\ \A w \in Workers : wpc[w] \in {"unborn", "done", "dead"}
                      /\ \A c \in Taken : closes[c] = 1
    BY DEF CleanShutdown
  <2>1. \A w \in Workers : wpc[w] \in {"unborn", "done", "dead"}
    BY DEF IInv, Phases, Finished
  <2>2. waiting = {} /\ mutex = None /\ hand = None /\ queue = <<>>
    BY <2>1 DEF IInv, Threads, TypeOK, Phases
  <2>3. \A c \in Taken : ~Held(c)
    BY <2>1, <2>2, ConstantsAssumption DEF IInv, Held, Threads, Queued, Taken
  <2> QED
    BY <2>1, <2>2, <2>3 DEF IInv, Ownership, Taken
<1> QED
  BY <1>1, Invariance, PTL

-----------------------------------------------------------------------------
(* The counters. *)

CountInv == IsFiniteSet(Taken) /\ CountersAddUp

\* Every step keeps the counters in line with the sockets accepted.
LEMMA CountStep ==
    ASSUME IInv, CountInv, Next
    PROVE  CountInv'
<1> USE DEF CountInv, CountersAddUp
<1>0. accepted \in Nat /\ rejected \in Nat /\ Cardinality(Taken) \in Nat
  BY FS_CardinalityType DEF IInv, TypeOK
<1>1. ASSUME NEW c \in Conns, Accept(c) PROVE CountInv'
  <2>1. Taken' = Taken \cup {c} /\ c \notin Taken
    BY <1>1 DEF IInv, TypeOK, Accept, Taken
  <2>2. IsFiniteSet(Taken') /\ Cardinality(Taken') = Cardinality(Taken) + 1
    BY <2>1, FS_AddElement
  <2> QED
    BY <1>0, <1>1, <2>2 DEF Accept, countVars
<1>2. CASE Refuse
  BY <1>0, <1>2 DEF Refuse, Taken
<1>3. CASE Push
  BY <1>0, <1>3 DEF Push, Taken, countVars
<1>4. CASE CountAccepted
  BY <1>0, <1>4 DEF CountAccepted, Taken
<1>5. CASE /\ UNCHANGED <<accepted, rejected, Taken>>
           /\ UNCHANGED rpc \/ {rpc, rpc'} \cap {"push", "count"} = {}
  BY <1>0, <1>5, ZenonT(30)
<1> QED
  <2>1. \/ \E c \in Conns : Accept(c)
        \/ Refuse \/ Push \/ CountAccepted
        \/ /\ UNCHANGED <<accepted, rejected, Taken>>
           /\ UNCHANGED rpc \/ {rpc, rpc'} \cap {"push", "count"} = {}
    BY ZenonT(30) DEF Next, IInv, TypeOK, Taken, RunStep, LockedRunStep, AcceptSome, LockedWorkerStep, HandlerStep,
         Publish, Listen, RunThrows, SetRunning, ClearStopping, Spawn, TestStop,
         PollNothing, Notify, EndLoop, CloseListener, WakeWorkers, JoinWorkers, Drain,
         Unpublish, DtorStop, DtorRunning, DtorWake, DtorJoin, Take, Exit, FindNothing,
         Block, Finish, Die, SpuriousWakeup, ClientConnects, SignalArrives, StopFlag,
         StopRunning, StopWake, Terminated, vars, countVars, flagVars, stopVars
  <2> QED
    BY <2>1, <1>1, <1>2, <1>3, <1>4, <1>5, SMTT(30)

\* Every accepted socket is counted once, as accepted or as refused.
THEOREM CountersCorrect == Spec => []CountersAddUp
<1>1. Init => CountInv
  <2> SUFFICES ASSUME Init PROVE CountInv
    OBVIOUS
  <2>1. Taken = {}
    BY DEF Init, Taken
  <2> QED
    BY <2>1, FS_EmptySet DEF Init, CountInv, CountersAddUp
<1>2. IInv /\ CountInv /\ [Next]_vars => CountInv'
  BY CountStep DEF vars, CountInv, CountersAddUp, Taken
<1>3. CountInv => CountersAddUp
  BY DEF CountInv
<1> QED
  BY <1>1, <1>2, <1>3, Invariance, PTL DEF Spec

-----------------------------------------------------------------------------
(* The signal handler and the server it points at. *)

SomeUnborn == \E w \in Workers : wpc[w] = "unborn"

(* While a server is destroyed with g_server still set, a worker was never      *)
(* started: run() threw.  The handler can be inside stop() of a destroyed       *)
(* server only if it entered through such a pointer, because the last thread    *)
(* to go on is the one that destroys it.                                        *)
HandlerInv ==
    /\ rpc \in BeforeSpawn \cup {"spawn"} => SomeUnborn
    /\ gServer /\ rpc \in Destroying \cup {"gone"} => SomeUnborn
    /\ rpc = "gone" /\ spc # "idle" => gServer

\* Every step preserves what is known of the handler.
LEMMA HandlerInvStep ==
    ASSUME IInv, HandlerInv, Next
    PROVE  HandlerInv'
<1> USE DEF IInv, TypeOK, HandlerInv, SomeUnborn, Phases, Threads, BeforeSpawn, Destroying,
        stopVars, flagVars, countVars, RunPC, WorkerPC
<1>1. CASE Publish
  BY <1>1 DEF Publish
<1>2. CASE Listen
  BY <1>2 DEF Listen
<1>3. CASE RunThrows
  BY <1>3 DEF RunThrows
<1>4. CASE SetRunning
  BY <1>4 DEF SetRunning
<1>5. CASE ClearStopping
  BY <1>5 DEF ClearStopping
<1>6. ASSUME NEW w \in Workers, Spawn(w) PROVE HandlerInv'
  BY <1>6 DEF Spawn
<1>7. CASE TestStop
  BY <1>7 DEF TestStop
<1>8. CASE PollNothing
  BY <1>8 DEF PollNothing
<1>9. ASSUME NEW c \in Conns, Accept(c) PROVE HandlerInv'
  BY <1>9 DEF Accept
<1>10. CASE Refuse
  BY <1>10 DEF Refuse
<1>11. CASE Push
  BY <1>11 DEF Push
<1>12. CASE CountAccepted
  BY <1>12 DEF CountAccepted
<1>13. CASE Notify
  BY <1>13 DEF Notify, NotifyOne
<1>14. CASE EndLoop
  BY <1>14 DEF EndLoop
<1>15. CASE WakeWorkers
  BY <1>15 DEF WakeWorkers, NotifyAll
<1>16. CASE JoinWorkers
  BY <1>16 DEF JoinWorkers
<1>17. CASE Drain
  BY <1>17 DEF Drain
<1>18. CASE Unpublish
  BY <1>18 DEF Unpublish
<1>19. CASE DtorStop
  BY <1>19 DEF DtorStop
<1>20. CASE DtorRunning
  BY <1>20 DEF DtorRunning
<1>21. CASE DtorWake
  BY <1>21 DEF DtorWake, NotifyAll
<1>22. CASE NotInterrupted /\ DtorJoin
  BY <1>22 DEF DtorJoin, NotInterrupted, Finished
<1>23. ASSUME NEW w \in Workers, Take(w) PROVE HandlerInv'
  BY <1>23 DEF Take
<1>24. ASSUME NEW w \in Workers, Exit(w) PROVE HandlerInv'
  BY <1>24 DEF Exit
<1>25. ASSUME NEW w \in Workers, FindNothing(w) PROVE HandlerInv'
  BY <1>25 DEF FindNothing
<1>26. ASSUME NEW w \in Workers, Block(w) PROVE HandlerInv'
  BY <1>26 DEF Block
<1>27. ASSUME NEW w \in Workers, SpuriousWakeup(w) PROVE HandlerInv'
  BY <1>27 DEF SpuriousWakeup
<1>28. ASSUME NEW w \in Workers, Finish(w) PROVE HandlerInv'
  BY <1>28 DEF Finish
<1>29. ASSUME NEW w \in Workers, Die(w) PROVE HandlerInv'
  BY <1>29 DEF Die
<1>30. ASSUME NEW c \in Conns, ClientConnects(c) PROVE HandlerInv'
  BY <1>30 DEF ClientConnects
<1>31. CASE SignalArrives
  BY <1>31 DEF SignalArrives
<1>32. CASE StopFlag
  BY <1>32 DEF StopFlag
<1>33. CASE StopRunning
  BY <1>33 DEF StopRunning
<1>34. CASE StopWake
  BY <1>34 DEF StopWake, NotifyAll
<1>35. CASE Terminated
  BY <1>35 DEF Terminated, vars
<1> HIDE DEF IInv, TypeOK, HandlerInv, SomeUnborn, Phases, Threads, BeforeSpawn, Destroying,
        stopVars, flagVars, countVars, RunPC, WorkerPC
<1> QED
  BY <1>1, <1>2, <1>3, <1>4, <1>5, <1>6, <1>7, <1>8, <1>9,
     <1>10, <1>11, <1>12, <1>13, <1>14, <1>15, <1>16, <1>17, <1>18,
     <1>19, <1>20, <1>21, <1>22, <1>23, <1>24, <1>25, <1>26, <1>27,
     <1>28, <1>29, <1>30, <1>31, <1>32, <1>33, <1>34, <1>35
     DEF Next, RunStep, LockedRunStep, AcceptSome, LockedWorkerStep, HandlerStep

\* stop() runs on a destroyed server only if run() threw before it had started
\* its workers.
THEOREM StopNeedsServer == Spec => []StopOnLiveServer
<1>1. Init => HandlerInv
  <2> SUFFICES ASSUME Init PROVE HandlerInv
    OBVIOUS
  <2>1. Workers # {}
    BY ConstantsAssumption, FS_EmptySet
  <2> QED
    BY <2>1 DEF Init, HandlerInv, SomeUnborn, BeforeSpawn, Destroying
<1>2. IInv /\ HandlerInv /\ [Next]_vars => HandlerInv'
  BY HandlerInvStep DEF vars, HandlerInv, SomeUnborn
<1>3. HandlerInv => StopOnLiveServer
  BY DEF HandlerInv, StopOnLiveServer, SomeUnborn, Destroying
<1> QED
  BY <1>1, <1>2, <1>3, Invariance, PTL DEF Spec

-----------------------------------------------------------------------------
(* Wakeups. *)

Ready == {w \in Workers : wpc[w] = "lock"}

\* A worker that comes back to the mutex is one more on its way to the queue.
LEMMA ReadyGrows ==
    ASSUME TypeOK, NEW w \in Workers, wpc[w] # "lock", wpc' = [wpc EXCEPT ![w] = "lock"]
    PROVE  Cardinality(Ready') = Cardinality(Ready) + 1
<1>1. IsFiniteSet(Ready)
  BY ConstantsAssumption, FS_Subset DEF Ready
<1>2. Ready' = Ready \cup {w} /\ w \notin Ready
  BY DEF Ready, TypeOK
<1> QED
  BY <1>1, <1>2, FS_AddElement, ZenonT(30)

\* A worker that leaves for the queue or for good is one fewer on its way to it.
LEMMA ReadyShrinks ==
    ASSUME TypeOK, NEW w \in Workers, wpc[w] = "lock", NEW p, p # "lock",
           wpc' = [wpc EXCEPT ![w] = p]
    PROVE  Cardinality(Ready') = Cardinality(Ready) - 1
<1>1. IsFiniteSet(Ready)
  BY ConstantsAssumption, FS_Subset DEF Ready
<1>2. Ready' = Ready \ {w} /\ w \in Ready
  BY DEF Ready, TypeOK
<1> QED
  BY <1>1, <1>2, FS_RemoveElement

\* Every step leaves a wakeup for each connection in the queue.
LEMMA WakeupStep ==
    ASSUME IInv, WakeupsCoverQueue, Next
    PROVE  WakeupsCoverQueue'
<1> DEFINE Owed == IF rpc \in {"count", "notify"} THEN 1 ELSE 0
<1> DEFINE W == waiting # {} => Len(queue) <= Cardinality(Ready) + Owed
<1>0. /\ W
      /\ W' => WakeupsCoverQueue'
      /\ Cardinality(Ready) \in Nat /\ Cardinality(Ready)' \in Nat
      /\ Len(queue) \in Nat /\ Len(queue') \in Nat
      /\ TypeOK
  <2>1. IsFiniteSet(Ready) /\ IsFiniteSet(Ready')
    BY ConstantsAssumption, FS_Subset DEF Ready
  <2>2. Cardinality(Ready) \in Nat /\ Cardinality(Ready)' \in Nat
    BY <2>1, FS_CardinalityType
  <2>3. TypeOK /\ TypeOK'
    BY TypeStep DEF IInv
  <2>4. Len(queue) \in Nat /\ Len(queue') \in Nat
    BY <2>3 DEF TypeOK
  <2>5. W /\ (W' => WakeupsCoverQueue')
    BY DEF WakeupsCoverQueue, Ready
  <2> QED
    BY <2>2, <2>3, <2>4, <2>5, SMTT(30)
<1> SUFFICES W'
  BY <1>0
<1>1. ASSUME NEW w \in Workers, Spawn(w) PROVE W'
  <2>1. Cardinality(Ready') = Cardinality(Ready) + 1
    BY <1>0, <1>1, ReadyGrows, ZenonT(30) DEF Spawn
  <2> QED
    BY <1>0, <1>1, <2>1 DEF Spawn
<1>2. CASE Push
  <2>1. Len(queue') = Len(queue) + 1
    BY <1>2 DEF Push, IInv, TypeOK
  <2>2. Ready' = Ready /\ waiting' = waiting /\ Owed = 0 /\ Owed' = 1
    BY <1>2 DEF Push, Ready
  <2> QED
    BY <1>0, <2>1, <2>2
<1>3. CASE Notify
  <2>1. CASE waiting = {} /\ UNCHANGED <<waiting, wpc>>
    BY <2>1
  <2>2. ASSUME NEW w \in waiting, waiting' = waiting \ {w}, wpc' = [wpc EXCEPT ![w] = "lock"]
        PROVE  W'
    <3>1. w \in Workers /\ wpc[w] = "wait"
      BY DEF IInv, TypeOK, Threads
    <3>2. Cardinality(Ready') = Cardinality(Ready) + 1
      BY <1>0, <2>2, <3>1, ReadyGrows, ZenonT(30)
    <3> QED
      BY <1>0, <1>3, <2>2, <3>2 DEF Notify
  <2> QED
    BY <1>3, <2>1, <2>2 DEF Notify, NotifyOne
<1>4. CASE waiting' = {}
  BY <1>4
<1>5. ASSUME NEW w \in Workers, Take(w) PROVE W'
  <2>1. Len(queue') = Len(queue) - 1
    BY <1>5 DEF Take, IInv, TypeOK
  <2>2. Cardinality(Ready') = Cardinality(Ready) - 1
    BY <1>0, <1>5, ReadyShrinks, ZenonT(30) DEF Take
  <2> QED
    BY <1>0, <1>5, <2>1, <2>2 DEF Take
<1>6. CASE queue' = <<>>
  BY <1>0, <1>6
<1>7. ASSUME NEW w \in Workers, Finish(w) \/ SpuriousWakeup(w) PROVE W'
  <2>1. wpc[w] # "lock" /\ wpc' = [wpc EXCEPT ![w] = "lock"]
    BY <1>7 DEF Finish, SpuriousWakeup, IInv, Threads
  <2>2. Cardinality(Ready') = Cardinality(Ready) + 1
    BY <1>0, <2>1, ReadyGrows, ZenonT(30)
  <2> QED
    BY <1>0, <1>7, <2>2 DEF Finish, SpuriousWakeup
<1>8. ASSUME NEW w \in Workers, Die(w) PROVE W'
  <2>1. Ready' = Ready
    BY <1>8 DEF Die, Ready, IInv, TypeOK
  <2> QED
    BY <1>0, <1>8, <2>1 DEF Die
<1>9. CASE UNCHANGED <<queue, wpc, waiting, Owed>>
  BY <1>0, <1>9 DEF Ready
<1> HIDE DEF W
<1> QED
  <2>1. CASE \E w \in Workers : \/ LockedWorkerStep(w) \/ Block(w) \/ Finish(w) \/ Die(w)
                                \/ SpuriousWakeup(w) \/ Spawn(w)
    <3>1. ASSUME NEW w \in Workers, Exit(w) \/ FindNothing(w) \/ Block(w)
          PROVE  queue' = <<>>
      BY <3>1, ConstantsAssumption DEF Exit, FindNothing, Block, IInv, Threads, TypeOK
    <3> QED
      BY <2>1, <3>1, <1>0, <1>1, <1>5, <1>6, <1>7, <1>8, SMTT(30) DEF LockedWorkerStep
  <2>2. CASE Push \/ Notify \/ Drain \/ WakeWorkers \/ DtorWake \/ StopWake
    BY <2>2, <1>0, <1>2, <1>3, <1>4, <1>6
       DEF Drain, WakeWorkers, DtorWake, StopWake, NotifyAll
  <2>3. CASE \/ Publish \/ Listen \/ RunThrows \/ SetRunning \/ ClearStopping \/ TestStop
             \/ PollNothing \/ AcceptSome \/ Refuse \/ CountAccepted \/ EndLoop
             \/ JoinWorkers \/ Unpublish \/ DtorStop \/ DtorRunning \/ DtorJoin
             \/ (\E c \in Conns : ClientConnects(c))
             \/ SignalArrives \/ StopFlag \/ StopRunning \/ Terminated
    <3>1. UNCHANGED <<queue, wpc, waiting, Owed>>
      BY <2>3, ZenonT(30) DEF Publish, Listen, RunThrows, SetRunning, ClearStopping, TestStop,
             PollNothing, AcceptSome, Accept, Refuse, CountAccepted, EndLoop,
             JoinWorkers, Unpublish, DtorStop, DtorRunning, DtorJoin, ClientConnects,
             SignalArrives, StopFlag, StopRunning, Terminated, vars
    <3> QED
      BY <3>1, <1>0, <1>9, SMTT(30)
  <2> QED
    BY <2>1, <2>2, <2>3 DEF Next, RunStep, LockedRunStep, HandlerStep

\* While a worker sleeps, every queued connection has a worker on its way to it
\* or a notify_one still to come: no wakeup for work is ever lost.
THEOREM NoLostWakeup == Spec => []WakeupsCoverQueue
<1>1. Init => WakeupsCoverQueue
  BY DEF Init, WakeupsCoverQueue
<1>2. IInv /\ WakeupsCoverQueue /\ [Next]_vars => WakeupsCoverQueue'
  BY WakeupStep, ZenonT(30) DEF vars, WakeupsCoverQueue
<1> QED
  BY <1>1, <1>2, Invariance, PTL DEF Spec

-----------------------------------------------------------------------------
(* Refusals. *)

SomeDone == \E w \in Workers : wpc[w] = "done"

\* A worker returns only for a stop, and only with the queue empty; the accepting
\* thread then fills it with no more than what it has in hand.
Leaving ==
    /\ SomeDone => stopping
    /\ SomeDone /\ rpc \in {"accept", "push"} => queue = <<>>

\* Every step keeps that.
LEMMA LeavingStep ==
    ASSUME IInv, Leaving, Next
    PROVE  Leaving'
<1>1. CASE /\ SomeDone' => SomeDone
           /\ stopping => stopping'
           /\ queue = <<>> => queue' = <<>>
           /\ rpc' \in {"accept", "push"} => rpc \in {"accept", "push"}
  BY <1>1 DEF Leaving
<1>2. ASSUME NEW w \in Workers, Exit(w) PROVE Leaving'
  BY <1>2 DEF Exit, flagVars, Leaving
<1>3. CASE ClearStopping
  <2>1. \A w \in Workers : wpc'[w] = "unborn"
    BY <1>3 DEF ClearStopping, IInv, Phases, BeforeSpawn
  <2>2. ~SomeDone'
    BY <2>1 DEF SomeDone
  <2> QED
    BY <2>2 DEF Leaving
<1>4. CASE TestStop
  <2>1. /\ SomeDone' <=> SomeDone
        /\ stopping' = stopping /\ (stopping => rpc' = "ending")
    BY <1>4 DEF TestStop, flagVars, SomeDone
  <2> QED
    BY <2>1 DEF Leaving
<1>5. CASE Push
  <2>1. /\ SomeDone' <=> SomeDone
        /\ stopping' = stopping /\ rpc' = "count"
    BY <1>5 DEF Push, flagVars, SomeDone
  <2> QED
    BY <2>1 DEF Leaving
<1>6. CASE /\ \/ Publish \/ Listen \/ RunThrows \/ SetRunning \/ PollNothing \/ AcceptSome
              \/ Refuse \/ CountAccepted \/ EndLoop \/ JoinWorkers \/ Drain \/ Unpublish
              \/ DtorStop \/ DtorRunning \/ DtorJoin \/ (\E c \in Conns : ClientConnects(c))
              \/ SignalArrives \/ StopFlag \/ StopRunning \/ Terminated
  <2>1. UNCHANGED wpc /\ queue' \in {queue, <<>>} /\ (stopping' = stopping \/ stopping')
    BY <1>6, ZenonT(30) DEF Publish, Listen, RunThrows, SetRunning, PollNothing, AcceptSome, Accept,
           Refuse, CountAccepted, EndLoop, JoinWorkers, Drain, Unpublish, DtorStop, DtorRunning,
           DtorJoin, ClientConnects, SignalArrives, StopFlag, StopRunning, Terminated, flagVars, vars
  <2>2. rpc' \in {"accept", "push"} => rpc \in {"accept", "push"}
    BY <1>6, ZenonT(30) DEF Publish, Listen, RunThrows, SetRunning, PollNothing, AcceptSome, Accept,
           Refuse, CountAccepted, EndLoop, JoinWorkers, Drain, Unpublish, DtorStop, DtorRunning,
           DtorJoin, ClientConnects, SignalArrives, StopFlag, StopRunning, Terminated, vars
  <2>3. SomeDone' => SomeDone
    BY <2>1 DEF SomeDone
  <2>4. queue = <<>> => queue' = <<>>
    BY <2>1
  <2>5. stopping => stopping'
    BY <2>1, Zenon
  <2> QED
    BY <1>1, <2>2, <2>3, <2>4, <2>5
<1>7. CASE Notify \/ WakeWorkers \/ DtorWake \/ StopWake
  <2>1. UNCHANGED <<queue, stopping>>
    BY <1>7 DEF Notify, WakeWorkers, DtorWake, StopWake, flagVars
  <2>2. rpc' \in {"accept", "push"} => rpc \in {"accept", "push"}
    BY <1>7 DEF Notify, WakeWorkers, DtorWake, StopWake
  <2>3. NotifyAll \/ NotifyOne
    BY <1>7, Zenon DEF Notify, WakeWorkers, DtorWake, StopWake
  <2>4. \A v \in Workers : wpc'[v] = "done" => wpc[v] = "done"
    BY <2>3 DEF NotifyAll, NotifyOne, IInv, TypeOK
  <2>5. SomeDone' => SomeDone
    BY <2>4, Zenon DEF SomeDone
  <2> QED
    BY <1>1, <2>1, <2>2, <2>5
<1>8. ASSUME NEW w \in Workers,
             \/ Spawn(w) \/ Take(w) \/ FindNothing(w) \/ Block(w) \/ Finish(w) \/ Die(w)
             \/ SpuriousWakeup(w)
      PROVE  Leaving'
  <2>1. /\ stopping' = stopping /\ (queue = <<>> => queue' = <<>>)
        /\ rpc' \in {"accept", "push"} => rpc \in {"accept", "push"}
        /\ \E p \in {"lock", "handle", "block", "wait", "dead"} : wpc' = [wpc EXCEPT ![w] = p]
    BY <1>8 DEF Spawn, Take, FindNothing, Block, Finish, Die, SpuriousWakeup, flagVars
  <2>2. \A v \in Workers : wpc'[v] = "done" => wpc[v] = "done"
    BY <2>1 DEF IInv, TypeOK
  <2>3. SomeDone' => SomeDone
    BY <2>2, Zenon DEF SomeDone
  <2> QED
    BY <1>1, <2>1, <2>3
<1> QED
  BY <1>2, <1>3, <1>4, <1>5, <1>6, <1>7, <1>8, ZenonT(30)
     DEF Next, RunStep, LockedRunStep, LockedWorkerStep, HandlerStep

\* Only Refuse counts a refusal.
LEMMA RefusalIsCounted ==
    ASSUME IInv, Next, rejected' > rejected
    PROVE  Refuse
<1>1. rejected \in Nat
  BY DEF IInv, TypeOK
<1>2. rejected' # rejected
  BY <1>1
<1> QED
  BY <1>2, ZenonT(30)
     DEF Next, RunStep, LockedRunStep, AcceptSome, LockedWorkerStep, HandlerStep,
         Publish, Listen, RunThrows, SetRunning, ClearStopping, Spawn, TestStop,
         PollNothing, Accept, Push, CountAccepted, Notify, EndLoop, WakeWorkers,
         JoinWorkers, Drain, Unpublish, DtorStop, DtorRunning, DtorWake, DtorJoin, Take, Exit,
         FindNothing, Block, Finish, Die, SpuriousWakeup, ClientConnects,
         SignalArrives, StopFlag, StopRunning, StopWake, Terminated, countVars, vars

\* When a connection is refused, no worker is idle and none has returned.
LEMMA RefusedWhenBusy ==
    ASSUME IInv, WakeupsCoverQueue, Leaving, Refuse, NEW w \in Workers
    PROVE  wpc[w] \in {"lock", "handle", "dead"}
<1>1. /\ rpc = "push" /\ mutex = None /\ Len(queue) >= MaxConnections
      /\ MaxConnections \in Nat \ {0} /\ queue \in Seq(Conns)
  BY ConstantsAssumption DEF Refuse, IInv, TypeOK
<1>2. wpc[w] \in WorkerPC /\ wpc[w] # "unborn"
  BY <1>1 DEF IInv, TypeOK, Phases, BeforeSpawn, Destroying
<1>3. wpc[w] # "block"
  BY <1>1, ConstantsAssumption DEF IInv, Threads
<1>4. wpc[w] # "done"
  BY <1>1 DEF Leaving, SomeDone
<1>5. wpc[w] # "wait"
  <2> SUFFICES ASSUME wpc[w] = "wait" PROVE FALSE
    OBVIOUS
  <2>1. waiting # {}
    BY DEF IInv, Threads
  <2>2. Len(queue) <= Cardinality(Ready)
    <3>1. IsFiniteSet(Ready)
      BY ConstantsAssumption, FS_Subset DEF Ready
    <3>2. Cardinality(Ready) \in Nat
      BY <3>1, FS_CardinalityType
    <3> QED
      BY <1>1, <2>1, <3>2 DEF WakeupsCoverQueue, Ready
  <2>3. Ready \subseteq Workers \ {w}
    BY DEF Ready
  <2>4. IsFiniteSet(Workers \ {w}) /\ Cardinality(Workers \ {w}) = MaxConnections - 1
    BY ConstantsAssumption, FS_RemoveElement
  <2>5. Cardinality(Ready) <= MaxConnections - 1 /\ Cardinality(Ready) \in Nat
    BY <2>3, <2>4, FS_Subset, FS_CardinalityType
  <2> QED
    BY <1>1, <2>2, <2>5
<1> QED
  BY <1>2, <1>3, <1>4, <1>5 DEF WorkerPC

\* No client is turned away while a worker is idle, for any number of workers.
THEOREM RefusesWhenBusy == Spec => RefusesOnlyBusy
<1>1. Init => Leaving
  BY DEF Init, Leaving, SomeDone
<1>2. IInv /\ Leaving /\ [Next]_vars => Leaving'
  BY LeavingStep, ZenonT(30) DEF vars, Leaving, SomeDone
<1>3. IInv /\ WakeupsCoverQueue /\ Leaving /\ [Next]_vars =>
        [rejected' > rejected => \A w \in Workers : wpc[w] \in {"lock", "handle", "dead"}]_vars
  <2> SUFFICES ASSUME IInv, WakeupsCoverQueue, Leaving, Next, rejected' > rejected, NEW w \in Workers
               PROVE  wpc[w] \in {"lock", "handle", "dead"}
    OBVIOUS
  <2> QED
    BY RefusalIsCounted, RefusedWhenBusy
<1> QED
  BY <1>1, <1>2, <1>3, Invariance, NoLostWakeup, PTL DEF Spec, RefusesOnlyBusy
=============================================================================
