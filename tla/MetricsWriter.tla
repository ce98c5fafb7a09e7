---------------------------- MODULE MetricsWriter -----------------------------
(* MetricsWriter (src/src/common/metrics.cpp): the append-only JSON Lines file *)
(* to which the threads of a process hand one record per connection, and which *)
(* later processes open again.  A process may be killed between any two steps  *)
(* and the disk may take only a part of what it is given.                      *)
(*                                                                             *)
(* What is in the file is a sequence of pieces: the text of a record, whole or *)
(* torn, and the end of a line.  std::ofstream is external: it buffers what is *)
(* inserted, or passes a long text on at once; when the system does not take   *)
(* all of it, its error state is set, from then on insertions do nothing, and  *)
(* the bytes it still has may be tried again by a flush or by close().         *)
EXTENDS Naturals, FiniteSets, Sequences

CONSTANTS
    Processes,    \* the processes that write to the file, 1 .. n, one after the other
    Threads,      \* the threads of each that share its writer
    MaxRecords,   \* bound: records a process hands to it
    MaxFaults,    \* bound: writes that the system does not complete
    None          \* no thread

ASSUME WriterAssumption ==
    /\ Processes \in Nat \ {0}
    /\ IsFiniteSet(Threads)
    /\ MaxRecords \in Nat /\ MaxFaults \in Nat
    /\ None \notin Threads

VARIABLES
    file,      \* the contents of the file
    now,       \* the process that runs, or ran last
    stream,    \* its stream_: "closed", "good", "bad"; "gone" once the process is
    buffer,    \* what the stream holds back
    holder,    \* the thread that holds mutex_
    pc,        \* where each thread is in write()
    handed,    \* history: how many records each process gave to its stream
    returned,  \* history: for how many of them write() has returned
    killed,    \* history: the processes that were killed
    failed,    \* history: the processes one of whose writes the system did not complete
    failures   \* history: how many such writes

history == <<handed, returned, killed, failed, failures>>
vars    == <<file, now, stream, buffer, holder, pc, history>>

\* Records are numbered in the order the process gives them to the stream.
Text(r)  == [process |-> now, record |-> r, part |-> "text"]
Torn(r)  == [process |-> now, record |-> r, part |-> "torn"]
LineEnd  == [process |-> 0, record |-> 0, part |-> "end"]
Pieces   == [process : 1 .. Processes, record : Nat, part : {"text", "torn"}] \cup {LineEnd}

TypeOK ==
    /\ file \in Seq(Pieces) /\ buffer \in Seq(Pieces)
    /\ now \in 1 .. Processes
    /\ stream \in {"closed", "good", "bad", "gone"}
    /\ holder \in Threads \cup {None}
    /\ pc \in [Threads -> {"idle", "text", "end", "flush"}]
    /\ handed \in [1 .. Processes -> 0 .. MaxRecords]
    /\ returned \in [1 .. Processes -> 0 .. MaxRecords]
    /\ killed \subseteq 1 .. Processes /\ failed \subseteq 1 .. Processes
    /\ failures \in 0 .. MaxFaults

Init ==
    /\ file = <<>> /\ now = 1 /\ stream = "closed" /\ buffer = <<>>
    /\ holder = None /\ pc = [t \in Threads |-> "idle"]
    /\ handed = [p \in 1 .. Processes |-> 0] /\ returned = handed
    /\ killed = {} /\ failed = {} /\ failures = 0

-----------------------------------------------------------------------------
(* The constructor and the destructor; the end of a process.                  *)

\* The file is opened in append mode, whatever is in it.
Open ==
    /\ stream = "closed"
    /\ stream' = "good"
    /\ UNCHANGED <<file, now, buffer, holder, pc, history>>

\* The directory cannot be made or the file not opened: the constructor throws.
OpenFails ==
    /\ stream = "closed"
    /\ stream' = "gone"
    /\ UNCHANGED <<file, now, buffer, holder, pc, history>>

\* The system takes everything.
Taken(pieces) == file' = file \o pieces /\ UNCHANGED <<failed, failures>>

\* It takes some pieces and perhaps a part of the next, and reports an error.
NotTaken(pieces) ==
    /\ failures < MaxFaults
    /\ failures' = failures + 1 /\ failed' = failed \cup {now}
    /\ \E n \in 0 .. Len(pieces) - 1 :
          \/ file' = file \o SubSeq(pieces, 1, n)
          \/ /\ pieces[n + 1].part = "text"
             /\ file' = file \o Append(SubSeq(pieces, 1, n), Torn(pieces[n + 1].record))

\* flush(): nothing if there is nothing; a stream in error may try or not.
Sync ==
    \/ /\ buffer = <<>> \/ stream = "bad"
       /\ UNCHANGED <<file, buffer, stream, failed, failures>>
    \/ buffer # <<>> /\ Taken(buffer) /\ buffer' = <<>> /\ UNCHANGED stream
    \/ buffer # <<>> /\ NotTaken(buffer) /\ stream' = "bad" /\ UNCHANGED buffer

Ended ==
    /\ stream' = "gone" /\ buffer' = <<>> /\ holder' = None
    /\ pc' = [t \in Threads |-> "idle"]

\* ~MetricsWriter, when the last thread has let go of the writer: what flush()
\* leaves behind, close() tries once more.
Destroy ==
    /\ stream \in {"good", "bad"}
    /\ \A t \in Threads : pc[t] = "idle"
    /\ \/ buffer = <<>> /\ UNCHANGED <<file, failed, failures>>
       \/ buffer # <<>> /\ (Taken(buffer) \/ NotTaken(buffer))
    /\ Ended
    /\ UNCHANGED <<now, handed, returned, killed>>

\* A signal, a crash or a timeout of the harness ends the process here and now.
Killed ==
    /\ stream \in {"good", "bad"}
    /\ killed' = killed \cup {now}
    /\ Ended
    /\ UNCHANGED <<file, now, handed, returned, failed, failures>>

\* The next process is started with the same file.
NextProcess ==
    /\ stream = "gone" /\ now < Processes
    /\ now' = now + 1 /\ stream' = "closed"
    /\ UNCHANGED <<file, buffer, holder, pc, history>>

-----------------------------------------------------------------------------
(* write()                                                                    *)

\* Mutant: the mutex is not taken.
LockNothing(t) ==
    /\ pc[t] = "idle" /\ stream \in {"good", "bad"}
    /\ handed[now] < MaxRecords
    /\ UNCHANGED holder
    /\ pc' = [pc EXCEPT ![t] = "text"]
    /\ UNCHANGED <<file, now, stream, buffer, history>>

\* The stream is open, which its error state does not change, and the mutex free.
Lock(t) ==
    /\ pc[t] = "idle" /\ stream \in {"good", "bad"}
    /\ handed[now] < MaxRecords
    /\ holder = None /\ holder' = t
    /\ pc' = [pc EXCEPT ![t] = "text"]
    /\ UNCHANGED <<file, now, stream, buffer, history>>

\* to_jsonl_line() throws (a string that is not UTF-8): the mutex is released and
\* the exception goes to the caller.
LineThrows(t) ==
    /\ pc[t] = "text"
    /\ holder' = None
    /\ pc' = [pc EXCEPT ![t] = "idle"]
    /\ UNCHANGED <<file, now, stream, buffer, history>>

\* An insertion: nothing into a stream in error; otherwise into the buffer, or
\* behind what is in it to the system.
Insert(piece) ==
    \/ /\ stream = "bad"
       /\ UNCHANGED <<file, stream, buffer, failed, failures>>
    \/ /\ stream = "good"
       /\ buffer' = Append(buffer, piece)
       /\ UNCHANGED <<file, stream, failed, failures>>
    \/ /\ stream = "good" /\ piece.part = "text"
       /\ Taken(Append(buffer, piece)) /\ buffer' = <<>>
       /\ UNCHANGED stream
    \/ /\ stream = "good" /\ piece.part = "text"
       /\ NotTaken(Append(buffer, piece))
       /\ stream' = "bad" /\ UNCHANGED buffer

InsertText(t) ==
    /\ pc[t] = "text"
    /\ handed' = [handed EXCEPT ![now] = @ + 1]
    /\ Insert(Text(handed[now] + 1))
    /\ pc' = [pc EXCEPT ![t] = "end"]
    /\ UNCHANGED <<now, holder, returned, killed>>

InsertEnd(t) ==
    /\ pc[t] = "end"
    /\ Insert(LineEnd)
    /\ pc' = [pc EXCEPT ![t] = "flush"]
    /\ UNCHANGED <<now, holder, handed, returned, killed>>

\* Mutant: the record is left to a later flush.
FlushLater(t) ==
    /\ pc[t] = "flush"
    /\ UNCHANGED <<file, buffer, stream, failed, failures>>
    /\ holder' = None
    /\ pc' = [pc EXCEPT ![t] = "idle"]
    /\ returned' = [returned EXCEPT ![now] = @ + 1]
    /\ UNCHANGED <<now, handed, killed>>

\* The flush, after which the mutex is released and write() returns.
Flush(t) ==
    /\ pc[t] = "flush"
    /\ Sync
    /\ holder' = None
    /\ pc' = [pc EXCEPT ![t] = "idle"]
    /\ returned' = [returned EXCEPT ![now] = @ + 1]
    /\ UNCHANGED <<now, handed, killed>>

\* flush(), under the mutex; the client calls it after a benchmark.
FlushFile ==
    /\ stream \in {"good", "bad"} /\ holder = None
    /\ Sync
    /\ UNCHANGED <<now, holder, pc, handed, returned, killed>>

Next ==
    \/ Open \/ OpenFails \/ Destroy \/ Killed \/ NextProcess \/ FlushFile
    \/ \E t \in Threads :
          Lock(t) \/ LineThrows(t) \/ InsertText(t) \/ InsertEnd(t) \/ Flush(t)

Spec == Init /\ [][Next]_vars

-----------------------------------------------------------------------------
(* The readers: iter_records of scripts/analyze-results.py takes the lines    *)
(* that are a JSON document and skips the others; validate_file of             *)
(* tools/result_validator.py reports each of the others.                       *)

StartsLine(i) == i = 1 \/ file[i - 1] = LineEnd
EndsLine(i)   == i = Len(file) \/ file[i + 1] = LineEnd

\* The places of the records that are a line of their own.
Readable == {i \in DOMAIN file : file[i].part = "text" /\ StartsLine(i) /\ EndsLine(i)}

\* The first piece of each line that holds anything else.
Spoiled ==
    {i \in DOMAIN file : StartsLine(i) /\ i \notin Readable /\ file[i] # LineEnd}

-----------------------------------------------------------------------------
(* Properties.                                                                *)

RecordsOf(p) == {file[i].record : i \in {j \in Readable : file[j].process = p}}

\* What of a process can be read is without gaps: its records in the order they
\* were handed over, from the first, or from the second if an earlier process was
\* killed or met a full disk and left a line unfinished; and up to the last whose
\* write() returned, killed or not, unless a write of this process failed.  Losses
\* are at the two ends, although write() never looks at the state of its stream
\* ("a run that is interrupted, killed, or crashes should still leave behind
\* every measurement it had already taken", metrics.cpp).
LossAtTheEnds ==
    /\ TypeOK
    /\ \A p \in 1 .. Processes :
          \E first \in {1, 2}, last \in 0 .. handed[p] :
             /\ RecordsOf(p) = first .. last
             /\ first = 2 => \E q \in killed \cup failed : q < p
             /\ p \notin failed => last >= returned[p]
    /\ \A i, j \in Readable : i < j =>
          \/ file[i].process < file[j].process
          \/ file[i].process = file[j].process /\ file[i].record < file[j].record

\* A process that is killed or meets a full disk spoils at most one line, its own
\* last one, which the next process may continue; nobody else spoils any.
OneLinePerFault == Cardinality(Spoiled) <= Cardinality(killed \cup failed)
=============================================================================
