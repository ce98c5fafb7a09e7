-------------------------- MODULE MetricsWriter_proofs -----------------------
(* What is read back from the metrics file, for any number of processes,       *)
(* threads, records and faults.                                                *)
EXTENDS MetricsWriter, TLAPS

-----------------------------------------------------------------------------
(* Lines of a sequence of pieces.                                             *)

Fresh(s) == s = <<>> \/ s[Len(s)] = LineEnd

\* The first pieces of the lines, and those that are a line of their own.
Heads(s) == {i \in DOMAIN s : s[i] # LineEnd /\ (i = 1 \/ s[i - 1] = LineEnd)}
Whole(s) == {i \in Heads(s) : s[i].part = "text" /\ i < Len(s) /\ s[i + 1] = LineEnd}

Records(s, p) == {s[i].record : i \in {j \in Whole(s) : s[j].process = p}}

\* A record of p that only lacks the end of its line.
Unended(s, p) == Len(s) \in Heads(s) /\ s[Len(s)].part = "text" /\ s[Len(s)].process = p

\* A piece other than the end of a line names a process and a record.
LEMMA PieceTypes ==
  /\ LineEnd \in Pieces
  /\ \A x \in Pieces \ {LineEnd} :
       x.part \in {"text", "torn"} /\ x.record \in Nat /\ x.process \in 1 .. Processes
BY DEF Pieces, LineEnd

\* A text, or a part of one: a line begins with it if the last one is ended.
LEMMA AddPiece ==
  ASSUME NEW s \in Seq(Pieces), NEW x \in Pieces, x # LineEnd
  PROVE  LET t == Append(s, x)
         IN  /\ t \in Seq(Pieces) /\ Len(t) = Len(s) + 1 /\ t[Len(t)] = x
             /\ \A i \in DOMAIN s : t[i] = s[i]
             /\ Heads(t) = IF Fresh(s) THEN Heads(s) \cup {Len(s) + 1} ELSE Heads(s)
             /\ Whole(t) = Whole(s)
             /\ ~Fresh(t)
<1> DEFINE t == Append(s, x)
<1>1. /\ t \in Seq(Pieces) /\ Len(t) = Len(s) + 1 /\ t[Len(t)] = x
      /\ \A i \in DOMAIN s : t[i] = s[i]
      /\ DOMAIN t = 1 .. Len(s) + 1 /\ DOMAIN s = 1 .. Len(s) /\ Len(s) \in Nat
  OBVIOUS
<1> HIDE DEF t
<1>2. Heads(t) = IF Fresh(s) THEN Heads(s) \cup {Len(s) + 1} ELSE Heads(s)
  BY <1>1 DEF Heads, Fresh
<1>3. Whole(t) = Whole(s)
  BY <1>1, <1>2 DEF Whole, Heads
<1>4. ~Fresh(t)
  BY <1>1 DEF Fresh
<1> QED BY <1>1, <1>2, <1>3, <1>4 DEF t

\* The end of a line: the piece before it is a line of its own if it is a text
\* with which the line begins.
LEMMA AddEnd ==
  ASSUME NEW s \in Seq(Pieces)
  PROVE  LET t == Append(s, LineEnd)
         IN  /\ t \in Seq(Pieces) /\ Len(t) = Len(s) + 1 /\ t[Len(t)] = LineEnd
             /\ \A i \in DOMAIN s : t[i] = s[i]
             /\ Heads(t) = Heads(s)
             /\ Whole(t) = IF Len(s) \in Heads(s) /\ s[Len(s)].part = "text"
                           THEN Whole(s) \cup {Len(s)} ELSE Whole(s)
             /\ Fresh(t)
<1> DEFINE t == Append(s, LineEnd)
<1>1. /\ t \in Seq(Pieces) /\ Len(t) = Len(s) + 1 /\ t[Len(t)] = LineEnd
      /\ \A i \in DOMAIN s : t[i] = s[i]
      /\ DOMAIN t = 1 .. Len(s) + 1 /\ DOMAIN s = 1 .. Len(s) /\ Len(s) \in Nat
  BY PieceTypes
<1> HIDE DEF t
<1>2. Heads(t) = Heads(s)
  BY <1>1 DEF Heads
<1>3. Whole(t) = IF Len(s) \in Heads(s) /\ s[Len(s)].part = "text"
                 THEN Whole(s) \cup {Len(s)} ELSE Whole(s)
  BY <1>1, <1>2 DEF Whole, Heads
<1>4. Fresh(t)
  BY <1>1 DEF Fresh
<1> QED BY <1>1, <1>2, <1>3, <1>4 DEF t

\* The line that is not ended begins with a piece that is no line of its own.
Started(s) ==
    ~Fresh(s) => \E i \in Heads(s) \ Whole(s) : \A j \in i .. Len(s) : s[j] # LineEnd

\* Lines begin in the order of the processes and of their records, and every line
\* of a process but its last is a record.
Precedes(s, i, x) ==
    \/ s[i].process < x.process
    \/ s[i].process = x.process /\ i \in Whole(s) /\ s[i].record < x.record
Ordered(s) == \A i, j \in Heads(s) : i < j => Precedes(s, i, s[j])

\* The lines of p are its records f to c of h, and one more that only lacks its end.
CountedIn(s, p, f, c, h) ==
    /\ Records(s, p) = f .. c /\ c <= h
    /\ Unended(s, p) => s[Len(s)].record = c + 1 /\ c < h

\* A piece begins the line that is not ended, or continues it.
LEMMA StartedPiece ==
  ASSUME NEW s \in Seq(Pieces), NEW x \in Pieces, x # LineEnd, Started(s)
  PROVE  Started(Append(s, x))
<1> DEFINE t == Append(s, x)
<1>1. /\ t \in Seq(Pieces) /\ Len(t) = Len(s) + 1 /\ t[Len(t)] = x
      /\ \A i \in DOMAIN s : t[i] = s[i]
      /\ Heads(t) = IF Fresh(s) THEN Heads(s) \cup {Len(s) + 1} ELSE Heads(s)
      /\ Whole(t) = Whole(s)
  BY AddPiece
<1>2. DOMAIN s = 1 .. Len(s) /\ Len(s) \in Nat
  OBVIOUS
<1> HIDE DEF t
<1>3. CASE Fresh(s)
  <2>1. Len(s) + 1 \in Heads(t) \ Whole(t)
    BY <1>1, <1>2, <1>3 DEF Whole, Heads
  <2>2. \A j \in Len(s) + 1 .. Len(t) : t[j] # LineEnd
    BY <1>1, <1>2
  <2>3. \E i \in Heads(t) \ Whole(t) : \A j \in i .. Len(t) : t[j] # LineEnd
    BY <2>1, <2>2, Zenon
  <2> QED BY <2>3, Zenon DEF Started, t
<1>4. CASE ~Fresh(s)
  <2>1. PICK i \in Heads(s) \ Whole(s) : \A j \in i .. Len(s) : s[j] # LineEnd
    BY <1>4 DEF Started
  <2>2. i \in Heads(t) \ Whole(t) /\ i \in 1 .. Len(s)
    BY <2>1, <1>1, <1>2, <1>4 DEF Heads
  <2>3. \A j \in i .. Len(t) : t[j] # LineEnd
    BY <2>1, <2>2, <1>1, <1>2
  <2>4. \E k \in Heads(t) \ Whole(t) : \A j \in k .. Len(t) : t[j] # LineEnd
    BY <2>2, <2>3, Zenon
  <2> QED BY <2>4, Zenon DEF Started, t
<1> QED BY <1>3, <1>4 DEF t

\* The lines stay in order when the one that a piece begins comes last.
LEMMA OrderedPiece ==
  ASSUME NEW s \in Seq(Pieces), NEW x \in Pieces, x # LineEnd, Ordered(s),
         Fresh(s) => \A i \in Heads(s) : Precedes(s, i, x)
  PROVE  Ordered(Append(s, x))
<1> DEFINE t == Append(s, x)
<1>1. /\ t \in Seq(Pieces) /\ Len(t) = Len(s) + 1 /\ t[Len(t)] = x
      /\ \A i \in DOMAIN s : t[i] = s[i]
      /\ Heads(t) = IF Fresh(s) THEN Heads(s) \cup {Len(s) + 1} ELSE Heads(s)
      /\ Whole(t) = Whole(s)
  BY AddPiece
<1>2. Heads(s) \subseteq 1 .. Len(s) /\ DOMAIN s = 1 .. Len(s) /\ Len(s) \in Nat
  BY DEF Heads
<1> HIDE DEF t
<1>3. ASSUME NEW i \in Heads(t), NEW j \in Heads(t), i < j
      PROVE  Precedes(t, i, t[j])
  <2>1. i \in Heads(s) /\ t[i] = s[i]
    BY <1>1, <1>2, <1>3
  <2>2. CASE j \in Heads(s)
    BY <2>1, <2>2, <1>1, <1>2, <1>3 DEF Ordered, Precedes
  <2>3. CASE j \notin Heads(s)
    <3>1. Fresh(s) /\ t[j] = x
      BY <2>3, <1>1, <1>3
    <3> QED BY <3>1, <2>1, <1>1 DEF Precedes
  <2> QED BY <2>2, <2>3
<1> QED BY <1>3, Zenon DEF Ordered, t

\* The end of a line only makes records of lines.
LEMMA OrderedEnd ==
  ASSUME NEW s \in Seq(Pieces), Ordered(s)
  PROVE  Ordered(Append(s, LineEnd))
<1> DEFINE t == Append(s, LineEnd)
<1>1. /\ \A i \in DOMAIN s : t[i] = s[i]
      /\ Heads(t) = Heads(s) /\ Whole(s) \subseteq Whole(t)
  BY AddEnd
<1>2. Heads(s) \subseteq DOMAIN s
  BY DEF Heads
<1> HIDE DEF t
<1> QED BY <1>1, <1>2 DEF Ordered, Precedes, t

\* A piece adds no record; at the start of a line it may be one without its end.
LEMMA RecordsPiece ==
  ASSUME NEW s \in Seq(Pieces), NEW x \in Pieces, x # LineEnd, NEW p
  PROVE  /\ Records(Append(s, x), p) = Records(s, p)
         /\ Unended(Append(s, x), p) <=> Fresh(s) /\ x.part = "text" /\ x.process = p
<1> DEFINE t == Append(s, x)
<1>1. /\ Len(t) = Len(s) + 1 /\ t[Len(t)] = x
      /\ \A i \in DOMAIN s : t[i] = s[i]
      /\ Heads(t) = IF Fresh(s) THEN Heads(s) \cup {Len(s) + 1} ELSE Heads(s)
      /\ Whole(t) = Whole(s)
  BY AddPiece
<1>2. Heads(s) \subseteq 1 .. Len(s) /\ Whole(s) \subseteq DOMAIN s /\ Len(s) \in Nat
  BY DEF Heads, Whole
<1> HIDE DEF t
<1>3. Records(t, p) = Records(s, p)
  BY <1>1, <1>2 DEF Records
<1>4. Unended(t, p) <=> Fresh(s) /\ x.part = "text" /\ x.process = p
  BY <1>1, <1>2 DEF Unended
<1> QED BY <1>3, <1>4 DEF t

\* The end of a line makes a record of the text that only lacked it.
LEMMA RecordsEnd ==
  ASSUME NEW s \in Seq(Pieces), NEW p
  PROVE  /\ Records(Append(s, LineEnd), p) =
              Records(s, p) \cup IF Unended(s, p) THEN {s[Len(s)].record} ELSE {}
         /\ ~Unended(Append(s, LineEnd), p)
<1> DEFINE t == Append(s, LineEnd)
<1>1. /\ Len(t) = Len(s) + 1 /\ t[Len(t)] = LineEnd
      /\ \A i \in DOMAIN s : t[i] = s[i]
      /\ Heads(t) = Heads(s)
      /\ Whole(t) = IF Len(s) \in Heads(s) /\ s[Len(s)].part = "text"
                     THEN Whole(s) \cup {Len(s)} ELSE Whole(s)
  BY AddEnd
<1>2. Heads(s) \subseteq 1 .. Len(s) /\ DOMAIN s = 1 .. Len(s) /\ Whole(s) \subseteq DOMAIN s /\ Len(s) \in Nat
  BY DEF Heads, Whole
<1> HIDE DEF t
<1>3. ~Unended(t, p)
  BY <1>1, <1>2 DEF Unended
<1>4. CASE Unended(s, p)
  BY <1>1, <1>2, <1>3, <1>4 DEF Records, Unended, t
<1>5. CASE ~Unended(s, p)
  BY <1>1, <1>2, <1>3, <1>5 DEF Records, Unended, t
<1> QED BY <1>4, <1>5

\* The records of a process stay a run of numbers when a piece is added ...
LEMMA CountPiece ==
  ASSUME NEW s \in Seq(Pieces), NEW x \in Pieces, x # LineEnd, NEW p,
         NEW f \in {1, 2}, NEW c \in Nat, NEW h \in Nat, CountedIn(s, p, f, c, h),
         Fresh(s) /\ x.part = "text" /\ x.process = p => x.record = c + 1 /\ c < h
  PROVE  CountedIn(Append(s, x), p, f, c, h)
<1>1. LET t == Append(s, x) IN t[Len(t)] = x
  BY AddPiece
<1> QED BY <1>1, RecordsPiece DEF CountedIn

\* ... and when a line is ended.
LEMMA CountEnd ==
  ASSUME NEW s \in Seq(Pieces), NEW p,
         NEW f \in {1, 2}, NEW c \in Nat, NEW h \in Nat, CountedIn(s, p, f, c, h), f <= c + 1
  PROVE  CountedIn(Append(s, LineEnd), p, f, IF Unended(s, p) THEN c + 1 ELSE c, h)
<1>1. CASE Unended(s, p)
  <2>1. Records(Append(s, LineEnd), p) = (f .. c) \cup {c + 1}
    BY <1>1, RecordsEnd DEF CountedIn
  <2>2. (f .. c) \cup {c + 1} = f .. c + 1
    OBVIOUS
  <2> QED BY <2>1, <2>2, <1>1, RecordsEnd DEF CountedIn
<1>2. CASE ~Unended(s, p)
  BY <1>2, RecordsEnd, Zenon DEF CountedIn
<1> QED BY <1>1, <1>2

-----------------------------------------------------------------------------
(* The inductive invariant.                                                   *)

Faulty  == killed \cup failed
Writing == \E t \in Threads : pc[t] \in {"end", "flush"}

\* The text of the record being written is in the buffer, or in the file.
Holding == buffer # <<>> /\ buffer[1] # LineEnd
Placed  == stream = "good" /\ Writing /\ ~Holding

Mutex ==
    /\ \A t \in Threads : pc[t] # "idle" => holder = t
    /\ stream \in {"closed", "gone"} => buffer = <<>> /\ \A t \in Threads : pc[t] = "idle"

Bounds ==
    /\ \A p \in 1 .. Processes : p > now => handed[p] = 0 /\ returned[p] = 0 /\ p \notin Faulty
    /\ stream \in {"closed", "good"} => now \notin Faulty
    /\ stream = "bad" => now \in failed
    /\ stream = "closed" => handed[now] = 0 /\ returned[now] = 0
    /\ returned[now] <= handed[now]
    /\ Writing => returned[now] < handed[now]
    /\ \A t \in Threads : pc[t] = "text" => handed[now] < MaxRecords

\* What the stream holds back.
LastIs(x) == file # <<>> /\ file[Len(file)] = x
Buffered ==
    /\ stream = "good" =>
         /\ ~Writing => buffer = <<>>
         /\ \A t \in Threads : pc[t] = "end" =>
              \/ buffer = <<Text(handed[now])>>
              \/ buffer = <<>> /\ LastIs(Text(handed[now]))
         /\ \A t \in Threads : pc[t] = "flush" =>
              \/ buffer = <<Text(handed[now]), LineEnd>>
              \/ buffer = <<LineEnd>> /\ LastIs(Text(handed[now]))
    /\ stream = "bad" =>
         \/ buffer = <<>> \/ buffer = <<LineEnd>>
         \/ \E r \in 1 .. handed[now] : buffer = <<Text(r), LineEnd>>

\* A stream without an error is at the start of a line, but for its first record.
Aligned ==
    stream = "good" =>
      /\ ~Writing /\ handed[now] > 0 => Fresh(file)
      /\ Writing /\ Holding /\ handed[now] > 1 => Fresh(file)
      /\ Writing /\ ~Holding /\ handed[now] > 1 => Len(file) \in Heads(file)

\* A line that is no record was begun by a process that was killed or met an error.
Blamed ==
    /\ \A i \in Heads(file) \ Whole(file) :
          file[i].process \in Faulty \/ (Placed /\ i = Len(file))
    /\ stream = "bad" /\ Holding /\ Fresh(file) =>
          \A i \in Heads(file) : file[i].process = now => i \in Whole(file)

Current(c) ==
    /\ stream = "good" => c = IF Writing THEN handed[now] - 1 ELSE handed[now]
    /\ stream = "bad" /\ Holding /\ Fresh(file) => buffer[1].record = c + 1
Counts(p, f, c) ==
    /\ CountedIn(file, p, f, c, handed[p])
    /\ f = 2 => c >= 1 /\ \E q \in Faulty : q < p
    /\ p \notin failed => returned[p] <= c
    /\ p = now => Current(c)
Counted == \A p \in 1 .. Processes : \E f \in {1, 2}, c \in Nat : Counts(p, f, c)

\* The stream and the file.
StreamInv == TypeOK /\ Mutex /\ Bounds /\ Buffered /\ Aligned
FileInv ==
    /\ \A i \in DOMAIN file : file[i].process <= now
    /\ Started(file) /\ Ordered(file) /\ Blamed /\ Counted
IInv == StreamInv /\ FileInv

-----------------------------------------------------------------------------
\* The pieces of the current process, and its counts.
LEMMA CurrentTypes ==
  ASSUME TypeOK, NEW r \in Nat
  PROVE  /\ now \in 1 .. Processes /\ now \in Nat /\ handed[now] \in Nat /\ returned[now] \in Nat
         /\ Text(r) \in Pieces /\ Text(r) # LineEnd /\ Text(r).process = now
         /\ Text(r).record = r /\ Text(r).part = "text"
         /\ Torn(r) \in Pieces /\ Torn(r) # LineEnd /\ Torn(r).process = now
         /\ Torn(r).record = r /\ Torn(r).part = "torn"
<1>1. Processes \in Nat /\ MaxRecords \in Nat
  BY WriterAssumption
<1>2. now \in 1 .. Processes /\ handed[now] \in 0 .. MaxRecords /\ returned[now] \in 0 .. MaxRecords
  BY DEF TypeOK
<1> QED BY <1>1, <1>2 DEF Text, Torn, LineEnd, Pieces

\* The counts of any process.
LEMMA HistoryTypes ==
  ASSUME TypeOK, NEW p \in 1 .. Processes
  PROVE  handed[p] \in Nat /\ returned[p] \in Nat /\ handed[p] <= MaxRecords
<1>1. MaxRecords \in Nat
  BY WriterAssumption
<1>2. handed[p] \in 0 .. MaxRecords /\ returned[p] \in 0 .. MaxRecords
  BY DEF TypeOK
<1> QED BY <1>1, <1>2

\* Two sequences with the same elements are the same.
LEMMA SeqEqual ==
  ASSUME NEW S, NEW s \in Seq(S), NEW t \in Seq(S), Len(s) = Len(t),
         \A i \in 1 .. Len(s) : s[i] = t[i]
  PROVE  s = t
OBVIOUS

\* The short sequences of pieces that write() gives to the system.
LEMMA Concatenations ==
  ASSUME NEW s \in Seq(Pieces), NEW x \in Pieces, NEW y \in Pieces
  PROVE  /\ s \o <<>> = s /\ s \o <<x>> = Append(s, x)
         /\ s \o <<x, y>> = Append(Append(s, x), y)
         /\ SubSeq(<<x, y>>, 1, 0) = <<>> /\ SubSeq(<<x, y>>, 1, 1) = <<x>>
         /\ SubSeq(<<x>>, 1, 0) = <<>> /\ Append(<<>>, x) = <<x>>
         /\ Append(<<x>>, y) = <<x, y>>
<1>1. s \o <<>> = s
  OBVIOUS
<1>2. s \o <<x>> = Append(s, x)
  OBVIOUS
<1>3. s \o <<x, y>> = Append(Append(s, x), y)
  <2> DEFINE a == s \o <<x, y>>
             b == Append(Append(s, x), y)
  <2>1. a \in Seq(Pieces) /\ Len(a) = Len(s) + 2 /\ a[Len(s) + 1] = x /\ a[Len(s) + 2] = y
        /\ \A i \in 1 .. Len(s) : a[i] = s[i]
    OBVIOUS
  <2>2. b \in Seq(Pieces) /\ Len(b) = Len(s) + 2 /\ b[Len(s) + 1] = x /\ b[Len(s) + 2] = y
        /\ \A i \in 1 .. Len(s) : b[i] = s[i]
    OBVIOUS
  <2> HIDE DEF a, b
  <2>3. Len(s) \in Nat /\ \A i \in 1 .. Len(s) + 2 : a[i] = b[i]
    BY <2>1, <2>2
  <2>4. a = b
    BY <2>1, <2>2, <2>3, SeqEqual
  <2> QED BY <2>4 DEF a, b
<1>4. SubSeq(<<x, y>>, 1, 0) = <<>> /\ SubSeq(<<x>>, 1, 0) = <<>>
  OBVIOUS
<1>5. SubSeq(<<x, y>>, 1, 1) = <<x>>
  <2> DEFINE a == SubSeq(<<x, y>>, 1, 1)
  <2>1. a \in Seq(Pieces) /\ Len(a) = 1 /\ a[1] = x
    OBVIOUS
  <2> HIDE DEF a
  <2>2. <<x>> \in Seq(Pieces) /\ Len(<<x>>) = 1 /\ <<x>>[1] = x
    OBVIOUS
  <2>3. a = <<x>>
    BY <2>1, <2>2, SeqEqual
  <2> QED BY <2>3 DEF a
<1>6. Append(<<>>, x) = <<x>>
  OBVIOUS
<1>7. Append(<<x>>, y) = <<x, y>>
  <2> DEFINE a == Append(<<x>>, y)
             b == <<x, y>>
  <2>1. a \in Seq(Pieces) /\ Len(a) = 2 /\ a[1] = x /\ a[2] = y
    OBVIOUS
  <2>2. b \in Seq(Pieces) /\ Len(b) = 2 /\ b[1] = x /\ b[2] = y
    OBVIOUS
  <2> HIDE DEF a, b
  <2>3. a = b
    BY <2>1, <2>2, SeqEqual
  <2> QED BY <2>3 DEF a, b
<1> QED BY <1>1, <1>2, <1>3, <1>4, <1>5, <1>6, <1>7

\* The system takes a part of the end of a line, of a text, or of both.
LEMMA NotTakenEffect ==
  ASSUME TypeOK, NEW r \in Nat
  PROVE  /\ NotTaken(<<LineEnd>>) => file' = file
         /\ NotTaken(<<Text(r)>>) => file' = file \/ file' = Append(file, Torn(r))
         /\ NotTaken(<<Text(r), LineEnd>>) =>
              \/ file' = file \/ file' = Append(file, Torn(r)) \/ file' = Append(file, Text(r))
<1>1. /\ file \in Seq(Pieces) /\ LineEnd \in Pieces /\ Text(r) \in Pieces /\ Torn(r) \in Pieces
      /\ Text(r).record = r /\ LineEnd.part = "end"
  BY CurrentTypes, PieceTypes DEF TypeOK, LineEnd
<1> DEFINE E == LineEnd
           T == Text(r)
           U == Torn(r)
<1>2. file \o <<>> = file /\ file \o <<T>> = Append(file, T) /\ file \o <<U>> = Append(file, U)
      /\ Append(<<>>, U) = <<U>> /\ SubSeq(<<T, E>>, 1, 0) = <<>> /\ SubSeq(<<T, E>>, 1, 1) = <<T>>
      /\ SubSeq(<<T>>, 1, 0) = <<>> /\ SubSeq(<<E>>, 1, 0) = <<>>
  BY <1>1, Concatenations, Zenon
<1>3. ASSUME NotTaken(<<E>>) PROVE file' = file
  <2>1. PICK n \in 0 .. Len(<<E>>) - 1 :
          \/ file' = file \o SubSeq(<<E>>, 1, n)
          \/ /\ <<E>>[n + 1].part = "text"
             /\ file' = file \o Append(SubSeq(<<E>>, 1, n), Torn(<<E>>[n + 1].record))
    BY <1>3 DEF NotTaken
  <2>2. n = 0 /\ <<E>>[n + 1] = E
    OBVIOUS
  <2> QED BY <2>1, <2>2, <1>1, <1>2
<1>4. ASSUME NotTaken(<<T>>) PROVE file' = file \/ file' = Append(file, U)
  <2>1. PICK n \in 0 .. Len(<<T>>) - 1 :
          \/ file' = file \o SubSeq(<<T>>, 1, n)
          \/ /\ <<T>>[n + 1].part = "text"
             /\ file' = file \o Append(SubSeq(<<T>>, 1, n), Torn(<<T>>[n + 1].record))
    BY <1>4 DEF NotTaken
  <2>2. n = 0 /\ <<T>>[n + 1] = T
    OBVIOUS
  <2> QED BY <2>1, <2>2, <1>1, <1>2
<1>5. ASSUME NotTaken(<<T, E>>)
      PROVE  file' = file \/ file' = Append(file, U) \/ file' = Append(file, T)
  <2>1. PICK n \in 0 .. Len(<<T, E>>) - 1 :
          \/ file' = file \o SubSeq(<<T, E>>, 1, n)
          \/ /\ <<T, E>>[n + 1].part = "text"
             /\ file' = file \o Append(SubSeq(<<T, E>>, 1, n), Torn(<<T, E>>[n + 1].record))
    BY <1>5, Zenon DEF NotTaken
  <2>2. CASE n = 0
    BY <2>1, <2>2, <1>1, <1>2
  <2>3. CASE n = 1
    BY <2>1, <2>3, <1>1, <1>2
  <2> QED BY <2>2, <2>3
<1> QED BY <1>3, <1>4, <1>5

\* The next record of the current process comes behind every line of the file.
LEMMA NewHead ==
  ASSUME TypeOK, FileInv, NEW x \in Pieces, x.process = now, NEW f \in {1, 2}, NEW c \in Nat, NEW h,
         CountedIn(file, now, f, c, h), x.record = c + 1,
         \A i \in Heads(file) : file[i].process = now => i \in Whole(file)
  PROVE  \A i \in Heads(file) : Precedes(file, i, x)
<1> SUFFICES ASSUME NEW i \in Heads(file) PROVE Precedes(file, i, x)
  OBVIOUS
<1>1. i \in DOMAIN file /\ file[i] \in Pieces /\ file[i] # LineEnd
  BY DEF Heads, TypeOK
<1>2. file[i].process <= now /\ file[i].process \in Nat /\ file[i].record \in Nat /\ now \in Nat
  BY <1>1, PieceTypes, CurrentTypes, WriterAssumption DEF FileInv, Pieces
<1>3. CASE file[i].process = now
  <2>1. file[i].record \in f .. c
    BY <1>3 DEF CountedIn, Records
  <2> QED BY <2>1, <1>3 DEF Precedes
<1> QED BY <1>2, <1>3 DEF Precedes

\* The counts when the file does not change.
LEMMA CountSame ==
  ASSUME TypeOK, TypeOK', Counted, file' = file, now' = now,
         killed \subseteq killed', failed \subseteq failed',
         \A p \in 1 .. Processes : handed[p] <= handed'[p] /\ (p # now => returned'[p] = returned[p]),
         \A f \in {1, 2}, c \in Nat : Counts(now, f, c) =>
            (now \in failed' \/ returned'[now] <= c) /\ Current(c)'
  PROVE  Counted'
<1> SUFFICES ASSUME NEW p \in 1 .. Processes
             PROVE  \E f \in {1, 2}, c \in Nat : Counts(p, f, c)'
  BY DEF Counted
<1>1. PICK f \in {1, 2}, c \in Nat : Counts(p, f, c)
  BY DEF Counted
<1>2. handed[p] \in Nat /\ handed'[p] \in Nat /\ handed[p] <= handed'[p]
  BY WriterAssumption DEF TypeOK
<1>3. CountedIn(file', p, f, c, handed'[p])
  BY <1>1, <1>2 DEF Counts, CountedIn
<1>4. f = 2 => c >= 1 /\ \E q \in Faulty' : q < p
  BY <1>1 DEF Counts, Faulty
<1>5. p \notin failed' => returned'[p] <= c
  BY <1>1 DEF Counts
<1>6. p = now' => Current(c)'
  BY <1>1
<1> QED BY <1>3, <1>4, <1>5, <1>6 DEF Counts

\* The counts when a piece of the current process is added.
LEMMA CountOnPiece ==
  ASSUME TypeOK, TypeOK', Counted, now' = now,
         NEW x \in Pieces, x # LineEnd, x.process = now, file' = Append(file, x),
         killed \subseteq killed', failed \subseteq failed',
         \A p \in 1 .. Processes : handed[p] <= handed'[p] /\ (p # now => returned'[p] = returned[p]),
         \A f \in {1, 2}, c \in Nat : Counts(now, f, c) =>
            /\ now \in failed' \/ returned'[now] <= c
            /\ Current(c)'
            /\ Fresh(file) /\ x.part = "text" => x.record = c + 1 /\ c < handed'[now]
  PROVE  Counted'
<1> SUFFICES ASSUME NEW p \in 1 .. Processes
             PROVE  \E f \in {1, 2}, c \in Nat : Counts(p, f, c)'
  BY DEF Counted
<1>1. PICK f \in {1, 2}, c \in Nat : Counts(p, f, c)
  BY DEF Counted
<1>0. /\ handed \in [1 .. Processes -> 0 .. MaxRecords]
      /\ handed' \in [1 .. Processes -> 0 .. MaxRecords]
  BY Zenon DEF TypeOK
<1>2. handed[p] \in Nat /\ handed'[p] \in Nat /\ handed[p] <= handed'[p]
  <2>1. MaxRecords \in Nat
    BY WriterAssumption
  <2> QED BY <1>0, <2>1
<1> file \in Seq(Pieces)
  BY DEF TypeOK
<1>3. CountedIn(file, p, f, c, handed'[p])
  BY <1>1, <1>2 DEF Counts, CountedIn
<1>4. CountedIn(file', p, f, c, handed'[p])
  BY <1>1, <1>2, <1>3, CountPiece, Zenon
<1>5. f = 2 => c >= 1 /\ \E q \in Faulty' : q < p
  BY <1>1 DEF Counts, Faulty
<1>6. p \notin failed' => returned'[p] <= c
  BY <1>1 DEF Counts
<1>7. p = now' => Current(c)'
  BY <1>1
<1> QED BY <1>4, <1>5, <1>6, <1>7 DEF Counts

\* What is held back when it is given to the system.
Ready ==
    /\ stream \in {"good", "bad"} /\ buffer # <<>>
    /\ stream = "good" => \E t \in Threads : pc[t] = "flush"

\* What is held back then is an end of line, or a record with its end; at the
\* start of a line it is the record that comes next.
LEMMA HeldReady ==
  ASSUME IInv, Ready
  PROVE  /\ buffer = <<LineEnd>> \/ \E r \in 1 .. handed[now] : buffer = <<Text(r), LineEnd>>
         /\ Holding /\ Fresh(file) =>
              /\ \A i \in Heads(file) : file[i].process = now => i \in Whole(file)
              /\ \A f \in {1, 2}, c \in Nat : Counts(now, f, c) => buffer[1].record = c + 1
<1>1. CASE stream = "bad"
  BY <1>1 DEF IInv, StreamInv, FileInv, Ready, Buffered, Blamed, Counts, Current
<1>2. CASE stream = "good"
  <2>1. PICK t \in Threads : pc[t] = "flush"
    BY <1>2 DEF Ready
  <2>2. Writing /\ now \notin Faulty /\ handed[now] \in Nat /\ handed[now] >= 1 /\ returned[now] \in Nat
    BY <1>2, <2>1, CurrentTypes DEF Writing, IInv, StreamInv, Bounds
  <2>3. \/ buffer = <<Text(handed[now]), LineEnd>>
        \/ buffer = <<LineEnd>>
    BY <1>2, <2>1 DEF IInv, StreamInv, Buffered
  <2>4. CASE Holding
    <3>1. \A i \in Heads(file) : file[i].process = now => i \in Whole(file)
      BY <2>4, <2>2 DEF IInv, FileInv, Blamed, Placed
    <3>2. buffer = <<Text(handed[now]), LineEnd>> /\ buffer[1].record = handed[now]
      BY <2>2, <2>3, <2>4, CurrentTypes DEF Holding, IInv, StreamInv
    <3>3. \A f \in {1, 2}, c \in Nat : Counts(now, f, c) => buffer[1].record = c + 1
      BY <1>2, <2>2, <3>2 DEF Counts, Current
    <3> QED BY <2>2, <2>3, <3>1, <3>3
  <2>5. CASE ~Holding
    BY <2>2, <2>3, <2>5
  <2> QED BY <2>4, <2>5
<1> QED BY <1>1, <1>2 DEF Ready

\* A piece of the current process is added, or nothing, and an error reported.
LEMMA FaultStep ==
  ASSUME IInv, TypeOK', NEW x \in Pieces, x # LineEnd, x.process = now,
         file' = file \/ file' = Append(file, x), now' = now,
         stream' \in {"bad", "gone"}, killed' = killed, failed' = failed \cup {now},
         \A p \in 1 .. Processes : handed[p] <= handed'[p] /\ (p # now => returned'[p] = returned[p]),
         Holding' => Holding /\ buffer' = buffer,
         Holding => Ready,
         file' # file /\ Fresh(file) =>
            /\ \A i \in Heads(file) : file[i].process = now => i \in Whole(file)
            /\ \A f \in {1, 2}, c \in Nat : Counts(now, f, c) => x.record = c + 1 /\ c < handed'[now],
         Placed => LastIs(Text(handed[now]))
  PROVE  FileInv'
<1>1. /\ TypeOK /\ FileInv /\ Counted /\ Started(file) /\ Ordered(file) /\ Blamed
      /\ now \in 1 .. Processes /\ handed[now] \in Nat
  BY CurrentTypes DEF IInv, StreamInv, FileInv
<1>2. file \in Seq(Pieces)
  BY <1>1 DEF TypeOK
<1>3. \A i \in Heads(file) \ Whole(file) : file[i].process \in Faulty'
  BY <1>1, <1>2, CurrentTypes DEF Blamed, Faulty, LastIs
<1>4. CASE file' = file
  <2>1. \A i \in DOMAIN file' : file'[i].process <= now'
    BY <1>1, <1>4 DEF FileInv
  <2>2. Blamed'
    <3>1. \A i \in Heads(file') \ Whole(file') : file'[i].process \in Faulty'
      BY <1>3, <1>4
    <3>2. Holding' /\ Fresh(file') =>
             \A i \in Heads(file') : file'[i].process = now' => i \in Whole(file')
      BY <1>4, HeldReady
    <3> QED BY <3>1, <3>2 DEF Blamed
  <2>3. \A f \in {1, 2}, c \in Nat : Counts(now, f, c) => Current(c)'
    BY <1>4, HeldReady DEF Current
  <2>4. Counted'
    BY <1>1, <1>4, <2>3, CountSame
  <2> QED BY <1>1, <1>4, <2>1, <2>2, <2>4 DEF FileInv
<1>5. CASE file' # file
  <2>1. file' = Append(file, x)
    BY <1>5
  <2>2. /\ Len(file') = Len(file) + 1 /\ file'[Len(file')] = x
        /\ \A i \in DOMAIN file : file'[i] = file[i]
        /\ Heads(file') = IF Fresh(file) THEN Heads(file) \cup {Len(file) + 1} ELSE Heads(file)
        /\ Whole(file') = Whole(file)
        /\ ~Fresh(file')
    BY <1>2, <2>1, AddPiece
  <2>3. DOMAIN file = 1 .. Len(file) /\ DOMAIN file' = 1 .. Len(file) + 1 /\ Heads(file) \subseteq DOMAIN file
        /\ Len(file) \in Nat
    BY <1>2, <2>1 DEF Heads
  <2>4. \A i \in DOMAIN file' : file'[i].process <= now'
    <3>1. now \in Nat
      BY <1>1, WriterAssumption
    <3> QED BY <1>1, <2>2, <2>3, <3>1 DEF FileInv
  <2>5. Started(file')
    BY <1>1, <1>2, <2>1, StartedPiece
  <2>6. Ordered(file')
    <3>1. PICK f \in {1, 2}, c \in Nat : Counts(now, f, c)
      BY <1>1 DEF Counted
    <3>2. Fresh(file) => \A i \in Heads(file) : Precedes(file, i, x)
      BY <1>1, <1>5, <3>1, NewHead DEF Counts
    <3> QED BY <1>1, <1>2, <2>1, <3>2, OrderedPiece
  <2>7. Blamed'
    <3>1. ASSUME NEW i \in Heads(file') \ Whole(file') PROVE file'[i].process \in Faulty'
      <4>1. CASE i \in Heads(file)
        BY <4>1, <1>3, <2>2, <2>3
      <4>2. CASE i \notin Heads(file)
        BY <4>2, <2>2 DEF Faulty
      <4> QED BY <4>1, <4>2
    <3> QED BY <2>2, <3>1 DEF Blamed
  <2>8. \A f \in {1, 2}, c \in Nat : Counts(now, f, c) =>
           Current(c)' /\ (Fresh(file) => x.record = c + 1 /\ c < handed'[now])
    BY <1>5, <2>2 DEF Current
  <2>9. Counted'
    BY <1>1, <2>1, <2>8, CountOnPiece
  <2> QED BY <2>4, <2>5, <2>6, <2>7, <2>9 DEF FileInv
<1> QED BY <1>4, <1>5

\* The same of what a stream holds back.
LEMMA SyncFault ==
  ASSUME IInv, TypeOK', Ready, NotTaken(buffer), now' = now, handed' = handed, killed' = killed,
         stream' \in {"bad", "gone"}, buffer' = buffer \/ buffer' = <<>>,
         \A p \in 1 .. Processes : p # now => returned'[p] = returned[p]
  PROVE  FileInv'
<1>1. TypeOK /\ failed' = failed \cup {now} /\ handed[now] \in Nat /\ now \in 1 .. Processes
  BY CurrentTypes DEF IInv, StreamInv, NotTaken
<1>2. \A p \in 1 .. Processes : handed[p] <= handed'[p]
  BY <1>1, WriterAssumption DEF TypeOK
<1>3. Holding' => Holding /\ buffer' = buffer
  BY DEF Holding
<1>4. Placed => LastIs(Text(handed[now]))
  <2> SUFFICES ASSUME Placed PROVE LastIs(Text(handed[now]))
    OBVIOUS
  <2>1. PICK t \in Threads : pc[t] = "flush"
    BY DEF Placed, Ready
  <2>2. CASE buffer = <<Text(handed[now]), LineEnd>>
    BY <1>1, <2>2, CurrentTypes DEF Placed, Holding
  <2> QED BY <2>1, <2>2 DEF Placed, IInv, StreamInv, Buffered
<1>5. CASE buffer = <<LineEnd>>
  <2>1. file' = file
    BY <1>1, <1>5, NotTakenEffect, Zenon
  <2> QED BY <1>1, <1>2, <1>3, <1>4, <2>1, FaultStep, CurrentTypes
<1>6. ASSUME NEW r \in 1 .. handed[now], buffer = <<Text(r), LineEnd>>
      PROVE  FileInv'
  <2>1. /\ r \in Nat /\ Text(r) \in Pieces /\ Torn(r) \in Pieces /\ Text(r) # LineEnd
        /\ Torn(r) # LineEnd /\ Text(r).record = r /\ Torn(r).record = r
        /\ Text(r).process = now /\ Torn(r).process = now
    BY <1>1, CurrentTypes
  <2>2. Holding /\ buffer[1].record = r
    BY <1>6, <2>1 DEF Holding
  <2>3. Fresh(file) =>
          /\ \A i \in Heads(file) : file[i].process = now => i \in Whole(file)
          /\ \A f \in {1, 2}, c \in Nat : Counts(now, f, c) => r = c + 1 /\ c < handed'[now]
    BY <1>1, <2>1, <2>2, HeldReady
  <2>4. \E x \in {Text(r), Torn(r)} : file' = file \/ file' = Append(file, x)
    BY <1>1, <1>6, <2>1, NotTakenEffect, Zenon
  <2>5. PICK x \in {Text(r), Torn(r)} : file' = file \/ file' = Append(file, x)
    BY <2>4
  <2>6. x \in Pieces /\ x # LineEnd /\ x.process = now /\ x.record = r
    BY <2>1, <2>5
  <2> QED BY <1>1, <1>2, <1>3, <1>4, <2>3, <2>5, <2>6, FaultStep
<1> QED BY <1>5, <1>6, HeldReady

\* What the system takes ends a line, and adds a record to those of a process.
Gains(p) == IF buffer = <<LineEnd>> THEN Unended(file, p) ELSE p = now /\ Fresh(file)

\* The file after the system has taken what was held back.
LEMMA SyncTaken ==
  ASSUME IInv, Ready, Taken(buffer), now' = now
  PROVE  /\ \A i \in DOMAIN file' : file'[i].process <= now'
         /\ Fresh(file') /\ Started(file') /\ Ordered(file')
         /\ \A i \in Heads(file') \ Whole(file') :
               /\ i \in Heads(file) \ Whole(file) /\ file'[i] = file[i]
               /\ buffer = <<LineEnd>> /\ i = Len(file) => file[i].part # "text"
         /\ \A p \in 1 .. Processes, f \in {1, 2}, c \in Nat : Counts(p, f, c) =>
               CountedIn(file', p, f, IF Gains(p) THEN c + 1 ELSE c, handed[p])
<1>1. /\ TypeOK /\ FileInv /\ Counted /\ Ordered(file) /\ file \in Seq(Pieces) /\ handed[now] \in Nat
      /\ now \in 1 .. Processes /\ now \in Nat /\ LineEnd \in Pieces /\ LineEnd.process = 0
      /\ file' = file \o buffer
  BY CurrentTypes, PieceTypes DEF IInv, StreamInv, FileInv, TypeOK, Taken, LineEnd
<1>2. \A p \in 1 .. Processes : handed[p] \in Nat
  BY <1>1, WriterAssumption DEF TypeOK
<1>3. \A p \in 1 .. Processes, f \in {1, 2}, c \in Nat : Counts(p, f, c) =>
         f <= c + 1 /\ CountedIn(file, p, f, c, handed[p])
  BY DEF Counts
<1>4. CASE buffer = <<LineEnd>>
  <2>1. file' = Append(file, LineEnd)
    BY <1>1, <1>4, Concatenations
  <2>2. /\ Len(file') = Len(file) + 1 /\ file'[Len(file')] = LineEnd
        /\ \A i \in DOMAIN file : file'[i] = file[i]
        /\ Heads(file') = Heads(file) /\ Fresh(file')
        /\ Whole(file') = IF Len(file) \in Heads(file) /\ file[Len(file)].part = "text"
                         THEN Whole(file) \cup {Len(file)} ELSE Whole(file)
    BY <1>1, <2>1, AddEnd
  <2>3. /\ DOMAIN file = 1 .. Len(file) /\ DOMAIN file' = 1 .. Len(file) + 1
        /\ Heads(file) \subseteq DOMAIN file /\ Len(file) \in Nat
    BY <1>1, <2>1 DEF Heads
  <2>4. \A i \in DOMAIN file' : file'[i].process <= now'
    BY <1>1, <2>2, <2>3 DEF FileInv
  <2>5. Ordered(file')
    BY <1>1, <2>1, OrderedEnd
  <2>6. \A i \in Heads(file') \ Whole(file') :
           /\ i \in Heads(file) \ Whole(file) /\ file'[i] = file[i]
           /\ buffer = <<LineEnd>> /\ i = Len(file) => file[i].part # "text"
    BY <2>2, <2>3
  <2>7. \A p \in 1 .. Processes, f \in {1, 2}, c \in Nat : Counts(p, f, c) =>
           CountedIn(file', p, f, IF Gains(p) THEN c + 1 ELSE c, handed[p])
    <3> SUFFICES ASSUME NEW p \in 1 .. Processes, NEW f \in {1, 2}, NEW c \in Nat, Counts(p, f, c)
                 PROVE  CountedIn(file', p, f, IF Gains(p) THEN c + 1 ELSE c, handed[p])
      OBVIOUS
    <3>1. Gains(p) <=> Unended(file, p)
      BY <1>4 DEF Gains
    <3>2. CountedIn(Append(file, LineEnd), p, f, IF Unended(file, p) THEN c + 1 ELSE c, handed[p])
      BY <1>1, <1>2, <1>3, CountEnd
    <3> QED BY <2>1, <3>1, <3>2
  <2> QED BY <2>2, <2>4, <2>5, <2>6, <2>7 DEF Started
<1>5. ASSUME NEW r \in 1 .. handed[now], buffer = <<Text(r), LineEnd>>
      PROVE  /\ \A i \in DOMAIN file' : file'[i].process <= now'
             /\ Fresh(file') /\ Started(file') /\ Ordered(file')
             /\ \A i \in Heads(file') \ Whole(file') :
                   /\ i \in Heads(file) \ Whole(file) /\ file'[i] = file[i]
                   /\ buffer = <<LineEnd>> /\ i = Len(file) => file[i].part # "text"
             /\ \A p \in 1 .. Processes, f \in {1, 2}, c \in Nat : Counts(p, f, c) =>
                   CountedIn(file', p, f, IF Gains(p) THEN c + 1 ELSE c, handed[p])
  <2> DEFINE x == Text(r)
             s == Append(file, x)
  <2>1. /\ r \in Nat /\ x \in Pieces /\ x # LineEnd /\ x.process = now /\ x.record = r /\ x.part = "text"
        /\ file' = Append(s, LineEnd) /\ buffer # <<LineEnd>>
    <3>1. r \in Nat /\ x \in Pieces /\ x # LineEnd /\ x.process = now /\ x.record = r /\ x.part = "text"
      BY <1>1, CurrentTypes
    <3>2. file' = Append(s, LineEnd)
      BY <1>1, <1>5, <3>1, Concatenations
    <3>3. Len(<<x, LineEnd>>) # Len(<<LineEnd>>)
      OBVIOUS
    <3> QED BY <1>5, <3>1, <3>2, <3>3
  <2>2. Fresh(file) =>
          /\ \A i \in Heads(file) : file[i].process = now => i \in Whole(file)
          /\ \A f \in {1, 2}, c \in Nat : Counts(now, f, c) => r = c + 1
    <3>1. Holding /\ buffer[1] = x
      BY <1>5, <2>1 DEF Holding
    <3> QED BY <2>1, <3>1, HeldReady
  <2> HIDE DEF x
  <2>3. /\ s \in Seq(Pieces) /\ Len(s) = Len(file) + 1 /\ s[Len(s)] = x
        /\ \A i \in DOMAIN file : s[i] = file[i]
        /\ Heads(s) = IF Fresh(file) THEN Heads(file) \cup {Len(file) + 1} ELSE Heads(file)
        /\ Whole(s) = Whole(file)
    BY <1>1, <2>1, AddPiece
  <2>4. Ordered(s)
    <3>1. PICK f \in {1, 2}, c \in Nat : Counts(now, f, c)
      BY <1>1 DEF Counted
    <3>2. Fresh(file) => \A i \in Heads(file) : Precedes(file, i, x)
      BY <1>1, <2>1, <2>2, <3>1, NewHead DEF Counts
    <3> QED BY <1>1, <2>1, <3>2, OrderedPiece
  <2> HIDE DEF s
  <2>5. /\ Len(file') = Len(file) + 2 /\ file'[Len(file')] = LineEnd
        /\ \A i \in DOMAIN s : file'[i] = s[i]
        /\ Heads(file') = Heads(s) /\ Fresh(file')
        /\ Whole(file') = IF Len(s) \in Heads(s) /\ s[Len(s)].part = "text"
                         THEN Whole(s) \cup {Len(s)} ELSE Whole(s)
    BY <1>1, <2>1, <2>3, AddEnd
  <2>6. /\ DOMAIN file = 1 .. Len(file) /\ DOMAIN s = 1 .. Len(file) + 1
        /\ DOMAIN file' = 1 .. Len(file) + 2
        /\ Heads(file) \subseteq DOMAIN file /\ Len(file) \in Nat
    BY <1>1, <2>3, <2>5 DEF Heads
  <2>7. Ordered(file')
    BY <2>1, <2>3, <2>4, OrderedEnd
  <2>8. \A p \in 1 .. Processes, f \in {1, 2}, c \in Nat : Counts(p, f, c) =>
           CountedIn(file', p, f, IF Gains(p) THEN c + 1 ELSE c, handed[p])
    <3> SUFFICES ASSUME NEW p \in 1 .. Processes, NEW f \in {1, 2}, NEW c \in Nat, Counts(p, f, c)
                 PROVE  CountedIn(file', p, f, IF Gains(p) THEN c + 1 ELSE c, handed[p])
      OBVIOUS
    <3>1. CountedIn(s, p, f, c, handed[p])
      <4>1. Fresh(file) /\ x.process = p => x.record = c + 1 /\ c < handed[p]
        BY <1>1, <2>1, <2>2
      <4> QED BY <1>1, <1>2, <1>3, <2>1, <4>1, CountPiece, Zenon DEF s
    <3>2. Unended(s, p) <=> Gains(p)
      BY <1>1, <2>1, RecordsPiece DEF Gains, s
    <3> QED BY <1>2, <1>3, <2>1, <2>3, <3>1, <3>2, CountEnd
  <2>9. \A i \in DOMAIN file' : file'[i].process <= now'
    BY <1>1, <2>1, <2>3, <2>5, <2>6 DEF FileInv
  <2>10. \A i \in Heads(file') \ Whole(file') :
           /\ i \in Heads(file) \ Whole(file) /\ file'[i] = file[i]
           /\ buffer = <<LineEnd>> /\ i = Len(file) => file[i].part # "text"
    <3> SUFFICES ASSUME NEW i \in Heads(file') \ Whole(file')
                 PROVE  i \in Heads(file) \ Whole(file) /\ file'[i] = file[i]
      BY <2>1, Zenon
    <3>1. i # Len(file) + 1
      BY <2>1, <2>3, <2>5
    <3> QED BY <2>3, <2>5, <2>6, <3>1
  <2> QED BY <2>5, <2>7, <2>8, <2>9, <2>10 DEF Started
<1> QED BY <1>4, <1>5, HeldReady

\* A stream in error has its bytes taken by a later flush or by close().
LEMMA RetryTaken ==
  ASSUME IInv, TypeOK', Ready, stream = "bad", Taken(buffer), buffer' = <<>>, now' = now,
         handed' = handed, killed' = killed, stream' \in {"bad", "gone"},
         \A p \in 1 .. Processes : p # now => returned'[p] = returned[p]
  PROVE  FileInv'
<1>1. TypeOK /\ Blamed /\ Counted /\ failed' = failed /\ now \in failed
  BY DEF IInv, StreamInv, FileInv, Bounds, Taken
<1>2. Blamed'
  <2>1. \A i \in Heads(file') \ Whole(file') : file'[i].process \in Faulty'
    BY <1>1, SyncTaken, Zenon DEF Blamed, Faulty, Placed
  <2>2. ~Holding'
    BY DEF Holding
  <2> QED BY <2>1, <2>2 DEF Blamed
<1>3. ASSUME NEW p \in 1 .. Processes
      PROVE  \E f \in {1, 2}, c \in Nat : Counts(p, f, c)'
  <2>1. PICK f \in {1, 2}, c \in Nat : Counts(p, f, c)
    BY <1>1 DEF Counted
  <2>0. PICK d \in Nat : d = IF Gains(p) THEN c + 1 ELSE c
    OBVIOUS
  <2>2. CountedIn(file', p, f, d, handed'[p])
    BY <2>1, <2>0, SyncTaken, Zenon
  <2>3. d >= c
    BY <2>0
  <2>4. returned[p] \in Nat
    BY <1>1, HistoryTypes
  <2>5. p \notin failed' => returned'[p] <= d
    BY <1>1, <2>1, <2>3, <2>4 DEF Counts
  <2>6. f = 2 => d >= 1 /\ \E q \in Faulty' : q < p
    BY <1>1, <2>1, <2>3 DEF Counts, Faulty
  <2>7. Current(d)'
    BY DEF Current, Holding
  <2>8. Counts(p, f, d)'
    BY <2>2, <2>5, <2>6, <2>7 DEF Counts
  <2> QED BY <2>3, <2>8
<1>4. Counted'
  BY <1>3 DEF Counted
<1> QED BY <1>2, <1>4, SyncTaken DEF FileInv

\* The first record of a process that continued the line of another is lost, and
\* the other is to blame.
LEMMA FirstLost ==
  ASSUME IInv, stream = "good", Writing, Holding => ~Fresh(file),
         ~Holding => Len(file) \notin Heads(file) /\ ~Fresh(file)
  PROVE  handed[now] = 1 /\ \E q \in Faulty : q < now
<1>1. /\ Aligned /\ FileInv /\ Blamed /\ now \notin Faulty /\ Faulty \subseteq 1 .. Processes
      /\ now \in Nat /\ handed[now] \in Nat /\ returned[now] \in Nat /\ returned[now] < handed[now]
  BY CurrentTypes, Zenon DEF IInv, StreamInv, FileInv, Bounds, TypeOK, Faulty
<1>2. PICK i \in Heads(file) \ Whole(file) : TRUE
  BY <1>1 DEF FileInv, Started
<1>3. file[i].process \in Faulty
  BY <1>1, <1>2 DEF Blamed, Placed
<1>4. file[i].process # now /\ file[i].process <= now
  BY <1>1, <1>2, <1>3 DEF FileInv, Heads
<1>5. file[i].process \in Nat
  <2>1. 1 .. Processes \subseteq Nat
    BY WriterAssumption
  <2> QED BY <1>1, <1>3, <2>1, Zenon
<1>6. file[i].process < now
  BY <1>1, <1>4, <1>5
<1>7. handed[now] = 1
  BY <1>1 DEF Aligned
<1> QED BY <1>3, <1>6, <1>7

\* A record reaches the file with the end of its line.
LEMMA FlushCounts ==
  ASSUME IInv, TypeOK', Ready, stream = "good", Taken(buffer), now' = now,
         handed' = handed, killed' = killed, stream' = "good", ~Writing',
         returned' = [returned EXCEPT ![now] = @ + 1], Writing,
         Gains(now) \/ (handed[now] = 1 /\ \E q \in Faulty : q < now)
  PROVE  \E f \in {1, 2}, c \in Nat : Counts(now, f, c)'
<1>1. /\ now \in 1 .. Processes /\ handed[now] \in Nat /\ returned[now] \in Nat
      /\ returned[now] < handed[now] /\ Faulty' = Faulty /\ Counted
      /\ returned'[now] = returned[now] + 1
  BY CurrentTypes, Zenon DEF IInv, StreamInv, FileInv, Bounds, Taken, Faulty, TypeOK
<1>2. PICK f \in {1, 2}, c \in Nat : Counts(now, f, c)
  BY <1>1 DEF Counted
<1>3. c = handed[now] - 1
  BY <1>2, Zenon DEF Counts, Current
<1>4. CASE Gains(now)
  <2>1. CountedIn(file', now, f, c + 1, handed[now])
    BY <1>1, <1>2, <1>4, SyncTaken
  <2>2. Current(c + 1)'
    BY <1>1, <1>3 DEF Current
  <2>3. Counts(now, f, c + 1)'
    BY <1>1, <1>2, <1>3, <2>1, <2>2 DEF Counts
  <2> QED BY <2>3
<1>5. CASE ~Gains(now)
  <2>1. CountedIn(file', now, f, 0, 1) /\ c = 0
    BY <1>1, <1>2, <1>3, <1>5, SyncTaken
  <2>2. ~Unended(file', now)
    BY SyncTaken DEF Fresh, Unended, Heads
  <2>3. f .. 0 = 2 .. 1
    BY <1>2
  <2>4. CountedIn(file', now, 2, 1, 1)
    BY <2>1, <2>2, <2>3 DEF CountedIn
  <2>5. Current(1)'
    BY <1>1, <1>5 DEF Current
  <2>6. Counts(now, 2, 1)'
    BY <1>1, <1>3, <1>5, <2>1, <2>4, <2>5 DEF Counts
  <2> QED BY <2>6
<1> QED BY <1>4, <1>5

\* write() flushes a stream without an error, and the system takes it all.
LEMMA FlushTaken ==
  ASSUME IInv, TypeOK', Ready, stream = "good", Taken(buffer), buffer' = <<>>, now' = now,
         handed' = handed, killed' = killed, stream' = "good", ~Writing',
         returned' = [returned EXCEPT ![now] = @ + 1]
  PROVE  FileInv' /\ Fresh(file')
<1>1. PICK t \in Threads : pc[t] = "flush"
  BY DEF Ready
<1>2. /\ TypeOK /\ Blamed /\ Counted /\ Writing /\ failed' = failed
      /\ Text(handed[now]).part = "text" /\ Text(handed[now]).process = now
      /\ Text(handed[now]) # LineEnd
  BY <1>1, CurrentTypes, Zenon DEF IInv, StreamInv, FileInv, Taken, Writing
<1>3. \/ buffer = <<Text(handed[now]), LineEnd>> /\ buffer # <<LineEnd>> /\ Holding
      \/ buffer = <<LineEnd>> /\ LastIs(Text(handed[now])) /\ ~Holding
  <2>1. CASE buffer = <<Text(handed[now]), LineEnd>>
    <3>1. buffer[1] = Text(handed[now]) /\ <<LineEnd>>[1] = LineEnd
      BY <2>1
    <3> QED BY <2>1, <3>1, <1>2 DEF Holding
  <2>2. CASE buffer = <<LineEnd>> /\ LastIs(Text(handed[now]))
    BY <2>2 DEF Holding
  <2> QED BY <1>1, <2>1, <2>2 DEF IInv, StreamInv, Buffered
<1>4. Blamed'
  <2>1. ASSUME NEW i \in Heads(file') \ Whole(file') PROVE file'[i].process \in Faulty'
    <3>1. /\ i \in Heads(file) \ Whole(file) /\ file'[i] = file[i]
          /\ buffer = <<LineEnd>> /\ i = Len(file) => file[i].part # "text"
      BY SyncTaken
    <3>2. ~(Placed /\ i = Len(file))
      BY <3>1, <1>2, <1>3 DEF Placed, LastIs
    <3> QED BY <3>1, <3>2, <1>2 DEF Blamed, Faulty
  <2> QED BY <2>1 DEF Blamed
<1>5. Gains(now) \/ (handed[now] = 1 /\ \E q \in Faulty : q < now)
  <2>1. ASSUME ~Gains(now)
        PROVE  /\ Holding => ~Fresh(file)
               /\ ~Holding => Len(file) \notin Heads(file) /\ ~Fresh(file)
    <3>1. CASE Holding
      BY <1>3, <2>1, <3>1 DEF Gains
    <3>2. CASE ~Holding
      BY <1>2, <1>3, <2>1, <3>2 DEF Gains, LastIs, Fresh, Unended
    <3> QED BY <3>1, <3>2
  <2> QED BY <1>2, <2>1, FirstLost
<1>6. ASSUME NEW p \in 1 .. Processes, p # now
      PROVE  \E f \in {1, 2}, c \in Nat : Counts(p, f, c)'
  <2>1. PICK f \in {1, 2}, c \in Nat : Counts(p, f, c)
    BY <1>2 DEF Counted
  <2>2. PICK d \in Nat : d = IF Gains(p) THEN c + 1 ELSE c
    OBVIOUS
  <2>3. CountedIn(file', p, f, d, handed'[p])
    BY <2>1, <2>2, SyncTaken
  <2>4. returned[p] \in Nat /\ returned'[p] = returned[p] /\ d >= c
    BY <1>2, <1>6, <2>2, HistoryTypes DEF TypeOK
  <2>5. Counts(p, f, d)'
    BY <1>2, <1>6, <2>1, <2>3, <2>4 DEF Counts, Faulty
  <2> QED BY <2>5
<1>7. Counted'
  BY <1>2, <1>5, <1>6, FlushCounts DEF Counted
<1> QED BY <1>4, <1>7, SyncTaken DEF FileInv

-----------------------------------------------------------------------------
(* One lemma for each action.                                                 *)

\* An action that leaves the file and what was handed over as they are, and the
\* stream with no more to give than before.
LEMMA QuietFile ==
  ASSUME IInv, TypeOK', UNCHANGED <<file, handed, returned, failed>>, now' = now,
         killed \subseteq killed',
         \A c \in Nat : c <= handed[now] /\ Current(c) => Current(c)',
         stream' = "bad" /\ Holding' => stream = "bad" /\ Holding,
         Placed => Placed' \/ (now \in killed' /\ LastIs(Text(handed[now])))
  PROVE  FileInv'
<1>1. TypeOK /\ FileInv /\ Counted /\ Blamed /\ handed[now] \in Nat
  BY CurrentTypes DEF IInv, StreamInv, FileInv
<1>2. Blamed'
  <2>1. ASSUME NEW i \in Heads(file) \ Whole(file)
        PROVE  file[i].process \in Faulty' \/ (Placed' /\ i = Len(file))
    <3>1. CASE file[i].process \in Faulty
      BY <3>1 DEF Faulty
    <3>2. CASE Placed /\ i = Len(file)
      BY <1>1, <3>2, CurrentTypes DEF Faulty, LastIs
    <3> QED BY <1>1, <3>1, <3>2 DEF Blamed
  <2> QED BY <1>1, <2>1 DEF Blamed
<1>3. Counted'
  <2>1. \A p \in 1 .. Processes : handed[p] <= handed'[p] /\ returned'[p] = returned[p]
    BY <1>1, HistoryTypes
  <2>2. \A f \in {1, 2}, c \in Nat : Counts(now, f, c) =>
            (now \in failed' \/ returned'[now] <= c) /\ Current(c)'
    BY <1>1, CurrentTypes DEF Counts, CountedIn
  <2> QED BY <1>1, <2>1, <2>2, CountSame
<1> QED BY <1>1, <1>2, <1>3 DEF FileInv

\* A step that changes nothing the file part of the invariant speaks of.
LEMMA SameFile ==
  ASSUME FileInv,
         UNCHANGED <<file, now, stream, buffer, pc, handed, returned, killed, failed>>
  PROVE  FileInv'
<1>1. Blamed'
  BY DEF FileInv, Blamed, Faulty, Placed, Writing, Holding
<1>2. \A c \in Nat : Current(c) => Current(c)'
  BY DEF Current, Writing, Holding
<1>3. \A p \in 1 .. Processes, f \in {1, 2}, c \in Nat : Counts(p, f, c) => Counts(p, f, c)'
  BY <1>2 DEF Counts, Faulty
<1>4. Counted'
  BY <1>3 DEF FileInv, Counted
<1> QED BY <1>1, <1>4 DEF FileInv

\* The constructor.
LEMMA OpenStep == ASSUME IInv, Open \/ OpenFails PROVE IInv'
<1> USE DEF IInv, StreamInv
<1>1. TypeOK'
  BY Zenon DEF Open, OpenFails, TypeOK, history
<1>2. ~Writing /\ ~Writing' /\ buffer = <<>> /\ handed[now] = 0
  BY DEF Open, OpenFails, Mutex, Writing, Bounds
<1>3. Mutex' /\ Bounds'
  BY <1>2 DEF Open, OpenFails, Mutex, Bounds, Faulty, history, Writing
<1>4. Buffered' /\ Aligned'
  BY <1>2 DEF Open, OpenFails, Buffered, Aligned, history, Writing
<1>5. FileInv'
  <2>1. UNCHANGED <<file, handed, returned, failed, killed>> /\ now' = now /\ stream' # "bad" /\ ~Placed
    BY DEF Open, OpenFails, history, Placed
  <2>2. \A c \in Nat : c <= handed[now] /\ Current(c) => Current(c)'
    BY <1>2, <2>1 DEF Current
  <2> QED BY <1>1, <2>1, <2>2, QuietFile
<1> QED BY <1>1, <1>3, <1>4, <1>5

\* The end of a process by a signal: what it held back is lost, and it is to blame.
LEMMA KilledStep == ASSUME IInv, Killed PROVE IInv'
<1> USE DEF IInv, StreamInv
<1>1. TypeOK'
  BY DEF Killed, Ended, TypeOK
<1>2. ~Writing' /\ buffer' = <<>> /\ stream' = "gone" /\ \A t \in Threads : pc'[t] = "idle"
  BY DEF Killed, Ended, Writing
<1>3. Mutex'
  BY <1>2 DEF Mutex
<1>4. Bounds'
  <2>1. now \in Nat /\ handed[now] \in Nat /\ returned[now] \in Nat
    BY CurrentTypes
  <2> QED BY <1>2, <2>1 DEF Killed, Bounds, Faulty
<1>5. Buffered' /\ Aligned'
  BY <1>2 DEF Buffered, Aligned
<1>6. FileInv'
  <2>1. /\ UNCHANGED <<file, handed, returned, failed>> /\ now' = now /\ killed \subseteq killed'
        /\ now \in killed' /\ stream' = "gone"
    BY DEF Killed, Ended
  <2>2. \A c \in Nat : Current(c)'
    BY <2>1 DEF Current
  <2>3. Placed => LastIs(Text(handed[now]))
    <3> SUFFICES ASSUME Placed PROVE LastIs(Text(handed[now]))
      OBVIOUS
    <3>1. PICK t \in Threads : pc[t] \in {"end", "flush"}
      BY DEF Placed, Writing
    <3>2. Text(handed[now]) # LineEnd
      BY CurrentTypes
    <3> QED BY <3>1, <3>2 DEF Placed, Buffered, Holding
  <2> QED BY <1>1, <2>1, <2>2, <2>3, QuietFile
<1> QED BY <1>1, <1>3, <1>4, <1>5, <1>6

\* The next process continues whatever line the last one left.
LEMMA NextProcessStep == ASSUME IInv, NextProcess PROVE IInv'
<1> USE DEF IInv, StreamInv
<1>1. TypeOK'
  BY WriterAssumption DEF NextProcess, TypeOK, history
<1>2. /\ stream = "gone" /\ stream' = "closed" /\ now' = now + 1 /\ now \in Nat /\ now' \in 1 .. Processes
      /\ UNCHANGED <<file, buffer, holder, pc, handed, returned, killed, failed>> /\ Processes \in Nat
  BY CurrentTypes, WriterAssumption DEF NextProcess, history, TypeOK
<1>3. Mutex'
  BY <1>2 DEF Mutex
<1>4. Bounds'
  <2>1. ~Writing'
    BY <1>2 DEF Mutex, Writing
  <2>2. handed[now'] = 0 /\ returned[now'] = 0 /\ now' \notin Faulty
    BY <1>2 DEF Bounds
  <2>3. \A t \in Threads : pc'[t] # "text"
    BY <1>2 DEF Mutex
  <2> QED BY <1>2, <2>1, <2>2, <2>3 DEF Bounds, Faulty
<1>5. Buffered' /\ Aligned'
  BY <1>2 DEF Buffered, Aligned
<1>6. \A i \in DOMAIN file' : file'[i].process <= now'
  <2>1. \A i \in DOMAIN file : file[i].process \in Nat
    BY PieceTypes, WriterAssumption DEF TypeOK, Pieces, LineEnd
  <2> QED BY <1>2, <2>1 DEF FileInv
<1>7. Blamed'
  BY <1>2 DEF FileInv, Blamed, Faulty, Placed
<1>8. Counted'
  <2> SUFFICES ASSUME NEW p \in 1 .. Processes
               PROVE  \E f \in {1, 2}, c \in Nat : Counts(p, f, c)'
    BY DEF Counted
  <2>1. PICK f \in {1, 2}, c \in Nat : Counts(p, f, c)
    BY DEF Counted, FileInv
  <2>2. Current(c)'
    BY <1>2 DEF Current
  <2>3. Counts(p, f, c)'
    BY <1>2, <2>1, <2>2 DEF Counts, Faulty
  <2> QED BY <2>3
<1> QED BY <1>1, <1>2, <1>3, <1>4, <1>5, <1>6, <1>7, <1>8 DEF FileInv

\* Only the thread that holds the mutex is anywhere in write().
LEMMA OneWriter ==
  ASSUME TypeOK, Mutex, NEW t \in Threads, pc[t] # "idle" \/ holder = None,
         NEW v, pc' = [pc EXCEPT ![t] = v]
  PROVE  /\ \A u \in Threads \ {t} : pc[u] = "idle" /\ pc'[u] = "idle"
         /\ pc'[t] = v
         /\ Writing <=> pc[t] \in {"end", "flush"}
         /\ Writing' <=> v \in {"end", "flush"}
         /\ pc[t] # "idle" => stream \in {"good", "bad"}
<1>1. \A u \in Threads \ {t} : pc[u] = "idle"
  BY WriterAssumption DEF Mutex
<1>2. \A u \in Threads : pc'[u] = IF u = t THEN v ELSE pc[u]
  BY DEF TypeOK
<1>3. Writing <=> pc[t] \in {"end", "flush"}
  BY <1>1 DEF Writing
<1>4. Writing' <=> v \in {"end", "flush"}
  BY <1>1, <1>2 DEF Writing
<1>5. pc[t] # "idle" => stream \in {"good", "bad"}
  BY DEF Mutex, TypeOK
<1> QED BY <1>1, <1>2, <1>3, <1>4, <1>5

\* write() takes the mutex, or to_jsonl_line() throws.
LEMMA LockStep == ASSUME IInv, NEW t \in Threads, Lock(t) \/ LineThrows(t) PROVE IInv'
<1> USE DEF IInv, StreamInv
<1>1. /\ UNCHANGED <<file, now, stream, buffer, handed, returned, killed, failed, failures>>
      /\ holder' \in Threads \cup {None}
      /\ \E v \in {"idle", "text"} : pc' = [pc EXCEPT ![t] = v] /\ (v = "text" => holder' = t)
      /\ pc[t] # "idle" \/ holder = None
      /\ pc[t] \notin {"end", "flush"}
      /\ stream \in {"good", "bad"}
  BY DEF Lock, LineThrows, history, Mutex, TypeOK
<1>2. PICK v \in {"idle", "text"} : pc' = [pc EXCEPT ![t] = v] /\ (v = "text" => holder' = t)
  BY <1>1, Zenon
<1>3. /\ \A u \in Threads \ {t} : pc[u] = "idle" /\ pc'[u] = "idle"
      /\ pc'[t] = v /\ ~Writing /\ ~Writing'
  BY <1>1, <1>2, OneWriter, Zenon
<1>4. TypeOK'
  BY <1>1, <1>2 DEF TypeOK
<1>5. Mutex'
  BY <1>1, <1>2, <1>3 DEF Mutex
<1>6. Bounds'
  <2>1. v = "text" => handed[now] < MaxRecords
    BY <1>2, <1>3 DEF Lock, LineThrows, TypeOK
  <2> QED BY <1>1, <1>3, <2>1 DEF Bounds, Faulty
<1>7. Buffered'
  BY <1>1, <1>2, <1>3 DEF Buffered, Writing, Text
<1>8. Aligned'
  BY <1>1, <1>3 DEF Aligned
<1>9. FileInv'
  <2>1. \A c \in Nat : Current(c) => Current(c)'
    BY <1>1, <1>3 DEF Current, Holding
  <2> QED BY <1>1, <1>3, <1>4, <2>1, QuietFile DEF Placed, Holding
<1> QED BY <1>4, <1>5, <1>6, <1>7, <1>8, <1>9

\* The end of the line is inserted behind the text.
LEMMA InsertEndStep == ASSUME IInv, NEW t \in Threads, InsertEnd(t) PROVE IInv'
<1> USE DEF IInv, StreamInv
<1>1. /\ UNCHANGED <<file, now, stream, holder, handed, returned, killed, failed, failures>>
      /\ pc[t] = "end" /\ pc' = [pc EXCEPT ![t] = "flush"]
      /\ \/ stream = "bad" /\ buffer' = buffer
         \/ stream = "good" /\ buffer' = Append(buffer, LineEnd)
  BY DEF InsertEnd, Insert, LineEnd
<1>2. /\ \A u \in Threads \ {t} : pc[u] = "idle" /\ pc'[u] = "idle"
      /\ pc'[t] = "flush" /\ Writing /\ Writing'
  BY <1>1, OneWriter, Zenon
<1>3. handed[now] \in Nat /\ Text(handed[now]) \in Pieces /\ Text(handed[now]) # LineEnd
      /\ LineEnd \in Pieces
  BY CurrentTypes, PieceTypes
<1>4. TypeOK'
  <2>1. buffer \in Seq(Pieces)
    BY DEF TypeOK
  <2>2. buffer' \in Seq(Pieces)
    BY <1>1, <1>3, <2>1
  <2> QED BY <1>1, <2>2 DEF TypeOK
<1>5. Mutex'
  BY <1>1, <1>2 DEF Mutex
<1>6. Bounds'
  BY <1>1, <1>2 DEF Bounds, Faulty
<1>7. stream = "good" =>
        \/ buffer = <<Text(handed[now])>> /\ buffer' = <<Text(handed[now]), LineEnd>>
        \/ buffer = <<>> /\ buffer' = <<LineEnd>> /\ LastIs(Text(handed[now]))
  BY <1>1, <1>3, Concatenations DEF Buffered
<1>8. Holding' <=> Holding
  <2>1. CASE stream = "bad"
    BY <1>1, <2>1 DEF Holding
  <2>2. CASE stream = "good"
    <3> DEFINE T == Text(handed[now])
    <3>1. /\ <<T>> # <<>> /\ <<T>>[1] = T /\ <<T, LineEnd>> # <<>> /\ <<T, LineEnd>>[1] = T
          /\ <<LineEnd>>[1] = LineEnd
      OBVIOUS
    <3> HIDE DEF T
    <3>2. CASE buffer = <<T>> /\ buffer' = <<T, LineEnd>>
      BY <1>3, <3>1, <3>2 DEF Holding, T
    <3>3. CASE buffer = <<>> /\ buffer' = <<LineEnd>>
      BY <3>1, <3>3 DEF Holding
    <3> QED BY <1>7, <2>2, <3>2, <3>3 DEF T
  <2> QED BY <1>1, <2>1, <2>2
<1>9. Buffered'
  BY <1>1, <1>2, <1>7 DEF Buffered, LastIs, Text
<1>10. Aligned'
  BY <1>1, <1>2, <1>8 DEF Aligned
<1>11. FileInv'
  <2>1. \A c \in Nat : Current(c) => Current(c)'
    BY <1>1, <1>2, <1>8 DEF Current
  <2> QED BY <1>1, <1>2, <1>4, <1>8, <2>1, QuietFile DEF Placed
<1> QED BY <1>4, <1>5, <1>6, <1>9, <1>10, <1>11

\* InsertText(t) up to what becomes of the text x: it is the next record, and t
\* alone is in write().
Inserting(t, x) ==
    /\ now' = now /\ killed' = killed /\ returned' = returned
    /\ now \in 1 .. Processes /\ now \in Nat /\ handed[now] \in Nat /\ returned[now] <= handed[now]
    /\ handed'[now] = handed[now] + 1
    /\ \A p \in 1 .. Processes : handed[p] <= handed'[p] /\ returned'[p] = returned[p]
    /\ \A u \in Threads \ {t} : pc'[u] = "idle"
    /\ pc'[t] = "end" /\ ~Writing /\ Writing'
    /\ x \in Pieces /\ x # LineEnd /\ x.process = now /\ x.record = handed[now] + 1
    /\ x = Text(handed[now])'

\* What every way of inserting the text has in common.
LEMMA InsertBegins ==
  ASSUME IInv, NEW t \in Threads, InsertText(t)
  PROVE  /\ Inserting(t, Text(handed[now] + 1)) /\ Mutex' /\ stream \in {"good", "bad"}
         /\ handed' \in [1 .. Processes -> 0 .. MaxRecords]
         /\ \A p \in 1 .. Processes : p # now => handed'[p] = handed[p]
<1> DEFINE T == Text(handed[now] + 1)
<1>1. TypeOK /\ Mutex /\ Bounds
  BY DEF IInv, StreamInv
<1>2. /\ pc[t] = "text" /\ pc' = [pc EXCEPT ![t] = "end"] /\ UNCHANGED <<now, holder, returned, killed>>
      /\ handed' = [handed EXCEPT ![now] = @ + 1] /\ Insert(T)
  BY DEF InsertText
<1>3. /\ \A u \in Threads \ {t} : pc[u] = "idle" /\ pc'[u] = "idle"
      /\ pc'[t] = "end" /\ ~Writing /\ Writing' /\ stream \in {"good", "bad"}
  BY <1>1, <1>2, OneWriter, Zenon
<1>4. /\ now \in 1 .. Processes /\ now \in Nat /\ handed[now] \in Nat /\ handed[now] + 1 \in Nat
      /\ handed[now] < MaxRecords /\ MaxRecords \in Nat /\ returned[now] <= handed[now]
      /\ T \in Pieces /\ T # LineEnd /\ T.process = now /\ T.record = handed[now] + 1
  BY <1>1, <1>2, CurrentTypes, WriterAssumption DEF Bounds
<1>5. /\ handed \in [1 .. Processes -> 0 .. MaxRecords]
      /\ \A p \in 1 .. Processes : handed'[p] = IF p = now THEN handed[now] + 1 ELSE handed[p]
  BY <1>1, <1>2 DEF TypeOK
<1>6. handed' \in [1 .. Processes -> 0 .. MaxRecords]
  BY <1>2, <1>4, <1>5
<1>7. \A p \in 1 .. Processes : handed[p] <= handed'[p] /\ returned'[p] = returned[p]
  BY <1>1, <1>2, <1>5, HistoryTypes
<1>8. T = Text(handed[now])'
  BY <1>2, <1>4, <1>5 DEF Text
<1>9. Mutex'
  <2>1. stream' \in {"good", "bad"}
    BY <1>2, <1>3 DEF Insert
  <2> QED BY <1>1, <1>2, <1>3, <2>1 DEF Mutex
<1> HIDE DEF T
<1>10. Inserting(t, T)
  BY <1>2, <1>3, <1>4, <1>5, <1>7, <1>8 DEF Inserting
<1> QED BY <1>3, <1>4, <1>5, <1>6, <1>9, <1>10 DEF T

\* The stream has met an error: nothing happens.
LEMMA InsertIgnored ==
  ASSUME IInv, TypeOK', NEW t \in Threads, NEW x, Inserting(t, x), stream = "bad",
         UNCHANGED <<file, stream, buffer, failed>>
  PROVE  Buffered' /\ Aligned' /\ FileInv'
<1>1. TypeOK /\ Buffered /\ FileInv /\ Counted /\ Blamed /\ now \in failed
  BY Zenon DEF IInv, StreamInv, FileInv, Bounds
<1>2. Buffered' /\ Aligned'
  <2>1. now' = now /\ handed[now] \in Nat /\ handed'[now] = handed[now] + 1
    BY DEF Inserting
  <2>2. \A r : Text(r)' = Text(r)
    BY <2>1, Zenon DEF Text
  <2>3. \A r \in 1 .. handed[now] : r \in 1 .. handed'[now']
    BY <2>1
  <2>4. Buffered'
    BY <1>1, <2>2, <2>3, Zenon DEF Buffered
  <2> QED BY <2>4 DEF Aligned
<1>3. Blamed'
  BY <1>1 DEF Blamed, Faulty, Placed, Holding, Inserting
<1>4. \A f \in {1, 2}, c \in Nat : Counts(now, f, c) => now \in failed' /\ Current(c)'
  BY <1>1 DEF Counts, Current, Holding, Inserting
<1>5. Counted'
  BY <1>1, <1>4, CountSame DEF Inserting
<1> QED BY <1>1, <1>2, <1>3, <1>5, Zenon DEF FileInv, Inserting

\* The text goes into the buffer.
LEMMA InsertHeld ==
  ASSUME IInv, TypeOK', NEW t \in Threads, NEW x, Inserting(t, x), stream = "good",
         buffer' = <<x>>, UNCHANGED <<file, stream, failed>>
  PROVE  Buffered' /\ Aligned' /\ FileInv'
<1>1. TypeOK /\ Aligned /\ FileInv /\ Counted /\ Blamed
  BY DEF IInv, StreamInv, FileInv
<1>2. Holding'
  <2>1. <<x>> # <<>> /\ <<x>>[1] = x
    OBVIOUS
  <2> QED BY <2>1 DEF Holding, Inserting
<1>3. Buffered'
  BY DEF Buffered, Inserting
<1>4. Aligned'
  BY <1>1, <1>2 DEF Aligned, Inserting
<1>5. Blamed'
  BY <1>1 DEF Blamed, Faulty, Placed, Inserting
<1>6. \A f \in {1, 2}, c \in Nat : Counts(now, f, c) => returned'[now] <= c /\ Current(c)'
  BY DEF Counts, Current, Inserting
<1>7. Counted'
  BY <1>1, <1>6, CountSame DEF Inserting
<1> QED BY <1>1, <1>3, <1>4, <1>5, <1>7, Zenon DEF FileInv, Inserting

\* The text goes to the file at once.
LEMMA InsertPlaced ==
  ASSUME IInv, TypeOK', NEW t \in Threads, NEW x, Inserting(t, x), stream = "good",
         file' = Append(file, x), buffer' = <<>>, UNCHANGED <<stream, failed>>
  PROVE  Buffered' /\ Aligned' /\ FileInv'
<1>1. /\ TypeOK /\ Aligned /\ FileInv /\ Counted /\ Blamed /\ Started(file) /\ Ordered(file)
      /\ file \in Seq(Pieces) /\ now \notin Faulty /\ x \in Pieces /\ x # LineEnd
  BY Zenon DEF IInv, StreamInv, FileInv, Bounds, TypeOK, Inserting
<1>2. ~Holding' /\ Placed' /\ ~Placed
  BY Zenon DEF Holding, Placed, Inserting
<1>3. /\ Len(file') = Len(file) + 1 /\ file'[Len(file')] = x
      /\ \A i \in DOMAIN file : file'[i] = file[i]
      /\ Heads(file') = IF Fresh(file) THEN Heads(file) \cup {Len(file) + 1} ELSE Heads(file)
      /\ Whole(file') = Whole(file)
  BY <1>1, AddPiece, Zenon
<1>4. /\ DOMAIN file = 1 .. Len(file) /\ DOMAIN file' = 1 .. Len(file) + 1
      /\ Heads(file) \subseteq DOMAIN file /\ Len(file) \in Nat /\ file' # <<>>
  BY <1>1 DEF Heads
<1>5. Buffered'
  <2>1. LastIs(Text(handed[now]))'
    BY <1>3, <1>4 DEF LastIs, Inserting
  <2> QED BY <2>1 DEF Buffered, Inserting
<1>6. Aligned'
  <2>1. handed[now] > 0 => Fresh(file)
    BY <1>1 DEF Aligned, Inserting
  <2> QED BY <1>2, <1>3, <1>4, <2>1 DEF Aligned, Inserting
<1>7. \A i \in Heads(file) : file[i].process = now => i \in Whole(file)
  BY <1>1, <1>2 DEF Blamed
<1>8. \A f \in {1, 2}, c \in Nat : Counts(now, f, c) =>
         returned'[now] <= c /\ Current(c)' /\ x.record = c + 1 /\ c < handed'[now]
  BY DEF Counts, Current, Inserting
<1>9. \A i \in DOMAIN file' : file'[i].process <= now'
  BY <1>1, <1>3, <1>4 DEF FileInv, Inserting
<1>10. Started(file')
  BY <1>1, StartedPiece
<1>11. Ordered(file')
  <2>1. PICK f \in {1, 2}, c \in Nat : Counts(now, f, c)
    BY <1>1 DEF Counted, Inserting
  <2>2. \A i \in Heads(file) : Precedes(file, i, x)
    BY <1>1, <1>7, <1>8, <2>1, NewHead, Zenon DEF Counts, Inserting
  <2> QED BY <1>1, <2>2, OrderedPiece
<1>12. Blamed'
  <2>1. ASSUME NEW i \in Heads(file') \ Whole(file')
        PROVE  file'[i].process \in Faulty' \/ i = Len(file')
    <3>1. CASE i \in Heads(file)
      BY <1>1, <1>2, <1>3, <1>4, <3>1, Zenon DEF Blamed, Faulty, Inserting
    <3>2. CASE i \notin Heads(file)
      BY <1>3, <3>2
    <3> QED BY <3>1, <3>2, Zenon
  <2> QED BY <1>2, <2>1, Zenon DEF Blamed
<1>13. Counted'
  BY <1>1, <1>8, CountOnPiece DEF Inserting
<1> QED BY <1>5, <1>6, <1>9, <1>10, <1>11, <1>12, <1>13, Zenon DEF FileInv

\* The system does not take it, or a part of it.
LEMMA InsertFails ==
  ASSUME IInv, TypeOK', NEW t \in Threads, NEW x, Inserting(t, x), stream = "good", buffer = <<>>,
         NEW u \in Pieces, u # LineEnd, u.process = now, u.record = handed[now] + 1,
         file' = file \/ file' = Append(file, u),
         stream' = "bad", buffer' = <<>>, failed' = failed \cup {now}
  PROVE  Buffered' /\ Aligned' /\ FileInv'
<1>1. Blamed /\ now \notin Faulty /\ ~Holding' /\ ~Holding /\ ~Placed
  BY Zenon DEF IInv, StreamInv, FileInv, Bounds, Holding, Placed, Inserting
<1>2. \A i \in Heads(file) : file[i].process = now => i \in Whole(file)
  BY <1>1, Zenon DEF Blamed
<1>3. \A f \in {1, 2}, c \in Nat : Counts(now, f, c) => u.record = c + 1 /\ c < handed'[now]
  BY DEF Counts, Current, Inserting
<1>4. FileInv'
  BY <1>1, <1>2, <1>3, FaultStep, Zenon DEF Inserting
<1> QED BY <1>4, Zenon DEF Buffered, Aligned

\* The text is inserted, in whichever way.
LEMMA InsertTextStep == ASSUME IInv, NEW t \in Threads, InsertText(t) PROVE IInv'
<1> DEFINE T == Text(handed[now] + 1)
           U == Torn(handed[now] + 1)
<1>0. TypeOK /\ handed[now] + 1 \in Nat
  BY CurrentTypes DEF IInv, StreamInv
<1>1. /\ TypeOK /\ Bounds /\ Buffered /\ file \in Seq(Pieces) /\ buffer \in Seq(Pieces)
      /\ handed[now] + 1 \in Nat /\ T \in Pieces /\ T # LineEnd /\ T.part = "text"
      /\ U \in Pieces /\ U # LineEnd /\ U.process = now /\ U.record = handed[now] + 1
  BY <1>0, CurrentTypes, Zenon DEF IInv, StreamInv, TypeOK
<1>2. Inserting(t, T) /\ Mutex' /\ stream \in {"good", "bad"} /\ Insert(T)
  BY InsertBegins, Zenon DEF InsertText
<1>3. stream = "good" => buffer = <<>> /\ now \notin Faulty
  BY <1>1, <1>2, Zenon DEF Buffered, Bounds, Inserting
\* The four outcomes of the insertion.
<1>4. \/ stream = "bad" /\ UNCHANGED <<file, stream, buffer, failed, failures>>
      \/ stream = "good" /\ buffer' = <<T>> /\ UNCHANGED <<file, stream, failed, failures>>
      \/ /\ stream = "good" /\ file' = Append(file, T) /\ buffer' = <<>>
         /\ UNCHANGED <<stream, failed, failures>>
      \/ /\ stream = "good" /\ (file' = file \/ file' = Append(file, U))
         /\ stream' = "bad" /\ buffer' = <<>> /\ failed' = failed \cup {now}
         /\ failures' \in 0 .. MaxFaults
  <2>1. CASE stream = "bad"
    BY <1>2, <2>1 DEF Insert
  <2>2. CASE stream = "good"
    <3>1. Append(buffer, T) = <<T>> /\ file \o <<T>> = Append(file, T)
      BY <1>1, <1>3, <2>2, Concatenations, Zenon
    <3>2. NotTaken(<<T>>) => /\ file' = file \/ file' = Append(file, U)
                             /\ failed' = failed \cup {now} /\ failures' \in 0 .. MaxFaults
      <4>1. NotTaken(<<T>>) => file' = file \/ file' = Append(file, U)
        BY <1>1, NotTakenEffect, Zenon
      <4>2. NotTaken(<<T>>) => failed' = failed \cup {now} /\ failures' \in 0 .. MaxFaults
        BY <1>1, WriterAssumption DEF NotTaken, TypeOK
      <4> QED BY <4>1, <4>2
    <3> HIDE DEF T, U
    <3> QED BY <1>2, <1>3, <2>2, <3>1, <3>2, Zenon DEF Insert, Taken
  <2> QED BY <1>2, <2>1, <2>2, Zenon
<1> HIDE DEF T, U
<1>5. TypeOK'
  <2>1. /\ Append(file, T) \in Seq(Pieces) /\ Append(file, U) \in Seq(Pieces)
        /\ <<T>> \in Seq(Pieces) /\ <<>> \in Seq(Pieces)
    BY <1>1
  <2>2. file' \in Seq(Pieces) /\ buffer' \in Seq(Pieces)
    BY <1>1, <1>4, <2>1, Zenon
  <2>3. handed' \in [1 .. Processes -> 0 .. MaxRecords]
    BY InsertBegins
  <2>4. pc' \in [Threads -> {"idle", "text", "end", "flush"}]
    BY <1>1 DEF TypeOK, InsertText
  <2>5. stream' \in {"closed", "good", "bad", "gone"} /\ failed' \subseteq 1 .. Processes
        /\ failures' \in 0 .. MaxFaults
    BY <1>1, <1>4, Zenon DEF TypeOK
  <2> QED BY <1>1, <2>2, <2>3, <2>4, <2>5, Zenon DEF TypeOK, InsertText
<1>6. Bounds'
  <2>1. \A p \in 1 .. Processes : p > now' => handed'[p] = 0 /\ returned'[p] = 0 /\ p \notin Faulty'
    <3>1. now' = now /\ now \in Nat /\ killed' = killed /\ failed' \subseteq failed \cup {now}
      BY <1>2, <1>4, Zenon DEF Inserting
    <3>2. \A p \in 1 .. Processes : returned'[p] = returned[p]
      BY <1>2 DEF Inserting
    <3> QED BY <1>1, <3>1, <3>2, InsertBegins DEF Bounds, Faulty
  <2>2. /\ stream' \in {"closed", "good"} => now' \notin Faulty'
        /\ stream' = "bad" => now' \in failed'
        /\ stream' # "closed"
    BY <1>1, <1>2, <1>3, <1>4, Zenon DEF Bounds, Faulty, Inserting
  <2>3. returned'[now'] < handed'[now'] /\ returned'[now'] <= handed'[now']
    BY <1>1, <1>2, CurrentTypes DEF Inserting
  <2>4. \A u \in Threads : pc'[u] # "text"
    BY <1>2 DEF Inserting
  <2> QED BY <2>1, <2>2, <2>3, <2>4 DEF Bounds
<1>7. Buffered' /\ Aligned' /\ FileInv'
  BY <1>1, <1>2, <1>3, <1>4, <1>5, InsertIgnored, InsertHeld, InsertPlaced, InsertFails, Zenon
<1> QED BY <1>2, <1>5, <1>6, <1>7 DEF IInv, StreamInv

\* What the system takes or does not take of what the stream holds back.
LEMMA SyncTypes ==
  ASSUME IInv, Ready
  PROVE  /\ Taken(buffer) => file' \in Seq(Pieces) /\ failed' = failed /\ failures' = failures
         /\ NotTaken(buffer) => /\ file' \in Seq(Pieces) /\ failed' = failed \cup {now}
                               /\ failures' \in 0 .. MaxFaults
<1>1. TypeOK /\ file \in Seq(Pieces) /\ buffer \in Seq(Pieces) /\ MaxFaults \in Nat
      /\ failures \in 0 .. MaxFaults /\ handed[now] \in Nat
  BY CurrentTypes, WriterAssumption, Zenon DEF IInv, StreamInv, TypeOK
<1>2. Taken(buffer) => file' \in Seq(Pieces) /\ failed' = failed /\ failures' = failures
  BY <1>1 DEF Taken
<1>3. ASSUME NotTaken(buffer)
      PROVE  file' \in Seq(Pieces) /\ failed' = failed \cup {now} /\ failures' \in 0 .. MaxFaults
  <2>1. failed' = failed \cup {now} /\ failures' \in 0 .. MaxFaults
    BY <1>1, <1>3 DEF NotTaken
  <2>2. CASE buffer = <<LineEnd>>
    BY <1>1, <1>3, <2>1, <2>2, NotTakenEffect, Zenon
  <2>3. ASSUME NEW r \in 1 .. handed[now], buffer = <<Text(r), LineEnd>>
        PROVE  file' \in Seq(Pieces)
    <3>1. r \in Nat /\ Text(r) \in Pieces /\ Torn(r) \in Pieces
      BY <1>1, CurrentTypes
    <3>2. file' = file \/ file' = Append(file, Torn(r)) \/ file' = Append(file, Text(r))
      BY <1>1, <1>3, <2>3, <3>1, NotTakenEffect, Zenon
    <3>3. Append(file, Torn(r)) \in Seq(Pieces) /\ Append(file, Text(r)) \in Seq(Pieces)
      BY <1>1, <3>1
    <3> QED BY <1>1, <3>2, <3>3, Zenon
  <2> QED BY <2>1, <2>2, <2>3, HeldReady, Zenon
<1> QED BY <1>2, <1>3

\* The destructor.
LEMMA DestroyStep == ASSUME IInv, Destroy PROVE IInv'
<1>1. /\ TypeOK /\ Mutex /\ Bounds /\ Buffered /\ FileInv
      /\ stream \in {"good", "bad"} /\ ~Writing /\ UNCHANGED <<now, handed, returned, killed>>
      /\ stream' = "gone" /\ buffer' = <<>> /\ holder' = None /\ pc' = [t \in Threads |-> "idle"]
  BY DEF IInv, StreamInv, Destroy, Ended, Writing
<1>2. /\ now \in 1 .. Processes /\ now \in Nat /\ handed[now] \in Nat /\ returned[now] \in Nat
      /\ \A p \in 1 .. Processes : handed[p] \in Nat /\ returned[p] \in Nat
  BY <1>1, CurrentTypes, HistoryTypes
<1>3. \A t \in Threads : pc'[t] = "idle"
  BY <1>1
<1>4. buffer # <<>> => stream = "bad" /\ Ready
  BY <1>1 DEF Buffered, Ready
<1>5. \/ buffer = <<>> /\ UNCHANGED <<file, failed, failures>>
      \/ buffer # <<>> /\ Taken(buffer)
      \/ buffer # <<>> /\ NotTaken(buffer)
  BY DEF Destroy
<1>6. TypeOK'
  <2>1. file' \in Seq(Pieces) /\ failed' \subseteq 1 .. Processes /\ failures' \in 0 .. MaxFaults
    BY <1>1, <1>2, <1>4, <1>5, SyncTypes, Zenon DEF TypeOK
  <2>2. <<>> \in Seq(Pieces) /\ pc' \in [Threads -> {"idle", "text", "end", "flush"}]
    BY <1>1
  <2> QED BY <1>1, <2>1, <2>2, Zenon DEF TypeOK
<1>7. Mutex' /\ Buffered' /\ Aligned'
  BY <1>1, <1>3, Zenon DEF Mutex, Buffered, Aligned
<1>8. Bounds'
  <2>1. failed' \subseteq failed \cup {now}
    BY <1>4, <1>5, SyncTypes
  <2>2. ~Writing'
    BY <1>3 DEF Writing
  <2> QED BY <1>1, <1>2, <1>3, <2>1, <2>2 DEF Bounds, Faulty
<1>9. FileInv'
  <2>1. CASE buffer = <<>> /\ UNCHANGED <<file, failed, failures>>
    <3>1. \A c \in Nat : Current(c)'
      BY <1>1 DEF Current
    <3> QED BY <1>1, <1>6, <2>1, <3>1, QuietFile, Zenon DEF Placed
  <2>2. CASE buffer # <<>> /\ Taken(buffer)
    BY <1>1, <1>4, <1>6, <2>2, RetryTaken
  <2>3. CASE buffer # <<>> /\ NotTaken(buffer)
    BY <1>1, <1>4, <1>6, <2>3, SyncFault
  <2> QED BY <1>5, <2>1, <2>2, <2>3
<1> QED BY <1>6, <1>7, <1>8, <1>9 DEF IInv, StreamInv

\* flush() between records: only a stream in error can have something left.
LEMMA FlushFileStep == ASSUME IInv, FlushFile PROVE IInv'
<1>1. /\ TypeOK /\ Mutex /\ Bounds /\ Buffered /\ Aligned /\ FileInv
      /\ stream \in {"good", "bad"} /\ UNCHANGED <<now, holder, pc, handed, returned, killed>>
  BY DEF IInv, StreamInv, FlushFile
<1>2. ~Writing /\ ~Writing' /\ (stream = "good" => buffer = <<>>)
  BY <1>1, WriterAssumption DEF FlushFile, Mutex, Writing, Buffered
<1>3. \/ UNCHANGED <<file, buffer, stream, failed, failures>>
      \/ /\ stream = "bad" /\ stream' = "bad" /\ Ready
         /\ \/ Taken(buffer) /\ buffer' = <<>>
            \/ NotTaken(buffer) /\ buffer' = buffer
  BY <1>1, <1>2 DEF FlushFile, Sync, Ready
<1>4. CASE UNCHANGED <<file, buffer, stream, failed, failures>>
  <2>1. StreamInv'
    BY <1>1, <1>4, Zenon DEF StreamInv, TypeOK, Mutex, Bounds, Faulty, Writing, Buffered, LastIs, Text, Aligned, Holding
  <2>2. FileInv'
    BY <1>1, <1>4, SameFile
  <2> QED BY <2>1, <2>2 DEF IInv
<1>5. CASE /\ stream = "bad" /\ stream' = "bad" /\ Ready
           /\ \/ Taken(buffer) /\ buffer' = <<>>
              \/ NotTaken(buffer) /\ buffer' = buffer
  <2>1. TypeOK'
    <3>1. now \in 1 .. Processes /\ <<>> \in Seq(Pieces)
      BY <1>1 DEF TypeOK
    <3>2. /\ file' \in Seq(Pieces) /\ failed' \subseteq 1 .. Processes /\ failures' \in 0 .. MaxFaults
          /\ buffer' \in Seq(Pieces)
      BY <1>1, <1>5, <3>1, SyncTypes, Zenon DEF TypeOK
    <3> QED BY <1>1, <1>5, <3>2 DEF TypeOK
  <2>2. Mutex' /\ Aligned'
    BY <1>1, <1>5 DEF Mutex, Aligned
  <2>3. Bounds'
    <3>1. failed' = failed
      BY <1>1, <1>5, SyncTypes, Zenon DEF Bounds
    <3> QED BY <1>1, <1>2, <1>5, <3>1 DEF Bounds, Faulty
  <2>4. Buffered'
    BY <1>1, <1>5 DEF Buffered, Text
  <2>5. FileInv'
    BY <1>1, <1>5, <2>1, RetryTaken, SyncFault
  <2> QED BY <2>1, <2>2, <2>3, <2>4, <2>5 DEF IInv, StreamInv
<1> QED BY <1>3, <1>4, <1>5

\* The flush with which write() ends.
LEMMA FlushStep == ASSUME IInv, NEW t \in Threads, Flush(t) PROVE IInv'
<1>1. /\ TypeOK /\ Mutex /\ Bounds /\ Buffered /\ Aligned /\ FileInv /\ Counted /\ Blamed
      /\ pc[t] = "flush" /\ pc' = [pc EXCEPT ![t] = "idle"] /\ holder' = None
      /\ returned' = [returned EXCEPT ![now] = @ + 1] /\ UNCHANGED <<now, handed, killed>>
  BY DEF IInv, StreamInv, FileInv, Flush
<1>2. /\ \A u \in Threads : pc'[u] = "idle"
      /\ Writing /\ ~Writing' /\ stream \in {"good", "bad"}
  BY <1>1, OneWriter, Zenon
<1>3. /\ now \in 1 .. Processes /\ now \in Nat /\ handed[now] \in Nat /\ returned[now] \in Nat
      /\ returned[now] + 1 <= handed[now] /\ handed[now] <= MaxRecords /\ MaxRecords \in Nat
      /\ \A p \in 1 .. Processes : handed[p] \in Nat /\ returned[p] \in Nat
  BY <1>1, <1>2, CurrentTypes, HistoryTypes, WriterAssumption DEF Bounds
<1>4. \A p \in 1 .. Processes : returned'[p] = IF p = now THEN returned[p] + 1 ELSE returned[p]
  BY <1>1 DEF TypeOK
<1>5. buffer # <<>> => Ready
  BY <1>1, <1>2 DEF Ready
<1>6. stream = "good" => buffer # <<>>
  BY <1>1 DEF Buffered
<1>7. \/ stream = "bad" /\ UNCHANGED <<file, buffer, stream, failed, failures>>
      \/ Ready /\ Taken(buffer) /\ buffer' = <<>> /\ stream' = stream
      \/ Ready /\ NotTaken(buffer) /\ buffer' = buffer /\ stream' = "bad"
  BY <1>2, <1>5, <1>6 DEF Flush, Sync
<1>8. TypeOK'
  <2>1. <<>> \in Seq(Pieces)
    OBVIOUS
  <2>2. /\ file' \in Seq(Pieces) /\ failed' \subseteq 1 .. Processes /\ failures' \in 0 .. MaxFaults
        /\ buffer' \in Seq(Pieces)
    BY <1>1, <1>3, <1>7, <2>1, SyncTypes, Zenon DEF TypeOK
  <2>3. returned' \in [1 .. Processes -> 0 .. MaxRecords]
    BY <1>1, <1>3 DEF TypeOK
  <2>4. pc' \in [Threads -> {"idle", "text", "end", "flush"}]
    BY <1>1 DEF TypeOK
  <2>5. stream' \in {"good", "bad"}
    BY <1>2, <1>7
  <2> QED BY <1>1, <2>2, <2>3, <2>4, <2>5 DEF TypeOK
<1>9. Mutex'
  BY <1>2, <1>7 DEF Mutex
<1>10. Bounds'
  <2>1. \/ failed' = failed /\ stream' = stream
        \/ failed' = failed \cup {now} /\ stream' = "bad"
    BY <1>7, SyncTypes
  <2>2. \A p \in 1 .. Processes : p > now' => handed'[p] = 0 /\ returned'[p] = 0 /\ p \notin Faulty'
    BY <1>1, <1>3, <1>4, <2>1 DEF Bounds, Faulty
  <2>3. /\ stream' \in {"closed", "good"} => now' \notin Faulty'
        /\ stream' = "bad" => now' \in failed'
        /\ stream' # "closed"
    BY <1>1, <1>2, <2>1 DEF Bounds, Faulty
  <2>4. returned'[now'] <= handed'[now']
    BY <1>1, <1>3, <1>4
  <2> QED BY <1>2, <2>2, <2>3, <2>4 DEF Bounds
<1>11. CASE stream = "bad" /\ UNCHANGED <<file, buffer, stream, failed, failures>>
  <2>1. Buffered' /\ Aligned'
    BY <1>1, <1>11 DEF Buffered, Aligned, Text
  <2>2. FileInv'
    <3>1. Blamed'
      BY <1>1, <1>11 DEF Blamed, Faulty, Placed, Holding
    <3>2. \A f \in {1, 2}, c \in Nat : Counts(now, f, c) => now \in failed' /\ Current(c)'
      BY <1>1, <1>11 DEF Bounds, Counts, Current, Holding
    <3>3. Counted'
      <4>1. \A p \in 1 .. Processes : handed[p] <= handed'[p] /\ (p # now => returned'[p] = returned[p])
        BY <1>1, <1>3, <1>4
      <4> QED BY <1>1, <1>8, <1>11, <3>2, <4>1, CountSame
    <3> QED BY <1>1, <1>11, <3>1, <3>3 DEF FileInv
  <2> QED BY <1>8, <1>9, <1>10, <2>1, <2>2 DEF IInv, StreamInv
<1>12. CASE Ready /\ Taken(buffer) /\ buffer' = <<>> /\ stream' = stream
  <2>1. CASE stream = "bad"
    <3>1. FileInv'
      BY <1>1, <1>4, <1>8, <1>12, <2>1, RetryTaken
    <3> QED BY <1>8, <1>9, <1>10, <1>12, <2>1, <3>1, Zenon DEF IInv, StreamInv, Buffered, Aligned
  <2>2. CASE stream = "good"
    <3>1. FileInv' /\ Fresh(file')
      BY <1>1, <1>2, <1>8, <1>12, <2>2, FlushTaken
    <3>2. Buffered'
      BY <1>2, <1>12, <2>2 DEF Buffered
    <3>3. Aligned'
      BY <1>2, <3>1 DEF Aligned
    <3> QED BY <1>8, <1>9, <1>10, <3>1, <3>2, <3>3 DEF IInv, StreamInv
  <2> QED BY <1>2, <2>1, <2>2
<1>13. CASE Ready /\ NotTaken(buffer) /\ buffer' = buffer /\ stream' = "bad"
  <2>1. FileInv'
    BY <1>1, <1>4, <1>8, <1>13, SyncFault
  <2>2. Buffered'
    <3>1. buffer = <<LineEnd>> \/ \E r \in 1 .. handed[now] : buffer = <<Text(r), LineEnd>>
      BY <1>13, HeldReady
    <3> QED BY <1>1, <1>13, <3>1 DEF Buffered, Text
  <2>3. Aligned'
    BY <1>13 DEF Aligned
  <2> QED BY <1>8, <1>9, <1>10, <2>1, <2>2, <2>3 DEF IInv, StreamInv
<1> QED BY <1>7, <1>11, <1>12, <1>13

\* The file is empty, and no process has opened it.
LEMMA InitInv == ASSUME Init PROVE IInv
<1>1. TypeOK
  BY WriterAssumption DEF Init, TypeOK
<1>2. Mutex /\ Buffered /\ Aligned /\ ~Writing
  BY DEF Init, Mutex, Buffered, Aligned, Writing
<1>3. Bounds
  BY <1>1, <1>2, WriterAssumption DEF Init, Bounds, Faulty, TypeOK
<1>4. Heads(file) = {} /\ Whole(file) = {} /\ Fresh(file) /\ DOMAIN file = {}
  BY DEF Init, Heads, Whole, Fresh
<1>5. Started(file) /\ Ordered(file) /\ Blamed
  BY <1>4 DEF Started, Ordered, Blamed, Init
<1>6. ASSUME NEW p \in 1 .. Processes PROVE Counts(p, 1, 0)
  <2>1. handed[p] = 0 /\ returned[p] = 0 /\ stream = "closed"
    BY DEF Init
  <2>2. Records(file, p) = 1 .. 0 /\ ~Unended(file, p)
    BY <1>4 DEF Records, Unended
  <2>3. CountedIn(file, p, 1, 0, handed[p])
    BY <2>1, <2>2 DEF CountedIn
  <2> QED BY <2>1, <2>3 DEF Counts, Current
<1> QED BY <1>1, <1>2, <1>3, <1>4, <1>5, <1>6 DEF IInv, StreamInv, FileInv, Counted

\* Every step preserves the invariant.
LEMMA NextInv == ASSUME IInv, [Next]_vars PROVE IInv'
<1>1. CASE UNCHANGED vars
  <2>1. StreamInv'
    BY <1>1, Zenon DEF IInv, StreamInv, TypeOK, Mutex, Bounds, Faulty, Writing, Buffered, LastIs, Text,
                Aligned, Holding, vars, history
  <2>2. FileInv'
    BY <1>1, SameFile DEF IInv, StreamInv, vars, history
  <2> QED BY <2>1, <2>2 DEF IInv
<1>2. CASE Next
  BY <1>2, OpenStep, DestroyStep, KilledStep, NextProcessStep, FlushFileStep, LockStep,
     InsertTextStep, InsertEndStep, FlushStep DEF Next
<1> QED BY <1>1, <1>2

-----------------------------------------------------------------------------
(* What the readers find.                                                     *)

\* The lines the readers take are those of the invariant, and the last one if it
\* is a record that only lacks its end.
LEMMA ReadableHeads ==
  ASSUME TypeOK
  PROVE  /\ \A i : i \in Readable <=> i \in Whole(file) \/
                       (i = Len(file) /\ i \in Heads(file) /\ file[i].part = "text")
         /\ Spoiled \subseteq Heads(file)
         /\ Whole(file) \subseteq Heads(file) /\ Heads(file) \subseteq DOMAIN file
<1>1. file \in Seq(Pieces) /\ LineEnd.part = "end" /\ DOMAIN file = 1 .. Len(file) /\ Len(file) \in Nat
  BY DEF TypeOK, LineEnd
<1>2. \A i \in DOMAIN file : StartsLine(i) /\ file[i] # LineEnd <=> i \in Heads(file)
  BY DEF StartsLine, Heads
<1>3. Spoiled \subseteq Heads(file)
  BY <1>2 DEF Spoiled
<1>4. Whole(file) \subseteq Heads(file) /\ Heads(file) \subseteq DOMAIN file
  BY DEF Whole, Heads
<1>5. \A i \in DOMAIN file : i \in Readable <=>
         i \in Heads(file) /\ file[i].part = "text" /\ (i = Len(file) \/ file[i + 1] = LineEnd)
  BY <1>1, <1>2 DEF Readable, EndsLine
<1>6. Readable \subseteq DOMAIN file
  BY DEF Readable
<1>7. \A i \in DOMAIN file : i \in Readable <=> i \in Whole(file) \/
                       (i = Len(file) /\ i \in Heads(file) /\ file[i].part = "text")
  BY <1>1, <1>5 DEF Whole
<1> QED BY <1>3, <1>4, <1>6, <1>7

\* The invariant implies the first property ...
LEMMA InvLoss == IInv => LossAtTheEnds
<1> SUFFICES ASSUME IInv PROVE LossAtTheEnds
  OBVIOUS
<1>1. TypeOK /\ Counted /\ Ordered(file)
  BY Zenon DEF IInv, StreamInv, FileInv
<1>2. ASSUME NEW p \in 1 .. Processes
      PROVE  \E first \in {1, 2}, last \in 0 .. handed[p] :
               /\ RecordsOf(p) = first .. last
               /\ first = 2 => \E q \in killed \cup failed : q < p
               /\ p \notin failed => last >= returned[p]
  <2>1. PICK f \in {1, 2}, c \in Nat : Counts(p, f, c)
    BY <1>1 DEF Counted
  <2>2. handed[p] \in Nat /\ returned[p] \in Nat
    BY <1>1, HistoryTypes
  <2>3. RecordsOf(p) = Records(file, p) \cup IF Unended(file, p) THEN {file[Len(file)].record} ELSE {}
    BY <1>1, ReadableHeads DEF RecordsOf, Records, Unended
  <2>4. CASE Unended(file, p)
    <3>1. RecordsOf(p) = f .. c + 1
      BY <2>1, <2>3, <2>4 DEF Counts, CountedIn
    <3>2. c + 1 \in 0 .. handed[p]
      BY <2>1, <2>2, <2>4 DEF Counts, CountedIn
    <3>3. p \notin failed => c + 1 >= returned[p]
      BY <2>1, <2>2 DEF Counts
    <3> QED BY <2>1, <3>1, <3>2, <3>3 DEF Counts, Faulty
  <2>5. CASE ~Unended(file, p)
    <3>1. RecordsOf(p) = f .. c /\ c \in 0 .. handed[p]
      BY <2>1, <2>2, <2>3, <2>5 DEF Counts, CountedIn
    <3> QED BY <2>1, <2>2, <3>1 DEF Counts, Faulty
  <2> QED BY <2>4, <2>5
<1>3. \A i, j \in Readable : i < j =>
          \/ file[i].process < file[j].process
          \/ file[i].process = file[j].process /\ file[i].record < file[j].record
  <2>1. Readable \subseteq Heads(file)
    BY <1>1, ReadableHeads
  <2> QED BY <1>1, <2>1 DEF Ordered, Precedes
<1> QED BY <1>1, <1>2, <1>3, Zenon DEF LossAtTheEnds

\* The facts about finite sets, of which only the last lemma needs any.
FST == INSTANCE FiniteSetTheorems

\* ... and the second: the spoiled lines are begun by different processes.
LEMMA InvOneLine == IInv => OneLinePerFault
<1> SUFFICES ASSUME IInv PROVE OneLinePerFault
  OBVIOUS
<1>1. TypeOK /\ Ordered(file) /\ Blamed /\ Buffered
  BY DEF IInv, StreamInv, FileInv
<1>2. FST!IsFiniteSet(Faulty)
  <2>1. Faulty \subseteq 1 .. Processes
    BY <1>1 DEF TypeOK, Faulty
  <2>2. FST!IsFiniteSet(1 .. Processes)
    BY WriterAssumption, FST!FS_Interval
  <2> QED BY <2>1, <2>2, FST!FS_Subset, Zenon
<1>3. ASSUME NEW i \in Spoiled
      PROVE  i \in Heads(file) \ Whole(file) /\ i \in Nat /\ file[i].process \in Faulty
  <2>1. i \in Heads(file) \ Whole(file) /\ i \notin Readable
    BY <1>1, ReadableHeads DEF Spoiled
  <2>2. i \in Nat
    BY <1>1, <2>1, ReadableHeads DEF TypeOK
  <2>3. ~(Placed /\ i = Len(file))
    <3> SUFFICES ASSUME Placed, i = Len(file) PROVE FALSE
      OBVIOUS
    <3>1. Text(handed[now]) # LineEnd /\ Text(handed[now]).part = "text"
      BY <1>1, CurrentTypes
    <3>2. PICK t \in Threads : pc[t] \in {"end", "flush"}
      BY DEF Placed, Writing
    <3>3. LastIs(Text(handed[now]))
      BY <1>1, <3>1, <3>2 DEF Placed, Buffered, Holding
    <3> QED BY <1>1, <2>1, <3>1, <3>3, ReadableHeads, Zenon DEF LastIs
  <2> QED BY <1>1, <2>1, <2>2, <2>3 DEF Blamed
<1>4. \A i, j \in Spoiled : file[i].process = file[j].process => i = j
  <2> SUFFICES ASSUME NEW i \in Spoiled, NEW j \in Spoiled, file[i].process = file[j].process, i < j
               PROVE  FALSE
    BY <1>3
  <2>1. Precedes(file, i, file[j]) /\ file[i].process \in Nat
    <3>1. Faulty \subseteq Nat
      <4>1. 1 .. Processes \subseteq Nat /\ Faulty \subseteq 1 .. Processes
        BY <1>1, WriterAssumption DEF TypeOK, Faulty
      <4> QED BY <4>1
    <3> QED BY <1>1, <1>3, <3>1, Zenon DEF Ordered
  <2> QED BY <1>3, <2>1 DEF Precedes
<1>5. [i \in Spoiled |-> file[i].process] \in FST!Injection(Spoiled, Faulty)
  BY <1>3, <1>4 DEF FST!Injection, FST!IsInjective
<1>6. FST!Cardinality(Spoiled) <= FST!Cardinality(Faulty)
  BY <1>2, <1>5, FST!FS_Injection
<1> QED BY <1>6 DEF OneLinePerFault, Faulty, FST!Cardinality, FST!IsFiniteSet, Cardinality, IsFiniteSet

\* The metrics file stays within the invariant.
THEOREM InvHolds == Spec => []IInv
<1> QED BY InitInv, NextInv, PTL DEF Spec

\* What MetricsWriter leaves of a process is a run of its records without gaps, in
\* order, that ends no earlier than the last record whose write() returned unless a
\* write of this process failed, for any number of threads, processes and faults.
THEOREM MetricsLossAtTheEnds == Spec => []LossAtTheEnds
BY InvHolds, InvLoss, PTL

\* Each process that was killed or whose write failed spoils at most one line of the
\* file, and no other process spoils any.
THEOREM MetricsOneLinePerFault == Spec => []OneLinePerFault
BY InvHolds, InvOneLine, PTL
=============================================================================
