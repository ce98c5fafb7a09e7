------------------------- MODULE FrameChannel_proofs --------------------------
(* Proofs about the frames, for every frame size, read size, byte and message. *)
(* The decoder: its buffer bound, the integrity of the unread bytes, and that  *)
(* it implements FrameStream.  The channel: what encode() wrote is what the    *)
(* decoder hands out, and what a parse of all the bytes finds.                 *)
EXTENDS FrameChannel, SequenceTheorems, WellFoundedInduction, TLAPS

USE DEF HeaderSize

(* The inductive invariant.  The last conjunct is what the loop knows when it   *)
(* goes to read: no frame is complete and no complete header is illegal, so     *)
(* less than one maximal frame is unread.                                       *)
IInv ==
    /\ TypeOK
    /\ UnreadIntact
    /\ BufferBound
    /\ phase = "read" => ~FrameAt(buffer, consumed) /\ ~BadHeaderAt(buffer, consumed)

(* Induction over the natural numbers, for a set of them.                      *)
LEMMA NatSetInduction ==
    ASSUME NEW T \in SUBSET Nat, 0 \in T, \A n \in T : n + 1 \in T
    PROVE  T = Nat
<1> DEFINE R == OpToRel(<, Nat)
           U == Nat \ T
<1> SUFFICES ASSUME U # {} PROVE FALSE
  BY Zenon
<1>1. IsWellFoundedOn(R, Nat)
  BY NatLessThanWellFounded, Zenon
<1>2. \A x, y \in Nat : x < y => <<x, y>> \in R
  BY DEF OpToRel
<1>3. U \subseteq Nat
  OBVIOUS
<1> HIDE DEF R, U
<1>4. PICK n \in U : \A y \in U : ~(<<y, n>> \in R)
  BY <1>1, <1>3, WFMin, Zenon
<1>5. n \in Nat /\ n \notin T
  BY <1>4 DEF U
<1>6. n # 0 /\ n - 1 \in Nat /\ n - 1 < n
  BY <1>5
<1>7. n - 1 \in T
  BY <1>2, <1>4, <1>5, <1>6, Zenon DEF U
<1>8. (n - 1) + 1 \in T
  BY <1>7, Zenon
<1> QED
  BY <1>5, <1>6, <1>8

-----------------------------------------------------------------------------
(* Lengths and payloads *)

\* Bytes read in base 256 make a natural number.
LEMMA HornerNat ==
    ASSUME NEW m \in Nat, NEW a \in Nat, NEW b \in Nat, NEW c \in Nat, NEW d \in Nat
    PROVE  ((a * m + b) * m + c) * m + d \in Nat
<1>1. PICK x \in Nat : x = a * m + b
  OBVIOUS
<1>2. PICK y \in Nat : y = x * m + c
  OBVIOUS
<1>3. y * m + d \in Nat
  OBVIOUS
<1> QED
  BY <1>1, <1>2, <1>3

\* A complete header announces a natural number.
LEMMA LengthNat ==
    ASSUME NEW s \in Seq(Byte), NEW at \in Nat, HeaderAt(s, at)
    PROVE  LengthAt(s, at) \in Nat
<1>1. Base \in Nat
  BY FramingAssumption
<1>2. /\ s[at + 1] \in Nat /\ s[at + 2] \in Nat /\ s[at + 3] \in Nat /\ s[at + 4] \in Nat
  <2>1. \A i \in 1 .. Len(s) : s[i] \in Byte
    OBVIOUS
  <2>2. \A i \in 1 .. Len(s) : s[i] \in Nat
    BY <1>1, <2>1 DEF Byte
  <2>3. \A k \in 1 .. 4 : at + k \in 1 .. Len(s)
    BY DEF HeaderAt
  <2> QED
    BY <2>2, <2>3
<1> QED
  BY <1>1, <1>2, HornerNat, Zenon DEF LengthAt

\* The slice of s that follows its first lo elements and ends at hi.
LEMMA SliceProperties ==
    ASSUME NEW S, NEW s \in Seq(S), NEW lo \in Nat, NEW hi \in Nat, lo <= hi, hi <= Len(s)
    PROVE  /\ SubSeq(s, lo + 1, hi) \in Seq(S)
           /\ Len(SubSeq(s, lo + 1, hi)) = hi - lo
           /\ \A k \in 1 .. hi - lo : SubSeq(s, lo + 1, hi)[k] = s[lo + k]
<1>1. \A i \in lo + 1 .. hi : s[i] \in S
  OBVIOUS
<1>2. /\ SubSeq(s, lo + 1, hi) \in Seq(S)
      /\ Len(SubSeq(s, lo + 1, hi)) = IF lo + 1 <= hi THEN hi - (lo + 1) + 1 ELSE 0
      /\ \A k \in 1 .. hi - (lo + 1) + 1 : SubSeq(s, lo + 1, hi)[k] = s[lo + 1 + k - 1]
  BY <1>1, SubSeqProperties
<1>3. \A k \in 1 .. hi - lo : lo + 1 + k - 1 = lo + k
  OBVIOUS
<1> QED
  BY <1>2, <1>3

\* Where two byte sequences agree from two positions to their ends, they have
\* the same header there, and the same payload if it is complete.
LEMMA SameFrame ==
    ASSUME NEW s \in Seq(Byte), NEW t \in Seq(Byte), NEW i \in Nat, NEW j \in Nat,
           i <= Len(s), j <= Len(t), Len(s) - i = Len(t) - j,
           \A k \in 1 .. Len(s) - i : s[i + k] = t[j + k]
    PROVE  /\ HeaderAt(s, i) <=> HeaderAt(t, j)
           /\ HeaderAt(s, i) => LengthAt(s, i) = LengthAt(t, j)
           /\ BadHeaderAt(s, i) <=> BadHeaderAt(t, j)
           /\ FrameAt(s, i) <=> FrameAt(t, j)
           /\ FrameAt(s, i) => PayloadAt(s, i) = PayloadAt(t, j)
<1>1. HeaderAt(s, i) <=> HeaderAt(t, j)
  BY DEF HeaderAt
<1>2. ASSUME HeaderAt(s, i) PROVE LengthAt(s, i) = LengthAt(t, j)
  <2>1. /\ s[i + 1] = t[j + 1] /\ s[i + 2] = t[j + 2]
        /\ s[i + 3] = t[j + 3] /\ s[i + 4] = t[j + 4]
    <3>1. Len(s) - i \in Nat /\ Len(s) - i >= 4
      BY <1>2 DEF HeaderAt
    <3>2. {1, 2, 3, 4} \subseteq 1 .. Len(s) - i
      BY <3>1
    <3> QED
      BY <3>2
  <2> QED
    BY <2>1 DEF LengthAt
<1>3. BadHeaderAt(s, i) <=> BadHeaderAt(t, j)
  BY <1>1, <1>2 DEF BadHeaderAt
<1>4. FrameAt(s, i) <=> FrameAt(t, j)
  BY <1>1, <1>2 DEF FrameAt
<1>5. ASSUME FrameAt(s, i) PROVE PayloadAt(s, i) = PayloadAt(t, j)
  <2> DEFINE n == LengthAt(s, i)
             r == SubSeq(s, i + 5, i + 4 + n)
             q == SubSeq(t, j + 5, j + 4 + n)
  <2>1. n \in Nat /\ Len(s) - i >= 4 + n /\ LengthAt(t, j) = n
    BY <1>2, <1>5, LengthNat DEF FrameAt
  <2> HIDE DEF n
  <2>2. /\ r \in Seq(Byte) /\ Len(r) = n /\ \A k \in 1 .. n : r[k] = s[(i + 4) + k]
    <3>1. i + 4 \in Nat /\ i + 4 + n \in Nat /\ i + 4 <= i + 4 + n /\ i + 4 + n <= Len(s)
      BY <2>1
    <3>2. (i + 4 + n) - (i + 4) = n /\ i + 5 = (i + 4) + 1
      BY <2>1
    <3> DEFINE lo == i + 4
               hi == i + 4 + n
    <3> HIDE DEF lo, hi
    <3>3. /\ SubSeq(s, lo + 1, hi) \in Seq(Byte)
          /\ Len(SubSeq(s, lo + 1, hi)) = hi - lo
          /\ \A k \in 1 .. hi - lo : SubSeq(s, lo + 1, hi)[k] = s[lo + k]
      <4>1. lo \in Nat /\ hi \in Nat /\ lo <= hi /\ hi <= Len(s)
        BY <3>1 DEF lo, hi
      <4> QED
        BY <4>1, SliceProperties
    <3> QED
      BY <3>2, <3>3 DEF lo, hi
  <2>3. /\ q \in Seq(Byte) /\ Len(q) = n /\ \A k \in 1 .. n : q[k] = t[(j + 4) + k]
    <3>1. j + 4 \in Nat /\ j + 4 + n \in Nat /\ j + 4 <= j + 4 + n /\ j + 4 + n <= Len(t)
      BY <2>1
    <3>2. (j + 4 + n) - (j + 4) = n /\ j + 5 = (j + 4) + 1
      BY <2>1
    <3> DEFINE lo == j + 4
               hi == j + 4 + n
    <3> HIDE DEF lo, hi
    <3>3. /\ SubSeq(t, lo + 1, hi) \in Seq(Byte)
          /\ Len(SubSeq(t, lo + 1, hi)) = hi - lo
          /\ \A k \in 1 .. hi - lo : SubSeq(t, lo + 1, hi)[k] = t[lo + k]
      <4>1. lo \in Nat /\ hi \in Nat /\ lo <= hi /\ hi <= Len(t)
        BY <3>1 DEF lo, hi
      <4> QED
        BY <4>1, SliceProperties
    <3> QED
      BY <3>2, <3>3 DEF lo, hi
  <2> HIDE DEF r, q
  <2>4. \A k \in 1 .. n : 4 + k \in 1 .. Len(s) - i
    BY <2>1
  <2>5. \A k \in 1 .. n : r[k] = q[k]
    <3> TAKE k \in 1 .. n
    <3>1. s[i + (4 + k)] = t[j + (4 + k)]
      BY <2>4
    <3>2. (i + 4) + k = i + (4 + k) /\ (j + 4) + k = j + (4 + k)
      BY <2>1
    <3> QED
      BY <2>2, <2>3, <3>1, <3>2
  <2>6. r = q
    BY <2>2, <2>3, <2>5, SeqEqual
  <2>7. i + 4 + 1 = i + 5 /\ j + 4 + 1 = j + 5
    OBVIOUS
  <2> QED
    BY <2>1, <2>6, <2>7, Zenon DEF PayloadAt, n, r, q
<1> QED
  BY <1>1, <1>2, <1>3, <1>4, <1>5

-----------------------------------------------------------------------------
(* The invariant *)

\* What is read from the buffer is what would be read from the whole stream.
LEMMA FrontOfStream ==
    ASSUME TypeOK, UnreadIntact
    PROVE  LET pos == Len(received) - Available IN
           /\ pos \in Nat /\ Available \in Nat
           /\ HeaderAt(buffer, consumed) <=> HeaderAt(received, pos)
           /\ HeaderAt(buffer, consumed) =>
                    LengthAt(buffer, consumed) = LengthAt(received, pos)
           /\ BadHeaderAt(buffer, consumed) <=> BadHeaderAt(received, pos)
           /\ FrameAt(buffer, consumed) <=> FrameAt(received, pos)
           /\ FrameAt(buffer, consumed) =>
                    PayloadAt(buffer, consumed) = PayloadAt(received, pos)
<1> DEFINE pos == Len(received) - Available
<1>1. /\ buffer \in Seq(Byte) /\ received \in Seq(Byte)
      /\ consumed \in Nat /\ pos \in Nat /\ Available \in Nat
      /\ consumed <= Len(buffer) /\ pos <= Len(received)
      /\ Len(buffer) - consumed = Len(received) - pos
  BY DEF TypeOK, UnreadIntact, Available
<1>2. \A k \in 1 .. Len(buffer) - consumed : buffer[consumed + k] = received[pos + k]
  BY DEF UnreadIntact, Available
<1> HIDE DEF pos
<1> QED
  BY <1>1, <1>2, SameFrame, Zenon DEF pos

\* What one read brings is a sequence of bytes.
LEMMA ChunkType ==
    ASSUME NEW data \in Chunks
    PROVE  data \in Seq(Byte) /\ Len(data) \in Nat /\ Len(data) <= ReadChunk
<1>1. PICK n \in 1 .. ReadChunk : data \in [1 .. n -> Byte]
  BY DEF Chunks
<1>2. n \in Nat
  BY FramingAssumption
<1>3. data \in Seq(Byte) /\ Len(data) = n
  BY <1>1, <1>2
<1> QED
  BY <1>1, <1>3, FramingAssumption

\* A handed-out frame moves the read position by its size and nothing else.
LEMMA NextFrameStep ==
    ASSUME IInv, NextFrame
    PROVE  /\ IInv'
           /\ Available' = Available - (4 + decode_length)
<1> USE DEF IInv, TypeOK
<1> DEFINE n == decode_length
           end == consumed + 4 + n
<1>1. n \in Nat /\ n <= MaxFrameSize /\ MaxFrameSize \in Nat /\ ReadChunk \in Nat
  <2>1. HeaderAt(buffer, consumed)
    BY DEF NextFrame, HeaderAt, Available
  <2> QED
    BY <2>1, LengthNat, FramingAssumption DEF NextFrame, Legal, decode_length
<1>2. /\ end \in Nat /\ consumed + 4 <= end /\ end <= Len(buffer) /\ Len(buffer) \in Nat
      /\ consumed' = IF end = Len(buffer) THEN 0 ELSE end
      /\ buffer' = IF end = Len(buffer) THEN <<>> ELSE buffer
      /\ received' = received /\ phase' = "pull" /\ phase = "pull"
      /\ frames' = Append(frames, SubSeq(buffer, consumed + 4 + 1, end))
  BY <1>1 DEF NextFrame, Available
<1>3. SubSeq(buffer, consumed + 4 + 1, end) \in Seq(Byte)
  <2> DEFINE lo == consumed + 4
  <2>1. lo \in Nat /\ buffer \in Seq(Byte)
    OBVIOUS
  <2>2. end \in Nat /\ lo <= end /\ end <= Len(buffer)
    BY <1>2
  <2> HIDE DEF lo, end, IInv, TypeOK
  <2>3. SubSeq(buffer, lo + 1, end) \in Seq(Byte)
    BY <2>1, <2>2, SliceProperties
  <2> QED
    BY <2>3 DEF lo
<1> HIDE DEF n
<1>4. TypeOK'
  BY <1>1, <1>2, <1>3
<1>5. Available' = Len(buffer) - end /\ Available' = Available - (4 + n)
  <2>1. Len(buffer') - consumed' = Len(buffer) - end
    <3>1. CASE end = Len(buffer)
      BY <1>2, <3>1
    <3>2. CASE end # Len(buffer)
      BY <1>2, <3>2
    <3> QED
      BY <3>1, <3>2
  <2> QED
    BY <1>1, <1>2, <2>1 DEF Available
<1>6. UnreadIntact'
  <2>1. CASE end = Len(buffer)
    BY <1>2, <1>5, <2>1 DEF UnreadIntact, Available
  <2>2. CASE end # Len(buffer)
    <3>1. buffer' = buffer /\ consumed' = end /\ received' = received
      BY <1>2, <2>2
    <3>2. ASSUME NEW i \in 1 .. Available'
          PROVE  buffer[end + i] = received[Len(received) - Available' + i]
      <4>1. (4 + n) + i \in 1 .. Available
        BY <1>1, <1>5, <3>2 DEF UnreadIntact, Available
      <4>2. buffer[consumed + ((4 + n) + i)] = received[Len(received) - Available + ((4 + n) + i)]
        BY <4>1 DEF UnreadIntact
      <4>3. /\ consumed + ((4 + n) + i) = end + i
            /\ Len(received) - Available + ((4 + n) + i) = Len(received) - Available' + i
        <5>1. Available \in Int /\ Len(received) \in Int /\ i \in Int /\ consumed \in Int
          BY <1>1, <1>5, <3>2 DEF Available
        <5> HIDE DEF IInv, TypeOK
        <5>2. consumed + ((4 + n) + i) = end + i
          BY <1>1, <5>1
        <5>3. Len(received) - Available + ((4 + n) + i) = Len(received) - Available' + i
          BY <1>1, <1>5, <5>1
        <5> QED
          BY <5>2, <5>3
      <4> QED
        BY <4>2, <4>3
    <3>3. end <= Len(buffer) /\ Available' <= Len(received)
      BY <1>1, <1>2, <1>5 DEF UnreadIntact, Available
    <3> QED
      BY <3>1, <3>2, <3>3 DEF UnreadIntact
  <2> QED
    BY <2>1, <2>2
<1>7. BufferBound'
  BY <1>1, <1>2 DEF BufferBound
<1> QED
  BY <1>2, <1>4, <1>5, <1>6, <1>7 DEF n

\* Reclaiming keeps the unread bytes and leaves little else.
LEMMA ReclaimProperties ==
    ASSUME IInv, phase = "read"
    PROVE  LET c == IF Reclaims THEN 0 ELSE consumed IN
           /\ Reclaimed \in Seq(Byte)
           /\ c \in Nat /\ Len(Reclaimed) \in Nat /\ Len(Reclaimed) - c = Available
           /\ Available \in Nat
           /\ \A i \in 1 .. Available : Reclaimed[c + i] = buffer[consumed + i]
           /\ Len(Reclaimed) <= 2 * (4 + MaxFrameSize) - 1
<1> USE DEF IInv, TypeOK
<1>1. /\ Available \in Nat /\ Available < 4 + MaxFrameSize /\ MaxFrameSize \in Nat
      /\ consumed <= Len(buffer) /\ Len(buffer) \in Nat
  <2>1. consumed <= Len(buffer) /\ Len(buffer) \in Nat /\ Available \in Nat
    BY DEF UnreadIntact, Available
  <2>2. MaxFrameSize \in Nat
    BY FramingAssumption
  <2>3. Available < 4 + MaxFrameSize
    <3>1. CASE HeaderAt(buffer, consumed)
      <4>1. /\ LengthAt(buffer, consumed) \in Nat
            /\ LengthAt(buffer, consumed) <= MaxFrameSize
            /\ Available < 4 + LengthAt(buffer, consumed)
        BY <2>1, <3>1, LengthNat DEF BadHeaderAt, FrameAt, Legal, Available
      <4> QED
        BY <2>1, <2>2, <4>1
    <3>2. CASE ~HeaderAt(buffer, consumed)
      BY <2>1, <2>2, <3>2 DEF HeaderAt, Available
    <3> QED
      BY <3>1, <3>2
  <2> QED
    BY <2>1, <2>2, <2>3
<1>2. CASE Reclaims
  <2>1. /\ Reclaimed \in Seq(Byte)
        /\ Len(Reclaimed) = Len(buffer) - consumed
        /\ \A i \in 1 .. Len(buffer) - consumed : Reclaimed[i] = buffer[consumed + i]
    BY <1>1, <1>2, SliceProperties DEF Reclaimed
  <2>2. \A i \in 1 .. Available : 0 + i = i
    BY <1>1
  <2> QED
    BY <1>1, <1>2, <2>1, <2>2 DEF Available
<1>3. CASE ~Reclaims
  <2>1. consumed <= 4 + MaxFrameSize /\ Reclaimed = buffer
    BY <1>1, <1>3 DEF Reclaims, Reclaimed
  <2> QED
    BY <1>1, <1>3, <2>1 DEF Available
<1> QED
  BY <1>2, <1>3

\* Feeding appends to the unread bytes what it appends to the stream.
LEMMA FeedStep ==
    ASSUME IInv, NEW data \in Chunks, Feed(data)
    PROVE  /\ IInv'
           /\ Available' = Available + Len(data)
           /\ Len(received') = Len(received) + Len(data)
<1> DEFINE c == IF Reclaims THEN 0 ELSE consumed
           m == Len(data)
<1>1. data \in Seq(Byte) /\ m \in Nat /\ m <= ReadChunk /\ ReadChunk \in Nat
  BY ChunkType, FramingAssumption
<1>2. /\ Reclaimed \in Seq(Byte)
      /\ c \in Nat /\ Len(Reclaimed) \in Nat /\ Len(Reclaimed) - c = Available
      /\ Available \in Nat
      /\ \A i \in 1 .. Available : Reclaimed[c + i] = buffer[consumed + i]
      /\ Len(Reclaimed) <= 2 * (4 + MaxFrameSize) - 1
  BY ReclaimProperties DEF Feed
<1>3. /\ buffer' = Reclaimed \o data /\ consumed' = c /\ received' = received \o data
      /\ phase' \in {"pull", "failed"} /\ frames' = frames
  BY DEF Feed
<1>4. received \in Seq(Byte) /\ Len(received) \in Nat /\ Available <= Len(received)
  BY DEF IInv, TypeOK, UnreadIntact
<1> HIDE DEF c, m
<1>5. /\ buffer' \in Seq(Byte) /\ Len(buffer') = Len(Reclaimed) + m
      /\ \A i \in 1 .. Len(Reclaimed) + m : buffer'[i] =
            IF i <= Len(Reclaimed) THEN Reclaimed[i] ELSE data[i - Len(Reclaimed)]
  BY <1>1, <1>2, <1>3, ConcatProperties DEF m
<1>6. /\ received' \in Seq(Byte) /\ Len(received') = Len(received) + m
      /\ \A i \in 1 .. Len(received) + m : received'[i] =
            IF i <= Len(received) THEN received[i] ELSE data[i - Len(received)]
  BY <1>1, <1>3, <1>4, ConcatProperties DEF m
<1>7. TypeOK'
  BY <1>2, <1>3, <1>5, <1>6 DEF TypeOK, IInv
<1>8. Available' = Available + m
  BY <1>1, <1>2, <1>3, <1>5 DEF Available
<1>9. UnreadIntact'
  <2>1. consumed' <= Len(buffer') /\ Available' <= Len(received')
    <3>1. consumed' <= Len(buffer')
      BY <1>1, <1>2, <1>3, <1>5
    <3>2. Available' <= Len(received')
      BY <1>1, <1>2, <1>4, <1>6, <1>8
    <3> QED
      BY <3>1, <3>2
  <2>2. ASSUME NEW i \in 1 .. Available'
        PROVE  buffer'[consumed' + i] = received'[Len(received') - Available' + i]
    <3>1. /\ i \in Nat \ {0} /\ i <= Available + m
          /\ Len(received') - Available' + i = Len(received) - Available + i
      BY <1>1, <1>2, <1>4, <1>6, <1>8
    <3>0. /\ c \in Nat /\ Len(Reclaimed) \in Nat /\ Available \in Nat
          /\ Len(Reclaimed) = c + Available
      BY <1>2
    <3>2. CASE i <= Available
      <4>1. buffer'[c + i] = Reclaimed[c + i]
        <5>1. c + i \in 1 .. Len(Reclaimed) + m /\ c + i <= Len(Reclaimed)
          BY <1>1, <3>0, <3>1, <3>2
        <5> QED
          BY <1>5, <5>1
      <4>2. received'[Len(received) - Available + i] = received[Len(received) - Available + i]
        <5> DEFINE k == Len(received) - Available + i
        <5>1. k \in 1 .. Len(received) + m /\ k <= Len(received)
          BY <1>1, <1>4, <3>0, <3>1, <3>2
        <5> HIDE DEF k
        <5>2. received'[k] = received[k]
          BY <1>6, <5>1
        <5> QED
          BY <5>2 DEF k
      <4>3. buffer[consumed + i] = received[Len(received) - Available + i]
        BY <3>2, <3>1, <1>2 DEF IInv, UnreadIntact
      <4> QED
        <5>1. Reclaimed[c + i] = buffer[consumed + i]
          BY <1>2, <3>0, <3>1, <3>2
        <5> QED
          BY <1>3, <3>1, <4>1, <4>2, <4>3, <5>1, Zenon
    <3>3. CASE ~(i <= Available)
      <4>2. buffer'[c + i] = data[i - Available]
        <5>1. c + i \in 1 .. Len(Reclaimed) + m /\ ~(c + i <= Len(Reclaimed))
          BY <1>1, <3>0, <3>1, <3>3
        <5>2. (c + i) - Len(Reclaimed) = i - Available
          BY <3>0, <3>1
        <5> QED
          BY <1>5, <5>1, <5>2
      <4>3. received'[Len(received) - Available + i] = data[i - Available]
        <5> DEFINE k == Len(received) - Available + i
        <5>1. k \in 1 .. Len(received) + m /\ ~(k <= Len(received))
          BY <1>1, <1>4, <3>0, <3>1, <3>3
        <5>2. k - Len(received) = i - Available
          BY <1>4, <3>0, <3>1
        <5> QED
          BY <1>6, <5>1, <5>2
      <4> QED
        BY <1>3, <3>1, <4>2, <4>3, Zenon
    <3> QED
      BY <3>2, <3>3
  <2> QED
    BY <2>1, <2>2 DEF UnreadIntact
<1>10. BufferBound'
  BY <1>1, <1>2, <1>5, FramingAssumption DEF BufferBound
<1> QED
  BY <1>3, <1>6, <1>7, <1>8, <1>9, <1>10 DEF IInv, m

\* A new decoder satisfies the inductive invariant.
LEMMA InitInv == Init => IInv
BY FramingAssumption DEF Init, IInv, TypeOK, UnreadIntact, BufferBound, Available

\* Every call on the decoder preserves the inductive invariant.
LEMMA InvStep == IInv /\ [Next]_vars => IInv'
<1> SUFFICES ASSUME IInv, [Next]_vars PROVE IInv'
  OBVIOUS
<1>1. CASE NextFrame
  BY <1>1, NextFrameStep
<1>2. CASE NextFrameThrows \/ EndOfStream \/ UNCHANGED vars
  BY <1>2, Zenon DEF NextFrameThrows, EndOfStream, vars, IInv, TypeOK, UnreadIntact,
              BufferBound, Available
<1>3. CASE NeedMore
  <2>1. ~FrameAt(buffer, consumed) /\ ~BadHeaderAt(buffer, consumed)
    <3>1. CASE HeaderAt(buffer, consumed)
      <4>1. /\ LengthAt(buffer, consumed) \in Nat
            /\ Len(buffer) \in Nat /\ consumed \in Nat
        BY <3>1, LengthNat DEF IInv, TypeOK
      <4>2. /\ Legal(LengthAt(buffer, consumed))
            /\ Len(buffer) - consumed < 4 + LengthAt(buffer, consumed)
        BY <1>3, <3>1 DEF NeedMore, HeaderAt, decode_length, Available
      <4> QED
        BY <4>1, <4>2 DEF FrameAt, BadHeaderAt
    <3>2. CASE ~HeaderAt(buffer, consumed)
      BY <3>2 DEF FrameAt, BadHeaderAt
    <3> QED
      BY <3>1, <3>2
  <2> QED
    BY <1>3, <2>1 DEF NeedMore, IInv, TypeOK, UnreadIntact, BufferBound, Available
<1>4. ASSUME NEW data \in Chunks, Feed(data) PROVE IInv'
  BY <1>4, FeedStep
<1>5. CASE Reset
  BY <1>5, FramingAssumption DEF Reset, IInv, TypeOK, UnreadIntact, BufferBound, Available
<1> QED
  BY <1>1, <1>2, <1>3, <1>4, <1>5 DEF Next

\* The inductive invariant holds in every reachable state of the decoder.
LEMMA Invariance == Spec => []IInv
BY InitInv, InvStep, PTL DEF Spec

-----------------------------------------------------------------------------
(* Theorems *)

\* The unread bytes are always the last bytes received, whatever the reads and
\* the reclaiming in feed() did.
THEOREM UnreadBytesIntact == Spec => []UnreadIntact
<1>1. IInv => UnreadIntact
  BY DEF IInv
<1> QED
  BY <1>1, Invariance, PTL

\* The buffer never exceeds two maximal frames and one read.
THEOREM BufferBounded == Spec => []BufferBound
<1>1. IInv => BufferBound
  BY DEF IInv
<1> QED
  BY <1>1, Invariance, PTL

\* The decoder's state keeps its types.
THEOREM TypeCorrect == Spec => []TypeOK
<1>1. IInv => TypeOK
  BY DEF IInv
<1> QED
  BY <1>1, Invariance, PTL

\* A new decoder is a stream of which nothing has been received.
LEMMA StreamInitially == Init => Stream!StreamInit
BY DEF Init, Stream!StreamInit, Available

\* How many of the received bytes have been handed out.
Position == Len(received) - Available

\* What is read at the front of the buffer, in terms of the stream.
LEMMA AtPosition ==
    ASSUME IInv
    PROVE  /\ Position \in Nat /\ Position <= Len(received)
           /\ Len(received) \in Nat /\ Available \in Nat
           /\ BadHeaderAt(buffer, consumed) <=> BadHeaderAt(received, Position)
           /\ FrameAt(buffer, consumed) <=> FrameAt(received, Position)
           /\ FrameAt(buffer, consumed) =>
                    /\ LengthAt(buffer, consumed) = LengthAt(received, Position)
                    /\ PayloadAt(buffer, consumed) = PayloadAt(received, Position)
<1>1. TypeOK /\ UnreadIntact
  BY DEF IInv
<1>2. Len(received) \in Nat
  BY <1>1 DEF TypeOK
<1>3. Available \in Nat /\ Available <= Len(received)
  BY <1>1 DEF TypeOK, UnreadIntact, Available
<1> QED
  BY <1>1, <1>2, <1>3, FrontOfStream DEF FrameAt, Position

\* next_frame() hands out the frame of the stream that is next.
LEMMA NextFrameInStream ==
    ASSUME IInv, NextFrame
    PROVE  /\ FrameAt(received, Position)
           /\ frames' = Append(frames, PayloadAt(received, Position))
           /\ Position' = Position + 4 + LengthAt(received, Position)
<1>1. FrameAt(buffer, consumed)
  BY DEF NextFrame, FrameAt, HeaderAt, decode_length, Available
<1>2. /\ FrameAt(received, Position) /\ decode_length = LengthAt(received, Position)
      /\ PayloadAt(buffer, consumed) = PayloadAt(received, Position)
  BY <1>1, AtPosition DEF decode_length
<1>3. frames' = Append(frames, PayloadAt(received, Position))
  BY <1>2, Zenon DEF NextFrame, PayloadAt, decode_length
<1>4. decode_length \in Nat
  BY <1>1, LengthNat DEF FrameAt, IInv, TypeOK, decode_length
<1>5. Available' = Available - (4 + decode_length) /\ received' = received
  BY NextFrameStep DEF NextFrame
<1>6. Position' = Position + 4 + decode_length
  BY <1>4, <1>5, AtPosition DEF Position
<1> QED
  BY <1>2, <1>3, <1>6

\* next_frame() throws only where the stream has an illegal header.
LEMMA ThrowsInStream ==
    ASSUME IInv, NextFrameThrows
    PROVE  BadHeaderAt(received, Position)
<1>1. BadHeaderAt(buffer, consumed)
  BY DEF NextFrameThrows, BadHeaderAt, HeaderAt, decode_length, Available
<1> QED
  BY <1>1, AtPosition

\* The loop reads only where the stream has neither a frame nor an illegal header.
LEMMA NothingToHandOut ==
    ASSUME IInv, phase = "read" \/ NeedMore
    PROVE  ~FrameAt(received, Position) /\ ~BadHeaderAt(received, Position)
<1>1. CASE phase = "read"
  BY <1>1, AtPosition DEF IInv
<1>2. CASE NeedMore
  <2>1. ~FrameAt(buffer, consumed) /\ ~BadHeaderAt(buffer, consumed)
    <3>1. HeaderAt(buffer, consumed) <=> Available >= 4
      BY DEF HeaderAt, Available
    <3>2. HeaderAt(buffer, consumed) => Legal(decode_length) /\ Available < 4 + decode_length
      BY <1>2, <3>1 DEF NeedMore
    <3>3. HeaderAt(buffer, consumed) => decode_length \in Nat
      BY LengthNat DEF IInv, TypeOK, decode_length
    <3>4. Available \in Nat
      BY AtPosition
    <3> QED
      BY <3>2, <3>3, <3>4 DEF FrameAt, BadHeaderAt, decode_length, Available
  <2> QED
    BY <2>1, AtPosition
<1> QED
  BY <1>1, <1>2

\* feed() leaves the position and fails where the longer stream has an illegal header.
LEMMA FeedInStream ==
    ASSUME IInv, NEW data \in Chunks, Feed(data)
    PROVE  /\ Position' = Position
           /\ phase' = IF BadHeaderAt(received \o data, Position) THEN "failed" ELSE "pull"
<1>1. Next
  BY DEF Next
<1>2. IInv'
  BY <1>1, InvStep
<1>3. Position' = Position
  <2>1. Len(data) \in Nat
    BY ChunkType
  <2> QED
    BY <2>1, AtPosition, FeedStep DEF Position
<1>4. BadHeaderAt(buffer', consumed') <=> BadHeaderAt(received', Position')
  <2>1. /\ buffer' \in Seq(Byte) /\ received' \in Seq(Byte)
        /\ consumed' \in Nat /\ Position' \in Nat
        /\ consumed' <= Len(buffer') /\ Position' <= Len(received')
        /\ Len(buffer') - consumed' = Len(received') - Position'
    <3>1. TypeOK' /\ UnreadIntact'
      BY <1>2 DEF IInv
    <3>2. /\ buffer' \in Seq(Byte) /\ received' \in Seq(Byte)
          /\ consumed' \in Nat /\ consumed' <= Len(buffer')
      BY <3>1 DEF TypeOK
    <3>3. Len(buffer') \in Nat /\ Len(received') \in Nat
      BY <3>2
    <3>4. Len(buffer') - consumed' <= Len(received')
      BY <3>1 DEF UnreadIntact, Available
    <3> QED
      BY <3>2, <3>3, <3>4 DEF Available, Position
  <2>2. \A k \in 1 .. Len(buffer') - consumed' :
              buffer'[consumed' + k] = received'[Position' + k]
    BY <1>2 DEF IInv, UnreadIntact, Available, Position
  <2> QED
    BY <2>1, <2>2, SameFrame, Zenon
<1> QED
  BY <1>3, <1>4 DEF Feed

\* Every call on the decoder is a step of the abstract stream, or no step of it.
LEMMA StreamStep ==
    ASSUME IInv, [Next]_vars
    PROVE  [Stream!StreamNext]_(Stream!streamVars)
<1> USE DEF Stream!HeaderSize, Position
<1>1. CASE NextFrame
  <2>1. /\ FrameAt(received, Position)
        /\ frames' = Append(frames, PayloadAt(received, Position))
        /\ Position' = Position + 4 + LengthAt(received, Position)
    BY <1>1, NextFrameInStream
  <2>2. Stream!HandOut
    BY <1>1, <2>1, Zenon
       DEF NextFrame, Stream!HandOut, Stream!FrameAt, Stream!HeaderAt, Stream!Legal,
           Stream!LengthAt, Stream!PayloadAt, FrameAt, HeaderAt, Legal, LengthAt, PayloadAt
  <2> QED
    BY <2>2 DEF Stream!StreamNext
<1>2. CASE NextFrameThrows
  <2>1. BadHeaderAt(received, Position)
    BY <1>2, ThrowsInStream
  <2>2. Stream!Reject
    BY <1>2, <2>1
       DEF NextFrameThrows, Available, Stream!Reject, Stream!BadHeaderAt, Stream!HeaderAt,
           Stream!Legal, Stream!LengthAt, BadHeaderAt, HeaderAt, Legal, LengthAt
  <2> QED
    BY <2>2 DEF Stream!StreamNext
<1>3. CASE NeedMore \/ UNCHANGED vars
  BY <1>3 DEF NeedMore, vars, Available, Stream!streamVars
<1>4. ASSUME NEW data \in Chunks, Feed(data)
      PROVE  Stream!StreamNext
  <2>1. ~FrameAt(received, Position) /\ ~BadHeaderAt(received, Position)
    BY <1>4, NothingToHandOut DEF Feed
  <2>2. /\ Position' = Position
        /\ phase' = IF BadHeaderAt(received \o data, Position) THEN "failed" ELSE "pull"
    BY <1>4, FeedInStream
  <2>3. Stream!Receive(data)
    BY <1>4, <2>1, <2>2, Zenon
       DEF Feed, Stream!Receive, Stream!FrameAt, Stream!BadHeaderAt, Stream!HeaderAt,
           Stream!Legal, Stream!LengthAt, FrameAt, BadHeaderAt, HeaderAt, Legal, LengthAt
  <2>4. data \in Stream!Chunks
    BY DEF Chunks, Byte, Stream!Chunks, Stream!Byte
  <2> QED
    BY <2>3, <2>4 DEF Stream!StreamNext
<1>5. CASE EndOfStream
  <2>1. ~FrameAt(received, Position) /\ ~BadHeaderAt(received, Position)
    BY <1>5, NothingToHandOut DEF EndOfStream
  <2>2. Stream!PeerCloses
    BY <1>5, <2>1
       DEF EndOfStream, Available, Stream!PeerCloses, Stream!FrameAt, Stream!BadHeaderAt,
           Stream!HeaderAt, Stream!Legal, Stream!LengthAt, FrameAt, BadHeaderAt, HeaderAt,
           Legal, LengthAt
  <2> QED
    BY <2>2 DEF Stream!StreamNext
<1>6. CASE Reset
  BY <1>6 DEF Reset, Available, Stream!Restart, Stream!StreamNext
<1> QED
  BY <1>1, <1>2, <1>3, <1>4, <1>5, <1>6 DEF Next

\* Whatever the sizes of frames, reads and buffer, the decoder hands out exactly
\* the payloads that the received bytes contain, in order, and fails only on a
\* header that announces an illegal length.
THEOREM DecoderImplementsStream == Spec => ImplementsStream
<1>1. Init => Stream!StreamInit
  BY StreamInitially
<1>2. IInv /\ [Next]_vars => [Stream!StreamNext]_(Stream!streamVars)
  BY StreamStep
<1> QED
  BY <1>1, <1>2, Invariance, PTL DEF Spec, ImplementsStream, Stream!StreamSpec

-----------------------------------------------------------------------------
(* The channel: numbers *)

\* Division with remainder.
LEMMA DivMod ==
    ASSUME NEW n \in Nat, NEW d \in Nat, d > 0
    PROVE  /\ n \div d \in Nat /\ n % d \in 0 .. d - 1
           /\ n = (n \div d) * d + (n % d)
OBVIOUS

\* A multiple of d grows by at least d.
LEMMA NextMultiple ==
    ASSUME NEW d \in Nat, NEW q \in Nat, NEW k \in Nat, q < k
    PROVE  k * d >= q * d + d
<1>1. PICK j \in Nat : k = q + 1 + j
  <2>1. k - q - 1 \in Nat /\ k = q + 1 + (k - q - 1)
    OBVIOUS
  <2> QED
    BY <2>1
<1>2. k * d = q * d + d + j * d
  BY <1>1
<1>3. j * d \in Nat /\ q * d \in Nat
  OBVIOUS
<1> QED
  BY <1>2, <1>3

\* There is one quotient and one remainder.
LEMMA DivUnique ==
    ASSUME NEW n \in Nat, NEW d \in Nat, NEW q \in Nat, NEW r \in 0 .. d - 1, n = q * d + r
    PROVE  n \div d = q
<1>1. d > 0
  OBVIOUS
<1>2. PICK k \in Nat, t \in 0 .. d - 1 : k = n \div d /\ n = k * d + t
  BY <1>1, DivMod
<1>3. k * d \in Nat /\ q * d \in Nat
  OBVIOUS
<1>4. ~ (q < k)
  BY <1>2, <1>3, NextMultiple
<1>5. ~ (k < q)
  BY <1>2, <1>3, NextMultiple
<1> QED
  BY <1>2, <1>4, <1>5

\* Dividing twice divides by the product.
LEMMA DivTwice ==
    ASSUME NEW n \in Nat, NEW d \in Nat, d > 0, NEW b \in Nat, b > 0
    PROVE  n \div (d * b) = (n \div d) \div b
<1>1. PICK q \in Nat, r \in 0 .. d - 1 : q = n \div d /\ n = q * d + r
  BY DivMod
<1>2. PICK k \in Nat, t \in 0 .. b - 1 : k = q \div b /\ q = k * b + t
  BY DivMod
<1>3. n = k * (d * b) + (t * d + r)
  <2>1. n = (k * b + t) * d + r
    BY <1>1, <1>2
  <2>2. (k * b + t) * d = k * (d * b) + t * d
    OBVIOUS
  <2> QED
    BY <2>1, <2>2
<1>4. t * d + r \in 0 .. (d * b) - 1
  <2>1. b * d >= t * d + d
    BY <1>2, NextMultiple
  <2>2. b * d = d * b /\ t * d \in Nat /\ d * b \in Nat
    OBVIOUS
  <2> QED
    BY <2>1, <2>2
<1>5. d * b \in Nat
  OBVIOUS
<1>6. n \div (d * b) = k
  BY <1>3, <1>4, <1>5, DivUnique
<1> QED
  BY <1>1, <1>2, <1>6

\* The four digits of a number that fits into them stand for the number.
LEMMA Digits ==
    ASSUME NEW n \in Nat, NEW b \in Nat \ {0}, n < b * b * b * b
    PROVE  LET w == (n \div (b * b * b)) % b
               x == (n \div (b * b)) % b
               y == (n \div b) % b
               z == n % b
           IN  /\ w \in 0 .. b - 1 /\ x \in 0 .. b - 1 /\ y \in 0 .. b - 1 /\ z \in 0 .. b - 1
               /\ ((w * b + x) * b + y) * b + z = n
<1>1. b > 0 /\ b * b \in Nat /\ b * b > 0
  <2>1. b * b >= 0 * b + b
    BY NextMultiple
  <2> QED
    BY <2>1
<1>2. PICK q \in Nat, z \in 0 .. b - 1 : q = n \div b /\ z = n % b /\ n = q * b + z
  BY <1>1, DivMod
<1>3. PICK r \in Nat, y \in 0 .. b - 1 : r = q \div b /\ y = q % b /\ q = r * b + y
  BY <1>1, DivMod
<1>4. PICK s \in Nat, x \in 0 .. b - 1 : s = r \div b /\ x = r % b /\ r = s * b + x
  BY <1>1, DivMod
<1>5. n \div (b * b) = r
  BY <1>1, <1>2, <1>3, DivTwice
<1>6. n \div (b * b * b) = s
  BY <1>1, <1>4, <1>5, DivTwice
<1>7. n = ((s * b + x) * b + y) * b + z
  BY <1>2, <1>3, <1>4, Zenon
<1>8. s < b
  <2> SUFFICES ASSUME s >= b PROVE FALSE
    OBVIOUS
  <2>1. PICK k \in Nat : s = b + k
    <3>1. s - b \in Nat /\ s = b + (s - b)
      OBVIOUS
    <3> QED
      BY <3>1
  <2>2. r = b * b + (k * b + x) /\ k * b + x \in Nat
    BY <1>4, <2>1
  <2>3. PICK l \in Nat : r = b * b + l
    BY <2>2
  <2>4. q = b * b * b + (l * b + y) /\ l * b + y \in Nat
    BY <1>3, <2>3
  <2>5. PICK m \in Nat : q = b * b * b + m
    BY <2>4
  <2>6. n = b * b * b * b + (m * b + z) /\ m * b + z \in Nat
    BY <1>2, <2>5
  <2>7. b * b * b * b \in Nat
    OBVIOUS
  <2> QED
    BY <2>6, <2>7
<1>9. s % b = s
  BY <1>8
<1>10. /\ (n \div (b * b * b)) % b = s /\ (n \div (b * b)) % b = x
       /\ (n \div b) % b = y /\ n % b = z
  BY <1>2, <1>3, <1>4, <1>5, <1>6, <1>9, Zenon
<1>11. /\ s \in 0 .. b - 1
       /\ ((s * b + x) * b + y) * b + z = n
  BY <1>7, <1>8
<1> QED
  BY <1>10, <1>11, Zenon

\* The announced length is the same number, however it is summed up.
LEMMA AnnouncedIsLength ==
    ASSUME NEW s \in Seq(Byte), NEW at \in Nat, Len(s) >= at + 4
    PROVE  Announced(s, at) = LengthAt(s, at)
<1>1. Base \in Nat
  BY FramingAssumption
<1>2. PICK a \in Nat, b \in Nat, c \in Nat, d \in Nat :
        s[at + 1] = a /\ s[at + 2] = b /\ s[at + 3] = c /\ s[at + 4] = d
  <2>1. \A i \in 1 .. Len(s) : s[i] \in Byte
    OBVIOUS
  <2>2. \A i \in 1 .. Len(s) : s[i] \in Nat
    BY <1>1, <2>1 DEF Byte
  <2>3. \A k \in 1 .. 4 : at + k \in 1 .. Len(s)
    OBVIOUS
  <2> QED
    BY <2>2, <2>3
<1>3. PICK m \in Nat : m = Base
  BY <1>1
<1>4. ((a * m + b) * m + c) * m + d = m * m * m * a + m * m * b + m * c + d
  <2>1. (a * m + b) * m = m * m * a + m * b
    OBVIOUS
  <2>2. (m * m * a + m * b + c) * m = m * m * m * a + m * m * b + m * c
    <3>1. m * m * a * m = m * m * m * a
      OBVIOUS
    <3>2. m * b * m = m * m * b
      OBVIOUS
    <3>3. m * m * a \in Nat /\ m * b \in Nat
      OBVIOUS
    <3>4. PICK u \in Nat, v \in Nat : u = m * m * a /\ v = m * b
      BY <3>3
    <3>5. (u + v + c) * m = u * m + v * m + m * c
      OBVIOUS
    <3> QED
      BY <3>1, <3>2, <3>4, <3>5
  <2> QED
    BY <2>1, <2>2
<1> QED
  BY <1>2, <1>3, <1>4 DEF Announced, LengthAt

\* The reference and the decoder agree on what a header says.
LEMMA SameHeader ==
    ASSUME NEW s \in Seq(Byte), NEW at \in Nat
    PROVE  /\ Illegal(s, at) <=> BadHeaderAt(s, at)
           /\ Complete(s, at) <=> FrameAt(s, at)
           /\ FrameAt(s, at) => Announced(s, at) = LengthAt(s, at)
<1>1. HeaderAt(s, at) <=> Len(s) >= at + 4
  BY DEF HeaderAt, HeaderSize
<1>2. CASE HeaderAt(s, at)
  <2>1. Announced(s, at) = LengthAt(s, at)
    BY <1>1, <1>2, AnnouncedIsLength
  <2>2. PICK n \in Nat : n = LengthAt(s, at)
    BY <1>2, LengthNat
  <2>3. n \in 1 .. MaxFrameSize <=> Legal(n)
    BY FramingAssumption DEF Legal
  <2>4. Len(s) >= at + 4 + n <=> Len(s) - at >= 4 + n
    OBVIOUS
  <2> QED
    BY <1>1, <1>2, <2>1, <2>2, <2>3, <2>4 DEF Illegal, Complete, BadHeaderAt, FrameAt, HeaderSize
<1>3. CASE ~HeaderAt(s, at)
  BY <1>1, <1>3 DEF Illegal, Complete, BadHeaderAt, FrameAt
<1> QED
  BY <1>2, <1>3

-----------------------------------------------------------------------------
(* The channel: frames *)

\* One step of the reference: the end of the n-th frame, given the ends before it.
Following(s, f, n) ==
    IF n = 0 THEN 0
    ELSE IF Complete(s, f[n - 1]) THEN f[n - 1] + 4 + Announced(s, f[n - 1]) ELSE f[n - 1]

\* The reference satisfies its recursive definition.
LEMMA EndsEquation ==
    ASSUME NEW s, Len(s) \in Nat
    PROVE  Ends(s) = [n \in 0 .. Len(s) |-> Following(s, Ends(s), n)]
<1> DEFINE Solves(f, m) == f = [n \in 0 .. m |-> Following(s, f, n)]
           T == {m \in Nat : \E f : Solves(f, m)}
<1>1. 0 \in T
  <2> DEFINE f == [n \in {0} |-> 0]
  <2>1. 0 .. 0 = {0}
    OBVIOUS
  <2>2. Following(s, f, 0) = 0
    BY DEF Following
  <2>3. Solves(f, 0)
    BY <2>1, <2>2
  <2> QED
    BY <2>3
<1>2. ASSUME NEW m \in T PROVE m + 1 \in T
  <2>1. m \in Nat /\ m + 1 \in Nat
    OBVIOUS
  <2>2. PICK f : Solves(f, m)
    OBVIOUS
  <2> DEFINE g == [n \in 0 .. m + 1 |-> IF n = m + 1 THEN Following(s, f, n) ELSE f[n]]
  <2>3. ASSUME NEW n \in 0 .. m + 1 PROVE g[n] = Following(s, g, n)
    <3>1. n # 0 => n - 1 \in 0 .. m + 1 /\ n - 1 # m + 1
      BY <2>1
    <3>2. n # 0 => g[n - 1] = f[n - 1]
      BY <3>1
    <3>3. Following(s, g, n) = Following(s, f, n)
      <4> HIDE DEF g
      <4>1. CASE n = 0
        BY <4>1 DEF Following
      <4>2. CASE n # 0
        BY <3>2, <4>2 DEF Following
      <4> QED
        BY <4>1, <4>2
    <3>4. CASE n = m + 1
      BY <3>3, <3>4
    <3>5. CASE n # m + 1
      <4>1. n \in 0 .. m
        BY <2>1, <3>5
      <4>2. f[n] = Following(s, f, n)
        BY <2>2, <4>1, Zenon
      <4> QED
        BY <3>3, <3>5, <4>2
    <3> QED
      BY <3>4, <3>5
  <2>4. Solves(g, m + 1)
    <3> DEFINE h == [n \in 0 .. m + 1 |-> Following(s, g, n)]
    <3>1. \A n \in 0 .. m + 1 : g[n] = h[n]
      BY <2>3
    <3>2. g = [n \in 0 .. m + 1 |-> g[n]] /\ h = [n \in 0 .. m + 1 |-> h[n]]
      OBVIOUS
    <3> HIDE DEF g, h
    <3>3. g = h
      BY <3>1, <3>2
    <3> QED
      BY <3>3 DEF h
  <2> HIDE DEF g
  <2> QED
    BY <2>1, <2>4
<1> HIDE DEF T
<1>3. T = Nat
  <2>1. T \in SUBSET Nat
    BY DEF T
  <2> QED
    BY <1>1, <1>2, <2>1, NatSetInduction
<1>4. \E f : Solves(f, Len(s))
  BY <1>3 DEF T
<1>5. Ends(s) = CHOOSE f : Solves(f, Len(s))
  BY DEF Ends, Following
<1> QED
  BY <1>4, <1>5

\* Bytes that follow change neither a complete header nor a complete frame.
LEMMA FrameKept ==
    ASSUME NEW s \in Seq(Byte), NEW t \in Seq(Byte), NEW at \in Nat, HeaderAt(s, at)
    PROVE  /\ HeaderAt(s \o t, at)
           /\ LengthAt(s \o t, at) = LengthAt(s, at)
           /\ FrameAt(s, at) => FrameAt(s \o t, at) /\ PayloadAt(s \o t, at) = PayloadAt(s, at)
<1> DEFINE u == s \o t
<1>1. /\ u \in Seq(Byte) /\ Len(u) = Len(s) + Len(t)
      /\ Len(u) \in Nat /\ Len(s) \in Nat /\ Len(t) \in Nat
      /\ \A i \in 1 .. Len(s) : u[i] = s[i]
  BY ConcatProperties
<1> HIDE DEF u
<1>2. Len(s) - at >= 4
  BY DEF HeaderAt, HeaderSize
<1>3. HeaderAt(u, at)
  BY <1>1, <1>2 DEF HeaderAt, HeaderSize
<1>4. LengthAt(u, at) = LengthAt(s, at)
  <2>1. {at + 1, at + 2, at + 3, at + 4} \subseteq 1 .. Len(s)
    BY <1>1, <1>2
  <2>2. /\ u[at + 1] = s[at + 1] /\ u[at + 2] = s[at + 2]
        /\ u[at + 3] = s[at + 3] /\ u[at + 4] = s[at + 4]
    BY <1>1, <2>1, Zenon
  <2> QED
    BY <2>2 DEF LengthAt
<1>5. ASSUME FrameAt(s, at) PROVE FrameAt(u, at) /\ PayloadAt(u, at) = PayloadAt(s, at)
  <2>1. PICK n \in Nat : n = LengthAt(s, at)
    BY LengthNat
  <2>2. Legal(n) /\ Len(s) - at >= 4 + n
    BY <1>5, <2>1 DEF FrameAt, HeaderSize
  <2>3. FrameAt(u, at)
    <3>1. Len(u) - at >= 4 + n
      BY <1>1, <2>2
    <3> QED
      BY <1>3, <1>4, <2>1, <2>2, <3>1 DEF FrameAt, HeaderSize
  <2> DEFINE lo == at + 4
             hi == at + 4 + n
             x  == SubSeq(s, lo + 1, hi)
             y  == SubSeq(u, lo + 1, hi)
  <2>4. lo \in Nat /\ hi \in Nat /\ lo <= hi /\ hi <= Len(s) /\ hi <= Len(u) /\ hi - lo = n
    BY <1>1, <2>2
  <2>5. /\ x \in Seq(Byte) /\ Len(x) = n /\ \A k \in 1 .. n : x[k] = s[lo + k]
        /\ y \in Seq(Byte) /\ Len(y) = n /\ \A k \in 1 .. n : y[k] = u[lo + k]
    <3> HIDE DEF lo, hi
    <3> QED
      BY <1>1, <2>4, SliceProperties
  <2>6. \A k \in 1 .. n : u[lo + k] = s[lo + k]
    <3>1. \A k \in 1 .. n : lo + k \in 1 .. Len(s)
      BY <1>1, <2>4
    <3> QED
      BY <1>1, <3>1, Zenon
  <2> HIDE DEF x, y, lo
  <2>7. x = y
    <3>1. \A k \in 1 .. Len(x) : x[k] = y[k]
      BY <2>5, <2>6
    <3> QED
      BY <2>5, <3>1, SeqEqual
  <2>8. PayloadAt(s, at) = x /\ PayloadAt(u, at) = y
    BY <1>4, <2>1 DEF PayloadAt, HeaderSize, x, y, lo
  <2> QED
    BY <2>3, <2>7, <2>8
<1> QED
  BY <1>3, <1>4, <1>5 DEF u

\* encode() writes bytes, and behind whatever was written before, what it writes
\* is a complete frame with the payload it was given.
LEMMA EncodedFrame ==
    ASSUME NEW s \in Seq(Byte), NEW p \in Seq(Byte), Encodable(p)
    PROVE  /\ encode(p) \in Seq(Byte) /\ Len(encode(p)) = 4 + Len(p)
           /\ FrameAt(s \o encode(p), Len(s))
           /\ LengthAt(s \o encode(p), Len(s)) = Len(p)
           /\ PayloadAt(s \o encode(p), Len(s)) = p
<1> DEFINE n == Len(p)
           w == (n \div (Base * Base * Base)) % Base
           x == (n \div (Base * Base)) % Base
           y == (n \div Base) % Base
           z == n % Base
           h == <<w, x, y, z>>
           u == s \o encode(p)
<1>1. n \in Nat /\ Legal(n) /\ n < Base * Base * Base * Base /\ Base \in Nat \ {0}
  <2>1. n \in Nat /\ Legal(n) /\ Base \in Nat \ {0} /\ MaxFrameSize \in Nat
    BY FramingAssumption DEF Encodable
  <2>2. n <= MaxFrameSize /\ MaxFrameSize < Base * Base * Base * Base
    BY <2>1, ChannelAssumption DEF Legal
  <2>3. PICK m \in Nat : m = Base * Base * Base * Base
    BY <2>1
  <2> HIDE DEF n
  <2> QED
    BY <2>1, <2>2, <2>3
<1>2. encode(p) = h \o p
  BY DEF encode
<1> HIDE DEF n
<1>3. /\ w \in Byte /\ x \in Byte /\ y \in Byte /\ z \in Byte
      /\ ((w * Base + x) * Base + y) * Base + z = n
  BY <1>1, Digits, Zenon DEF Byte
<1> HIDE DEF w, x, y, z
<1>4. h \in Seq(Byte) /\ Len(h) = 4 /\ h[1] = w /\ h[2] = x /\ h[3] = y /\ h[4] = z
  BY <1>3
<1> HIDE DEF h
<1>5. /\ encode(p) \in Seq(Byte) /\ Len(encode(p)) = 4 + n
      /\ \A i \in 1 .. 4 + n : encode(p)[i] = IF i <= 4 THEN h[i] ELSE p[i - 4]
  <2>1. p \in Seq(Byte) /\ Len(p) = n
    BY DEF n
  <2>2. PICK c : c = h \o p
    BY Zenon
  <2>3. /\ c \in Seq(Byte) /\ Len(c) = Len(h) + Len(p)
        /\ \A i \in 1 .. Len(h) + Len(p) : c[i] = IF i <= Len(h) THEN h[i] ELSE p[i - Len(h)]
    BY <1>4, <2>1, <2>2, ConcatProperties, Zenon
  <2> QED
    BY <1>2, <1>4, <2>1, <2>2, <2>3
<1>6. /\ u \in Seq(Byte) /\ Len(s) \in Nat /\ Len(u) = Len(s) + 4 + n
      /\ \A i \in 1 .. 4 + n : u[Len(s) + i] = encode(p)[i]
  <2>1. /\ u \in Seq(Byte) /\ Len(s) \in Nat /\ Len(u) = Len(s) + Len(encode(p))
        /\ \A i \in 1 .. Len(s) + Len(encode(p)) :
                u[i] = IF i <= Len(s) THEN s[i] ELSE encode(p)[i - Len(s)]
    <3>1. encode(p) \in Seq(Byte) /\ Len(s) \in Nat
      BY <1>5
    <3> QED
      BY <3>1, ConcatProperties, Zenon
  <2> HIDE DEF u
  <2>2. ASSUME NEW i \in 1 .. 4 + n PROVE u[Len(s) + i] = encode(p)[i]
    <3>1. /\ Len(s) + i \in 1 .. Len(s) + Len(encode(p)) /\ ~ (Len(s) + i <= Len(s))
          /\ (Len(s) + i) - Len(s) = i
      BY <1>1, <1>5, <2>1
    <3> QED
      BY <2>1, <3>1
  <2> QED
    BY <1>1, <1>5, <2>1, <2>2
<1> HIDE DEF u
<1>7. LengthAt(u, Len(s)) = n
  <2>1. /\ 1 \in 1 .. 4 + n /\ 2 \in 1 .. 4 + n /\ 3 \in 1 .. 4 + n /\ 4 \in 1 .. 4 + n
        /\ 1 <= 4 /\ 2 <= 4 /\ 3 <= 4 /\ 4 <= 4
    BY <1>1
  <2>2. /\ u[Len(s) + 1] = w /\ u[Len(s) + 2] = x /\ u[Len(s) + 3] = y /\ u[Len(s) + 4] = z
    BY <1>4, <1>5, <1>6, <2>1
  <2> QED
    BY <1>3, <2>2 DEF LengthAt
<1>8. FrameAt(u, Len(s))
  <2>1. Len(u) - Len(s) = 4 + n
    BY <1>1, <1>6
  <2> QED
    BY <1>1, <1>7, <2>1 DEF FrameAt, HeaderAt, HeaderSize
<1>9. PayloadAt(u, Len(s)) = p
  <2> DEFINE lo == Len(s) + 4
             hi == Len(s) + 4 + n
             v  == SubSeq(u, lo + 1, hi)
  <2>1. lo \in Nat /\ hi \in Nat /\ lo <= hi /\ hi <= Len(u) /\ hi - lo = n
    BY <1>1, <1>6
  <2>2. v \in Seq(Byte) /\ Len(v) = n /\ \A k \in 1 .. n : v[k] = u[lo + k]
    <3> HIDE DEF lo, hi
    <3> QED
      BY <1>6, <2>1, SliceProperties
  <2>3. ASSUME NEW k \in 1 .. n PROVE v[k] = p[k]
    <3>1. /\ 4 + k \in 1 .. 4 + n /\ ~ (4 + k <= 4) /\ (4 + k) - 4 = k
          /\ lo + k = Len(s) + (4 + k)
      BY <1>1, <1>6
    <3>2. u[lo + k] = p[k]
      BY <1>5, <1>6, <3>1
    <3> QED
      BY <2>2, <3>2
  <2> HIDE DEF v
  <2>4. v = p
    BY <2>2, <2>3, SeqEqual DEF n
  <2> QED
    BY <1>7, <2>4 DEF PayloadAt, HeaderSize, v
<1> QED
  BY <1>5, <1>7, <1>8, <1>9 DEF u, n

\* The payloads are those of the first frames of s, of which frame i ends after
\* the first e[i] bytes.
Marks(s, payloads, e) ==
    /\ e \in [0 .. Len(payloads) -> Nat]
    /\ e[0] = 0
    /\ \A i \in 1 .. Len(payloads) :
            /\ FrameAt(s, e[i - 1])
            /\ e[i] = e[i - 1] + 4 + LengthAt(s, e[i - 1])
            /\ payloads[i] = PayloadAt(s, e[i - 1])

\* Bytes that follow leave the frames where they are.
LEMMA MarksKept ==
    ASSUME NEW s \in Seq(Byte), NEW t \in Seq(Byte), NEW q \in Seq(Seq(Byte)), NEW e, Marks(s, q, e)
    PROVE  Marks(s \o t, q, e)
<1>1. Len(q) \in Nat
  OBVIOUS
<1>2. ASSUME NEW i \in 1 .. Len(q)
      PROVE  /\ FrameAt(s \o t, e[i - 1])
             /\ e[i] = e[i - 1] + 4 + LengthAt(s \o t, e[i - 1])
             /\ q[i] = PayloadAt(s \o t, e[i - 1])
  <2>1. PICK at \in Nat : at = e[i - 1]
    <3>1. i - 1 \in 0 .. Len(q)
      BY <1>1
    <3> QED
      BY <3>1, Zenon DEF Marks
  <2>2. FrameAt(s, at) /\ e[i] = at + 4 + LengthAt(s, at) /\ q[i] = PayloadAt(s, at)
    BY <2>1 DEF Marks
  <2>3. HeaderAt(s, at)
    BY <2>2 DEF FrameAt
  <2>4. /\ FrameAt(s \o t, at) /\ LengthAt(s \o t, at) = LengthAt(s, at)
        /\ PayloadAt(s \o t, at) = PayloadAt(s, at)
    BY <2>2, <2>3, FrameKept
  <2> QED
    BY <2>1, <2>2, <2>4
<1> QED
  BY <1>2 DEF Marks

\* A complete frame behind the others is the next one.
LEMMA MarksMore ==
    ASSUME NEW s \in Seq(Byte), NEW q \in Seq(Seq(Byte)), NEW e, Marks(s, q, e),
           FrameAt(s, e[Len(q)])
    PROVE  \E f : /\ Marks(s, Append(q, PayloadAt(s, e[Len(q)])), f)
                  /\ f[Len(q) + 1] = e[Len(q)] + 4 + LengthAt(s, e[Len(q)])
                  /\ \A i \in 0 .. Len(q) : f[i] = e[i]
<1>1. PICK n \in Nat : n = Len(q)
  OBVIOUS
<1>2. e \in [0 .. n -> Nat] /\ n \in 0 .. n
  BY <1>1 DEF Marks
<1>3. PICK at \in Nat : at = e[n]
  BY <1>2
<1>4. FrameAt(s, at)
  BY <1>1, <1>3
<1>5. PICK m \in Nat : m = at + 4 + LengthAt(s, at)
  <2>1. LengthAt(s, at) \in Nat
    BY <1>4, LengthNat DEF FrameAt
  <2> QED
    BY <2>1
<1>6. PICK p : p = PayloadAt(s, at)
  OBVIOUS
<1> DEFINE f == [i \in 0 .. n + 1 |-> IF i = n + 1 THEN m ELSE e[i]]
           a == Append(q, p)
<1>7. /\ Len(a) = n + 1 /\ a[n + 1] = p
      /\ \A i \in 1 .. n : a[i] = q[i]
  BY <1>1
<1>8. /\ f \in [0 .. n + 1 -> Nat] /\ f[n + 1] = m
      /\ \A i \in 0 .. n : f[i] = e[i]
  BY <1>2
<1> HIDE DEF f, a
<1>9. ASSUME NEW i \in 1 .. n + 1
      PROVE  /\ FrameAt(s, f[i - 1])
             /\ f[i] = f[i - 1] + 4 + LengthAt(s, f[i - 1])
             /\ a[i] = PayloadAt(s, f[i - 1])
  <2>1. CASE i = n + 1
    <3>1. f[i - 1] = at /\ f[i] = m /\ a[i] = p
      BY <1>2, <1>3, <1>7, <1>8, <2>1
    <3> QED
      BY <1>4, <1>5, <1>6, <3>1
  <2>2. CASE i # n + 1
    <3>1. i \in 1 .. n /\ i \in 0 .. n /\ i - 1 \in 0 .. n
      BY <2>2
    <3>2. f[i - 1] = e[i - 1] /\ f[i] = e[i] /\ a[i] = q[i]
      BY <1>7, <1>8, <3>1
    <3> QED
      BY <1>1, <3>1, <3>2 DEF Marks
  <2> QED
    BY <2>1, <2>2
<1>10. f[0] = 0
  BY <1>2, <1>8 DEF Marks
<1>11. Marks(s, a, f)
  BY <1>7, <1>8, <1>9, <1>10 DEF Marks
<1> QED
  BY <1>1, <1>3, <1>5, <1>6, <1>8, <1>11, Zenon DEF a

\* There are no more frames than bytes in them.
LEMMA MarksGrow ==
    ASSUME NEW s \in Seq(Byte), NEW q \in Seq(Seq(Byte)), NEW e, Marks(s, q, e)
    PROVE  e[Len(q)] \in Nat /\ Len(q) <= e[Len(q)]
<1>1. Len(q) \in Nat /\ e \in [0 .. Len(q) -> Nat]
  BY DEF Marks
<1> DEFINE T == {n \in Nat : n <= Len(q) => n <= e[n]}
<1>2. 0 \in T
  BY DEF Marks
<1>3. ASSUME NEW n \in T PROVE n + 1 \in T
  <2>1. n \in Nat /\ n + 1 \in Nat
    OBVIOUS
  <2>2. ASSUME n + 1 <= Len(q) PROVE n + 1 <= e[n + 1]
    <3>1. n + 1 \in 1 .. Len(q) /\ (n + 1) - 1 = n /\ n \in 0 .. Len(q)
      BY <1>1, <2>1, <2>2
    <3>2. PICK at \in Nat : at = e[n]
      BY <1>1, <3>1, Zenon
    <3>3. n <= at
      BY <1>1, <2>1, <2>2, <3>2
    <3>4. FrameAt(s, at) /\ e[n + 1] = at + 4 + LengthAt(s, at)
      BY <3>1, <3>2 DEF Marks
    <3>5. LengthAt(s, at) \in Nat
      BY <3>4, LengthNat DEF FrameAt
    <3> QED
      BY <2>1, <3>3, <3>4, <3>5
  <2> QED
    BY <2>1, <2>2
<1> HIDE DEF T
<1>4. T = Nat
  <2>1. T \in SUBSET Nat
    BY DEF T
  <2> QED
    BY <1>2, <1>3, <2>1, NatSetInduction, Zenon
<1>5. Len(q) \in T
  BY <1>1, <1>4
<1> QED
  BY <1>1, <1>5 DEF T

\* The reference finds the frames that are there.
LEMMA MarksAreEnds ==
    ASSUME NEW s \in Seq(Byte), NEW q \in Seq(Seq(Byte)), NEW e, Marks(s, q, e), Len(q) <= Len(s)
    PROVE  \A n \in 0 .. Len(q) : Ends(s)[n] = e[n]
<1>1. Len(q) \in Nat /\ Len(s) \in Nat /\ e \in [0 .. Len(q) -> Nat]
  BY DEF Marks
<1>2. ASSUME NEW n \in 0 .. Len(s) PROVE Ends(s)[n] = Following(s, Ends(s), n)
  <2>1. Ends(s) = [i \in 0 .. Len(s) |-> Following(s, Ends(s), i)]
    BY <1>1, EndsEquation
  <2> DEFINE g == [i \in 0 .. Len(s) |-> Following(s, Ends(s), i)]
  <2>2. g[n] = Following(s, Ends(s), n)
    OBVIOUS
  <2> HIDE DEF g
  <2>3. Ends(s)[n] = g[n]
    BY <2>1, Zenon DEF g
  <2> QED
    BY <2>2, <2>3
<1> DEFINE T == {n \in Nat : n <= Len(q) => Ends(s)[n] = e[n]}
<1>3. 0 \in T
  <2>1. Ends(s)[0] = 0
    <3>1. 0 \in 0 .. Len(s)
      BY <1>1
    <3> QED
      BY <1>2, <3>1 DEF Following
  <2> QED
    BY <2>1 DEF Marks
<1>4. ASSUME NEW n \in T PROVE n + 1 \in T
  <2>1. n \in Nat /\ n + 1 \in Nat
    OBVIOUS
  <2>2. ASSUME n + 1 <= Len(q) PROVE Ends(s)[n + 1] = e[n + 1]
    <3>1. /\ n + 1 \in 1 .. Len(q) /\ (n + 1) - 1 = n /\ n \in 0 .. Len(q) /\ n <= Len(q)
          /\ n + 1 \in 0 .. Len(s) /\ n + 1 # 0
      BY <1>1, <2>1, <2>2
    <3>2. PICK at \in Nat : at = e[n]
      BY <1>1, <3>1, Zenon
    <3>3. Ends(s)[n] = at
      BY <3>1, <3>2
    <3>4. FrameAt(s, at) /\ e[n + 1] = at + 4 + LengthAt(s, at)
      BY <3>1, <3>2 DEF Marks
    <3>5. Complete(s, at) /\ Announced(s, at) = LengthAt(s, at)
      BY <3>4, SameHeader
    <3>6. Ends(s)[n + 1] = at + 4 + Announced(s, at)
      <4>1. Ends(s)[n + 1] = Following(s, Ends(s), n + 1)
        BY <1>2, <3>1
      <4> QED
        BY <3>1, <3>3, <3>5, <4>1 DEF Following
    <3> QED
      BY <3>4, <3>5, <3>6
  <2> QED
    BY <2>1, <2>2
<1> HIDE DEF T
<1>5. T = Nat
  <2>1. T \in SUBSET Nat
    BY DEF T
  <2> QED
    BY <1>3, <1>4, <2>1, NatSetInduction, Zenon
<1>6. ASSUME NEW n \in 0 .. Len(q) PROVE Ends(s)[n] = e[n]
  <2>1. n \in T /\ n <= Len(q)
    BY <1>1, <1>5
  <2> QED
    BY <2>1 DEF T
<1> QED
  BY <1>6

-----------------------------------------------------------------------------
(* The channel: the invariant *)

\* The bytes the sender has written: those received and those on the way.
Written == received \o wire

\* The sender has written the frames of its messages one after the other, and
\* then at most a header's worth of something else; the decoder stands where the
\* last frame that it handed out ends.
Carried(e) ==
    /\ Marks(Written, sent, e)
    /\ e[Len(frames)] = Position
    /\ Len(Written) \in e[Len(sent)] .. e[Len(sent)] + (IF foreign THEN 4 ELSE 0)

(* The inductive invariant of the channel.                                     *)
ChannelInv ==
    /\ IInv
    /\ ChannelTypeOK
    /\ \E c : Marks(received, frames, c) /\ c[Len(frames)] = Position
    /\ Len(frames) <= Len(sent)
    /\ \A i \in 1 .. Len(frames) : frames[i] = sent[i]
    /\ \E e : Carried(e)
    /\ phase = "failed" => foreign /\ BadHeaderAt(received, Position)
    /\ phase \in {"read", "closed"} =>
            ~FrameAt(received, Position) /\ ~BadHeaderAt(received, Position)

\* What the types of the channel give.
LEMMA ChannelTypes ==
    ASSUME ChannelInv
    PROVE  /\ received \in Seq(Byte) /\ wire \in Seq(Byte) /\ Written \in Seq(Byte)
           /\ frames \in Seq(Seq(Byte)) /\ sent \in Seq(Seq(Byte))
           /\ Len(received) \in Nat /\ Len(wire) \in Nat /\ Len(frames) \in Nat /\ Len(sent) \in Nat
           /\ Len(Written) = Len(received) + Len(wire)
           /\ Position \in Nat /\ Position <= Len(received)
<1>1. /\ received \in Seq(Byte) /\ wire \in Seq(Byte)
      /\ frames \in Seq(Seq(Byte)) /\ sent \in Seq(Seq(Byte))
  BY DEF ChannelInv, ChannelTypeOK, TypeOK
<1>2. Written \in Seq(Byte) /\ Len(Written) = Len(received) + Len(wire)
  BY <1>1, ConcatProperties DEF Written
<1>3. Position \in Nat /\ Position <= Len(received)
  BY AtPosition DEF ChannelInv
<1> QED
  BY <1>1, <1>2, <1>3

\* While a message is outstanding, the next frame of what has been written is its
\* frame; after the last one there is no complete frame.
LEMMA NextInWritten ==
    ASSUME ChannelInv, NEW e, Carried(e)
    PROVE  /\ Len(frames) < Len(sent) =>
                /\ FrameAt(Written, Position)
                /\ e[Len(frames) + 1] = Position + 4 + LengthAt(Written, Position)
                /\ sent[Len(frames) + 1] = PayloadAt(Written, Position)
           /\ Len(frames) = Len(sent) =>
                Len(Written) <= Position + (IF foreign THEN 4 ELSE 0)
<1>1. Len(frames) \in Nat /\ Len(sent) \in Nat
  BY ChannelTypes
<1>2. ASSUME Len(frames) < Len(sent)
      PROVE  /\ FrameAt(Written, Position)
             /\ e[Len(frames) + 1] = Position + 4 + LengthAt(Written, Position)
             /\ sent[Len(frames) + 1] = PayloadAt(Written, Position)
  <2>1. Len(frames) + 1 \in 1 .. Len(sent) /\ (Len(frames) + 1) - 1 = Len(frames)
    BY <1>1, <1>2
  <2>2. e[Len(frames)] = Position
    BY DEF Carried
  <2> QED
    BY <2>1, <2>2 DEF Carried, Marks
<1>3. ASSUME Len(frames) = Len(sent)
      PROVE  Len(Written) <= Position + (IF foreign THEN 4 ELSE 0)
  <2>1. e[Len(sent)] = Position /\ Position \in Nat
    BY <1>3, ChannelTypes DEF Carried
  <2> QED
    BY <2>1 DEF Carried
<1> QED
  BY <1>2, <1>3

\* A header that is complete in the part r of what has been written says the same
\* in all of it.  It is legal while a message is outstanding, so an illegal
\* one is foreign; and a complete frame is the frame of a message.
LEMMA HeaderOfMessage ==
    ASSUME ChannelInv, NEW e, Carried(e),
           NEW r \in Seq(Byte), NEW t \in Seq(Byte), Written = r \o t
    PROVE  /\ BadHeaderAt(r, Position) => foreign
           /\ FrameAt(r, Position) => Len(frames) < Len(sent)
<1>1. Len(frames) <= Len(sent) /\ Len(frames) \in Nat /\ Len(sent) \in Nat
  BY ChannelTypes DEF ChannelInv
<1>2. Position \in Nat /\ Len(r) \in Nat /\ Len(t) \in Nat /\ Len(Written) = Len(r) + Len(t)
  BY ChannelTypes, ConcatProperties
<1>3. ASSUME BadHeaderAt(r, Position) PROVE foreign
  <2>1. HeaderAt(r, Position) /\ ~Legal(LengthAt(r, Position))
    BY <1>3 DEF BadHeaderAt
  <2>2. LengthAt(Written, Position) = LengthAt(r, Position)
    BY <1>2, <2>1, FrameKept
  <2>3. ~FrameAt(Written, Position)
    BY <2>1, <2>2 DEF FrameAt
  <2>4. Len(frames) = Len(sent)
    BY <1>1, <2>3, NextInWritten
  <2>5. Len(Written) <= Position + (IF foreign THEN 4 ELSE 0)
    BY <2>4, NextInWritten
  <2>6. Len(r) - Position >= 4
    BY <2>1 DEF HeaderAt
  <2> QED
    BY <1>2, <2>5, <2>6
<1>4. ASSUME FrameAt(r, Position) PROVE Len(frames) < Len(sent)
  <2>1. PICK n \in Nat : n = LengthAt(r, Position) /\ n # 0 /\ Len(r) - Position >= 4 + n
    BY <1>2, <1>4, LengthNat DEF FrameAt, Legal
  <2>2. Len(Written) > Position + 4
    BY <1>2, <2>1
  <2>3. Len(frames) # Len(sent)
    <3> SUFFICES ASSUME Len(frames) = Len(sent) PROVE FALSE
      OBVIOUS
    <3>1. Len(Written) <= Position + (IF foreign THEN 4 ELSE 0)
      BY NextInWritten
    <3> QED
      BY <1>2, <2>2, <3>1
  <2> QED
    BY <1>1, <2>3
<1> QED
  BY <1>3, <1>4

\* Bytes may be joined in any order.
LEMMA Joined ==
    ASSUME NEW r \in Seq(Byte), NEW a \in Seq(Byte), NEW b \in Seq(Byte)
    PROVE  (r \o a) \o b = r \o (a \o b)
BY ConcatAssociative

\* And are as many as before.
LEMMA JoinedBytes ==
    ASSUME NEW a \in Seq(Byte), NEW b \in Seq(Byte)
    PROVE  a \o b \in Seq(Byte) /\ Len(a \o b) = Len(a) + Len(b)
BY ConcatProperties

\* A read takes bytes off the front of the wire and loses none.
LEMMA CutWire ==
    ASSUME NEW w \in Seq(Byte), NEW r \in Seq(Byte), NEW n \in 1 .. ReadChunk, n <= Len(w)
    PROVE  /\ SubSeq(w, 1, n) \in Chunks /\ SubSeq(w, 1, n) \in Seq(Byte)
           /\ SubSeq(w, n + 1, Len(w)) \in Seq(Byte)
           /\ (r \o SubSeq(w, 1, n)) \o SubSeq(w, n + 1, Len(w)) = r \o w
<1> DEFINE m == Len(w)
           a == SubSeq(w, 1, n)
           b == SubSeq(w, n + 1, m)
<1>1. m \in Nat /\ n \in Nat /\ n <= m /\ 0 \in Nat /\ 0 + 1 = 1 /\ n - 0 = n
  BY FramingAssumption
<1>2. a \in Seq(Byte) /\ Len(a) = n /\ \A k \in 1 .. n : a[k] = w[0 + k]
  <2>1. /\ SubSeq(w, 0 + 1, n) \in Seq(Byte) /\ Len(SubSeq(w, 0 + 1, n)) = n - 0
        /\ \A k \in 1 .. n - 0 : SubSeq(w, 0 + 1, n)[k] = w[0 + k]
    <3>1. 0 <= n
      BY <1>1
    <3> QED
      BY <1>1, <3>1, SliceProperties
  <2> QED
    BY <1>1, <2>1
<1>3. b \in Seq(Byte) /\ Len(b) = m - n /\ \A k \in 1 .. m - n : b[k] = w[n + k]
  <2>1. m <= Len(w)
    BY <1>1
  <2> QED
    BY <1>1, <2>1, SliceProperties
<1> HIDE DEF a, b
<1>4. a \o b = w
  <2>1. PICK c : c = a \o b
    BY Zenon
  <2>2. /\ c \in Seq(Byte) /\ Len(c) = Len(a) + Len(b)
        /\ \A i \in 1 .. Len(a) + Len(b) : c[i] = IF i <= Len(a) THEN a[i] ELSE b[i - Len(a)]
    BY <1>2, <1>3, <2>1, ConcatProperties, Zenon
  <2>3. Len(c) = m
    BY <1>1, <1>2, <1>3, <2>2
  <2>4. ASSUME NEW i \in 1 .. m PROVE c[i] = w[i]
    <3>1. c[i] = IF i <= n THEN a[i] ELSE b[i - n]
      BY <1>1, <1>2, <1>3, <2>2
    <3>2. CASE i <= n
      BY <1>1, <1>2, <3>1, <3>2
    <3>3. CASE ~ (i <= n)
      <4>1. i - n \in 1 .. m - n /\ n + (i - n) = i
        BY <1>1, <3>3
      <4> QED
        BY <1>3, <3>1, <3>3, <4>1
    <3> QED
      BY <3>2, <3>3
  <2> QED
    BY <2>1, <2>2, <2>3, <2>4, SeqEqual, Zenon
<1>5. (r \o a) \o b = r \o w
  <2>1. a \in Seq(Byte) /\ b \in Seq(Byte)
    BY <1>2, <1>3
  <2>2. (r \o a) \o b = r \o (a \o b)
    BY <2>1, Joined, Zenon
  <2> QED
    BY <1>4, <2>2
<1>6. a \in Chunks
  <2>1. a \in [1 .. n -> Byte]
    BY <1>2
  <2> QED
    BY <2>1 DEF Chunks
<1> QED
  BY <1>2, <1>3, <1>5, <1>6, Zenon DEF a, b

\* The channel drives the decoder only by calls on it, so its invariant is kept.
LEMMA DecoderInChannel ==
    ASSUME ChannelInv, [ChannelNext]_channelVars
    PROVE  [Next]_vars /\ IInv'
<1>1. IInv /\ wire \in Seq(Byte) /\ received \in Seq(Byte)
  BY ChannelTypes DEF ChannelInv
<1>2. [Next]_vars
  <2>1. CASE ReadSome
    <3>1. PICK n \in 1 .. ReadChunk : Read(n)
      BY <2>1 DEF ReadSome
    <3>2. SubSeq(wire, 1, n) \in Chunks
      BY <1>1, <3>1, CutWire, Zenon DEF Read
    <3> QED
      BY <3>1, <3>2 DEF Read, Next
  <2>2. CASE \/ \E p \in Sendable : Send(p)
             \/ \E n \in 1 .. 4 : \E bs \in [1 .. n -> Byte] : SendForeign(bs)
    BY <2>2 DEF Send, SendForeign
  <2>3. CASE Decode
    BY <2>3 DEF Decode, Next
  <2>4. CASE ReadNothing
    BY <2>4 DEF ReadNothing, Next
  <2>5. CASE Reconnect
    BY <2>5 DEF Reconnect, Next
  <2>6. CASE UNCHANGED channelVars
    BY <2>6 DEF channelVars
  <2> QED
    BY <2>1, <2>2, <2>3, <2>4, <2>5, <2>6 DEF ChannelNext
<1> QED
  BY <1>1, <1>2, InvStep

\* A new connection.
LEMMA ChannelInitially ==
    ASSUME ChannelInit
    PROVE  ChannelInv
<1>1. IInv
  BY InitInv DEF ChannelInit
<1>2. /\ buffer = <<>> /\ consumed = 0 /\ phase = "pull" /\ received = <<>> /\ frames = <<>>
      /\ sent = <<>> /\ wire = <<>> /\ foreign = FALSE
  BY DEF ChannelInit, Init
<1>3. ChannelTypeOK
  <2>1. TypeOK
    BY <1>1 DEF IInv
  <2>2. <<>> \in Seq(Seq(Byte)) /\ <<>> \in Seq(Byte) /\ FALSE \in BOOLEAN
    OBVIOUS
  <2> QED
    BY <1>2, <2>1, <2>2, Zenon DEF ChannelTypeOK
<1>4. Position = 0 /\ Written = <<>> /\ Len(<<>>) = 0
  BY <1>2 DEF Position, Available, Written
<1> DEFINE c == [i \in {0} |-> 0]
<1>5. \A s : Marks(s, <<>>, c)
  BY DEF Marks
<1>6. c[0] = 0
  OBVIOUS
<1> HIDE DEF c
<1>7. Carried(c)
  BY <1>2, <1>4, <1>5, <1>6 DEF Carried
<1> QED
  BY <1>1, <1>2, <1>3, <1>4, <1>5, <1>6, <1>7 DEF ChannelInv

\* encode() appends the frame of one more message to what has been written.
LEMMA SendStep ==
    ASSUME ChannelInv, IInv', NEW p \in Sendable, Send(p)
    PROVE  ChannelInv'
<1>1. /\ sent' = Append(sent, p) /\ wire' = wire \o encode(p) /\ Encodable(p) /\ ~foreign
      /\ phase # "closed" /\ UNCHANGED <<buffer, consumed, phase, received, frames, foreign>>
  BY DEF Send, vars
<1>2. /\ received \in Seq(Byte) /\ wire \in Seq(Byte) /\ Written \in Seq(Byte)
      /\ frames \in Seq(Seq(Byte)) /\ sent \in Seq(Seq(Byte))
      /\ Len(frames) \in Nat /\ Len(sent) \in Nat /\ Len(Written) \in Nat /\ Position \in Nat
      /\ Len(frames) <= Len(sent)
  BY ChannelTypes DEF ChannelInv
<1>3. p \in Seq(Byte)
  BY ChannelAssumption
<1>4. PICK f : f = encode(p) /\ f \in Seq(Byte) /\ Len(f) = 4 + Len(p)
  BY <1>1, <1>2, <1>3, EncodedFrame
<1>5. PICK w : w = Written \o f
  BY Zenon
<1>6. Written' = w
  <2>1. Written' = received \o (wire \o f)
    BY <1>1, <1>4 DEF Written
  <2> QED
    BY <1>2, <1>4, <1>5, <2>1, Joined, Zenon DEF Written
<1>7. w \in Seq(Byte) /\ Len(w) = Len(Written) + 4 + Len(p) /\ Len(p) \in Nat
  <2>1. w \in Seq(Byte) /\ Len(w) = Len(Written) + Len(f)
    BY <1>2, <1>4, <1>5, JoinedBytes, Zenon
  <2>2. Len(p) \in Nat
    BY <1>3
  <2> QED
    BY <1>2, <1>4, <2>1, <2>2
<1>8. FrameAt(w, Len(Written)) /\ LengthAt(w, Len(Written)) = Len(p) /\ PayloadAt(w, Len(Written)) = p
  BY <1>1, <1>2, <1>3, <1>4, <1>5, EncodedFrame
<1>9. PICK e : Carried(e)
  BY DEF ChannelInv
<1>10. Marks(w, sent, e)
  BY <1>2, <1>4, <1>5, <1>9, MarksKept DEF Carried
<1>11. e[Len(sent)] = Len(Written) /\ e[Len(frames)] = Position
  <2>1. e[Len(sent)] \in Nat
    <3>1. Len(sent) \in 0 .. Len(sent)
      BY <1>2
    <3> QED
      BY <1>10, <3>1 DEF Marks
  <2>2. Len(Written) \in e[Len(sent)] .. e[Len(sent)] + 0
    BY <1>1, <1>9 DEF Carried
  <2> QED
    BY <1>2, <1>9, <2>1, <2>2 DEF Carried
<1>12. PICK g : /\ Marks(w, Append(sent, p), g)
                /\ g[Len(sent) + 1] = Len(Written) + 4 + Len(p)
                /\ \A i \in 0 .. Len(sent) : g[i] = e[i]
  <2>1. FrameAt(w, e[Len(sent)]) /\ PayloadAt(w, e[Len(sent)]) = p
    BY <1>8, <1>11
  <2>2. PICK g : /\ Marks(w, Append(sent, PayloadAt(w, e[Len(sent)])), g)
                 /\ g[Len(sent) + 1] = e[Len(sent)] + 4 + LengthAt(w, e[Len(sent)])
                 /\ \A i \in 0 .. Len(sent) : g[i] = e[i]
    BY <1>2, <1>7, <1>10, <2>1, MarksMore
  <2> QED
    BY <1>8, <1>11, <2>1, <2>2, Zenon
<1>13. Len(sent') = Len(sent) + 1 /\ sent' \in Seq(Seq(Byte))
       /\ \A i \in 1 .. Len(sent) : sent'[i] = sent[i]
  BY <1>1, <1>2, <1>3
<1>14. Position' = Position
  BY <1>1 DEF Position, Available
<1>15. Carried(g)'
  <2>1. Marks(Written', sent', g)
    BY <1>1, <1>6, <1>12
  <2>2. g[Len(frames')] = Position'
    <3>1. Len(frames) \in 0 .. Len(sent)
      BY <1>2
    <3> QED
      BY <1>1, <1>11, <1>12, <1>14, <3>1
  <2>3. g[Len(sent')] = Len(Written') /\ Len(Written') \in Nat
    BY <1>6, <1>7, <1>12, <1>13
  <2>4. Len(Written') \in g[Len(sent')] .. g[Len(sent')] + (IF foreign' THEN 4 ELSE 0)
    BY <2>3
  <2> QED
    BY <2>1, <2>2, <2>4 DEF Carried
<1>16. ChannelTypeOK'
  <2>1. wire' \in Seq(Byte)
    BY <1>1, <1>2, <1>4, JoinedBytes
  <2> QED
    BY <1>1, <1>13, <2>1 DEF IInv, ChannelInv, ChannelTypeOK
<1>17. \E c : Marks(received', frames', c) /\ c[Len(frames')] = Position'
  BY <1>1, <1>14 DEF ChannelInv
<1>18. Len(frames') <= Len(sent') /\ \A i \in 1 .. Len(frames') : frames'[i] = sent'[i]
  <2>1. Len(frames) <= Len(sent) /\ \A i \in 1 .. Len(frames) : frames[i] = sent[i] /\ i \in 1 .. Len(sent)
    BY <1>2 DEF ChannelInv
  <2> QED
    BY <1>1, <1>2, <1>13, <2>1
<1>19. /\ phase' = "failed" => foreign' /\ BadHeaderAt(received', Position')
       /\ phase' \in {"read", "closed"} =>
            ~FrameAt(received', Position') /\ ~BadHeaderAt(received', Position')
  BY <1>1, <1>14 DEF ChannelInv
<1> QED
  BY <1>15, <1>16, <1>17, <1>18, <1>19 DEF ChannelInv

\* A peer that does not use encode() adds at most a header.
LEMMA SendForeignStep ==
    ASSUME ChannelInv, IInv', NEW n \in 1 .. 4, NEW bs \in [1 .. n -> Byte], SendForeign(bs)
    PROVE  ChannelInv'
<1>1. /\ wire' = wire \o bs /\ ~foreign /\ foreign' = TRUE
      /\ phase # "closed" /\ UNCHANGED <<buffer, consumed, phase, received, frames, sent>>
  BY DEF SendForeign, vars
<1>2. /\ received \in Seq(Byte) /\ wire \in Seq(Byte) /\ Written \in Seq(Byte)
      /\ sent \in Seq(Seq(Byte)) /\ Len(sent) \in Nat /\ Len(Written) \in Nat
  BY ChannelTypes
<1>3. bs \in Seq(Byte) /\ Len(bs) = n
  OBVIOUS
<1>4. PICK w : w = Written \o bs
  BY Zenon
<1>5. Written' = w
  <2>1. Written' = received \o (wire \o bs)
    BY <1>1 DEF Written
  <2> QED
    BY <1>2, <1>3, <1>4, <2>1, Joined, Zenon DEF Written
<1>6. Len(w) = Len(Written) + n
  BY <1>2, <1>3, <1>4, JoinedBytes
<1>7. PICK e : Carried(e)
  BY DEF ChannelInv
<1>8. Position' = Position
  BY <1>1 DEF Position, Available
<1>9. Carried(e)'
  <2>1. Marks(w, sent, e)
    BY <1>2, <1>3, <1>4, <1>7, MarksKept DEF Carried
  <2>2. e[Len(sent)] \in Nat
    BY <1>2, <2>1 DEF Marks
  <2>3. Len(Written) = e[Len(sent)]
    <3>1. Len(Written) \in e[Len(sent)] .. e[Len(sent)] + 0
      BY <1>1, <1>7 DEF Carried
    <3> QED
      BY <1>2, <2>2, <3>1
  <2>4. Len(w) \in e[Len(sent)] .. e[Len(sent)] + 4
    <3>1. PICK k \in Nat : k = e[Len(sent)] /\ Len(w) = k + n
      BY <1>6, <2>2, <2>3
    <3>2. k + n \in k .. k + 4
      OBVIOUS
    <3> QED
      BY <3>1, <3>2
  <2>5. e[Len(frames)] = Position
    BY <1>7 DEF Carried
  <2> QED
    BY <1>1, <1>5, <1>8, <2>1, <2>4, <2>5 DEF Carried
<1>10. ChannelTypeOK'
  <2>1. wire' \in Seq(Byte)
    BY <1>1, <1>2, <1>3, JoinedBytes
  <2> QED
    BY <1>1, <1>2, <2>1 DEF IInv, ChannelTypeOK
<1>11. /\ \E c : Marks(received', frames', c) /\ c[Len(frames')] = Position'
       /\ Len(frames') <= Len(sent') /\ \A i \in 1 .. Len(frames') : frames'[i] = sent'[i]
  BY <1>1, <1>8 DEF ChannelInv
<1>12. /\ phase' = "failed" => foreign' /\ BadHeaderAt(received', Position')
       /\ phase' \in {"read", "closed"} =>
            ~FrameAt(received', Position') /\ ~BadHeaderAt(received', Position')
  BY <1>1, <1>8 DEF ChannelInv
<1> QED
  BY <1>9, <1>10, <1>11, <1>12 DEF ChannelInv

\* next_frame() hands out the frame of the next message.
LEMMA HandOutStep ==
    ASSUME ChannelInv, IInv', NextFrame, UNCHANGED <<sent, wire, foreign>>
    PROVE  ChannelInv'
<1>1. phase = "pull" /\ UNCHANGED <<phase, received, sent, wire, foreign>> /\ Written' = Written
  BY DEF NextFrame, Written
<1>2. /\ received \in Seq(Byte) /\ wire \in Seq(Byte) /\ Position \in Nat
      /\ frames \in Seq(Seq(Byte)) /\ sent \in Seq(Seq(Byte))
      /\ Len(frames) \in Nat /\ Len(sent) \in Nat
  BY ChannelTypes
<1>3. /\ FrameAt(received, Position)
      /\ frames' = Append(frames, PayloadAt(received, Position))
      /\ Position' = Position + 4 + LengthAt(received, Position)
  BY NextFrameInStream DEF ChannelInv
<1>4. PICK e : Carried(e)
  BY DEF ChannelInv
<1>5. Len(frames) < Len(sent)
  BY <1>2, <1>3, <1>4, HeaderOfMessage, Zenon DEF Written
<1>6. /\ LengthAt(Written, Position) = LengthAt(received, Position)
      /\ PayloadAt(Written, Position) = PayloadAt(received, Position)
  <2>1. HeaderAt(received, Position)
    BY <1>3 DEF FrameAt
  <2> QED
    BY <1>2, <1>3, <2>1, FrameKept DEF Written
<1>7. /\ e[Len(frames) + 1] = Position'
      /\ sent[Len(frames) + 1] = PayloadAt(received, Position)
  BY <1>3, <1>4, <1>5, <1>6, NextInWritten
<1>8. PICK m, x : m \in Nat /\ m = Len(frames) /\ x = PayloadAt(received, Position)
  BY <1>2
<1>9. /\ Len(frames') = m + 1 /\ frames'[m + 1] = x
      /\ \A i \in 1 .. m : frames'[i] = frames[i]
  BY <1>2, <1>3, <1>8
<1>10. Carried(e)'
  <2>1. e[Len(frames')] = Position'
    BY <1>7, <1>8, <1>9
  <2> QED
    BY <1>1, <1>4, <2>1 DEF Carried
<1>11. Len(frames') <= Len(sent') /\ \A i \in 1 .. Len(frames') : frames'[i] = sent'[i]
  <2>1. Len(frames') <= Len(sent')
    BY <1>1, <1>2, <1>5, <1>8, <1>9
  <2>2. ASSUME NEW i \in 1 .. Len(frames') PROVE frames'[i] = sent'[i]
    <3>1. i \in 1 .. m \/ i = m + 1
      <4>1. m \in Nat /\ Len(frames') = m + 1
        BY <1>8, <1>9, Zenon
      <4> QED
        BY <4>1
    <3>2. i \in 1 .. m => frames[i] = sent[i]
      BY <1>8 DEF ChannelInv
    <3> QED
      BY <1>1, <1>7, <1>8, <1>9, <3>1, <3>2
  <2> QED
    BY <2>1, <2>2
<1>12. \E c : Marks(received', frames', c) /\ c[Len(frames')] = Position'
  <2>1. PICK c : Marks(received, frames, c) /\ c[Len(frames)] = Position
    BY DEF ChannelInv
  <2>2. PICK g : /\ Marks(received, Append(frames, PayloadAt(received, c[Len(frames)])), g)
                 /\ g[Len(frames) + 1] = c[Len(frames)] + 4 + LengthAt(received, c[Len(frames)])
                 /\ \A i \in 0 .. Len(frames) : g[i] = c[i]
    <3>1. FrameAt(received, c[Len(frames)])
      BY <1>3, <2>1
    <3> QED
      <4>1. received \in Seq(Byte) /\ frames \in Seq(Seq(Byte)) /\ Marks(received, frames, c)
        BY <1>2, <2>1
      <4> QED
        BY <3>1, <4>1, MarksMore
  <2>3. Marks(received', frames', g) /\ g[Len(frames')] = Position'
    BY <1>1, <1>3, <1>8, <1>9, <2>1, <2>2
  <2> QED
    BY <2>3
<1>13. ChannelTypeOK'
  BY <1>1 DEF IInv, ChannelInv, ChannelTypeOK
<1> QED
  BY <1>1, <1>10, <1>11, <1>12, <1>13 DEF ChannelInv

\* next_frame() returns nothing or throws, or the peer has closed the connection.
LEMMA NothingStep ==
    ASSUME ChannelInv, IInv', NextFrameThrows \/ NeedMore \/ EndOfStream,
           UNCHANGED <<sent, wire, foreign>>
    PROVE  ChannelInv'
<1>1. /\ UNCHANGED <<buffer, consumed, received, frames, sent, wire, foreign>>
      /\ Position' = Position /\ Written' = Written
  BY DEF NextFrameThrows, NeedMore, EndOfStream, Position, Available, Written
<1>2. PICK e : Carried(e)
  BY DEF ChannelInv
<1>3. Carried(e)'
  BY <1>1, <1>2 DEF Carried
<1>4. /\ \E c : Marks(received', frames', c) /\ c[Len(frames')] = Position'
      /\ Len(frames') <= Len(sent') /\ \A i \in 1 .. Len(frames') : frames'[i] = sent'[i]
  BY <1>1 DEF ChannelInv
<1>5. ChannelTypeOK'
  BY <1>1 DEF IInv, ChannelInv, ChannelTypeOK
<1>6. /\ phase' = "failed" => foreign /\ BadHeaderAt(received, Position)
      /\ phase' \in {"read", "closed"} =>
            ~FrameAt(received, Position) /\ ~BadHeaderAt(received, Position)
  <2>1. CASE NextFrameThrows
    <3>1. BadHeaderAt(received, Position)
      BY <2>1, ThrowsInStream DEF ChannelInv
    <3>2. foreign
      BY <1>2, <3>1, ChannelTypes, HeaderOfMessage, Zenon DEF Written
    <3>3. phase' = "failed"
      BY <2>1 DEF NextFrameThrows
    <3> QED
      BY <3>1, <3>2, <3>3
  <2>2. CASE NeedMore
    <3>1. ~FrameAt(received, Position) /\ ~BadHeaderAt(received, Position)
      BY <2>2, NothingToHandOut DEF ChannelInv
    <3>2. phase' = "read"
      BY <2>2 DEF NeedMore
    <3> QED
      BY <3>1, <3>2
  <2>3. CASE EndOfStream
    <3>1. ~FrameAt(received, Position) /\ ~BadHeaderAt(received, Position)
      BY <2>3, NothingToHandOut DEF ChannelInv, EndOfStream
    <3>2. phase' = "closed"
      BY <2>3 DEF EndOfStream
    <3> QED
      BY <3>1, <3>2
  <2> QED
    BY <2>1, <2>2, <2>3
<1> QED
  BY <1>1, <1>3, <1>4, <1>5, <1>6 DEF ChannelInv

\* A read moves bytes from the wire to the decoder.
LEMMA ReadStep ==
    ASSUME ChannelInv, IInv', NEW n \in 1 .. ReadChunk, Read(n)
    PROVE  ChannelInv'
<1>1. PICK data, rest : data = SubSeq(wire, 1, n) /\ rest = SubSeq(wire, n + 1, Len(wire))
  BY Zenon
<1>2. /\ Feed(data) /\ wire' = rest /\ received' = received \o data
      /\ UNCHANGED <<frames, sent, foreign>>
  BY <1>1 DEF Read, Feed
<1>3. /\ received \in Seq(Byte) /\ wire \in Seq(Byte) /\ Position \in Nat
      /\ frames \in Seq(Seq(Byte)) /\ sent \in Seq(Seq(Byte))
  BY ChannelTypes
<1>4. data \in Chunks /\ data \in Seq(Byte) /\ rest \in Seq(Byte)
      /\ (received \o data) \o rest = received \o wire
  BY <1>1, <1>3, CutWire, Zenon DEF Read
<1>5. PICK r \in Seq(Byte) : r = received \o data
  BY <1>3, <1>4, JoinedBytes, Zenon
<1>6. Written' = Written /\ Written = r \o rest /\ received' = r
  BY <1>2, <1>4, <1>5, Zenon DEF Written
<1>7. /\ Position' = Position
      /\ phase' = IF BadHeaderAt(r, Position) THEN "failed" ELSE "pull"
  BY <1>2, <1>4, <1>5, FeedInStream DEF ChannelInv
<1>8. PICK e : Carried(e)
  BY DEF ChannelInv
<1>9. Carried(e)'
  BY <1>2, <1>6, <1>7, <1>8 DEF Carried
<1>10. \E c : Marks(received', frames', c) /\ c[Len(frames')] = Position'
  <2>1. PICK c : Marks(received, frames, c) /\ c[Len(frames)] = Position
    BY DEF ChannelInv
  <2>2. Marks(r, frames, c)
    BY <1>3, <1>4, <1>5, <2>1, MarksKept
  <2> QED
    BY <1>2, <1>6, <1>7, <2>1, <2>2
<1>11. Len(frames') <= Len(sent') /\ \A i \in 1 .. Len(frames') : frames'[i] = sent'[i]
  BY <1>2 DEF ChannelInv
<1>12. ChannelTypeOK'
  BY <1>2, <1>4 DEF IInv, ChannelInv, ChannelTypeOK
<1>13. /\ phase' = "failed" => foreign /\ BadHeaderAt(r, Position)
       /\ phase' \notin {"read", "closed"}
  <2>1. BadHeaderAt(r, Position) => foreign
    BY <1>4, <1>6, <1>8, HeaderOfMessage, Zenon
  <2> QED
    BY <1>7, <2>1
<1> QED
  BY <1>2, <1>6, <1>7, <1>9, <1>10, <1>11, <1>12, <1>13 DEF ChannelInv

\* Every step of the channel preserves the invariant.
LEMMA ChannelStep ==
    ASSUME ChannelInv, [ChannelNext]_channelVars
    PROVE  ChannelInv'
<1>1. IInv'
  BY DecoderInChannel
<1>2. ASSUME NEW p \in Sendable, Send(p) PROVE ChannelInv'
  BY <1>1, <1>2, SendStep
<1>3. ASSUME NEW n \in 1 .. 4, NEW bs \in [1 .. n -> Byte], SendForeign(bs) PROVE ChannelInv'
  BY <1>1, <1>3, SendForeignStep, Zenon
<1>4. CASE Decode
  <2>1. UNCHANGED <<sent, wire, foreign>> /\ (NextFrame \/ NextFrameThrows \/ NeedMore)
    BY <1>4 DEF Decode
  <2> QED
    BY <1>1, <2>1, HandOutStep, NothingStep
<1>5. CASE ReadSome
  BY <1>1, <1>5, ReadStep DEF ReadSome
<1>6. CASE ReadNothing
  <2>1. EndOfStream /\ UNCHANGED <<sent, wire, foreign>>
    BY <1>6 DEF ReadNothing
  <2> QED
    BY <1>1, <2>1, NothingStep
<1>7. CASE Reconnect
  <2>1. /\ buffer' = <<>> /\ consumed' = 0 /\ phase' = "pull" /\ received' = <<>> /\ frames' = <<>>
        /\ sent' = <<>> /\ wire' = <<>> /\ foreign' = FALSE
    BY <1>7 DEF Reconnect, Reset
  <2>2. ChannelTypeOK'
    <3>1. TypeOK'
      BY <1>1 DEF IInv
    <3>2. <<>> \in Seq(Seq(Byte)) /\ <<>> \in Seq(Byte) /\ FALSE \in BOOLEAN
      OBVIOUS
    <3> QED
      BY <2>1, <3>1, <3>2, Zenon DEF ChannelTypeOK
  <2>3. Position' = 0 /\ Written' = <<>> /\ Len(<<>>) = 0
    BY <2>1 DEF Position, Available, Written
  <2> DEFINE c == [i \in {0} |-> 0]
  <2>4. \A s : Marks(s, <<>>, c)
    BY DEF Marks
  <2>5. c[0] = 0
    OBVIOUS
  <2> HIDE DEF c
  <2>6. Carried(c)'
    BY <2>1, <2>3, <2>4, <2>5 DEF Carried
  <2> QED
    BY <1>1, <2>1, <2>2, <2>3, <2>4, <2>5, <2>6 DEF ChannelInv
<1>8. CASE UNCHANGED channelVars
  <2>1. UNCHANGED <<buffer, consumed, phase, received, frames, sent, wire, foreign>>
    BY <1>8 DEF channelVars, vars
  <2>2. Position' = Position /\ Written' = Written
    BY <2>1 DEF Position, Available, Written
  <2>3. PICK e : Carried(e)
    BY DEF ChannelInv
  <2>4. Carried(e)'
    BY <2>1, <2>2, <2>3 DEF Carried
  <2>5. ChannelTypeOK'
    BY <1>1, <2>1 DEF IInv, ChannelInv, ChannelTypeOK
  <2>6. /\ \E c : Marks(received', frames', c) /\ c[Len(frames')] = Position'
        /\ Len(frames') <= Len(sent') /\ \A i \in 1 .. Len(frames') : frames'[i] = sent'[i]
    BY <2>1, <2>2, Zenon DEF ChannelInv
  <2>7. /\ phase' = "failed" => foreign' /\ BadHeaderAt(received', Position')
        /\ phase' \in {"read", "closed"} =>
            ~FrameAt(received', Position') /\ ~BadHeaderAt(received', Position')
    BY <2>1, <2>2 DEF ChannelInv
  <2> QED
    BY <1>1, <2>4, <2>5, <2>6, <2>7, Zenon DEF ChannelInv
<1> QED
  BY <1>2, <1>3, <1>4, <1>5, <1>6, <1>7, <1>8 DEF ChannelNext

\* The invariant holds throughout.
LEMMA ChannelInvariance == ChannelSpec => []ChannelInv
<1>1. ChannelInit => ChannelInv
  BY ChannelInitially
<1>2. ChannelInv /\ [ChannelNext]_channelVars => ChannelInv'
  BY ChannelStep
<1> QED
  BY <1>1, <1>2, PTL DEF ChannelSpec

\* In every state that the invariant allows, the decoder has handed out what the
\* reference finds and what the sender sent.
LEMMA InvariantMatches ==
    ASSUME ChannelInv
    PROVE  MatchesReference
<1> DEFINE end == Ends(received)
<1>1. PICK n \in Nat : n = Len(frames)
  BY ChannelTypes
<1>2. /\ received \in Seq(Byte) /\ wire \in Seq(Byte) /\ frames \in Seq(Seq(Byte))
      /\ Position \in Nat /\ Position <= Len(received) /\ Len(received) \in Nat
      /\ Len(frames) <= Len(sent) /\ Len(sent) \in Nat
  BY ChannelTypes DEF ChannelInv
<1>3. PICK c : Marks(received, frames, c) /\ c[n] = Position
  BY <1>1 DEF ChannelInv
<1>4. n <= Len(received)
  BY <1>1, <1>2, <1>3, MarksGrow
<1>5. \A i \in 0 .. n : end[i] = c[i]
  BY <1>1, <1>2, <1>3, <1>4, MarksAreEnds
<1> HIDE DEF end
<1>6. end[n] = Position
  BY <1>3, <1>5
<1>7. ASSUME NEW i \in 1 .. n
      PROVE  Complete(received, end[i - 1]) /\ frames[i] = SubSeq(received, end[i - 1] + 5, end[i])
  <2>1. i \in 0 .. n /\ i - 1 \in 0 .. n
    OBVIOUS
  <2>2. PICK at \in Nat : at = c[i - 1]
    BY <1>1, <1>3, <2>1 DEF Marks
  <2>3. FrameAt(received, at) /\ c[i] = at + 4 + LengthAt(received, at) /\ frames[i] = PayloadAt(received, at)
    BY <1>1, <1>3, <2>2 DEF Marks
  <2>4. Complete(received, at)
    BY <1>2, <2>3, SameHeader
  <2>5. frames[i] = SubSeq(received, at + 5, at + 4 + LengthAt(received, at))
    <3>1. at + 4 + 1 = at + 5
      OBVIOUS
    <3> QED
      BY <2>3, <3>1, Zenon DEF PayloadAt
  <2>6. end[i - 1] = at /\ end[i] = c[i]
    BY <1>5, <2>1, <2>2
  <2> QED
    BY <2>3, <2>4, <2>5, <2>6
<1>8. /\ Complete(received, Position) <=> FrameAt(received, Position)
      /\ Illegal(received, Position) <=> BadHeaderAt(received, Position)
  BY <1>2, SameHeader
<1>9. /\ phase \in {"read", "closed"} => ~Complete(received, end[n]) /\ ~Illegal(received, end[n])
      /\ phase = "failed" => Illegal(received, end[n])
  BY <1>6, <1>8 DEF ChannelInv
<1>10. ASSUME wire = <<>>, phase \in {"read", "closed"} PROVE Len(frames) = Len(sent)
  <2>1. PICK e : Carried(e)
    BY DEF ChannelInv
  <2>2. Written = received
    BY <1>2, <1>10, ConcatEmptySeq DEF Written
  <2>3. ~FrameAt(received, Position)
    BY <1>10 DEF ChannelInv
  <2>4. ~ (Len(frames) < Len(sent))
    BY <2>1, <2>2, <2>3, NextInWritten
  <2> QED
    BY <1>1, <1>2, <2>4
<1>11. RoundTrip
  BY <1>10 DEF RoundTrip, ChannelInv
<1> QED
  BY <1>1, <1>4, <1>7, <1>9, <1>11 DEF MatchesReference, end

\* Whatever is sent and however it is cut into reads, the payloads handed out are
\* those that were sent, in order, and those that a parse of all received bytes
\* finds; none is missing when the receiver waits for more; and the connection
\* fails only, and always, on an illegal length that encode() did not write.
THEOREM FramesMatchReference == ChannelSpec => []MatchesReference
<1>1. ChannelInv => MatchesReference
  BY InvariantMatches
<1> QED
  BY <1>1, ChannelInvariance, PTL

\* What is promised of the decoder whatever it is fed holds on the channel too.
THEOREM ChannelImplementsStream == ChannelSpec => ImplementsStream /\ []BufferBound
<1>1. ChannelInit => Init
  BY DEF ChannelInit
<1>2. ChannelInv /\ [ChannelNext]_channelVars => [Next]_vars
  BY DecoderInChannel
<1>3. ChannelSpec => Spec
  BY <1>1, <1>2, ChannelInvariance, PTL DEF ChannelSpec, Spec
<1> QED
  BY <1>3, DecoderImplementsStream, BufferBounded, PTL
=============================================================================
