---------------------------- MODULE Message_proofs ----------------------------
(* Proofs about the messages.  The text: is_valid_utf8 follows the Unicode     *)
(* table for every text.  The message: what either side serialises the other   *)
(* reads as it was, for every payload and every limit.                         *)
EXTENDS Message, SequenceTheorems, WellFoundedInduction, TLAPS

(* Induction over the natural numbers, for a set of them.                      *)
LEMMA NatSetInduction ==
    ASSUME NEW T \in SUBSET Nat, 0 \in T, \A n \in T : n + 1 \in T
    PROVE  T = Nat
<1> DEFINE R == OpToRel(<, Nat)
           U == Nat \ T
<1> SUFFICES ASSUME U # {} PROVE FALSE
  BY Zenon
<1>1. IsWellFoundedOn(R, Nat)
  BY NatLessThanWellFounded, Zenon
<1>2. \A x, y \in Nat : x < y => <<x, y>> \in R
  BY DEF OpToRel
<1>3. U \subseteq Nat
  OBVIOUS
<1> HIDE DEF R, U
<1>4. PICK n \in U : \A y \in U : ~(<<y, n>> \in R)
  BY <1>1, <1>3, WFMin, Zenon
<1>5. n \in Nat /\ n \notin T
  BY <1>4 DEF U
<1>6. n # 0 /\ n - 1 \in Nat /\ n - 1 < n
  BY <1>5
<1>7. n - 1 \in T
  BY <1>2, <1>4, <1>5, <1>6, Zenon DEF U
<1>8. (n - 1) + 1 \in T
  BY <1>7, Zenon
<1> QED
  BY <1>5, <1>6, <1>8

\* The slice of s that follows its first lo elements and ends at hi.
LEMMA SliceProperties ==
    ASSUME NEW S, NEW s \in Seq(S), NEW lo \in Nat, NEW hi \in Nat, lo <= hi, hi <= Len(s)
    PROVE  /\ SubSeq(s, lo + 1, hi) \in Seq(S)
           /\ Len(SubSeq(s, lo + 1, hi)) = hi - lo
           /\ \A k \in 1 .. hi - lo : SubSeq(s, lo + 1, hi)[k] = s[lo + k]
<1>1. \A i \in lo + 1 .. hi : s[i] \in S
  OBVIOUS
<1>2. /\ SubSeq(s, lo + 1, hi) \in Seq(S)
      /\ Len(SubSeq(s, lo + 1, hi)) = IF lo + 1 <= hi THEN hi - (lo + 1) + 1 ELSE 0
      /\ \A k \in 1 .. hi - (lo + 1) + 1 : SubSeq(s, lo + 1, hi)[k] = s[lo + 1 + k - 1]
  BY <1>1, SubSeqProperties
<1>3. \A k \in 1 .. hi - lo : lo + 1 + k - 1 = lo + k
  OBVIOUS
<1> QED
  BY <1>2, <1>3

-----------------------------------------------------------------------------
(* is_valid_utf8: one sequence *)

\* A byte is of one kind, by its high bits.
LEMMA ExtraMeans ==
    ASSUME NEW a \in 0 .. 255
    PROVE  extra(a) = IF a < 128 THEN 0 ELSE IF a < 192 THEN 4 ELSE IF a < 224 THEN 1
                      ELSE IF a < 240 THEN 2 ELSE IF a < 248 THEN 3 ELSE 4
<1>1. a \in Nat /\ a <= 255
  OBVIOUS
<1>2. CASE a < 128
  BY <1>1, <1>2 DEF extra
<1>3. CASE a \in 128 .. 191
  BY <1>1, <1>3 DEF extra
<1>4. CASE a \in 192 .. 223
  BY <1>1, <1>4 DEF extra
<1>5. CASE a \in 224 .. 239
  BY <1>1, <1>5 DEF extra
<1>6. CASE a \in 240 .. 247
  BY <1>1, <1>6 DEF extra
<1>7. CASE a \in 248 .. 255
  BY <1>1, <1>7 DEF extra
<1> QED
  BY <1>1, <1>2, <1>3, <1>4, <1>5, <1>6, <1>7

\* What the masks leave of a byte.
LEMMA LowFive == ASSUME NEW b \in 192 .. 223 PROVE b % 32 = b - 192
  OBVIOUS

\* The same for a byte that leads two others.
LEMMA LowFour == ASSUME NEW b \in 224 .. 239 PROVE b % 16 = b - 224
  OBVIOUS

\* The same for a byte that leads three others.
LEMMA LowThree == ASSUME NEW b \in 240 .. 247 PROVE b % 8 = b - 240
  OBVIOUS

\* The same for a byte that continues a sequence.
LEMMA LowSix == ASSUME NEW b \in 128 .. 191 PROVE b % 64 = b - 128
  OBVIOUS

\* The bytes of a sequence that fits, as the code and as the table see them.
LEMMA SequenceAt ==
    ASSUME Utf8TypeOK, NEW m \in 1 .. 4, p + m <= Len(bytes) + 1
    PROVE  /\ Len(SubSeq(bytes, p, p + m - 1)) = m
           /\ \A i \in 0 .. m - 1 : /\ At(p + i) \in 0 .. 255
                                    /\ SubSeq(bytes, p, p + m - 1)[i + 1] = At(p + i)
<1>1. bytes \in Seq(Bytes) /\ Bytes \subseteq 0 .. 255 /\ p \in Nat /\ p >= 1 /\ Len(bytes) \in Nat
  BY Utf8Assumption DEF Utf8TypeOK
<1>2. PICK lo \in Nat, hi \in Nat : lo + 1 = p /\ hi = p + m - 1
  <2>1. p - 1 \in Nat /\ p + m - 1 \in Nat /\ (p - 1) + 1 = p
    BY <1>1
  <2> QED
    BY <2>1
<1>3. lo <= hi /\ hi <= Len(bytes) /\ hi - lo = m
  BY <1>1, <1>2
<1>4. /\ Len(SubSeq(bytes, lo + 1, hi)) = hi - lo
      /\ \A k \in 1 .. hi - lo : SubSeq(bytes, lo + 1, hi)[k] = bytes[lo + k]
  BY <1>1, <1>3, SliceProperties
<1>5. ASSUME NEW i \in 0 .. m - 1
      PROVE  At(p + i) \in 0 .. 255 /\ SubSeq(bytes, p, p + m - 1)[i + 1] = At(p + i)
  <2>1. i + 1 \in 1 .. hi - lo /\ lo + (i + 1) = p + i /\ p + i \in 1 .. Len(bytes)
    BY <1>1, <1>2, <1>3
  <2>2. At(p + i) = bytes[p + i] /\ bytes[p + i] \in Bytes
    BY <1>1, <2>1 DEF At
  <2>3. SubSeq(bytes, lo + 1, hi)[i + 1] = bytes[p + i]
    BY <1>4, <2>1
  <2>4. SubSeq(bytes, p, p + m - 1) = SubSeq(bytes, lo + 1, hi)
    BY <1>2, Zenon
  <2>5. At(p + i) \in 0 .. 255
    <3>1. PICK b \in Bytes : b = At(p + i)
      BY <2>2
    <3>2. b \in 0 .. 255
      BY <1>1
    <3> QED
      BY <3>1, <3>2
  <2> QED
    BY <2>2, <2>3, <2>4, <2>5, Zenon
<1> QED
  BY <1>2, <1>3, <1>4, <1>5, Zenon

\* The code and the table accept the same sequences.
LEMMA SequenceAccepted ==
    ASSUME Utf8TypeOK, NEW m \in 1 .. 4, p + m <= Len(bytes) + 1
    PROVE  WellFormed(SubSeq(bytes, p, p + m - 1)) <=> extra(At(p)) = m - 1 /\ Good(m - 1)
<1> DEFINE s == SubSeq(bytes, p, p + m - 1)
           a == At(p)
<1>1. Len(s) = m /\ s[1] = a /\ a \in 0 .. 255
  <2>1. 0 \in 0 .. m - 1 /\ p + 0 = p /\ 0 + 1 = 1
    BY DEF Utf8TypeOK
  <2> QED
    BY <2>1, SequenceAt, Zenon
<1>2. ASSUME NEW i \in 1 .. m - 1 PROVE s[i + 1] = At(p + i) /\ At(p + i) \in 0 .. 255
  <2>1. i \in 0 .. m - 1
    OBVIOUS
  <2> QED
    BY <2>1, SequenceAt, Zenon
<1>3. Fits(m - 1) /\ m - 1 < 4
  BY DEF Fits, Utf8TypeOK
<1>4. Good(m - 1) <=> /\ \A i \in 1 .. m - 1 : Continues(At(p + i))
                      /\ ScalarValue(m - 1, code_point(m - 1))
  BY <1>3 DEF Good
<1> HIDE DEF s, a
<1>5. /\ extra(a) = 0 <=> a <= 127
      /\ extra(a) = 1 <=> a \in 192 .. 223
      /\ extra(a) = 2 <=> a \in 224 .. 239
      /\ extra(a) = 3 <=> a \in 240 .. 247
  <2>1. a \in 0 .. 255
    BY <1>1
  <2>2. PICK e : e = extra(a)
    OBVIOUS
  <2>3. e = IF a < 128 THEN 0 ELSE IF a < 192 THEN 4 ELSE IF a < 224 THEN 1
            ELSE IF a < 240 THEN 2 ELSE IF a < 248 THEN 3 ELSE 4
    BY <2>1, <2>2, ExtraMeans, Zenon
  <2>4. /\ e = 0 <=> a <= 127
        /\ e = 1 <=> a \in 192 .. 223
        /\ e = 2 <=> a \in 224 .. 239
        /\ e = 3 <=> a \in 240 .. 247
    BY <2>1, <2>3
  <2> QED
    BY <2>2, <2>4
<1>6. CASE m = 1
  <2>1. WellFormed(s) <=> a <= 127
    BY <1>1, <1>6 DEF WellFormed
  <2>2. code_point(0) = a
    BY DEF code_point, a
  <2>3. a <= 127 => ScalarValue(0, a)
    BY <1>1, SMT DEF ScalarValue
  <2>4. extra(a) = 0 <=> a <= 127
    BY <1>5, Zenon
  <2>5. m - 1 = 0 /\ \A i \in 1 .. 0 : Continues(At(p + i))
    BY <1>6
  <2> QED
    BY <1>4, <1>6, <2>1, <2>2, <2>3, <2>4, <2>5 DEF s, a
<1>7. CASE m = 2
  <2>1. PICK b : b = At(p + 1)
    OBVIOUS
  <2>2. s[2] = b /\ b \in 0 .. 255
    BY <1>2, <1>7, <2>1
  <2>3. WellFormed(s) <=> a \in 194 .. 223 /\ Continues(b)
    BY <1>1, <1>7, <2>2 DEF WellFormed
  <2>4. Good(1) <=> Continues(b) /\ ScalarValue(1, 64 * (a % 32) + (b % 64))
    <3>1. code_point(1) = 64 * (a % 32) + (b % 64)
      BY <2>1 DEF code_point, Low, a
    <3>2. (\A i \in 1 .. 1 : Continues(At(p + i))) <=> Continues(b)
      BY <2>1
    <3> QED
      BY <1>4, <1>7, <3>1, <3>2
  <2>5. extra(a) = 1 <=> a \in 192 .. 223
    BY <1>5, Zenon
  <2>6. ASSUME a \in 192 .. 223, Continues(b)
        PROVE  ScalarValue(1, 64 * (a % 32) + (b % 64)) <=> a \in 194 .. 223
    <3> DEFINE x == a % 32
               y == b % 64
    <3>1. x = a - 192 /\ y = b - 128
      BY <2>6, LowFive, LowSix DEF Continues
    <3> HIDE DEF x, y
    <3>2. ScalarValue(1, 64 * x + y) <=> a \in 194 .. 223
      BY <2>6, <3>1, SMT DEF ScalarValue, Continues
    <3> QED
      BY <3>2, SMT DEF x, y
  <2>7. a \in 194 .. 223 => a \in 192 .. 223
    OBVIOUS
  <2> QED
    BY <1>7, <2>3, <2>4, <2>5, <2>6, <2>7 DEF s, a
<1>8. CASE m = 3
  <2>1. PICK b, c : b = At(p + 1) /\ c = At(p + 2)
    OBVIOUS
  <2>2. s[2] = b /\ s[3] = c /\ b \in 0 .. 255 /\ c \in 0 .. 255
    BY <1>2, <1>8, <2>1
  <2> DEFINE table == \/ a = 224 /\ b \in 160 .. 191
                      \/ a \in (225 .. 236) \cup {238, 239}
                      \/ a = 237 /\ b \in 128 .. 159
             point == 4096 * (a % 16) + 64 * (b % 64) + (c % 64)
  <2>3. WellFormed(s) <=> Continues(b) /\ Continues(c) /\ table
    BY <1>1, <1>8, <2>2 DEF WellFormed, Continues
  <2>4. Good(2) <=> Continues(b) /\ Continues(c) /\ ScalarValue(2, point)
    <3>1. code_point(2) = point
      BY <2>1, SMT DEF code_point, Low, a
    <3>2. (\A i \in 1 .. 2 : Continues(At(p + i))) <=> Continues(b) /\ Continues(c)
      BY <2>1
    <3> HIDE DEF point
    <3> QED
      BY <1>4, <1>8, <3>1, <3>2
  <2>5. extra(a) = 2 <=> a \in 224 .. 239
    BY <1>5, Zenon
  <2>6. ASSUME a \in 224 .. 239, Continues(b), Continues(c)
        PROVE  ScalarValue(2, point) <=> table
    <3> DEFINE x == a % 16
               y == b % 64
               z == c % 64
    <3>1. x = a - 224 /\ y = b - 128 /\ z = c - 128
      <4>1. x = a - 224
        BY <2>6, LowFour
      <4>2. y = b - 128
        BY <2>6, LowSix DEF Continues
      <4>3. z = c - 128
        BY <2>6, LowSix DEF Continues
      <4> QED
        BY <4>1, <4>2, <4>3
    <3> HIDE DEF x, y, z
    <3>2. ScalarValue(2, 4096 * x + 64 * y + z) <=> table
      BY <2>6, <3>1, SMT DEF ScalarValue, Continues
    <3> QED
      BY <3>2, SMT DEF x, y, z
  <2>7. table => a \in 224 .. 239
    OBVIOUS
  <2> HIDE DEF point, table
  <2> QED
    BY <1>8, <2>3, <2>4, <2>5, <2>6, <2>7 DEF s, a
<1>9. CASE m = 4
  <2>1. PICK b, c, d : b = At(p + 1) /\ c = At(p + 2) /\ d = At(p + 3)
    OBVIOUS
  <2>2. /\ s[2] = b /\ s[3] = c /\ s[4] = d
        /\ b \in 0 .. 255 /\ c \in 0 .. 255 /\ d \in 0 .. 255
    <3>1. 1 \in 1 .. m - 1 /\ 2 \in 1 .. m - 1 /\ 3 \in 1 .. m - 1
      BY <1>9
    <3>2. /\ s[1 + 1] = At(p + 1) /\ At(p + 1) \in 0 .. 255
          /\ s[2 + 1] = At(p + 2) /\ At(p + 2) \in 0 .. 255
          /\ s[3 + 1] = At(p + 3) /\ At(p + 3) \in 0 .. 255
      BY <1>2, <3>1, Zenon
    <3>3. 1 + 1 = 2 /\ 2 + 1 = 3 /\ 3 + 1 = 4
      OBVIOUS
    <3> QED
      BY <2>1, <3>2, <3>3, Zenon
  <2> DEFINE table == \/ a = 240 /\ b \in 144 .. 191
                      \/ a \in 241 .. 243
                      \/ a = 244 /\ b \in 128 .. 143
             point == 262144 * (a % 8) + 4096 * (b % 64) + 64 * (c % 64) + (d % 64)
  <2>3. WellFormed(s) <=> Continues(b) /\ Continues(c) /\ Continues(d) /\ table
    BY <1>1, <1>9, <2>2 DEF WellFormed, Continues
  <2>4. Good(3) <=> Continues(b) /\ Continues(c) /\ Continues(d) /\ ScalarValue(3, point)
    <3>1. code_point(3) = point
      BY <2>1, SMT DEF code_point, Low, a
    <3>2. (\A i \in 1 .. 3 : Continues(At(p + i))) <=> Continues(b) /\ Continues(c) /\ Continues(d)
      BY <2>1
    <3> HIDE DEF point
    <3> QED
      BY <1>4, <1>9, <3>1, <3>2
  <2>5. extra(a) = 3 <=> a \in 240 .. 247
    BY <1>5, Zenon
  <2>6. ASSUME a \in 240 .. 247, Continues(b), Continues(c), Continues(d)
        PROVE  ScalarValue(3, point) <=> table
    <3> DEFINE x == a % 8
               y == b % 64
               z == c % 64
               w == d % 64
    <3>1. x = a - 240 /\ y = b - 128 /\ z = c - 128 /\ w = d - 128
      <4>1. x = a - 240
        BY <2>6, LowThree
      <4>2. y = b - 128
        BY <2>6, LowSix DEF Continues
      <4>3. z = c - 128
        BY <2>6, LowSix DEF Continues
      <4>4. w = d - 128
        BY <2>6, LowSix DEF Continues
      <4> QED
        BY <4>1, <4>2, <4>3, <4>4
    <3> HIDE DEF x, y, z, w
    <3>2. ScalarValue(3, 262144 * x + 4096 * y + 64 * z + w) <=> table
      BY <2>6, <3>1, SMT DEF ScalarValue, Continues
    <3> QED
      BY <3>2, SMT DEF x, y, z, w
  <2>7. table => a \in 240 .. 247
    OBVIOUS
  <2> HIDE DEF point, table
  <2> QED
    BY <1>9, <2>3, <2>4, <2>5, <2>6, <2>7 DEF s, a
<1> QED
  BY <1>6, <1>7, <1>8, <1>9

-----------------------------------------------------------------------------
(* is_valid_utf8: the whole text *)

\* What the loop knows: the places it has come through make a succession of
\* well-formed sequences up to p, and there is no other way to split the text
\* that far; a text is refused for the sequence at p.
Scanned ==
    /\ Utf8TypeOK
    /\ reach \in 0 .. Len(bytes)
    /\ \E cuts \in SUBSET (1 .. p) : 1 \in cuts /\ p \in cuts /\ \A i \in cuts \ {p} : Leads(cuts, i)
    /\ \A cuts \in SUBSET (1 .. Len(bytes) + 1) : Splits(cuts) => p \in cuts
    /\ verdict = "valid" => p = Len(bytes) + 1
    /\ verdict = "invalid" => p <= Len(bytes) /\ ~Good(extra(At(p)))

\* A text is read from its first byte.
LEMMA CallScans == Utf8Init => Scanned
<1> SUFFICES ASSUME Utf8Init PROVE Scanned
  OBVIOUS
<1> USE DEF Utf8Init
<1>1. bytes \in Seq(Bytes)
  BY DEF Strings
<1>2. Utf8TypeOK /\ reach \in 0 .. Len(bytes)
  BY <1>1 DEF Utf8TypeOK
<1>3. \E cuts \in SUBSET (1 .. p) : 1 \in cuts /\ p \in cuts /\ \A i \in cuts \ {p} : Leads(cuts, i)
  <2>1. {1} \in SUBSET (1 .. p) /\ 1 \in {1} /\ p \in {1} /\ \A i \in {1} \ {p} : Leads({1}, i)
    OBVIOUS
  <2> QED
    BY <2>1, Zenon
<1>4. \A cuts \in SUBSET (1 .. Len(bytes) + 1) : Splits(cuts) => p \in cuts
  BY DEF Splits
<1> QED
  BY <1>2, <1>3, <1>4 DEF Scanned

\* From a place that no text ends at, a split goes on to where the loop goes.
LEMMA OneWay ==
    ASSUME Utf8TypeOK, p <= Len(bytes), NEW cuts, Splits(cuts), p \in cuts
    PROVE  /\ extra(At(p)) \in 0 .. 3 /\ Good(extra(At(p)))
           /\ p + extra(At(p)) + 1 \in cuts
<1>1. p # Len(bytes) + 1 /\ p \in Nat /\ Len(bytes) \in Nat
  BY DEF Utf8TypeOK
<1>2. PICK m \in 1 .. 4 : p + m \in cuts /\ WellFormed(SubSeq(bytes, p, p + m - 1))
  BY <1>1 DEF Splits, Leads
<1>3. p + m <= Len(bytes) + 1
  BY <1>1, <1>2 DEF Splits
<1>4. extra(At(p)) = m - 1 /\ Good(m - 1)
  BY <1>2, <1>3, SequenceAccepted
<1>5. m - 1 \in 0 .. 3 /\ p + (m - 1) + 1 = p + m
  BY <1>1
<1> QED
  BY <1>2, <1>4, <1>5

\* The same place of the same text.
LEMMA SameSequence ==
    ASSUME UNCHANGED <<bytes, p>> PROVE Good(extra(At(p)))' <=> Good(extra(At(p)))
  BY SMT DEF Good, Fits, At, Low, code_point

\* One iteration.
LEMMA ScanStep == ASSUME Scanned, Scan PROVE Scanned'
<1> DEFINE n == extra(At(p))
<1>1. /\ bytes \in Seq(Bytes) /\ p \in Nat /\ p >= 1 /\ Len(bytes) \in Nat /\ p <= Len(bytes)
      /\ Utf8TypeOK /\ verdict = "scanning" /\ bytes' = bytes
      /\ p' = IF Good(n) THEN p + n + 1 ELSE p
      /\ reach' = IF n < 4 /\ Fits(n) THEN p + n ELSE p
      /\ verdict' = IF Good(n) THEN verdict ELSE "invalid"
  BY DEF Scan, Scanned, Utf8TypeOK
<1>2. n \in 0 .. 4
  <2>1. At(p) \in 0 .. 255
    <3>1. 1 \in 1 .. 4 /\ p + 1 <= Len(bytes) + 1 /\ 0 \in 0 .. 1 - 1 /\ p + 0 = p
      BY <1>1
    <3> QED
      BY <1>1, <3>1, SequenceAt, Zenon
  <2> QED
    BY <2>1, ExtraMeans
<1>3. Good(n) => n \in 0 .. 3 /\ p + n <= Len(bytes)
  BY <1>2 DEF Good, Fits
<1> HIDE DEF n
<1>4. p' \in 1 .. Len(bytes') + 1 /\ reach' \in 0 .. Len(bytes') /\ Utf8TypeOK'
  BY <1>1, <1>2, <1>3 DEF Utf8TypeOK, Fits
<1>5. \E cuts \in SUBSET (1 .. p') :
         1 \in cuts /\ p' \in cuts /\ \A i \in cuts \ {p'} : Leads(cuts, i)'
  <2>1. PICK cuts \in SUBSET (1 .. p) :
           1 \in cuts /\ p \in cuts /\ \A i \in cuts \ {p} : Leads(cuts, i)
    BY DEF Scanned
  <2>2. CASE ~Good(n)
    <3>1. p' = p /\ \A i : Leads(cuts, i)' <=> Leads(cuts, i)
      BY <1>1, <2>2 DEF Leads
    <3> QED
      BY <2>1, <3>1
  <2>3. CASE Good(n)
    <3> DEFINE m == n + 1
    <3>1. m \in 1 .. 4 /\ p + m <= Len(bytes) + 1 /\ m - 1 = n /\ p' = p + m
      BY <1>1, <1>3, <2>3
    <3> HIDE DEF m
    <3>2. PICK more : more = cuts \cup {p + m}
      BY Zenon
    <3>3. WellFormed(SubSeq(bytes, p, p + m - 1))
      BY <1>1, <2>3, <3>1, SequenceAccepted DEF n
    <3>4. more \in SUBSET (1 .. p') /\ 1 \in more /\ p' \in more /\ more \ {p'} = cuts
      BY <1>1, <2>1, <3>1, <3>2
    <3>5. ASSUME NEW i \in cuts PROVE Leads(more, i)'
      <4>1. CASE i = p
        BY <1>1, <3>1, <3>3, <3>2, <4>1 DEF Leads
      <4>2. CASE i # p
        <5>1. Leads(cuts, i)
          BY <2>1, <4>2
        <5> QED
          BY <1>1, <3>2, <5>1 DEF Leads
      <4> QED
        BY <4>1, <4>2
    <3> QED
      BY <3>4, <3>5
  <2> QED
    BY <2>2, <2>3
<1>6. ASSUME NEW cuts \in SUBSET (1 .. Len(bytes') + 1), Splits(cuts)' PROVE p' \in cuts
  <2>1. Splits(cuts)
    BY <1>1, <1>6 DEF Splits, Leads
  <2>2. p \in cuts
    BY <1>1, <2>1 DEF Scanned
  <2>3. p + n + 1 \in cuts
    BY <1>1, <2>1, <2>2, OneWay DEF n
  <2> QED
    BY <1>1, <2>2, <2>3
<1>7. verdict' # "valid"
  BY <1>1
<1>8. verdict' = "invalid" => p' <= Len(bytes') /\ ~Good(extra(At(p)))'
  <2>1. ASSUME verdict' = "invalid" PROVE ~Good(n) /\ p' = p
    BY <1>1, <2>1
  <2>2. ASSUME p' = p PROVE Good(extra(At(p)))' <=> Good(n)
    <3>1. UNCHANGED <<bytes, p>>
      BY <1>1, <2>2
    <3> QED
      BY <3>1, SameSequence DEF n
  <2> QED
    BY <1>1, <2>1, <2>2
<1> QED
  BY <1>4, <1>5, <1>6, <1>7, <1>8 DEF Scanned

\* The loop at its end, another call, or nothing.
LEMMA ScannedStep ==
    ASSUME Scanned, [Utf8Next \/ \E s \in Strings : Call(s)]_utf8Vars PROVE Scanned'
<1>1. CASE Scan
  BY <1>1, ScanStep
<1>2. CASE Return \/ UNCHANGED utf8Vars
  <2>1. UNCHANGED <<bytes, p, reach>> /\ verdict' \in {"valid", verdict}
    BY <1>2 DEF Return, utf8Vars
  <2>2. verdict' = "valid" => p' = Len(bytes') + 1
    BY <1>2, <2>1 DEF Return, utf8Vars, Scanned, Utf8TypeOK
  <2>3. Utf8TypeOK' /\ reach' \in 0 .. Len(bytes')
    BY <2>1 DEF Scanned, Utf8TypeOK
  <2>4. verdict' = "invalid" => p' <= Len(bytes') /\ ~Good(extra(At(p)))'
    BY <2>1, SameSequence DEF Scanned
  <2>5. /\ \A cuts, i : Leads(cuts, i)' <=> Leads(cuts, i)
        /\ \A cuts : Splits(cuts)' <=> Splits(cuts)
    BY <2>1 DEF Leads, Splits
  <2> QED
    BY <2>1, <2>2, <2>3, <2>4, <2>5 DEF Scanned
<1>3. ASSUME NEW s \in Strings, Call(s) PROVE Scanned'
  <2>1. Utf8Init'
    BY <1>3 DEF Call, Utf8Init
  <2> QED
    BY <2>1, CallScans, PTL
<1> QED
  BY <1>1, <1>2, <1>3 DEF Utf8Next

\* The verdict is the table's: a text that was split to its end is well formed,
\* and one that is refused at p cannot be split beyond p.
LEMMA ScannedMatches == Scanned => MatchesTable
<1> SUFFICES ASSUME Scanned PROVE MatchesTable
  OBVIOUS
<1>1. reach <= Len(bytes)
  BY DEF Scanned
<1>2. ASSUME verdict = "valid" PROVE Reference
  <2>1. p = Len(bytes) + 1
    BY <1>2 DEF Scanned
  <2>2. PICK cuts \in SUBSET (1 .. p) :
           1 \in cuts /\ p \in cuts /\ \A i \in cuts \ {p} : Leads(cuts, i)
    BY DEF Scanned
  <2> QED
    BY <2>1, <2>2 DEF Reference, Splits
<1>3. ASSUME verdict = "invalid", Reference PROVE FALSE
  <2>1. PICK cuts \in SUBSET (1 .. Len(bytes) + 1) : Splits(cuts)
    BY <1>3 DEF Reference
  <2>2. p \in cuts /\ Utf8TypeOK /\ p <= Len(bytes) /\ ~Good(extra(At(p)))
    BY <1>3, <2>1 DEF Scanned
  <2> QED
    BY <2>1, <2>2, OneWay
<1> QED
  BY <1>1, <1>2, <1>3 DEF MatchesTable

\* is_valid_utf8 says of every text, of any bytes and length, what the table of
\* the Unicode standard says, and reads nothing behind its end.
THEOREM Utf8MatchesTable == Utf8Spec => []MatchesTable
<1>1. Utf8Init => Scanned
  BY CallScans
<1>2. Scanned /\ [Utf8Next \/ \E s \in Strings : Call(s)]_utf8Vars => Scanned'
  BY ScannedStep
<1> QED
  BY <1>1, <1>2, ScannedMatches, PTL DEF Utf8Spec

-----------------------------------------------------------------------------
(* The depth of a nested value, by induction on the levels.                    *)

(* The values one level further down.                                          *)
Below(value, f, n) == IF n = 0 THEN {value} ELSE UNION {v.children : v \in f[n - 1]}

(* Levels satisfies the equation that defines it.                              *)
LEMMA LevelsEquation ==
    ASSUME NEW value
    PROVE  Levels(value) = [n \in 0 .. kMaxJsonDepth + 1 |-> Below(value, Levels(value), n)]
<1> DEFINE Solves(f, m) == f = [n \in 0 .. m |-> Below(value, f, n)]
           T == {m \in Nat : \E f : Solves(f, m)}
<1>1. 0 \in T
  <2> DEFINE f == [n \in {0} |-> {value}]
  <2>1. 0 .. 0 = {0}
    OBVIOUS
  <2>2. Below(value, f, 0) = {value}
    BY DEF Below
  <2>3. Solves(f, 0)
    BY <2>1, <2>2
  <2> QED
    BY <2>3
<1>2. ASSUME NEW m \in T PROVE m + 1 \in T
  <2>1. m \in Nat /\ m + 1 \in Nat
    OBVIOUS
  <2>2. PICK f : Solves(f, m)
    OBVIOUS
  <2> DEFINE g == [n \in 0 .. m + 1 |-> IF n = m + 1 THEN Below(value, f, n) ELSE f[n]]
  <2>3. ASSUME NEW n \in 0 .. m + 1 PROVE g[n] = Below(value, g, n)
    <3>1. n # 0 => n - 1 \in 0 .. m + 1 /\ n - 1 # m + 1
      BY <2>1
    <3>2. n # 0 => g[n - 1] = f[n - 1]
      BY <3>1
    <3>3. Below(value, g, n) = Below(value, f, n)
      BY <3>2, Zenon DEF Below
    <3>4. CASE n = m + 1
      BY <3>3, <3>4
    <3>5. CASE n # m + 1
      <4>1. n \in 0 .. m
        BY <2>1, <3>5
      <4>2. f[n] = Below(value, f, n)
        BY <2>2, <4>1
      <4> QED
        BY <3>3, <3>5, <4>2
    <3> QED
      BY <3>4, <3>5
  <2>4. Solves(g, m + 1)
    <3> DEFINE h == [n \in 0 .. m + 1 |-> Below(value, g, n)]
    <3>1. \A n \in 0 .. m + 1 : g[n] = h[n]
      BY <2>3
    <3>2. g = [n \in 0 .. m + 1 |-> g[n]] /\ h = [n \in 0 .. m + 1 |-> h[n]]
      OBVIOUS
    <3> HIDE DEF g, h
    <3>3. g = h
      BY <3>1, <3>2
    <3> QED
      BY <3>3 DEF h
  <2> HIDE DEF g
  <2> QED
    BY <2>1, <2>4
<1> HIDE DEF T
<1>3. T = Nat
  <2>1. T \in SUBSET Nat
    BY DEF T
  <2> QED
    BY <1>1, <1>2, <2>1, NatSetInduction
<1>4. \E f : Solves(f, kMaxJsonDepth + 1)
  <2>1. kMaxJsonDepth + 1 \in Nat
    BY MessageAssumption
  <2> QED
    BY <1>3, <2>1 DEF T
<1>5. Levels(value) = CHOOSE f : Solves(f, kMaxJsonDepth + 1)
  BY DEF Levels, Below
<1> QED
  BY <1>4, <1>5, Zenon

(* No value is deeper than a level that has none.                              *)
LEMMA NothingDeeper ==
    ASSUME NEW value, NEW k \in 0 .. kMaxJsonDepth + 1, Levels(value)[k] = {}
    PROVE  \A n \in k .. kMaxJsonDepth + 1 : Levels(value)[n] = {}
<1> DEFINE level == Levels(value)
           T == {i \in Nat : k + i <= kMaxJsonDepth + 1 => level[k + i] = {}}
<1>1. kMaxJsonDepth \in Nat /\ k \in Nat
  BY MessageAssumption
<1>2. \A n \in 0 .. kMaxJsonDepth + 1 : level[n] = Below(value, level, n)
  BY LevelsEquation, Zenon
<1> HIDE DEF level
<1>3. 0 \in T
  BY <1>1 DEF level
<1>4. ASSUME NEW i \in T PROVE i + 1 \in T
  <2> SUFFICES ASSUME k + (i + 1) <= kMaxJsonDepth + 1 PROVE level[k + (i + 1)] = {}
    OBVIOUS
  <2>1. /\ i \in Nat /\ k + i <= kMaxJsonDepth + 1 /\ (k + (i + 1)) - 1 = k + i
        /\ k + (i + 1) \in 0 .. kMaxJsonDepth + 1 /\ k + (i + 1) # 0
    BY <1>1
  <2>2. level[k + i] = {}
    BY <2>1
  <2>3. level[k + (i + 1)] = UNION {v.children : v \in level[k + i]}
    BY <1>2, <2>1, Zenon DEF Below
  <2> QED
    BY <2>2, <2>3
<1> HIDE DEF T
<1>5. T = Nat
  <2>1. T \in SUBSET Nat
    BY DEF T
  <2> QED
    BY <1>3, <1>4, <2>1, NatSetInduction
<1>6. ASSUME NEW n \in k .. kMaxJsonDepth + 1 PROVE level[n] = {}
  <2>1. n - k \in Nat /\ k + (n - k) = n /\ n <= kMaxJsonDepth + 1
    BY <1>1
  <2> QED
    BY <1>5, <2>1, Zenon DEF T
<1> QED
  BY <1>6 DEF level

-----------------------------------------------------------------------------
(* What to_json() and parse() do to a message.                                 *)

(* A tree with nothing on the third level is within the limit.                 *)
LEMMA ShallowTree ==
    ASSUME NEW cs, \A c \in cs : \A v \in c.children : v.children = {}
    PROVE  json_depth(Object(cs)) <= kMaxJsonDepth
<1> DEFINE level == Levels(Object(cs))
           D == {n \in 0 .. kMaxJsonDepth + 1 : level[n] # {}}
<1>1. kMaxJsonDepth \in Nat /\ kMaxJsonDepth >= 2
  BY MessageAssumption
<1>2. \A n \in 0 .. kMaxJsonDepth + 1 : level[n] = Below(Object(cs), level, n)
  BY LevelsEquation, Zenon
<1> HIDE DEF level
<1>3. level[0] = {Object(cs)}
  <2>1. level[0] = Below(Object(cs), level, 0)
    BY <1>1, <1>2
  <2> QED
    BY <2>1 DEF Below
<1>4. ASSUME NEW n \in 0 .. 2 PROVE level[n + 1] = UNION {v.children : v \in level[n]}
  <2>1. n + 1 \in 0 .. kMaxJsonDepth + 1 /\ n + 1 # 0 /\ (n + 1) - 1 = n
    BY <1>1
  <2>2. level[n + 1] = Below(Object(cs), level, n + 1)
    BY <1>2, <2>1
  <2> QED
    BY <2>1, <2>2, Zenon DEF Below
<1>5. level[1] = cs /\ level[2] = UNION {v.children : v \in cs}
  <2>1. level[0 + 1] = UNION {v.children : v \in level[0]}
    BY <1>4
  <2>2. level[1 + 1] = UNION {v.children : v \in level[1]}
    BY <1>4
  <2>3. level[1] = cs
    BY <1>3, <2>1 DEF Object
  <2> QED
    BY <2>2, <2>3
<1>6. level[3] = {}
  <2>1. level[2 + 1] = UNION {v.children : v \in level[2]}
    BY <1>4
  <2> QED
    BY <1>5, <2>1
<1>7. \A n \in 3 .. kMaxJsonDepth + 1 : level[n] = {}
  <2>1. 3 \in 0 .. kMaxJsonDepth + 1
    BY <1>1
  <2> QED
    BY <1>6, <2>1, NothingDeeper DEF level
<1>8. \A n \in D : n \in Nat /\ n <= 2
  BY <1>1, <1>7
<1>9. 0 \in D
  BY <1>1, <1>3
<1> HIDE DEF D
<1>10. \E x \in D : \A y \in D : x >= y
  <2>1. CASE 2 \in D
    BY <1>8, <2>1
  <2>2. CASE 2 \notin D /\ 1 \in D
    <3>1. \A y \in D : y # 2 /\ y \in Nat /\ y <= 2
      BY <1>8, <2>2
    <3>2. \A y \in D : 1 >= y
      BY <3>1
    <3> QED
      BY <2>2, <3>2
  <2>3. CASE 2 \notin D /\ 1 \notin D
    <3>1. \A y \in D : y # 2 /\ y # 1 /\ y \in Nat /\ y <= 2
      BY <1>8, <2>3
    <3>2. \A y \in D : 0 >= y
      BY <3>1
    <3> QED
      BY <1>9, <3>2
  <2> QED
    BY <2>1, <2>2, <2>3
<1>11. Max(D) \in D
  BY <1>10 DEF Max
<1>12. json_depth(Object(cs)) = Max(D)
  BY DEF json_depth, D, level
<1>13. Max(D) \in Nat /\ Max(D) <= 2
  BY <1>8, <1>11
<1> QED
  BY <1>1, <1>12, <1>13

(* The version of this build survives get<int>().                              *)
LEMMA VersionKept == get_int(kProtocolVersion) = kProtocolVersion
<1>1. PICK h : h = IntModulus \div 2
  OBVIOUS
<1>2. IntModulus \in Nat /\ IntModulus > 2 /\ IntModulus % 2 = 0
  BY MessageAssumption
<1>3. h \in Nat /\ IntModulus = 2 * h
  BY <1>1, <1>2
<1>4. 1 + h < IntModulus /\ 0 <= 1 + h /\ 1 + h \in Nat
  BY <1>2, <1>3
<1>5. (1 + h) % IntModulus = 1 + h
  BY <1>2, <1>4
<1> QED
  BY <1>1, <1>3, <1>5 DEF get_int, kProtocolVersion

(* An id that was made for a message is one it may have.                       *)
LEMMA UuidFits ==
    ASSUME NEW caller \in Writers
    PROVE  /\ generate_uuid_v4(caller) \in [length : 0 .. MaxId, from : Writers]
           /\ generate_uuid_v4(caller) \in [length : Nat, from : Writers]
  BY MessageAssumption DEF generate_uuid_v4, UuidLength

(* A document with the fields of an envelope.                                  *)
Envelopes == [form : {"object"}, version : Int \cup {Absent, Wrong},
              type : MessageType \cup {"unknown", Absent, Wrong},
              id : [length : Nat, from : Writers] \cup {Absent, Wrong},
              timestamp : {"time", Absent, Wrong},
              status : {"text", "accepted", "rejected", Absent, Wrong},
              payload : Contents \cup {Absent, Wrong}]

(* The tree of a document that has a version and no wrong payload, and that    *)
(* of what to_json() makes of a message.                                       *)
Branches(content) == {Scalar} \cup (IF content = EmptyPayload THEN {} ELSE {PayloadTree(content)})

(* A message that either side may hold: what is on the wire of it can be read. *)
Sound(m) ==
    /\ m \in Messages
    /\ m.type = "telemetry" => m.payload.device = "string"
    /\ json_depth(Object(Branches(m.payload))) <= kMaxJsonDepth

(* An empty payload and a flat one are within the limit.                       *)
LEMMA SmallPayloads ==
    /\ json_depth(Object(Branches(EmptyPayload))) <= kMaxJsonDepth
    /\ json_depth(Object(Branches(FlatPayload))) <= kMaxJsonDepth
<1>1. Scalar.children = {}
  BY DEF Scalar
<1>2. PayloadTree(FlatPayload).children = {Scalar}
  BY DEF PayloadTree, FlatPayload, Object
<1>3. \A c \in Branches(EmptyPayload) : c.children = {}
  BY <1>1 DEF Branches
<1>4. \A c \in Branches(FlatPayload) : \A v \in c.children : v.children = {}
  BY <1>1, <1>2, Zenon DEF Branches
<1> QED
  BY <1>3, <1>4, ShallowTree

(* The tree of a message on the wire.                                          *)
LEMMA TreeOnTheWire ==
    ASSUME NEW m \in Messages PROVE Tree(to_json(m)) = Object(Branches(m.payload))
<1> DEFINE d == to_json(m)
<1>1. d.version = 1 /\ d.payload = IF m.payload = EmptyPayload THEN Absent ELSE m.payload
  BY DEF to_json, kProtocolVersion
<1>2. m.payload \in Contents /\ m.payload # Absent /\ m.payload # Wrong /\ 1 # Absent /\ Absent # Wrong
  BY SentinelAssumption DEF Messages
<1>3. d["version"] # Absent
  BY <1>1, <1>2
<1> HIDE DEF d
<1>4. Tree(d) = Object({Scalar} \cup (IF d.payload = Absent THEN {} ELSE
                                     IF d.payload = Wrong THEN {Scalar} ELSE {PayloadTree(d.payload)}))
  BY <1>3 DEF Tree
<1> QED
  BY <1>1, <1>2, <1>4 DEF Branches, d

(* What to_json() wrote, parse() reads as it was.                              *)
LEMMA RoundTrips == ASSUME NEW m, Sound(m) PROVE parse(to_json(m)) = m
<1> DEFINE d == to_json(m)
<1>1. /\ m \in Messages
      /\ m.type \in MessageType /\ m.id \in [length : 0 .. MaxId, from : Writers] /\ m.payload \in Contents
      /\ m.status \in {"text", "accepted", "rejected", Absent}
  BY DEF Sound, Messages
<1>2. /\ d.form = "object" /\ d.version = 1 /\ d.type = m.type /\ d.id = m.id
      /\ d.timestamp = "time" /\ d.status = m.status
      /\ d.payload = IF m.payload = EmptyPayload THEN Absent ELSE m.payload
  BY DEF to_json, kProtocolVersion
<1> HIDE DEF d
<1>3. 1 \in Int /\ m.id \in [length : Nat, from : Writers] /\ m.id.length <= MaxId
  BY <1>1, MessageAssumption
<1>4. d.version \notin {Absent, Wrong} /\ get_int(d.version) = kProtocolVersion
  BY <1>2, <1>3, SentinelAssumption, VersionKept DEF kProtocolVersion
<1>5. d.id # Absent /\ d.id # Wrong /\ d.id.length <= MaxId
  BY <1>2, <1>3, SentinelAssumption
<1>6. d.timestamp # Wrong /\ d.status # Wrong
  BY <1>1, <1>2, SentinelAssumption
<1>7. m.payload # Absent /\ m.payload # Wrong /\ d.payload # Wrong
  BY <1>1, <1>2, SentinelAssumption
<1>8. d.type = "telemetry" => d.payload # Absent /\ d.payload.device = "string"
  <2> SUFFICES ASSUME m.type = "telemetry" PROVE m.payload # EmptyPayload /\ m.payload.device = "string"
    BY <1>2, <1>7
  <2>1. m.payload.device = "string"
    BY DEF Sound
  <2>2. EmptyPayload.device # "string"
    BY SentinelAssumption DEF EmptyPayload
  <2> QED
    BY <2>1, <2>2
<1>9. json_depth(Tree(d)) <= kMaxJsonDepth
  BY <1>1, TreeOnTheWire DEF Sound, d
<1>10. Acceptable(d)
  BY <1>1, <1>2, <1>4, <1>5, <1>6, <1>7, <1>8, <1>9 DEF Acceptable
<1>11. MessageOf(d) = m
  <2>1. (IF d.payload = Absent THEN EmptyPayload ELSE d.payload) = m.payload
    BY <1>2, <1>7
  <2>2. MessageOf(d) = [type |-> m.type, id |-> m.id, status |-> m.status, payload |-> m.payload]
    BY <1>2, <1>5, <2>1 DEF MessageOf
  <2>3. m = [type |-> m.type, id |-> m.id, status |-> m.status, payload |-> m.payload]
    BY <1>1 DEF Messages
  <2> QED
    BY <2>2, <2>3
<1> QED
  BY <1>10, <1>11 DEF parse, d

(* What parse() accepts is sound, from whatever document.                      *)
LEMMA ParsedIsSound ==
    ASSUME NEW d \in Envelopes, Acceptable(d) PROVE Sound(MessageOf(d))
<1> DEFINE m == MessageOf(d)
<1>1. /\ d.type \in MessageType /\ d.status # Wrong /\ d.payload # Wrong
      /\ d.version # Absent /\ (d.id = Absent \/ (d.id # Wrong /\ d.id.length <= MaxId))
      /\ json_depth(Tree(d)) <= kMaxJsonDepth
      /\ d.type = "telemetry" => d.payload # Absent /\ d.payload.device = "string"
  BY DEF Acceptable
<1>2. /\ d.id \in [length : Nat, from : Writers] \cup {Absent, Wrong} /\ d.payload \in Contents \cup {Absent, Wrong}
      /\ d.status \in {"text", "accepted", "rejected", Absent, Wrong}
  BY DEF Envelopes
<1>3. /\ m.type = d.type /\ m.status = d.status
      /\ m.id = IF d.id = Absent THEN generate_uuid_v4("parse") ELSE d.id
      /\ m.payload = IF d.payload = Absent THEN EmptyPayload ELSE d.payload
  BY DEF MessageOf
<1>4. m.id \in [length : 0 .. MaxId, from : Writers]
  <2>1. CASE d.id = Absent
    BY <1>3, <2>1, UuidFits DEF Writers
  <2>2. CASE d.id # Absent
    <3>1. d.id \in [length : Nat, from : Writers] /\ d.id.length <= MaxId /\ m.id = d.id
      BY <1>1, <1>2, <1>3, <2>2
    <3> QED
      BY <3>1, MessageAssumption
  <2> QED
    BY <2>1, <2>2
<1>5. m.payload \in Contents
  BY <1>1, <1>2, <1>3 DEF Contents
<1>6. m \in Messages
  <2>1. m = [type |-> m.type, id |-> m.id, status |-> m.status, payload |-> m.payload]
    BY Zenon DEF MessageOf
  <2> HIDE DEF m
  <2> QED
    BY <1>1, <1>2, <1>3, <1>4, <1>5, <2>1 DEF Messages
<1> HIDE DEF m
<1>7. json_depth(Object(Branches(m.payload))) <= kMaxJsonDepth
  <2>1. CASE m.payload = EmptyPayload
    BY <2>1, SmallPayloads
  <2>2. CASE m.payload # EmptyPayload
    <3>1. d.payload # Absent /\ m.payload = d.payload
      BY <1>3, <2>2
    <3>2. d["version"] # Absent
      BY <1>1
    <3>3. Tree(d) = Object({Scalar} \cup {PayloadTree(d.payload)})
      BY <1>1, <3>1, <3>2 DEF Tree
    <3> QED
      BY <1>1, <2>2, <3>1, <3>3 DEF Branches
  <2> QED
    BY <2>1, <2>2
<1>8. m.type = "telemetry" => m.payload.device = "string"
  BY <1>1, <1>3
<1> QED
  BY <1>6, <1>7, <1>8 DEF Sound, m

(* A document is an envelope or nothing parse() accepts.                       *)
LEMMA DocumentKinds ==
    ASSUME NEW d \in Documents
    PROVE  d \in Envelopes \/ d.form \in {"empty", "bytes", "not JSON", "not an object"}
<1>1. CASE d \in Objects
  <2>1. UuidLength \in Nat /\ MaxId \in Nat /\ MaxId + 1 \in Nat /\ Versions \subseteq Int
    BY MessageAssumption DEF UuidLength
  <2>2. [length : {UuidLength, MaxId, MaxId + 1}, from : {"peer"}] \subseteq [length : Nat, from : Writers]
    BY <2>1 DEF Writers
  <2> QED
    BY <1>1, <2>1, <2>2, Zenon DEF Objects, Envelopes, Contents
<1>2. CASE d \in [form : {"empty", "bytes", "not JSON", "not an object"}]
  BY <1>2, Zenon
<1> QED
  BY <1>1, <1>2, Zenon DEF Documents

(* How an exchange ends.                                                       *)
Settled ==
    /\ stage = "reply" => request = Rejected \/ request.type # "close"
    /\ (stage = "end" /\ request # Nothing) =>
          (response = Nothing <=> request # Rejected /\ request.type = "close")
    /\ stage = "broken off" =>
          made = Nothing /\ request = Rejected /\ doc.form \in {"not JSON", "bytes"}

(* What is on the wire, and what each side knows of it.                        *)
Exchanged ==
    /\ MessageTypeOK
    /\ made # Nothing => Sound(made)
    /\ stage \in {"start", "scan"} => made = Nothing
    /\ stage \in {"start", "scan", "request"} => request = Nothing /\ reply = Nothing
    /\ stage # "end" => response = Nothing
    /\ stage = "scan" => doc = [form |-> "bytes"]
    /\ stage = "request" => IF made = Nothing THEN doc \in Documents ELSE doc = to_json(made)
    /\ stage = "reply" => reply # Nothing /\ Sound(reply) /\ doc = to_json(reply)
    /\ response # Nothing => reply # Nothing /\ response = reply
    /\ (reply # Nothing /\ request # Rejected) =>
          /\ reply.id = request.id
          /\ request.type = "echo" => reply.payload = request.payload
    /\ RequestUnchanged
    /\ Settled

(* A message without telemetry is sound if its payload is within the limit.    *)
LEMMA PlainIsSound ==
    ASSUME NEW t \in MessageType, t # "telemetry", NEW id \in [length : 0 .. MaxId, from : Writers],
           NEW s \in {"accepted", "rejected"}, NEW c \in Contents,
           json_depth(Object(Branches(c))) <= kMaxJsonDepth,
           NEW r, r = [type |-> t, id |-> id, status |-> s, payload |-> c]
    PROVE  Sound(r) /\ r # Nothing
<1>1. r \in Messages
  BY DEF Messages
<1>2. r.type = t /\ r.payload = c
  OBVIOUS
<1> QED
  BY <1>1, <1>2, SentinelAssumption DEF Sound

(* What the server answers to a message that it could parse can be parsed too. *)
LEMMA AnswerIsSound ==
    ASSUME NEW m, Sound(m), m.type # "close"
    PROVE  /\ Sound(handle_message(m)) /\ handle_message(m) # Nothing
           /\ handle_message(m).id = m.id
           /\ m.type = "echo" => handle_message(m).payload = m.payload
<1> DEFINE r == handle_message(m)
<1>1. m.type \in MessageType /\ m.id \in [length : 0 .. MaxId, from : Writers] /\ m.payload \in Contents
  BY DEF Sound, Messages
<1>2. EmptyPayload \in Contents /\ FlatPayload \in Contents
  BY DEF Contents
<1>3. /\ "acknowledgement" \in MessageType /\ "pong" \in MessageType /\ "error" \in MessageType
      /\ MessageType = {"ping", "echo", "telemetry", "capabilities", "close", "acknowledgement", "pong", "error"}
  BY DEF MessageType, Responses, Requests
<1>4. make_acknowledgement(m) = [type |-> "acknowledgement", id |-> m.id, status |-> "accepted", payload |-> EmptyPayload]
  BY DEF make_acknowledgement
<1>5. CASE m.type = "ping"
  <2>1. r = [type |-> "pong", id |-> m.id, status |-> "accepted", payload |-> EmptyPayload]
    BY <1>4, <1>5 DEF handle_message, Responses
  <2> QED
    BY <1>1, <1>2, <1>3, <1>5, <2>1, SmallPayloads, PlainIsSound
<1>6. CASE m.type = "echo"
  <2>1. r = [type |-> "acknowledgement", id |-> m.id, status |-> "accepted", payload |-> m.payload]
    BY <1>4, <1>6 DEF handle_message, Responses
  <2>2. json_depth(Object(Branches(m.payload))) <= kMaxJsonDepth
    BY DEF Sound
  <2> QED
    BY <1>1, <1>2, <1>3, <2>1, <2>2, PlainIsSound
<1>7. CASE m.type = "telemetry"
  <2>1. r = [type |-> "acknowledgement", id |-> m.id, status |-> "accepted", payload |-> EmptyPayload]
    BY <1>4, <1>7 DEF handle_message, Responses
  <2> QED
    BY <1>1, <1>2, <1>3, <1>7, <2>1, SmallPayloads, PlainIsSound
<1>8. CASE m.type = "capabilities"
  <2>1. r = [type |-> "acknowledgement", id |-> m.id, status |-> "accepted", payload |-> FlatPayload]
    BY <1>4, <1>8 DEF handle_message, Responses
  <2> QED
    BY <1>1, <1>2, <1>3, <1>8, <2>1, SmallPayloads, PlainIsSound
<1>9. CASE m.type \in Responses
  <2>1. r = [type |-> "error", id |-> m.id, status |-> "rejected", payload |-> FlatPayload]
    BY <1>9 DEF handle_message, make_error, Responses
  <2>2. m.type # "echo"
    BY <1>9 DEF Responses
  <2> QED
    BY <1>1, <1>2, <1>3, <2>1, <2>2, SmallPayloads, PlainIsSound
<1> QED
  BY <1>1, <1>3, <1>5, <1>6, <1>7, <1>8, <1>9 DEF Responses

(* So can what it answers to anything else.                                    *)
LEMMA ErrorIsSound == Sound(make_error(generate_uuid_v4("make_error")))
<1> DEFINE id == generate_uuid_v4("make_error")
<1>1. id \in [length : 0 .. MaxId, from : Writers] /\ FlatPayload \in Contents /\ "error" \in MessageType
  BY UuidFits DEF Writers, Contents, MessageType, Responses
<1> HIDE DEF id
<1>2. Sound(make_error(id))
  BY <1>1, SmallPayloads DEF Sound, Messages, make_error
<1> QED
  BY <1>2 DEF id

(* The text goes through is_valid_utf8 as if nothing were around it.           *)
LEMMA ScanAlone ==
    ASSUME [MessageNext]_messageVars PROVE [Utf8Next \/ \E s \in Strings : Call(s)]_utf8Vars
  BY Zenon DEF MessageNext, messageVars, build_message, build_message_throws, Arrive, ArriveBytes,
         is_valid_utf8, Serve, ServeThrows, Receive

(* What parse() returns is sound, or Rejected.                                 *)
LEMMA ParseReturns ==
    ASSUME NEW d, d \in Envelopes \/ d.form # "object"
    PROVE  parse(d) = Rejected \/ Sound(parse(d))
<1>1. CASE Acceptable(d)
  <2>1. d \in Envelopes
    BY <1>1 DEF Acceptable
  <2> QED
    BY <1>1, <2>1, ParsedIsSound DEF parse
<1>2. CASE ~Acceptable(d)
  BY <1>2 DEF parse
<1> QED
  BY <1>1, <1>2

(* A message that is sound is neither of the values that are none.             *)
LEMMA SoundIsMessage == ASSUME NEW m, Sound(m) PROVE m \in Messages /\ m # Nothing /\ m # Rejected
  BY SentinelAssumption DEF Sound

(* Every step of either side keeps it.                                         *)
LEMMA ExchangedStep ==
    ASSUME Exchanged, [MessageNext]_messageVars, Utf8TypeOK' PROVE Exchanged'
<1>1. ASSUME NEW d \in Documents, build_message(d) PROVE Exchanged'
  <2>1. /\ stage = "start" /\ stage' = "request" /\ d.form \in {"empty", "object"}
        /\ UNCHANGED <<request, reply, closing, response>>
    BY <1>1 DEF build_message
  <2>2. PICK m : /\ m = IF d.form = "empty" THEN make_request("ping") ELSE parse(Filled(d))
                 /\ m # Rejected /\ made' = m /\ doc' = to_json(m)
    BY <1>1 DEF build_message
  <2>3. Sound(m)
    <3>1. CASE d.form = "empty"
      <4>1. PICK id : id = generate_uuid_v4("make_request")
        OBVIOUS
      <4>2. /\ id \in [length : 0 .. MaxId, from : Writers]
            /\ EmptyPayload \in Contents /\ "ping" \in MessageType
        BY <4>1, UuidFits DEF Writers, Contents, MessageType, Requests
      <4>3. m = [type |-> "ping", id |-> id, status |-> Absent, payload |-> EmptyPayload]
        BY <2>2, <3>1, <4>1 DEF make_request
      <4> QED
        BY <4>2, <4>3, SmallPayloads DEF Sound, Messages
    <3>2. CASE d.form = "object"
      <4>1. d \in Envelopes
        BY <3>2, DocumentKinds, Zenon
      <4>2. /\ generate_uuid_v4("build_message") \in [length : Nat, from : Writers]
            /\ kProtocolVersion \in Int
        BY UuidFits DEF Writers, kProtocolVersion
      <4>3. Filled(d) \in Envelopes
        BY <4>1, <4>2, Zenon DEF Filled, Envelopes
      <4> QED
        BY <2>2, <3>2, <4>3, ParseReturns
    <3> QED
      BY <2>1, <3>1, <3>2
  <2>4. m \in Messages /\ m # Nothing
    BY <2>3, SoundIsMessage
  <2>5. MessageTypeOK'
    BY <2>1, <2>2, <2>4 DEF Exchanged, MessageTypeOK
  <2> QED
    BY <2>1, <2>2, <2>3, <2>4, <2>5 DEF Exchanged, RequestUnchanged, Settled
<1>2. ASSUME NEW d \in Documents, build_message_throws(d) PROVE Exchanged'
  <2>1. stage = "start" /\ stage' = "end" /\ UNCHANGED <<made, doc, request, reply, closing, response>>
    BY <1>2, Zenon DEF build_message_throws
  <2>2. MessageTypeOK'
    BY <2>1 DEF Exchanged, MessageTypeOK
  <2> QED
    BY <2>1, <2>2 DEF Exchanged, RequestUnchanged, Settled
<1>3. ASSUME NEW d \in Documents, Arrive(d) PROVE Exchanged'
  <2>1. stage = "start" /\ stage' = "request" /\ doc' = d /\ UNCHANGED <<made, request, reply, closing, response>>
    BY <1>3 DEF Arrive
  <2>2. MessageTypeOK'
    BY <2>1 DEF Exchanged, MessageTypeOK
  <2> QED
    BY <2>1, <2>2 DEF Exchanged, RequestUnchanged, Settled
<1>4. ASSUME NEW s, ArriveBytes(s) PROVE Exchanged'
  <2>1. /\ stage = "start" /\ stage' = "scan" /\ doc' = [form |-> "bytes"]
        /\ UNCHANGED <<made, request, reply, closing, response>>
    BY <1>4 DEF ArriveBytes
  <2>2. MessageTypeOK'
    BY <2>1 DEF Exchanged, MessageTypeOK
  <2> QED
    BY <2>1, <2>2 DEF Exchanged, RequestUnchanged, Settled
<1>5. CASE is_valid_utf8
  <2>1. /\ stage = "scan" /\ stage' \in {"scan", "request"}
        /\ UNCHANGED <<made, doc, request, reply, closing, response>>
    BY <1>5 DEF is_valid_utf8
  <2>2. MessageTypeOK'
    BY <2>1, Zenon DEF Exchanged, MessageTypeOK
  <2>3. [form |-> "bytes"] \in Documents
    BY DEF Documents
  <2> QED
    BY <2>1, <2>2, <2>3, Zenon DEF Exchanged, RequestUnchanged, Settled
<1>6. CASE Serve
  <2>1. /\ stage = "request" /\ request' = parse(doc) /\ UNCHANGED <<made, response>>
        /\ reply' = IF request' = Rejected THEN make_error(generate_uuid_v4("make_error"))
                    ELSE handle_message(request')
        /\ closing' \in BOOLEAN
        /\ doc' = IF reply' = Nothing THEN doc ELSE to_json(reply')
        /\ stage' = IF reply' = Nothing THEN "end" ELSE "reply"
    BY <1>6 DEF Serve
  <2>2. response = Nothing /\ request = Nothing /\ reply = Nothing
    BY <2>1 DEF Exchanged
  <2>3. made # Nothing => request' = made
    BY <2>1, RoundTrips DEF Exchanged
  <2>4. request' = Rejected \/ Sound(request')
    <3>1. CASE made # Nothing
      BY <2>3, <3>1 DEF Exchanged
    <3>2. CASE made = Nothing
      <4>1. doc \in Documents
        BY <2>1, <3>2 DEF Exchanged
      <4>2. doc \in Envelopes \/ doc.form # "object"
        BY <4>1, DocumentKinds, Zenon
      <4> QED
        BY <2>1, <4>2, ParseReturns
    <3> QED
      BY <3>1, <3>2
  <2>5. CASE request' = Rejected
    <3>1. reply' = make_error(generate_uuid_v4("make_error")) /\ Sound(reply')
      BY <2>1, <2>5, ErrorIsSound
    <3>2. reply' \in Messages /\ reply' # Nothing
      BY <3>1, SoundIsMessage
    <3>3. MessageTypeOK'
      BY <2>1, <2>5, <3>2 DEF Exchanged, MessageTypeOK
    <3> QED
      BY <2>1, <2>2, <2>3, <2>5, <3>1, <3>2, <3>3 DEF Exchanged, RequestUnchanged, Settled
  <2>6. CASE Sound(request') /\ request'.type # "close"
    <3>1. request' \in Messages /\ request' # Nothing /\ request' # Rejected
      BY <2>6, SoundIsMessage
    <3>2. reply' = handle_message(request')
      BY <2>1, <3>1
    <3>3. /\ Sound(reply') /\ reply' # Nothing /\ reply'.id = request'.id
          /\ request'.type = "echo" => reply'.payload = request'.payload
      BY <2>6, <3>2, AnswerIsSound
    <3>4. reply' \in Messages
      BY <3>3, SoundIsMessage
    <3>5. MessageTypeOK'
      BY <2>1, <3>1, <3>3, <3>4 DEF Exchanged, MessageTypeOK
    <3> QED
      BY <2>1, <2>2, <2>3, <2>6, <3>1, <3>3, <3>5 DEF Exchanged, RequestUnchanged, Settled
  <2>7. CASE Sound(request') /\ request'.type = "close"
    <3>1. request' \in Messages /\ request' # Nothing /\ request' # Rejected
      BY <2>7, SoundIsMessage
    <3>2. reply' = Nothing
      BY <2>1, <2>7, <3>1 DEF handle_message, Responses
    <3>3. MessageTypeOK'
      BY <2>1, <3>1, <3>2 DEF Exchanged, MessageTypeOK
    <3> QED
      BY <2>1, <2>2, <2>3, <2>7, <3>1, <3>2, <3>3 DEF Exchanged, RequestUnchanged, Settled
  <2> QED
    BY <2>4, <2>5, <2>6, <2>7
<1>7. CASE Receive
  <2>1. /\ stage = "reply" /\ response' = parse(doc) /\ stage' = "end"
        /\ UNCHANGED <<made, doc, request, reply, closing>>
    BY <1>7 DEF Receive
  <2>2. reply # Nothing /\ Sound(reply) /\ doc = to_json(reply)
    BY <2>1 DEF Exchanged
  <2>3. response' = reply
    BY <2>1, <2>2, RoundTrips
  <2>4. MessageTypeOK'
    BY <2>1, <2>2, <2>3 DEF Exchanged, MessageTypeOK
  <2> QED
    BY <2>1, <2>2, <2>3, <2>4 DEF Exchanged, RequestUnchanged, Settled
<1>8. CASE ServeThrows
  <2>1. /\ stage = "request" /\ stage' = "broken off" /\ request' = Rejected /\ closing' = TRUE
        /\ UNCHANGED <<made, doc, reply, response>> /\ doc.form \in {"not JSON", "bytes"}
    BY <1>8, Zenon DEF ServeThrows, QuotesPart
  <2>2. made = Nothing
    <3>1. made # Nothing => doc = to_json(made)
      BY <2>1, Zenon DEF Exchanged
    <3>2. to_json(made).form = "object"
      BY DEF to_json
    <3> QED
      BY <2>1, <3>1, <3>2, Zenon
  <2>3. MessageTypeOK'
    BY <2>1, Zenon DEF Exchanged, MessageTypeOK
  <2> QED
    BY <2>1, <2>2, <2>3, Zenon DEF Exchanged, RequestUnchanged, Settled
<1>9. CASE UNCHANGED messageVars
  <2>1. UNCHANGED <<stage, made, doc, request, reply, closing, response>>
    BY <1>9 DEF messageVars
  <2>2. MessageTypeOK'
    BY <2>1, Zenon DEF Exchanged, MessageTypeOK
  <2> QED
    BY <2>1, <2>2, Zenon DEF Exchanged, RequestUnchanged, Settled
<1> QED
  BY <1>1, <1>2, <1>3, <1>4, <1>5, <1>6, <1>7, <1>8, <1>9 DEF MessageNext

(* Exchanged holds in every reachable state, and with it what the parser of    *)
(* texts has found out.                                                        *)
LEMMA ExchangeInvariance == MessageSpec => [](Exchanged /\ Scanned)
<1>1. MessageInit => Exchanged /\ Scanned
  <2> SUFFICES ASSUME MessageInit PROVE Exchanged /\ Scanned
    OBVIOUS
  <2>1. Scanned
    BY CallScans DEF MessageInit
  <2>2. MessageTypeOK
    BY <2>1, Zenon DEF MessageInit, MessageTypeOK, Scanned
  <2> QED
    BY <2>1, <2>2 DEF MessageInit, Exchanged, RequestUnchanged, Settled
<1>2. Exchanged /\ Scanned /\ [MessageNext]_messageVars => (Exchanged /\ Scanned)'
  <2> SUFFICES ASSUME Exchanged, Scanned, [MessageNext]_messageVars PROVE (Exchanged /\ Scanned)'
    OBVIOUS
  <2>1. Scanned'
    BY ScanAlone, ScannedStep
  <2>2. Utf8TypeOK'
    BY <2>1 DEF Scanned
  <2> QED
    BY <2>1, <2>2, ExchangedStep
<1> QED
  BY <1>1, <1>2, PTL DEF MessageSpec

(* Also in the server's parser, on whatever bytes some client sends, the       *)
(* verdict of is_valid_utf8 is the table's.                                    *)
THEOREM ServerMatchesTable == MessageSpec => []MatchesTable
  BY ExchangeInvariance, ScannedMatches, PTL

(* The server reads a client's message as the client built it, for every limit *)
(* on depth and length and every payload.                                      *)
THEOREM RequestNeverChanged == MessageSpec => []RequestUnchanged
<1>1. Exchanged => RequestUnchanged
  BY DEF Exchanged
<1> QED
  BY <1>1, ExchangeInvariance, PTL

(* The client reads every reply as the server wrote it, with the id of its     *)
(* request, and an echo brings the payload back.  Only a close message and a   *)
(* text that is no JSON can go without a reply.                                *)
THEOREM RepliesAlwaysUnderstood == MessageSpec => []RepliesUnderstood
<1>1. Exchanged => RepliesUnderstood
  BY Zenon DEF Exchanged, Settled, RepliesUnderstood
<1> QED
  BY <1>1, ExchangeInvariance, PTL
=============================================================================
