------------------------------- MODULE Utf8 -------------------------------
(***************************************************************************)
(* is_valid_utf8 (src/common/application_protocol.cpp): the loop over the   *)
(* bytes of a message, one iteration of the outer loop a step.              *)
(***************************************************************************)
EXTENDS Naturals, Sequences

CONSTANTS Bytes,    \* byte values a string is made of
          MaxLen    \* bound: length of a string

ASSUME Utf8Assumption == Bytes \subseteq 0 .. 255 /\ MaxLen \in Nat

VARIABLES bytes,     \* the string
          p,         \* position of the next sequence, from 1
          reach,     \* the last position the loop has read
          verdict    \* "scanning", or what the function returned

utf8Vars == <<bytes, p, reach, verdict>>

(* What lies behind the string; the loop must not depend on it.             *)
At(i) == IF i \in DOMAIN bytes THEN bytes[i] ELSE 0

(* Continuation bytes a leading byte announces, and the bits it gives to    *)
(* the code point; 4 where no sequence starts with the byte.                *)
extra(b) ==
  CASE b < 128           -> 0
    [] b \in 192 .. 223  -> 1
    [] b \in 224 .. 239  -> 2
    [] b \in 240 .. 247  -> 3
    [] OTHER             -> 4

Continues(b) == b \in 128 .. 191

(* The code point of the sequence at p: the low bits of the leading byte,   *)
(* then six bits of each continuation byte.                                 *)
Low(i) == At(p + i) % 64
code_point(n) ==
  CASE n = 0 -> At(p)
    [] n = 1 -> 64 * (At(p) % 32) + Low(1)
    [] n = 2 -> 4096 * (At(p) % 16) + 64 * Low(1) + Low(2)
    [] OTHER -> 262144 * (At(p) % 8) + 4096 * Low(1) + 64 * Low(2) + Low(3)

\* Mutant: a three-byte sequence may encode what two bytes can.
ScalarOverlong(n, c) ==
  /\ n = 1 => c >= 128
  /\ n = 3 => c >= 65536
  /\ c <= 1114111 /\ ~(c >= 55296 /\ c <= 57343)

(* Neither overlong, nor out of range, nor a surrogate.                     *)
ScalarValue(n, c) ==
  /\ n = 1 => c >= 128
  /\ n = 2 => c >= 2048
  /\ n = 3 => c >= 65536
  /\ c <= 1114111 /\ ~(c >= 55296 /\ c <= 57343)

Fits(n) == p + n <= Len(bytes)

Strings == UNION {[1 .. n -> Bytes] : n \in 0 .. MaxLen}

(* The function is called with s.                                           *)
Call(s) == bytes' = s /\ p' = 1 /\ reach' = 0 /\ verdict' = "scanning"

Utf8Init == bytes \in Strings /\ p = 1 /\ reach = 0 /\ verdict = "scanning"

(* The tests of one iteration on a sequence of n continuation bytes.        *)
Good(n) ==
  /\ n < 4 /\ Fits(n)
  /\ \A i \in 1 .. n : Continues(At(p + i))
  /\ ScalarValue(n, code_point(n))

(* One iteration: the sequence at p is read and passed, or the function     *)
(* returns false at the first test that fails.                              *)
Scan ==
  /\ verdict = "scanning" /\ p <= Len(bytes)
  /\ LET n == extra(At(p))
     IN  /\ p' = IF Good(n) THEN p + n + 1 ELSE p
         /\ reach' = IF n < 4 /\ Fits(n) THEN p + n ELSE p
         /\ verdict' = IF Good(n) THEN verdict ELSE "invalid"
  /\ bytes' = bytes

Return ==
  /\ verdict = "scanning" /\ p > Len(bytes)
  /\ verdict' = "valid"
  /\ UNCHANGED <<bytes, p, reach>>

Utf8Next == Scan \/ Return

(* The scan of one text after another.                                      *)
Utf8Spec == Utf8Init /\ [][Utf8Next \/ \E s \in Strings : Call(s)]_utf8Vars
---------------------------------------------------------------------------
(* The values of the loop.                                                  *)
Utf8TypeOK ==
  /\ bytes \in Seq(Bytes) /\ p \in 1 .. Len(bytes) + 1
  /\ verdict \in {"scanning", "valid", "invalid"}

(* The table of well-formed sequences of the Unicode standard: ranges of    *)
(* the first, second and further bytes.                                     *)
WellFormed(s) ==
  \/ Len(s) = 1 /\ s[1] <= 127
  \/ Len(s) = 2 /\ s[1] \in 194 .. 223 /\ Continues(s[2])
  \/ /\ Len(s) = 3 /\ Continues(s[3])
     /\ \/ s[1] = 224 /\ s[2] \in 160 .. 191
        \/ s[1] \in (225 .. 236) \cup {238, 239} /\ Continues(s[2])
        \/ s[1] = 237 /\ s[2] \in 128 .. 159
  \/ /\ Len(s) = 4 /\ Continues(s[3]) /\ Continues(s[4])
     /\ \/ s[1] = 240 /\ s[2] \in 144 .. 191
        \/ s[1] \in 241 .. 243 /\ Continues(s[2])
        \/ s[1] = 244 /\ s[2] \in 128 .. 143

(* From i a well-formed sequence leads to another place of cuts.            *)
Leads(cuts, i) ==
  \E n \in 1 .. 4 : i + n \in cuts /\ WellFormed(SubSeq(bytes, i, i + n - 1))

(* Cuts are places, the first among them, where a sequence starts and leads *)
(* to the next; only behind the last byte does none have to.                *)
Splits(cuts) ==
  /\ cuts \subseteq 1 .. Len(bytes) + 1 /\ 1 \in cuts
  /\ \A i \in cuts : i = Len(bytes) + 1 \/ Leads(cuts, i)

Reference == \E cuts \in SUBSET (1 .. Len(bytes) + 1) : Splits(cuts)

(* The function returns what the Unicode table says of the whole message:   *)
(* it accepts exactly the strings made of well-formed sequences.  No test   *)
(* of it reads behind the end, not even for a sequence that is cut short.   *)
MatchesTable ==
  /\ reach <= Len(bytes)
  /\ verdict = "valid" => Reference
  /\ verdict = "invalid" => ~Reference
=============================================================================
