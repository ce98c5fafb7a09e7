------------------------------- MODULE Framing --------------------------------
(* Length-prefixed frames: a big-endian header of four bytes announces the     *)
(* length of the payload that follows (namespace framing of                    *)
(* src/src/common/application_protocol.cpp).                                   *)
EXTENDS Naturals, Sequences

CONSTANTS
    Base,           \* the number of byte values (256 in the code)
    MaxFrameSize,   \* config.max_frame_size, which the configuration keeps above 0
    ReadChunk,      \* kReadChunk: the most bytes one read returns
    MaxBytes        \* bound: bytes received on one stream

ASSUME FramingAssumption ==
    /\ Base \in Nat \ {0}
    /\ MaxFrameSize \in Nat \ {0}
    /\ ReadChunk \in Nat \ {0}
    /\ MaxBytes \in Nat

Byte == 0 .. Base - 1

\* kHeaderSize
HeaderSize == 4

\* Mutant: the header is read with its first byte as the lowest.
LengthAtReversed(s, at) ==
    ((s[at + 4] * Base + s[at + 3]) * Base + s[at + 2]) * Base + s[at + 1]

\* The length announced by the four bytes of s that follow the first at.
LengthAt(s, at) ==
    ((s[at + 1] * Base + s[at + 2]) * Base + s[at + 3]) * Base + s[at + 4]

\* decode_length throws on an empty frame and on one that is too large.
Legal(length) == length # 0 /\ length <= MaxFrameSize

HeaderAt(s, at)    == Len(s) - at >= HeaderSize
BadHeaderAt(s, at) == HeaderAt(s, at) /\ ~Legal(LengthAt(s, at))
FrameAt(s, at)     == /\ HeaderAt(s, at)
                      /\ Legal(LengthAt(s, at))
                      /\ Len(s) - at >= HeaderSize + LengthAt(s, at)

PayloadAt(s, at) == SubSeq(s, at + HeaderSize + 1, at + HeaderSize + LengthAt(s, at))

\* What one read may return.
Chunks == UNION {[1 .. n -> Byte] : n \in 1 .. ReadChunk}

\* encode() throws on a payload that is empty or too large; otherwise the frame
\* is the four big-endian digits of its length and the payload.
Encodable(payload) == Legal(Len(payload))

encode(payload) ==
    LET n == Len(payload)
    IN  <<(n \div (Base * Base * Base)) % Base, (n \div (Base * Base)) % Base,
          (n \div Base) % Base, n % Base>> \o payload
=============================================================================
