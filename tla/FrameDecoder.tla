----------------------------- MODULE FrameDecoder -----------------------------
(* framing::Decoder (src/src/common/application_protocol.cpp) and the loop in  *)
(* which server and client use it: next_frame() until it returns nothing, then *)
(* one read and one feed().  The decoder keeps one buffer, of which consumed   *)
(* bytes have been handed out; feed() reclaims them only now and then.         *)
EXTENDS Framing

VARIABLES
    buffer,     \* buffer_
    consumed,   \* consumed_
    phase,      \* the loop: "pull" a frame, "read" bytes, "failed", "closed"
    received,   \* history: all bytes fed since the decoder was created
    frames      \* history: the payloads next_frame() has returned

vars == <<buffer, consumed, phase, received, frames>>

Available == Len(buffer) - consumed

\* The promise this module is to keep.
Stream == INSTANCE FrameStream WITH
            pos    <- Len(received) - Available,
            status <- IF phase \in {"failed", "closed"} THEN phase ELSE "open"

\* The four header bytes at the read position, and what decode_length says.
decode_length == LengthAt(buffer, consumed)

TypeOK ==
    /\ buffer \in Seq(Byte)
    /\ consumed \in 0 .. Len(buffer)
    /\ phase \in {"pull", "read", "failed", "closed"}
    /\ received \in Seq(Byte)
    /\ frames \in Seq(Seq(Byte))

Init ==
    /\ buffer = <<>>
    /\ consumed = 0
    /\ phase = "pull"
    /\ received = <<>>
    /\ frames = <<>>

-----------------------------------------------------------------------------
\* Mutant: a frame is only handed out once a byte of the next one is there.
NextFrameWaits ==
    LET end == consumed + HeaderSize + decode_length IN
    /\ phase = "pull"
    /\ Available >= HeaderSize
    /\ Legal(decode_length)
    /\ Available > HeaderSize + decode_length
    /\ frames' = Append(frames, SubSeq(buffer, consumed + HeaderSize + 1, end))
    /\ consumed' = end
    /\ UNCHANGED <<buffer, phase, received>>

\* next_frame() returns a payload, and drops the buffer if that was all of it.
NextFrame ==
    LET end == consumed + HeaderSize + decode_length IN
    /\ phase = "pull"
    /\ Available >= HeaderSize
    /\ Legal(decode_length)
    /\ Available >= HeaderSize + decode_length
    /\ frames' = Append(frames, SubSeq(buffer, consumed + HeaderSize + 1, end))
    /\ consumed' = IF end = Len(buffer) THEN 0 ELSE end
    /\ buffer' = IF end = Len(buffer) THEN <<>> ELSE buffer
    /\ UNCHANGED <<phase, received>>

\* next_frame() throws on an illegal length.
NextFrameThrows ==
    /\ phase = "pull"
    /\ Available >= HeaderSize
    /\ ~Legal(decode_length)
    /\ phase' = "failed"
    /\ UNCHANGED <<buffer, consumed, received, frames>>

\* next_frame() returns nothing: the header, or the payload, is incomplete.
NeedMore ==
    /\ phase = "pull"
    /\ Available >= HeaderSize =>
            Legal(decode_length) /\ Available < HeaderSize + decode_length
    /\ phase' = "read"
    /\ UNCHANGED <<buffer, consumed, received, frames>>

\* Mutant: the consumed bytes are only dropped when they are all there is.
ReclaimsOnlyAll == consumed > 0 /\ consumed = Len(buffer)

\* feed() first drops the consumed bytes, if they are all there is or too many.
Reclaims == \/ consumed > 0 /\ consumed = Len(buffer)
            \/ consumed > HeaderSize + MaxFrameSize

Reclaimed == IF Reclaims THEN SubSeq(buffer, consumed + 1, Len(buffer)) ELSE buffer

\* Mutant: the header is not validated when it becomes complete.
FeedUnchecked(data) ==
    /\ phase = "read"
    /\ Len(received) + Len(data) <= MaxBytes
    /\ buffer' = Reclaimed \o data
    /\ consumed' = IF Reclaims THEN 0 ELSE consumed
    /\ phase' = "pull"
    /\ received' = received \o data
    /\ UNCHANGED frames

\* A read returns data: feed() appends it and throws if the header at the read
\* position is now complete and illegal.
Feed(data) ==
    /\ phase = "read"
    /\ Len(received) + Len(data) <= MaxBytes
    /\ buffer' = Reclaimed \o data
    /\ consumed' = IF Reclaims THEN 0 ELSE consumed
    /\ phase' = IF BadHeaderAt(buffer', consumed') THEN "failed" ELSE "pull"
    /\ received' = received \o data
    /\ UNCHANGED frames

\* A read returns nothing: the peer has shut the connection down.
EndOfStream ==
    /\ phase = "read"
    /\ phase' = "closed"
    /\ UNCHANGED <<buffer, consumed, received, frames>>

\* reset(): the decoder is used for a new stream.
Reset ==
    /\ buffer' = <<>>
    /\ consumed' = 0
    /\ phase' = "pull"
    /\ received' = <<>>
    /\ frames' = <<>>

Next ==
    \/ NextFrame \/ NextFrameThrows \/ NeedMore
    \/ \E data \in Chunks : Feed(data)
    \/ EndOfStream \/ Reset

Spec == Init /\ [][Next]_vars

-----------------------------------------------------------------------------
\* However the bytes are cut into reads and whenever feed() reclaims, the bytes
\* not yet handed out are exactly the last ones received: none is lost,
\* duplicated or moved.
UnreadIntact ==
    /\ consumed <= Len(buffer)
    /\ Available <= Len(received)
    /\ \A i \in 1 .. Available :
            buffer[consumed + i] = received[Len(received) - Available + i]

\* The memory a peer can make the decoder hold: reclaiming may leave up to one
\* maximal frame of consumed bytes, and an incomplete frame is shorter than one.
BufferBound == Len(buffer) <= 2 * (HeaderSize + MaxFrameSize) - 1 + ReadChunk

\* The decoder keeps the promise of FrameStream.
ImplementsStream == Stream!StreamSpec
=============================================================================
