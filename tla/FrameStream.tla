----------------------------- MODULE FrameStream ------------------------------
(* What a receiver of length-prefixed frames promises, whatever it buffers:    *)
(* the payloads it hands out are cut from the received bytes at the places the *)
(* length prefixes say, one after the other, and an illegal length ends the    *)
(* stream no later than the call that sees it complete.                        *)
EXTENDS Framing

VARIABLES
    received,   \* all bytes received on the stream
    pos,        \* how many of them belong to payloads handed out
    frames,     \* the payloads handed out
    status      \* "open", "failed" on an illegal length, or "closed" by the peer

streamVars == <<received, pos, frames, status>>

StreamInit == received = <<>> /\ pos = 0 /\ frames = <<>> /\ status = "open"

\* Bytes are only read when no complete frame is left to hand out.
Receive(data) ==
    /\ status = "open"
    /\ ~FrameAt(received, pos) /\ ~BadHeaderAt(received, pos)
    /\ Len(received) + Len(data) <= MaxBytes
    /\ received' = received \o data
    /\ status' = IF BadHeaderAt(received \o data, pos) THEN "failed" ELSE "open"
    /\ UNCHANGED <<pos, frames>>

HandOut ==
    /\ status = "open"
    /\ FrameAt(received, pos)
    /\ frames' = Append(frames, PayloadAt(received, pos))
    /\ pos' = pos + HeaderSize + LengthAt(received, pos)
    /\ UNCHANGED <<received, status>>

Reject ==
    /\ status = "open"
    /\ BadHeaderAt(received, pos)
    /\ status' = "failed"
    /\ UNCHANGED <<received, pos, frames>>

PeerCloses ==
    /\ status = "open"
    /\ ~FrameAt(received, pos) /\ ~BadHeaderAt(received, pos)
    /\ status' = "closed"
    /\ UNCHANGED <<received, pos, frames>>

\* The receiver may be told to forget the stream and start on a new one.
Restart ==
    /\ received' = <<>> /\ pos' = 0 /\ frames' = <<>> /\ status' = "open"

StreamNext ==
    \/ \E data \in Chunks : Receive(data)
    \/ HandOut \/ Reject \/ PeerCloses \/ Restart

StreamSpec == StreamInit /\ [][StreamNext]_streamVars
=============================================================================
