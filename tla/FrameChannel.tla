----------------------------- MODULE FrameChannel -----------------------------
(* A sender that frames its messages with encode() and writes them to a byte   *)
(* stream, and the decoder at the other end, which sees the stream in reads    *)
(* that need not respect any boundary.  The sender's stream may end in bytes   *)
(* that are no frame: an illegal length, or a frame that is cut short.         *)
EXTENDS FrameDecoder

CONSTANTS
    Sendable,      \* the serialised messages a sender may want to send
    MaxMessages    \* bound: messages sent in one behaviour

\* kAbsoluteMaxFrameSize keeps every frame size far below what four bytes can say.
ASSUME ChannelAssumption ==
    /\ Sendable \subseteq Seq(Byte)
    /\ MaxMessages \in Nat
    /\ MaxFrameSize < Base * Base * Base * Base

VARIABLES
    sent,      \* the payloads sent
    wire,      \* the bytes written and not yet read
    foreign    \* the stream ends in something that is no frame

channelVars == <<vars, sent, wire, foreign>>

ChannelTypeOK ==
    /\ TypeOK
    /\ sent \in Seq(Seq(Byte))
    /\ wire \in Seq(Byte)
    /\ foreign \in BOOLEAN

ChannelInit == Init /\ sent = <<>> /\ wire = <<>> /\ foreign = FALSE

\* encode() and ssl_write_all; where encode() throws, nothing is written.
Send(p) ==
    /\ Encodable(p)
    /\ ~foreign /\ phase # "closed" /\ Len(sent) < MaxMessages
    /\ sent' = Append(sent, p)
    /\ wire' = wire \o encode(p)
    /\ UNCHANGED <<vars, foreign>>

\* A peer that does not use encode(), or stops in the middle of a header.
SendForeign(bytes) ==
    /\ ~foreign /\ phase # "closed"
    /\ wire' = wire \o bytes
    /\ foreign' = TRUE
    /\ UNCHANGED <<vars, sent>>

\* ssl_read_some returns the next n bytes, which are fed to the decoder.
Read(n) ==
    /\ n <= Len(wire)
    /\ Feed(SubSeq(wire, 1, n))
    /\ wire' = SubSeq(wire, n + 1, Len(wire))
    /\ UNCHANGED <<sent, foreign>>

Decode ==
    /\ NextFrame \/ NextFrameThrows \/ NeedMore
    /\ UNCHANGED <<sent, wire, foreign>>

ReadSome == \E n \in 1 .. ReadChunk : Read(n)

\* The peer has closed the connection and everything it wrote has been read.
ReadNothing ==
    /\ wire = <<>>
    /\ EndOfStream
    /\ UNCHANGED <<sent, wire, foreign>>

\* The decoder is used for another connection.
Reconnect ==
    /\ Reset
    /\ sent' = <<>> /\ wire' = <<>> /\ foreign' = FALSE

ChannelNext ==
    \/ \E p \in Sendable : Send(p)
    \/ \E n \in 1 .. HeaderSize : \E bytes \in [1 .. n -> Byte] : SendForeign(bytes)
    \/ Decode
    \/ ReadSome
    \/ ReadNothing
    \/ Reconnect

\* A read returns what has arrived, and the receiver's loop goes on.
ChannelSpec ==
    ChannelInit /\ [][ChannelNext]_channelVars
                /\ WF_channelVars(Decode) /\ WF_channelVars(ReadSome)

-----------------------------------------------------------------------------
\* What encode() writes are bytes, and the decoder returns it: it never rejects a frame, its
\* payloads are the first of those sent, and it has all of them once it has
\* read every byte and asks for more.
RoundTrip ==
    /\ ChannelTypeOK
    /\ phase = "failed" => foreign
    /\ Len(frames) <= Len(sent)
    /\ \A i \in 1 .. Len(frames) : frames[i] = sent[i]
    /\ wire = <<>> /\ phase \in {"read", "closed"} => Len(frames) = Len(sent)

-----------------------------------------------------------------------------
(* A reference to compare the decoder with: the frames of a finished byte      *)
(* sequence, each starting where the one before it ends.                       *)

\* The big-endian number in the four bytes of s that follow the first at.
Announced(s, at) ==
    Base * Base * Base * s[at + 1] + Base * Base * s[at + 2] + Base * s[at + 3] + s[at + 4]

Illegal(s, at)  == Len(s) >= at + 4 /\ Announced(s, at) \notin 1 .. MaxFrameSize
Complete(s, at) == /\ Len(s) >= at + 4 /\ ~Illegal(s, at)
                   /\ Len(s) >= at + 4 + Announced(s, at)

\* Where the first n frames of s end, or as many of them as it has.
Ends(s) ==
    LET end[n \in 0 .. Len(s)] ==
            IF n = 0 THEN 0
            ELSE LET at == end[n - 1]
                 IN  IF Complete(s, at) THEN at + 4 + Announced(s, at) ELSE at
    IN  end

\* The payloads handed out are the first of those the received bytes contain;
\* before the next read they are all of them; and the connection fails exactly
\* when an illegal length follows the frames handed out.  What encode() wrote
\* comes back as it went in.
MatchesReference ==
    LET end == Ends(received)
        n   == Len(frames)
    IN  /\ RoundTrip
        /\ n <= Len(received)
        /\ \A i \in 1 .. n : /\ Complete(received, end[i - 1])
                              /\ frames[i] = SubSeq(received, end[i - 1] + 5, end[i])
        /\ phase \in {"read", "closed"} =>
                ~Complete(received, end[n]) /\ ~Illegal(received, end[n])
        /\ phase = "failed" => Illegal(received, end[n])

\* Every message sent is eventually handed out, also when the peer goes on with
\* something that is no frame, unless the connection is given up.
AllDelivered ==
    \A n \in 1 .. MaxMessages :
        (Len(sent) >= n) ~> (Len(frames) >= n \/ Len(sent) < n)
=============================================================================
