---------------------------- MODULE ServerSession -----------------------------
(* handle_connection (src/src/server/server.cpp): one connection, from the     *)
(* handshake through the message loop to its record, against a peer that sends *)
(* what it likes.  A frame is the kind of message in it (FrameDecoder shows    *)
(* that frames come out of the stream as they went in); one read may bring     *)
(* part of a frame or several.  OpenSSL is external and not trusted: whatever  *)
(* the handshake agrees on, the checks after it decide.                        *)
EXTENDS ConnectionRecord

CONSTANTS
    Profile,        \* context_.profile()
    Groups,         \* the groups a handshake may agree on
    WantClientCert, \* want_client_cert
    Insecure,       \* config_.common.insecure_development_mode
    MaxMessages,    \* config_.max_messages_per_connection
    Oversized,      \* kinds of message whose reply exceeds max_frame_size
    Sends,          \* kinds of message the peer sends
    MaxSent,        \* bound: frames the peer sends
    MaxReads        \* bound: reads in which one frame arrives

Requests  == {"ping", "echo", "telemetry", "capabilities", "close"}
Responses == {"acknowledgement", "pong", "error"}
Malformed == "malformed"    \* Message::parse throws on it
BadLength == "bad length"   \* the decoder throws on it
Truncated == "truncated"    \* the peer ends within the frame
Kinds     == Requests \cup Responses \cup {Malformed, BadLength, Truncated}

ASSUME SessionAssumption ==
    /\ Groups \subseteq Name
    /\ WantClientCert \in BOOLEAN /\ Insecure \in BOOLEAN
    /\ MaxMessages \in Nat \ {0} /\ MaxSent \in Nat /\ MaxReads \in Nat \ {0}
    /\ Sends \subseteq Kinds

VARIABLES
    spc,         \* where handle_connection is
    group,       \* outcome.negotiated_group
    verified,    \* SSL_get_verify_result is X509_V_OK
    credential,  \* what the peer authenticated with; "resumed": a certificate, no signature
    inspected,   \* inspect() has filled in the negotiation fields of metrics
    stopping,    \* stopping_
    peer,        \* the peer's end of the connection: "open", "closed" (close_notify), "lost",
                 \* or "gone" (lost after its close_notify)
    sent,        \* the frames the peer has sent, in order
    fed,         \* how many of them are fed to the decoder as a whole
    reads,       \* how often the frame after those has been read from
    handled,     \* handled: how many of them next_frame has returned
    reply,       \* reply: its type, or NoReply
    closing,     \* closing
    replies,     \* the replies written, by type
    count,       \* metrics.protocol_message_count
    outcome,     \* metrics.error_category, "none" being success
    record       \* the category of the record written, Unwritten before

policyVars  == <<group, verified, credential, inspected>>
serverVars  == <<spc, policyVars, fed, reads, handled, reply, closing, replies, count, outcome, record>>
sessionVars == <<serverVars, stopping, peer, sent>>

NoReply     == "no reply"
Unwritten   == "unwritten"
Credentials == {"none", "resumed", "classical", "post-quantum"}

\* The variables have their types; what was fed was sent, what was handled was fed.
ServerTypeOK ==
    /\ spc \in {"handshake", "group", "peer", "loop", "frame", "write", "shutdown", "record", "ended"}
    /\ group \in Groups \cup {NoName} /\ credential \in Credentials
    /\ verified \in BOOLEAN /\ inspected \in BOOLEAN /\ stopping \in BOOLEAN /\ closing \in BOOLEAN
    /\ peer \in {"open", "closed", "lost", "gone"}
    /\ sent \in Seq(Kinds) /\ replies \in Seq(Responses)
    /\ fed \in 0 .. Len(sent) /\ handled \in 0 .. fed /\ reads \in 0 .. MaxReads - 1
    /\ reply \in Responses \cup {NoReply}
    /\ count \in Nat
    /\ outcome \in Categories /\ record \in Categories \cup {Unwritten}

ServerInit ==
    /\ spc = "handshake"
    /\ group = NoName /\ verified = TRUE /\ credential = "none" /\ inspected = FALSE
    /\ stopping = FALSE /\ peer = "open" /\ sent = <<>>
    /\ fed = 0 /\ reads = 0 /\ handled = 0
    /\ reply = NoReply /\ closing = FALSE /\ replies = <<>> /\ count = 0
    /\ outcome = "none" /\ record = Unwritten

-----------------------------------------------------------------------------
(* The peer, and stop().                                                      *)

PeerSends(k) ==
    /\ peer = "open"
    /\ Len(sent) < MaxSent
    /\ \A i \in 1 .. Len(sent) : sent[i] \notin {BadLength, Truncated}
    /\ sent' = Append(sent, k)
    /\ UNCHANGED <<serverVars, stopping, peer>>

PeerCloses ==
    /\ peer = "open" /\ peer' = "closed"
    /\ UNCHANGED <<serverVars, stopping, sent>>

PeerLost ==
    /\ \/ peer = "open" /\ peer' = "lost"
       \/ peer = "closed" /\ peer' = "gone"
    /\ UNCHANGED <<serverVars, stopping, sent>>

Stop ==
    /\ ~stopping /\ stopping' = TRUE
    /\ UNCHANGED <<serverVars, peer, sent>>

-----------------------------------------------------------------------------
(* The handshake and the checks after it.                                     *)

loopVars == <<fed, reads, handled, reply, closing, replies, count>>

\* An exception leaves the try block: its category is what is recorded.
Throw(category) ==
    /\ outcome' = category
    /\ spc' = "record"
    /\ UNCHANGED <<stopping, peer, sent, record>>

\* The socket options, SSL_new or SSL_set_fd.
SetupFails ==
    /\ spc = "handshake"
    /\ \E category \in {"network", "internal"} : Throw(category)
    /\ UNCHANGED <<policyVars, loopVars>>

HandshakeFails ==
    /\ spc = "handshake"
    /\ verified' \in BOOLEAN
    /\ Throw(IF verified' THEN "handshake" ELSE "certificate")
    /\ UNCHANGED <<group, credential, inspected, loopVars>>

Handshake ==
    /\ spc = "handshake"
    /\ group' \in Groups \cup {NoName}
    /\ verified' \in BOOLEAN
    /\ credential' \in Credentials
    /\ inspected' = TRUE
    /\ spc' = "group"
    /\ UNCHANGED <<stopping, peer, sent, outcome, record, loopVars>>

\* Mutant: the outcome of the check is not acted upon.
enforce_group_policy_logs ==
    /\ spc = "group"
    /\ spc' = "peer"
    /\ UNCHANGED <<stopping, peer, sent, outcome, record, policyVars, loopVars>>

enforce_group_policy ==
    /\ spc = "group"
    /\ IF permits_negotiated_group(Profile, group)
       THEN spc' = "peer" /\ UNCHANGED <<stopping, peer, sent, outcome, record>>
       ELSE Throw("tls-policy")
    /\ UNCHANGED <<policyVars, loopVars>>

PeerAccepted(insecure, required) ==
    insecure \/ (verified /\ (required => credential # "none"))

enforce_peer_verification ==
    /\ spc = "peer"
    /\ IF PeerAccepted(Insecure, WantClientCert)
       THEN spc' = "loop" /\ UNCHANGED <<stopping, peer, sent, outcome, record>>
       ELSE Throw("certificate")
    /\ UNCHANGED <<policyVars, loopVars>>

-----------------------------------------------------------------------------
(* The message loop.                                                          *)

outsideVars == <<stopping, peer, sent, policyVars, record>>

\* Mutant: the limit is reached a message early.
LoopOneLess ==
    /\ spc = "loop"
    /\ spc' = IF closing \/ stopping \/ handled + 1 >= MaxMessages THEN "shutdown" ELSE "frame"
    /\ UNCHANGED <<outsideVars, outcome, loopVars>>

\* while (!closing && !stopping_ && handled < max_messages_per_connection)
Loop ==
    /\ spc = "loop"
    /\ spc' = IF closing \/ stopping \/ handled >= MaxMessages THEN "shutdown" ELSE "frame"
    /\ UNCHANGED <<outsideVars, outcome, loopVars>>

\* The type of what handle_message returns, or of the error sent to a message
\* that is not one.
Answer(k) == CASE k = "ping"                                  -> "pong"
               [] k \in {"echo", "telemetry", "capabilities"} -> "acknowledgement"
               [] k = "close"                                 -> NoReply
               [] OTHER                                       -> "error"

\* Mutant: a response type is ignored.
HandleIgnoresResponses ==
    /\ spc = "frame" /\ handled < fed
    /\ LET k == sent[handled + 1] IN
       /\ k # BadLength
       /\ reply' = IF k \in Responses THEN NoReply ELSE Answer(k)
       /\ closing' = (k \in {"close", Malformed})
       /\ spc' = IF k \in Responses \/ Answer(k) = NoReply THEN "loop" ELSE "write"
    /\ handled' = handled + 1 /\ count' = count + 1
    /\ UNCHANGED <<outsideVars, outcome, fed, reads, replies>>

\* Mutant: a close message or a malformed one does not end the loop.
HandleGoesOn ==
    /\ spc = "frame" /\ handled < fed
    /\ LET k == sent[handled + 1] IN
       /\ k # BadLength
       /\ reply' = Answer(k)
       /\ spc' = IF Answer(k) = NoReply THEN "loop" ELSE "write"
    /\ handled' = handled + 1 /\ count' = count + 1
    /\ UNCHANGED <<outsideVars, outcome, fed, reads, replies, closing>>

\* next_frame returns a frame; it is parsed and handled.
Handle ==
    /\ spc = "frame" /\ handled < fed
    /\ LET k == sent[handled + 1] IN
       /\ k # BadLength
       /\ reply' = Answer(k)
       /\ closing' = (k \in {"close", Malformed})
       /\ spc' = IF Answer(k) = NoReply THEN "loop" ELSE "write"
    /\ handled' = handled + 1 /\ count' = count + 1
    /\ UNCHANGED <<outsideVars, outcome, fed, reads, replies>>

\* next_frame throws, or feed does as soon as it has the header.
DecoderThrows ==
    /\ spc = "frame"
    /\ \/ handled < fed /\ sent[handled + 1] = BadLength
       \/ handled = fed /\ fed < Len(sent) /\ sent[fed + 1] = BadLength
    /\ Throw("protocol")
    /\ UNCHANGED <<policyVars, loopVars>>

\* A read brings part of a frame, not enough for next_frame.
ReadPart ==
    /\ spc = "frame" /\ handled = fed
    /\ fed < Len(sent)
    /\ reads < MaxReads - 1
    /\ reads' = reads + 1
    /\ spc' = "loop"
    /\ UNCHANGED <<outsideVars, outcome, fed, handled, reply, closing, replies, count>>

\* A read completes one frame or more.
ReadFrames ==
    /\ spc = "frame" /\ handled = fed
    /\ fed' \in fed + 1 .. Len(sent)
    /\ sent[fed + 1] # BadLength /\ sent[fed'] # Truncated
    /\ reads' = 0
    /\ spc' = "loop"
    /\ UNCHANGED <<outsideVars, outcome, handled, reply, closing, replies, count>>

\* Mutant: a read that brings nothing ends the loop, whatever the reason.
ReadEndUnchecked ==
    /\ spc = "frame" /\ handled = fed
    /\ fed < Len(sent) => sent[fed + 1] = Truncated
    /\ spc' = "shutdown"
    /\ UNCHANGED <<outsideVars, outcome, loopVars>>

\* A read returns 0: the peer's close_notify, after all it has sent.
ReadEnd ==
    /\ spc = "frame" /\ handled = fed
    /\ peer = "closed"
    /\ fed < Len(sent) => sent[fed + 1] = Truncated
    /\ spc' = "shutdown"
    /\ UNCHANGED <<outsideVars, outcome, loopVars>>

\* Mutant: the loop goes on after an error.
throw_ssl_error_ignored ==
    /\ spc' = IF spc = "frame" THEN "loop" ELSE "write"
    /\ UNCHANGED <<outsideVars, outcome, loopVars>>

\* Mutant: a silent peer is waited for.
throw_ssl_error_retries ==
    /\ peer \in {"lost", "gone"} /\ \E category \in {"network", "handshake"} : Throw(category)
    /\ UNCHANGED <<policyVars, loopVars>>

\* throw_ssl_error: a connection that breaks off is SSL_ERROR_SYSCALL or, when
\* OpenSSL reports the missing close_notify, SSL_ERROR_SSL; one that is silent
\* for io_timeout_ms is a timeout.
throw_ssl_error ==
    /\ \/ peer \in {"lost", "gone"} /\ \E category \in {"network", "handshake"} : Throw(category)
       \/ peer \in {"open", "closed"} /\ Throw("timeout")
    /\ UNCHANGED <<policyVars, loopVars>>

ReadFails ==
    /\ spc = "frame" /\ handled = fed
    /\ throw_ssl_error

\* reply->serialize(), encode and ssl_write_all.
WriteReply ==
    /\ spc = "write"
    /\ sent[handled] \notin Oversized
    /\ replies' = Append(replies, reply)
    /\ reply' = NoReply
    /\ count' = count + 1
    /\ spc' = "loop"
    /\ UNCHANGED <<outsideVars, outcome, fed, reads, handled, closing>>

\* The error sent to a text that is no JSON quotes it up to the byte at which the
\* parser gave up.  When that is part of a character, serialize() throws what is
\* no pqtls::Error, and nothing is sent (Message has the cases).
SerializeThrows ==
    /\ spc = "write"
    /\ sent[handled] = Malformed
    /\ Throw("internal")
    /\ UNCHANGED <<policyVars, loopVars>>

EncodeThrows ==
    /\ spc = "write"
    /\ sent[handled] \in Oversized
    /\ Throw("protocol")
    /\ UNCHANGED <<policyVars, loopVars>>

WriteFails ==
    /\ spc = "write"
    /\ sent[handled] \notin Oversized
    /\ throw_ssl_error

ssl_graceful_shutdown ==
    /\ spc = "shutdown" /\ spc' = "record"
    /\ UNCHANGED <<outsideVars, outcome, loopVars>>

\* The record as it is written.
metrics ==
    LET m == IF inspected THEN server_negotiation_fields(NewMetrics(Profile.id), Profile, group)
             ELSE NewMetrics(Profile.id)
    IN  [m EXCEPT !.protocol_message_count = count,
                  !.success = (outcome = "none"), !.error_category = outcome]

Record ==
    /\ spc = "record" /\ spc' = "ended"
    /\ record' = outcome
    /\ UNCHANGED <<stopping, peer, sent, policyVars, outcome, loopVars>>

ServerStep ==
    \/ SetupFails \/ HandshakeFails \/ Handshake
    \/ enforce_group_policy \/ enforce_peer_verification
    \/ Loop \/ Handle \/ DecoderThrows
    \/ ReadPart \/ ReadFrames \/ ReadEnd \/ ReadFails
    \/ WriteReply \/ SerializeThrows \/ EncodeThrows \/ WriteFails
    \/ ssl_graceful_shutdown \/ Record

PeerStep == (\E k \in Sends : PeerSends(k)) \/ PeerCloses \/ PeerLost

ServerNext == ServerStep \/ PeerStep \/ Stop
ServerSpec == ServerInit /\ [][ServerNext]_sessionVars

\* A thread runs, and the socket timeouts end every blocking call of it.
ServerFairSpec == ServerSpec /\ WF_sessionVars(ServerStep)

-----------------------------------------------------------------------------
(* Properties.                                                                *)

Admitted ==
    /\ permits_negotiated_group(Profile, group)
    /\ PeerAccepted(Insecure, WantClientCert)

\* No message is handled or answered, and no success recorded, unless the profile
\* permits the negotiated group and the peer is verified as configured ("a
\* connection outside policy must not carry application data", tls_context.cpp).
GateFirst == handled > 0 \/ replies # <<>> \/ record = "none" => Admitted

\* The i-th reply answers the i-th message, however messages are pipelined and
\* split over reads, and at most one message waits for its reply.  Nothing is
\* handled after a close message or a malformed one, also when more of the peer's
\* messages are already in the decoder.
AnswersInOrder ==
    /\ ServerTypeOK
    /\ Len(replies) \in {handled - 1, handled}
    /\ \A i \in 1 .. Len(replies) : replies[i] = Answer(sent[i])
    /\ \A i \in 1 .. handled - 1 : sent[i] \notin {"close", Malformed}

EndedWell ==
    \/ handled > 0 /\ sent[handled] \in {"close", Malformed}
    \/ stopping \/ handled = MaxMessages
    \/ /\ peer \in {"closed", "gone"}
       /\ handled < Len(sent) => sent[handled + 1] = Truncated

\* The record's count is that of the messages handled and the replies sent.
\* Success means that every message handled was answered and that the loop ended
\* for one of its reasons: a close message, a malformed message that was answered
\* with an error (which the code takes for a success as well), stop(), the message
\* limit, or the peer's close_notify, and then every whole frame the peer sent was
\* handled, with at most a part of one left behind.  Never because the peer fell
\* silent or its connection broke off.
\* The validator has nothing to say against the record, whatever the connection
\* agreed on and wherever it failed, but that it takes a permitted fallback for a
\* downgrade.
RecordHonest ==
    record # Unwritten =>
        /\ count = handled + Len(replies)
        /\ record = "none" =>
              /\ \A i \in 1 .. handled : Answer(sent[i]) # NoReply => i <= Len(replies)
              /\ EndedWell
        /\ metrics \in ConnectionMetrics
        /\ problems(metrics) \subseteq Objectionable(Profile)

\* A connection ends, whatever its peer does: the message limit bounds the loop,
\* the frame limit the reads of a frame and the socket timeouts each read.
SessionEnds == <>(spc = "ended")
=============================================================================
