------------------------------- MODULE Session --------------------------------
(* The client (connect_and_exchange and run_once, src/src/client/client.cpp)   *)
(* and the server's session with it.  The client is one of the peers that      *)
(* ServerSession allows; the two share the handshake's outcome, the frames     *)
(* sent and replies, and see the end of the other's connection.                *)
EXTENDS ServerSession

CONSTANTS
    ClientProfile,  \* the client's context_.profile()
    ClientInsecure, \* the client's insecure_development_mode
    Workloads,      \* the vectors of messages run_once is called with
    TooLong,        \* messages that exceed the client's max_frame_size
    TooLongReply    \* messages whose reply exceeds it

\* BadLength here is a message that exceeds the server's max_frame_size.
ASSUME ClientAssumption ==
    /\ \A w \in Workloads :
          /\ w \in Seq((Requests \cup Responses \cup {BadLength}) \cap Sends)
          /\ Len(w) <= MaxSent
    /\ ClientInsecure \in BOOLEAN

VARIABLES
    messages,   \* messages
    cpc,        \* where the client is
    connected,  \* the TCP connection was made
    agreed,     \* SSL_connect returned 1
    cgroup,     \* its outcome.negotiated_group
    cverified,  \* its SSL_get_verify_result is X509_V_OK
    ccert,      \* the server has presented a certificate
    csignature, \* outcome.peer_signature_algorithm, "" if nothing was signed
    received,   \* result.responses, by type
    ccount,     \* metrics.protocol_message_count
    coutcome,   \* metrics.error_category
    crecord     \* the category of the record written, Unwritten before

handshakeVars == <<connected, agreed, cgroup, cverified, ccert, csignature>>
clientVars    == <<messages, cpc, handshakeVars, received, ccount, coutcome, crecord>>
vars          == <<sessionVars, clientVars>>

\* The client's variables have their types; every response was written.
ClientTypeOK ==
    /\ messages \in Workloads
    /\ cpc \in {"connect", "handshake", "peer", "group", "send", "receive", "shutdown", "record", "ended"}
    /\ connected \in BOOLEAN /\ agreed \in BOOLEAN /\ cverified \in BOOLEAN /\ ccert \in BOOLEAN
    /\ cgroup \in Groups \cup {NoName} /\ csignature \in Signatures \cup {""}
    /\ received \in Seq(Responses) /\ Len(received) <= Len(replies)
    /\ ccount \in Nat
    /\ coutcome \in Categories /\ crecord \in Categories \cup {Unwritten}

Init ==
    /\ ServerInit
    /\ messages \in Workloads
    /\ cpc = "connect" /\ connected = FALSE
    /\ agreed = FALSE /\ cgroup = NoName /\ cverified = TRUE /\ ccert = FALSE
    /\ csignature = ""
    /\ received = <<>> /\ ccount = 0
    /\ coutcome = "none" /\ crecord = Unwritten

-----------------------------------------------------------------------------
(* The client.                                                                *)

\* An exception reaches run_once: the connection is dropped without close_notify
\* and the metrics taken so far with it; the category goes into an empty record.
CThrow(category) ==
    /\ coutcome' = category /\ ccount' = 0
    /\ cpc' = "record"
    /\ peer' = IF connected THEN "lost" ELSE peer
    /\ UNCHANGED <<serverVars, stopping, sent, messages, received, crecord>>

tcp_connect ==
    /\ cpc = "connect"
    /\ cpc' = "handshake" /\ connected' = TRUE
    /\ UNCHANGED <<sessionVars, messages, agreed, cgroup, cverified, ccert, csignature, received, ccount, coutcome, crecord>>

tcp_connect_fails ==
    /\ cpc = "connect"
    /\ \E category \in {"network", "timeout"} : CThrow(category)
    /\ UNCHANGED handshakeVars

\* The client is through with the handshake before the server is.
SSL_connect ==
    /\ cpc = "handshake" /\ spc = "handshake"
    /\ agreed' = TRUE
    /\ cgroup' \in Groups \cup {NoName}
    /\ cverified' \in BOOLEAN /\ ccert' \in BOOLEAN
    /\ csignature' \in Signatures \cup {""}
    /\ cpc' = "peer"
    /\ UNCHANGED <<sessionVars, messages, connected, received, ccount, coutcome, crecord>>

\* It may fail at any time, also in SSL_new, SSL_set_fd or SSL_set1_host before.
SSL_connect_fails ==
    /\ cpc = "handshake"
    /\ cverified' \in BOOLEAN
    /\ \E category \in IF cverified' THEN {"network", "handshake", "internal", "configuration"} ELSE {"certificate"} :
          CThrow(category)
    /\ UNCHANGED <<connected, agreed, cgroup, ccert, csignature>>

ClientAccepts == ClientInsecure \/ (cverified /\ ccert)

Goto(label) ==
    /\ cpc' = label
    /\ UNCHANGED <<sessionVars, messages, received, ccount, coutcome, crecord>>

client_enforce_peer_verification ==
    /\ cpc = "peer"
    /\ IF ClientAccepts THEN Goto("group") ELSE CThrow("certificate")
    /\ UNCHANGED handshakeVars

\* Where the loop over the messages goes on after n of them.
AfterMessage(n) == IF n = Len(messages) THEN "shutdown" ELSE "send"

\* Mutant: the outcome of the check is not acted upon.
client_enforce_group_policy_logs ==
    /\ cpc = "group"
    /\ Goto(AfterMessage(0))
    /\ UNCHANGED handshakeVars

client_enforce_group_policy ==
    /\ cpc = "group"
    /\ IF permits_negotiated_group(ClientProfile, cgroup) THEN Goto(AfterMessage(0)) ELSE CThrow("tls-policy")
    /\ UNCHANGED handshakeVars

-----------------------------------------------------------------------------
(* The exchange.                                                              *)

Message == messages[Len(sent) + 1]

\* Mutant: a write that was complete is repeated.
SendTwice ==
    /\ cpc = "send" /\ Message \notin TooLong
    /\ sent' = sent \o <<Message, Message>>
    /\ ccount' = ccount + 1
    /\ cpc' = IF Message = "close" THEN "shutdown" ELSE "receive"
    /\ UNCHANGED <<serverVars, stopping, peer, messages, handshakeVars, received, coutcome, crecord>>

\* Mutant: no response is expected to a response.
SendExpectsLess ==
    /\ cpc = "send" /\ Message \notin TooLong
    /\ sent' = Append(sent, Message)
    /\ ccount' = ccount + 1
    /\ cpc' = IF Message = "close" THEN "shutdown"
              ELSE IF Message \in Responses THEN AfterMessage(Len(sent')) ELSE "receive"
    /\ UNCHANGED <<serverVars, stopping, peer, messages, handshakeVars, received, coutcome, crecord>>

Send ==
    /\ cpc = "send" /\ Message \notin TooLong
    /\ sent' = Append(sent, Message)
    /\ ccount' = ccount + 1
    /\ cpc' = IF Message = "close" THEN "shutdown" ELSE "receive"
    /\ UNCHANGED <<serverVars, stopping, peer, messages, handshakeVars, received, coutcome, crecord>>

SendThrows ==
    /\ cpc = "send" /\ Message \in TooLong
    /\ CThrow("protocol")
    /\ UNCHANGED handshakeVars

\* The server's end of the connection: its close_notify is out; it is closed.
ServerClosed == spc \in {"record", "ended"} /\ outcome = "none"
ServerGone   == spc = "ended" \/ (spc = "record" /\ outcome \in {"handshake", "certificate"})

\* ssl_write_all or ssl_read_some throws.
SocketFails ==
    /\ cpc \in {"send", "receive"}
    /\ \/ ServerGone /\ \E category \in {"network", "handshake"} : CThrow(category)
       \/ CThrow("timeout")
    /\ UNCHANGED handshakeVars

\* The answered message is the last one sent: the client is never ahead.
Receive ==
    /\ cpc = "receive" /\ Len(received) < Len(replies)
    /\ sent[Len(sent)] \notin TooLongReply
    /\ received' = Append(received, replies[Len(received) + 1])
    /\ ccount' = ccount + 1
    /\ cpc' = AfterMessage(Len(sent))
    /\ UNCHANGED <<sessionVars, messages, handshakeVars, coutcome, crecord>>

ReceiveThrows ==
    /\ cpc = "receive" /\ Len(received) < Len(replies)
    /\ sent[Len(sent)] \in TooLongReply
    /\ CThrow("protocol")
    /\ UNCHANGED handshakeVars

\* A read returns 0 before the response is complete.
ReceiveEnd ==
    /\ cpc = "receive" /\ Len(received) = Len(replies)
    /\ ServerClosed
    /\ CThrow("protocol")
    /\ UNCHANGED handshakeVars

\* close_notify, and then the socket: what the server had sent and the client
\* has not read turns the second into a reset.
client_graceful_shutdown ==
    /\ cpc = "shutdown" /\ cpc' = "record"
    /\ peer' \in {"closed", "lost"}
    /\ UNCHANGED <<serverVars, stopping, sent, messages, handshakeVars, received, ccount, coutcome, crecord>>

\* The record as it is written: an exception has discarded what was filled in.
cmetrics ==
    LET new == NewMetrics(ClientProfile.id) IN
    IF coutcome = "none"
    THEN [populate_negotiation_fields(new, ClientProfile, cgroup, csignature)
            EXCEPT !.protocol_message_count = ccount, !.success = TRUE]
    ELSE [new EXCEPT !.error_category = coutcome]

\* run_once writes the record.
ClientRecord ==
    /\ cpc = "record" /\ cpc' = "ended"
    /\ crecord' = coutcome
    /\ UNCHANGED <<sessionVars, messages, handshakeVars, received, ccount, coutcome>>

ClientStep ==
    \/ tcp_connect \/ tcp_connect_fails \/ SSL_connect \/ SSL_connect_fails
    \/ client_enforce_peer_verification \/ client_enforce_group_policy
    \/ Send \/ SendThrows \/ SocketFails
    \/ Receive \/ ReceiveThrows \/ ReceiveEnd
    \/ client_graceful_shutdown \/ ClientRecord

\* SSL_accept succeeds only after SSL_connect and agrees with it on the group.
ServerTurn ==
    /\ connected
    /\ ServerStep
    /\ spc' = "group" => agreed /\ group' = cgroup
    /\ UNCHANGED clientVars

Next == ClientStep \/ ServerTurn \/ (Stop /\ UNCHANGED clientVars)
Spec == Init /\ [][Next]_vars

\* Both threads run, and the socket timeouts end every blocking call.
FairSpec == Spec /\ WF_vars(ClientStep) /\ WF_vars(ServerTurn)

-----------------------------------------------------------------------------
(* Properties.                                                                *)

\* Application data leaves the client only after its own checks, and a response
\* arrives only if the group is one that both profiles permit and both ends
\* recorded: neither end relies on the other's check.  When both record a success
\* after that, their records claim the same of the key exchange, and the validator
\* objects to neither.
BothAgree ==
    /\ ClientTypeOK
    /\ sent # <<>> => ClientAccepts /\ permits_negotiated_group(ClientProfile, cgroup)
    /\ received # <<>> => group = cgroup /\ Admitted
    /\ crecord # Unwritten =>
          cmetrics \in ConnectionMetrics /\ problems(cmetrics) \subseteq Objectionable(ClientProfile)
    /\ crecord = "none" /\ record = "none" /\ received # <<>> =>
          /\ cmetrics.negotiated_group = metrics.negotiated_group
          /\ cmetrics.pq_key_establishment = metrics.pq_key_establishment
          /\ problems(metrics) = {}

\* Though the client does not compare message_ids, its i-th response is the
\* answer to its i-th message.  Success means that each has its answer, and that
\* the server has not refused the exchange.
ResponsesMatch ==
    /\ \A i \in 1 .. Len(received) : received[i] = Answer(messages[i])
    /\ crecord = "none" =>
          \A i \in 1 .. Len(messages) :
             \/ i <= Len(received)
             \/ \E j \in 1 .. i : messages[j] = "close"
    /\ crecord = "none" /\ received # <<>> =>
          record \notin {"protocol", "tls-policy", "certificate"}

\* The client reports a protocol error for nothing but a message over a limit of
\* its own or a server that was stopped or had reached its message limit: in the
\* last two cases the server records a success.
ProtocolErrorExplained ==
    crecord = "protocol" =>
        \/ \E i \in 1 .. Len(messages) : messages[i] \in TooLong \cup TooLongReply
        \/ ServerClosed /\ (stopping \/ handled = MaxMessages)

\* The client never waits for a response from a server that waits for a message
\* from it, with nothing on its way between them: no exchange depends on a
\* timeout to go on.
NeverBothWait ==
    ~ /\ cpc = "receive" /\ Len(received) = Len(replies)
      /\ spc = "frame" /\ handled = Len(sent)

\* The client is a peer as ServerSession has it: what holds for every peer of the
\* server holds for this one.
ImplementsServerSpec == ServerSpec

\* Both ends come to an end, and with it to their records.
BothEnd == <>(cpc = "ended") /\ (connected ~> spc = "ended")
=============================================================================
