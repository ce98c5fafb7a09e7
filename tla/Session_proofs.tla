---------------------------- MODULE Session_proofs ----------------------------
(* Proofs about handle_connection: for any profile, groups, limits and peer,   *)
(* policy comes before data, replies answer messages in order, and the record  *)
(* says what happened.  Then about a client and a server in session: the       *)
(* client is one of the peers of ServerSession, so that all that is proved of  *)
(* the server holds of the two; its responses answer its messages; and the two *)
(* never wait for each other.                                                  *)
EXTENDS Session, TLAPS

(* What is appended leaves the rest as it is.                                   *)
LEMMA Appended ==
    ASSUME NEW S, NEW s \in Seq(S), NEW x \in S, NEW t, t = Append(s, x)
    PROVE  Len(s) \in Nat /\ Len(t) = Len(s) + 1 /\ \A i \in 1 .. Len(s) : t[i] = s[i]
  OBVIOUS

(* The server, with any peer.                                                   *)

(* What the checks passed so far say.  Admitted is lost only by a handshake,    *)
(* which is before everything else.                                             *)
Gates ==
    /\ spc \in {"handshake", "group", "peer"} =>
          handled = 0 /\ replies = <<>> /\ outcome = "none" /\ count = 0 /\ ~closing
    /\ spc = "peer" => permits_negotiated_group(Profile, group)
    /\ spc \in {"loop", "frame", "write", "shutdown"} => Admitted /\ outcome = "none"
    /\ spc \in {"record", "ended"} /\ outcome = "none" => Admitted
    /\ spc # "handshake" /\ outcome = "none" => inspected
    /\ handled > 0 => Admitted
    /\ record # Unwritten => spc = "ended" /\ record = outcome

(* What the message loop has done.  A reply is owed while it is written; none  *)
(* is owed in the loop unless a close message is ending it.                     *)
Loops ==
    /\ Len(replies) \in {handled - 1, handled}
    /\ \A i \in 1 .. Len(replies) : replies[i] = Answer(sent[i])
    /\ \A i \in 1 .. handled - 1 : sent[i] \notin {"close", Malformed}
    /\ ~closing /\ handled > 0 => sent[handled] \notin {"close", Malformed}
    /\ spc = "frame" => ~closing /\ handled < MaxMessages
    /\ spc = "write" => /\ handled > 0 /\ Len(replies) = handled - 1
                        /\ reply = Answer(sent[handled]) /\ reply # NoReply
    /\ spc \in {"loop", "frame", "shutdown"} /\ Len(replies) # handled =>
          closing /\ Answer(sent[handled]) = NoReply

(* What makes the server close.                                                 *)
Closings == closing => handled > 0 /\ sent[handled] \in {"close", Malformed}

(* What the record will say.  An outcome "none" at the end comes from the loop. *)
Books ==
    /\ count = handled + Len(replies)
    /\ handled <= MaxMessages
    /\ spc = "shutdown" \/ (spc \in {"record", "ended"} /\ outcome = "none") =>
          /\ EndedWell
          /\ Len(replies) # handled => Answer(sent[handled]) = NoReply

IInv == ServerTypeOK /\ Gates /\ Loops /\ Closings /\ Books

-----------------------------------------------------------------------------

(* The type of an answer.                                                      *)
LEMMA AnswerType == \A k : Answer(k) \in Responses \cup {NoReply}
  BY DEF Answer, Responses, NoReply

(* Every step keeps the types.                                                 *)
LEMMA TypeStep == ASSUME ServerTypeOK, Loops, ServerNext PROVE ServerTypeOK'
<1> USE SessionAssumption DEF ServerTypeOK, serverVars, policyVars, loopVars, outsideVars
<1>1. CASE SetupFails \/ HandshakeFails \/ DecoderThrows \/ SerializeThrows \/ EncodeThrows
  BY <1>1 DEF SetupFails, HandshakeFails, DecoderThrows, SerializeThrows, EncodeThrows, Throw, Categories
<1>2. CASE Handshake
  BY <1>2 DEF Handshake
<1>3. CASE enforce_group_policy \/ enforce_peer_verification
  BY <1>3 DEF enforce_group_policy, enforce_peer_verification, Throw, Categories
<1>4. CASE Loop \/ ReadEnd \/ ssl_graceful_shutdown
  BY <1>4 DEF Loop, ReadEnd, ssl_graceful_shutdown
<1>5. CASE Handle
  BY <1>5, AnswerType DEF Handle
<1>6. CASE ReadPart
  BY <1>6 DEF ReadPart
<1>7. CASE ReadFrames
  BY <1>7 DEF ReadFrames
<1>8. CASE ReadFails \/ WriteFails
  BY <1>8 DEF ReadFails, WriteFails, throw_ssl_error, Throw, Categories
<1>9. CASE WriteReply
  <2>1. reply \in Responses
    BY <1>9 DEF WriteReply, Loops
  <2> QED
    BY <1>9, <2>1 DEF WriteReply
<1>10. CASE Record
  BY <1>10 DEF Record
<1>11. ASSUME NEW k \in Sends, PeerSends(k) PROVE ServerTypeOK'
  BY <1>11 DEF PeerSends
<1>12. CASE PeerCloses \/ PeerLost
  BY <1>12 DEF PeerCloses, PeerLost
<1>13. CASE Stop
  BY <1>13 DEF Stop
<1> QED
  BY <1>1, <1>2, <1>3, <1>4, <1>5, <1>6, <1>7, <1>8, <1>9, <1>10, <1>11, <1>12, <1>13, Zenon
     DEF ServerNext, ServerStep, PeerStep

(* Every step keeps what the checks established.                               *)
LEMMA GatesStep == ASSUME ServerTypeOK, Gates, Loops, ServerNext PROVE Gates'
<1> USE DEF ServerTypeOK, Gates, serverVars, policyVars, loopVars, outsideVars, Admitted,
        PeerAccepted, Unwritten, Categories
<1>1. CASE SetupFails \/ HandshakeFails \/ DecoderThrows \/ SerializeThrows \/ EncodeThrows
  BY <1>1 DEF SetupFails, HandshakeFails, DecoderThrows, SerializeThrows, EncodeThrows, Throw
<1>2. CASE Handshake
  BY <1>2 DEF Handshake
<1>3. CASE enforce_group_policy \/ enforce_peer_verification
  BY <1>3 DEF enforce_group_policy, enforce_peer_verification, Throw
<1>4. CASE Loop \/ ReadEnd \/ ssl_graceful_shutdown
  BY <1>4 DEF Loop, ReadEnd, ssl_graceful_shutdown
<1>5. CASE Handle
  BY <1>5 DEF Handle
<1>6. CASE ReadPart \/ ReadFrames
  BY <1>6 DEF ReadPart, ReadFrames
<1>8. CASE ReadFails \/ WriteFails
  BY <1>8 DEF ReadFails, WriteFails, throw_ssl_error, Throw
<1>9. CASE WriteReply
  BY <1>9 DEF WriteReply
<1>10. CASE Record
  BY <1>10 DEF Record
<1>11. ASSUME NEW k \in Sends, PeerSends(k) PROVE Gates'
  BY <1>11 DEF PeerSends
<1>12. CASE PeerCloses \/ PeerLost \/ Stop
  BY <1>12 DEF PeerCloses, PeerLost, Stop
<1> QED
  BY <1>1, <1>2, <1>3, <1>4, <1>5, <1>6, <1>8, <1>9, <1>10, <1>11, <1>12, Zenon
     DEF ServerNext, ServerStep, PeerStep

(* Every step keeps what is known of messages and replies.                     *)
LEMMA LoopsStep == ASSUME ServerTypeOK, Gates, Loops, ServerNext PROVE Loops'
<1> USE DEF ServerTypeOK, Loops, serverVars, policyVars, loopVars, outsideVars
<1>1. CASE SetupFails \/ HandshakeFails \/ DecoderThrows \/ SerializeThrows \/ EncodeThrows
  BY <1>1, Zenon DEF SetupFails, HandshakeFails, DecoderThrows, SerializeThrows, EncodeThrows, Throw
<1>2. CASE Handshake
  BY <1>2 DEF Handshake
<1>3. CASE enforce_group_policy \/ enforce_peer_verification
  BY <1>3 DEF enforce_group_policy, enforce_peer_verification, Throw, Gates
<1>4. CASE Loop
  <2>1. UNCHANGED <<sent, loopVars>>
    BY <1>4 DEF Loop
  <2>2. spc = "loop" /\ spc' \in {"frame", "shutdown"}
    BY <1>4 DEF Loop
  <2>3. spc' = "frame" => ~closing /\ handled < MaxMessages
    BY <1>4, SessionAssumption DEF Loop
  <2> QED
    BY <2>1, <2>2, <2>3
<1>5. CASE ReadEnd \/ ssl_graceful_shutdown
  BY <1>5 DEF ReadEnd, ssl_graceful_shutdown
<1>6. CASE ReadPart \/ ReadFrames
  BY <1>6 DEF ReadPart, ReadFrames
<1>7. CASE Handle
  <2> DEFINE k == sent[handled + 1]
  <2>1. /\ spc = "frame" /\ handled' = handled + 1 /\ UNCHANGED <<sent, replies>>
        /\ reply' = Answer(k) /\ closing' = (k \in {"close", Malformed})
        /\ spc' = IF Answer(k) = NoReply THEN "loop" ELSE "write"
    BY <1>7 DEF Handle
  <2>2. handled \in Nat /\ handled' \in Nat /\ handled' - 1 = handled /\ handled' > 0
    BY <2>1
  <2>3. ~closing
    BY <2>1
  <2>4. Answer(k) = NoReply => k = "close"
    BY Zenon DEF Answer, NoReply
  <2>5. Len(replies) = handled
    BY <2>1, <2>3
  <2>6. \A i \in 1 .. handled : sent[i] \notin {"close", Malformed}
    BY <2>2, <2>3
  <2>7. sent'[handled'] = k
    BY <2>1
  <2> HIDE DEF k
  <2>8. spc' = "write" => reply' # NoReply
    BY <2>1
  <2>9. spc' = "loop" => closing' /\ Answer(k) = NoReply
    BY <2>1, <2>4, Zenon
  <2>10. ~closing' => k \notin {"close", Malformed}
    BY <2>1, Zenon
  <2> QED
    BY <2>1, <2>2, <2>5, <2>6, <2>7, <2>8, <2>9, <2>10
<1>8. CASE ReadFails \/ WriteFails
  BY <1>8 DEF ReadFails, WriteFails, throw_ssl_error, Throw
<1>9. CASE WriteReply
  BY <1>9 DEF WriteReply
<1>10. CASE Record
  BY <1>10 DEF Record
<1>11. ASSUME NEW k \in Sends, PeerSends(k) PROVE Loops'
  BY <1>11 DEF PeerSends
<1>12. CASE PeerCloses \/ PeerLost \/ Stop
  BY <1>12 DEF PeerCloses, PeerLost, Stop
<1> QED
  BY <1>1, <1>2, <1>3, <1>4, <1>5, <1>6, <1>7, <1>8, <1>9, <1>10, <1>11, <1>12, Zenon
     DEF ServerNext, ServerStep, PeerStep

(* The server closes for the message it has just handled.                      *)
LEMMA ClosingsStep ==
    ASSUME ServerTypeOK, Closings, ServerNext PROVE Closings'
<1> USE DEF ServerTypeOK, Closings, serverVars, policyVars, loopVars, outsideVars
<1>1. CASE UNCHANGED <<closing, handled, sent>>
  BY <1>1
<1>2. CASE Handle
  <2>1. handled \in Nat
    OBVIOUS
  <2>2. handled' = handled + 1 /\ sent' = sent
    BY <1>2 DEF Handle
  <2>3. closing' => sent[handled + 1] \in {"close", Malformed}
    BY <1>2, Zenon DEF Handle
  <2>4. handled' > 0 /\ sent'[handled'] = sent[handled + 1]
    BY <2>1, <2>2
  <2> QED
    BY <2>3, <2>4, Zenon DEF Closings
<1>3. ASSUME NEW k \in Sends, PeerSends(k) PROVE Closings'
  <2>1. sent' = Append(sent, k) /\ closing' = closing /\ handled' = handled
    BY <1>3 DEF PeerSends
  <2>2. handled \in Nat /\ handled <= Len(sent) /\ sent \in Seq(Kinds)
    OBVIOUS
  <2>3. handled > 0 => sent'[handled] = sent[handled]
    BY <2>1, <2>2
  <2> QED
    BY <2>1, <2>3, Zenon DEF Closings
<1>4. UNCHANGED <<closing, handled, sent>> \/ Handle \/ \E k \in Sends : PeerSends(k)
  BY Zenon DEF ServerNext, ServerStep, PeerStep, SetupFails, HandshakeFails, Handshake,
         enforce_group_policy, enforce_peer_verification, Loop, DecoderThrows, ReadPart, ReadFrames,
         ReadEnd, ReadFails, throw_ssl_error, WriteReply, SerializeThrows, EncodeThrows, WriteFails, Throw,
         ssl_graceful_shutdown, Record, PeerCloses, PeerLost, Stop
<1> QED
  BY <1>1, <1>2, <1>3, <1>4, Zenon

(* Every step keeps what the record will say.                                  *)
LEMMA BooksStep == ASSUME IInv, ServerNext PROVE Books'
<1> USE SessionAssumption DEF IInv, ServerTypeOK, Books, serverVars, policyVars, loopVars,
        outsideVars
<1>1. CASE SetupFails \/ HandshakeFails \/ DecoderThrows \/ SerializeThrows \/ EncodeThrows
  BY <1>1 DEF SetupFails, HandshakeFails, DecoderThrows, SerializeThrows, EncodeThrows, Throw
<1>2. CASE Handshake
  BY <1>2 DEF Handshake
<1>3. CASE enforce_group_policy \/ enforce_peer_verification
  BY <1>3 DEF enforce_group_policy, enforce_peer_verification, Throw
<1>4. CASE Loop
  <2>1. UNCHANGED <<stopping, peer, sent, outcome, loopVars>>
    BY <1>4 DEF Loop
  <2>2. spc = "loop" /\ spc' \in {"frame", "shutdown"}
    BY <1>4 DEF Loop
  <2>3. spc' = "shutdown" => EndedWell'
    BY <1>4, <2>1 DEF Loop, Closings, EndedWell
  <2>4. Len(replies) # handled => Answer(sent[handled]) = NoReply
    BY <2>2 DEF Loops
  <2> QED
    BY <2>1, <2>2, <2>3, <2>4
<1>5. CASE ReadEnd
  BY <1>5 DEF ReadEnd, Loops, EndedWell
<1>6. CASE ReadPart \/ ReadFrames
  BY <1>6 DEF ReadPart, ReadFrames
<1>7. CASE Handle
  BY <1>7 DEF Handle, Loops
<1>8. CASE ReadFails \/ WriteFails
  BY <1>8 DEF ReadFails, WriteFails, throw_ssl_error, Throw
<1>9. CASE WriteReply
  BY <1>9 DEF WriteReply
<1>10. CASE Record \/ ssl_graceful_shutdown
  BY <1>10 DEF Record, ssl_graceful_shutdown, EndedWell
<1>11. ASSUME NEW k \in Sends, PeerSends(k) PROVE Books'
  <2>1. sent' = Append(sent, k) /\ peer = "open" /\ peer' = peer /\ UNCHANGED <<serverVars, stopping>>
    BY <1>11 DEF PeerSends
  <2>2. handled > 0 => sent'[handled] = sent[handled]
    BY <2>1
  <2>3. EndedWell => EndedWell'
    BY <2>1, <2>2 DEF EndedWell
  <2> QED
    BY <2>1, <2>2, <2>3 DEF Loops
<1>12. CASE PeerCloses \/ PeerLost
  <2>1. /\ peer' \in {"closed", "lost", "gone"} /\ UNCHANGED <<serverVars, stopping, sent>>
        /\ peer \in {"closed", "gone"} => peer' = "gone"
    BY <1>12 DEF PeerCloses, PeerLost
  <2>2. EndedWell => EndedWell'
    BY <2>1 DEF EndedWell
  <2> QED
    BY <2>1, <2>2
<1>13. CASE Stop
  BY <1>13 DEF Stop, EndedWell
<1> QED
  BY <1>1, <1>2, <1>3, <1>4, <1>5, <1>6, <1>7, <1>8, <1>9, <1>10, <1>11, <1>12, <1>13, Zenon
     DEF ServerNext, ServerStep, PeerStep

-----------------------------------------------------------------------------

(* The initial states satisfy the inductive invariant.                         *)
LEMMA InitInv == ServerInit => IInv
<1> SUFFICES ASSUME ServerInit PROVE IInv
  OBVIOUS
<1>1. ServerTypeOK
  <2>1. 0 \in 0 .. MaxReads - 1
    BY SessionAssumption
  <2>2. sent \in Seq(Kinds) /\ replies \in Seq(Responses) /\ Len(sent) = 0
    BY DEF ServerInit
  <2>3. verified \in BOOLEAN /\ inspected \in BOOLEAN /\ stopping \in BOOLEAN /\ closing \in BOOLEAN
    BY Zenon DEF ServerInit
  <2> QED
    BY <2>1, <2>2, <2>3 DEF ServerInit, ServerTypeOK, Credentials, Categories, Unwritten
<1>2. Gates
  BY DEF ServerInit, Gates
<1>3. Loops
  BY DEF ServerInit, Loops
<1>4. Closings
  BY Zenon DEF ServerInit, Closings
<1>5. Books
  BY SessionAssumption DEF ServerInit, Books
<1> QED
  BY <1>1, <1>2, <1>3, <1>4, <1>5 DEF IInv

(* Every step keeps it.                                                        *)
LEMMA ServerInvStep == ASSUME IInv, [ServerNext]_sessionVars PROVE IInv'
<1>1. CASE ServerNext
  BY <1>1, TypeStep, GatesStep, LoopsStep, ClosingsStep, BooksStep DEF IInv
<1>2. CASE UNCHANGED sessionVars
  <2> USE <1>2 DEF sessionVars, serverVars, policyVars, IInv
  <2>1. ServerTypeOK'
    BY DEF ServerTypeOK
  <2>2. Gates'
    BY DEF Gates, Admitted, PeerAccepted
  <2>3. Loops'
    BY DEF Loops
  <2>4. Closings'
    BY DEF Closings, loopVars
  <2>5. Books'
    BY DEF Books, EndedWell
  <2> QED
    BY <2>1, <2>2, <2>3, <2>4, <2>5
<1> QED
  BY <1>1, <1>2

(* It holds in every reachable state.                                          *)
LEMMA Invariance == ServerSpec => []IInv
<1>1. IInv /\ [ServerNext]_sessionVars => IInv'
  BY ServerInvStep
<1> QED
  BY <1>1, InitInv, PTL DEF ServerSpec

(* No message is handled or answered and no success recorded before the group  *)
(* and the peer have been checked against the profile.                         *)
THEOREM GateAlwaysFirst == ServerSpec => []GateFirst
<1>1. IInv => GateFirst
  BY DEF IInv, ServerTypeOK, Gates, Loops, GateFirst, Unwritten
<1> QED
  BY <1>1, Invariance, PTL

(* Replies answer messages one by one and in order, and nothing is handled     *)
(* after a close message or a malformed one.                                   *)
THEOREM AnswersAlwaysInOrder == ServerSpec => []AnswersInOrder
<1>1. IInv => AnswersInOrder
  BY DEF IInv, Loops, AnswersInOrder
<1> QED
  BY <1>1, Invariance, PTL

-----------------------------------------------------------------------------
(* The record and its validation.                                             *)

(* The groups the validator knows are those of the profiles.                   *)
LEMMA SameGroups ==
    ASSUME NEW g
    PROVE  /\ is_hybrid_group(g) = (g.key \in HYBRID_GROUPS)
           /\ is_post_quantum_group(g) = (g.key \in PQ_GROUPS)
  BY DEF is_hybrid_group, is_post_quantum_group, HYBRID_GROUPS, PURE_PQ_GROUPS, PQ_GROUPS,
         kHybridGroups, kPureMlKemGroups

(* A profile whose name promises post-quantum groups has one.                  *)
AptlyNamed(p) == p.id \in PqNamed => has_pq(p.groups)

(* The fields of the record.                                                   *)
LEMMA MetricsFields ==
    ASSUME Profile \in Definition, ServerTypeOK
    PROVE  /\ metrics \in ConnectionMetrics
           /\ metrics.requested_profile = Profile.id
           /\ metrics.tls_version = IF inspected THEN "TLSv1.3" ELSE ""
           /\ metrics.negotiated_group = IF inspected THEN group ELSE NoName
           /\ metrics.authentication = IF inspected THEN Profile.authentication ELSE ""
           /\ metrics.pq_key_establishment = (inspected /\ is_post_quantum_group(group))
           /\ metrics.hybrid_key_establishment = (inspected /\ is_hybrid_group(group))
           /\ metrics.pq_authentication =
                 (inspected /\ is_post_quantum_authentication(Profile.authentication))
           /\ metrics.success = (outcome = "none")
           /\ metrics.error_category = outcome
<1>1. group \in Name \cup {NoName}
  BY SessionAssumption DEF ServerTypeOK
<1>2. Profile.id \in STRING /\ Profile.authentication \in Authentications
  BY DEF Definition
<1>3. /\ is_post_quantum_group(group) \in BOOLEAN /\ is_hybrid_group(group) \in BOOLEAN
      /\ is_post_quantum_authentication(Profile.authentication) \in BOOLEAN
  BY DEF is_post_quantum_group, is_hybrid_group, is_post_quantum_authentication
<1>4. CASE inspected
  <2> DEFINE new    == NewMetrics(Profile.id)
             a      == Profile.authentication
             pq     == is_post_quantum_group(group)
             hybrid == is_hybrid_group(group)
             pqa    == is_post_quantum_authentication(Profile.authentication)
             half   == [new EXCEPT !.tls_version = "TLSv1.3", !.negotiated_group = group,
                                   !.authentication = a]
             m      == server_negotiation_fields(NewMetrics(Profile.id), Profile, group)
  <2>1. new \in ConnectionMetrics /\ new.requested_profile = Profile.id
    BY <1>2 DEF NewMetrics, ConnectionMetrics, Categories
  <2>2. m = [half EXCEPT !.pq_key_establishment = pq, !.hybrid_key_establishment = hybrid,
                         !.pq_authentication = pqa]
    BY DEF server_negotiation_fields
  <2>3. a \in Authentications /\ pq \in BOOLEAN /\ hybrid \in BOOLEAN /\ pqa \in BOOLEAN
    BY <1>2, <1>3
  <2>4. metrics = [m EXCEPT !.protocol_message_count = count, !.success = (outcome = "none"),
                            !.error_category = outcome]
    BY <1>4 DEF metrics
  <2>5. count \in Nat /\ outcome \in Categories
    BY DEF ServerTypeOK
  <2> HIDE DEF new, a, pq, hybrid, pqa, m
  <2>6. /\ half \in ConnectionMetrics
        /\ half.requested_profile = Profile.id /\ half.tls_version = "TLSv1.3"
        /\ half.negotiated_group = group /\ half.authentication = a
    BY <1>1, <2>1, <2>3, Zenon DEF ConnectionMetrics
  <2> HIDE DEF half
  <2>7. /\ m \in ConnectionMetrics
        /\ m.requested_profile = Profile.id /\ m.tls_version = "TLSv1.3"
        /\ m.negotiated_group = group /\ m.authentication = a
    BY <2>2, <2>3, <2>6, Zenon DEF ConnectionMetrics
  <2>8. m.pq_key_establishment = pq /\ m.hybrid_key_establishment = hybrid /\ m.pq_authentication = pqa
    BY <2>2, <2>3, <2>6, Zenon DEF ConnectionMetrics
  <2>9. /\ metrics \in ConnectionMetrics
        /\ metrics.requested_profile = Profile.id /\ metrics.tls_version = "TLSv1.3"
        /\ metrics.negotiated_group = group /\ metrics.authentication = a
        /\ metrics.pq_key_establishment = pq /\ metrics.hybrid_key_establishment = hybrid
        /\ metrics.pq_authentication = pqa
        /\ metrics.success = (outcome = "none") /\ metrics.error_category = outcome
    BY <2>4, <2>5, <2>7, <2>8, Zenon DEF ConnectionMetrics
  <2> QED
    BY <1>3, <1>4, <2>9 DEF a, pq, hybrid, pqa
<1>5. CASE ~inspected
  BY <1>1, <1>2, <1>5, Zenon DEF metrics, NewMetrics, ConnectionMetrics, ServerTypeOK
<1> QED
  BY <1>4, <1>5, Zenon DEF ServerTypeOK

(* The validator has nothing to say but what Objectionable allows of a record  *)
(* that claims what was negotiated, and nothing at all if that was a           *)
(* post-quantum group.                                                         *)
LEMMA NothingElseToSay ==
    ASSUME NEW p \in Definition, AptlyNamed(p),
           NEW m \in ConnectionMetrics,
           m.requested_profile = p.id,
           m.success <=> m.error_category = "none",
           m.success => /\ m.tls_version = "TLSv1.3"
                        /\ permits_negotiated_group(p, m.negotiated_group),
           m.pq_key_establishment <=> is_post_quantum_group(m.negotiated_group),
           m.hybrid_key_establishment <=> is_hybrid_group(m.negotiated_group),
           m.pq_authentication => m.authentication \in PqMarked
    PROVE  /\ problems(m) \subseteq Objectionable(p)
           /\ is_post_quantum_group(m.negotiated_group) => problems(m) = {}
<1> DEFINE j   == to_json(m)
           g   == m.negotiated_group
           key == g.key
<1>1. /\ j.requested_profile = p.id /\ j.tls_version = m.tls_version
      /\ j.negotiated_group = g /\ j.authentication = m.authentication
      /\ j.pq_key_establishment = m.pq_key_establishment
      /\ j.hybrid_key_establishment = m.hybrid_key_establishment
      /\ j.pq_authentication = m.pq_authentication /\ j.success = m.success
      /\ j.error_category = IF m.error_category = "none" THEN null ELSE m.error_category
  BY Zenon DEF to_json, ConnectionMetrics
<1>2. m.error_category \in Categories
  BY Zenon DEF ConnectionMetrics
<1> HIDE DEF j, g
<1>3. /\ is_hybrid_group(g) = (key \in HYBRID_GROUPS)
      /\ is_post_quantum_group(g) = (key \in PQ_GROUPS)
  BY SameGroups
<1>4. /\ j.pq_key_establishment <=> key \in PQ_GROUPS
      /\ j.hybrid_key_establishment <=> key \in HYBRID_GROUPS
  BY <1>1, <1>3, Zenon DEF g
<1>5. j.success => permits_negotiated_group(p, g) /\ j.tls_version = "TLSv1.3"
  BY <1>1 DEF g
<1>6. j.success => key # ""
  BY <1>5, Zenon DEF permits_negotiated_group
<1>7. j.pq_authentication => j.authentication \in PqMarked
  BY <1>1
<1>8. /\ j.error_category \in ERROR_CATEGORIES
      /\ j.success => j.error_category = null
  BY <1>1, <1>2 DEF Categories, ERROR_CATEGORIES, null
<1>9. ASSUME j.success, j.requested_profile \in PqNamed, key \notin PQ_GROUPS
      PROVE  Objectionable(p) = {"downgrade"}
  <2>1. has_pq(p.groups) /\ p.id \in PqNamed
    BY <1>1, <1>9 DEF AptlyNamed
  <2>2. ~is_post_quantum_group(g)
    BY <1>3, <1>9, Zenon
  <2>3. p.allow_classical_fallback
    BY <1>5, <1>9, <2>1, <2>2, Zenon DEF permits_negotiated_group, offers_post_quantum_key_establishment
  <2> QED
    BY <2>1, <2>3 DEF Objectionable
<1>10. key \in HYBRID_GROUPS => key \in PQ_GROUPS
  BY DEF PQ_GROUPS
<1>11. j.negotiated_group.key = key
  BY <1>1
<1> HIDE DEF key
<1>12. builtin_structural_check(j) = {}
  BY <1>8, Zenon DEF builtin_structural_check, If
<1>13. semantic_check(j) =
          If(/\ j.success /\ j.requested_profile \in PqNamed
             /\ key # "" /\ key \notin PQ_GROUPS, "downgrade")
  <2>1. /\ ~(j.success /\ j.tls_version = "") /\ ~(j.success /\ key = "")
        /\ ~(j.success /\ j.error_category \notin {null, "none"})
        /\ ~(j.success /\ j.tls_version \notin {"", "TLSv1.3", "TLS1.3"})
    BY <1>5, <1>6, <1>8, Zenon
  <2>2. /\ ~(key # "" /\ j.pq_key_establishment /\ key \notin PQ_GROUPS)
        /\ ~(j.success /\ key \in PQ_GROUPS /\ ~j.pq_key_establishment)
        /\ ~(key # "" /\ j.hybrid_key_establishment /\ key \notin HYBRID_GROUPS)
        /\ ~(j.hybrid_key_establishment /\ ~j.pq_key_establishment)
        /\ ~(j.pq_authentication /\ j.authentication # "" /\ j.authentication \notin PqMarked)
    BY <1>4, <1>7, <1>10, Zenon
  <2> QED
    BY <1>11, <2>1, <2>2, Zenon DEF semantic_check, If
<1>14. problems(m) = semantic_check(j)
  BY <1>12 DEF problems, j
<1>15. semantic_check(j) \subseteq Objectionable(p)
  BY <1>9, <1>13, Zenon DEF If
<1>16. is_post_quantum_group(g) => semantic_check(j) = {}
  BY <1>3, <1>13, Zenon DEF If
<1> QED
  BY <1>14, <1>15, <1>16 DEF g

(* The server's record claims what was negotiated.                             *)
LEMMA ServerRecordAccepted ==
    ASSUME Profile \in Definition, AptlyNamed(Profile), IInv, record # Unwritten
    PROVE  /\ problems(metrics) \subseteq Objectionable(Profile)
           /\ inspected /\ is_post_quantum_group(group) => problems(metrics) = {}
<1>1. ServerTypeOK
  BY DEF IInv
<1>2. outcome = "none" => inspected /\ permits_negotiated_group(Profile, group)
  BY DEF IInv, Gates, Admitted
<1>3. ~is_post_quantum_group(NoName) /\ ~is_hybrid_group(NoName)
  BY DEF NoName, Listed, is_post_quantum_group, is_hybrid_group, kHybridGroups, kPureMlKemGroups
<1>4. is_post_quantum_authentication(Profile.authentication) => Profile.authentication \in PqMarked
  BY DEF is_post_quantum_authentication, PqMarked
<1>5. inspected \in BOOLEAN
  BY <1>1 DEF ServerTypeOK
<1> DEFINE m == metrics
<1>6. /\ m \in ConnectionMetrics
      /\ m.requested_profile = Profile.id
      /\ m.tls_version = IF inspected THEN "TLSv1.3" ELSE ""
      /\ m.negotiated_group = IF inspected THEN group ELSE NoName
      /\ m.authentication = IF inspected THEN Profile.authentication ELSE ""
      /\ m.pq_key_establishment = (inspected /\ is_post_quantum_group(group))
      /\ m.hybrid_key_establishment = (inspected /\ is_hybrid_group(group))
      /\ m.pq_authentication =
            (inspected /\ is_post_quantum_authentication(Profile.authentication))
      /\ m.success = (outcome = "none")
      /\ m.error_category = outcome
  BY <1>1, MetricsFields, Zenon
<1> HIDE DEF m
<1>7. m.success <=> m.error_category = "none"
  BY <1>6, Zenon
<1>8. m.success => m.tls_version = "TLSv1.3" /\ permits_negotiated_group(Profile, m.negotiated_group)
  BY <1>2, <1>6, Zenon
<1>9. m.pq_key_establishment <=> is_post_quantum_group(m.negotiated_group)
  BY <1>3, <1>5, <1>6, Zenon
<1>10. m.hybrid_key_establishment <=> is_hybrid_group(m.negotiated_group)
  BY <1>3, <1>5, <1>6, Zenon
<1>11. m.pq_authentication => m.authentication \in PqMarked
  BY <1>4, <1>6, Zenon
<1>12. /\ problems(m) \subseteq Objectionable(Profile)
       /\ is_post_quantum_group(m.negotiated_group) => problems(m) = {}
  BY <1>6, <1>7, <1>8, <1>9, <1>10, <1>11, NothingElseToSay, Zenon
<1> QED
  BY <1>6, <1>12, Zenon DEF m

(* The record of a connection is honest, and the validator accepts it: for     *)
(* every profile that has a post-quantum group if its name promises one.       *)
THEOREM RecordsHonest ==
    ASSUME Profile \in Definition, AptlyNamed(Profile)
    PROVE  ServerSpec => []RecordHonest
<1>1. IInv => RecordHonest
  <2> SUFFICES ASSUME IInv, record # Unwritten
               PROVE  /\ count = handled + Len(replies)
                      /\ record = "none" =>
                            /\ \A i \in 1 .. handled : Answer(sent[i]) # NoReply => i <= Len(replies)
                            /\ EndedWell
                      /\ metrics \in ConnectionMetrics
                      /\ problems(metrics) \subseteq Objectionable(Profile)
    BY DEF RecordHonest
  <2>1. spc = "ended" /\ record = outcome
    BY DEF IInv, Gates
  <2>2. count = handled + Len(replies)
    BY DEF IInv, Books
  <2>3. ASSUME record = "none", NEW i \in 1 .. handled, Answer(sent[i]) # NoReply
        PROVE  i <= Len(replies)
    <3>1. handled \in Nat /\ Len(replies) \in {handled - 1, handled}
      BY DEF IInv, ServerTypeOK, Loops
    <3>2. Len(replies) # handled => i # handled
      BY <2>1, <2>3 DEF IInv, Books
    <3> QED
      BY <3>1, <3>2
  <2>4. record = "none" => EndedWell
    BY <2>1 DEF IInv, Books
  <2>5. metrics \in ConnectionMetrics
    BY MetricsFields, Zenon DEF IInv
  <2> QED
    BY <2>2, <2>3, <2>4, <2>5, ServerRecordAccepted
<1> QED
  BY <1>1, Invariance, PTL

-----------------------------------------------------------------------------
(* The client and the server.                                                 *)

(* What a failed server has left unanswered.                                    *)
Failures ==
    /\ \A i \in 1 .. handled : sent[i] # BadLength
    /\ outcome \in {"tls-policy", "certificate"} => replies = <<>>
    /\ outcome = "protocol" =>
          Len(replies) < Len(sent) /\ Answer(sent[Len(replies) + 1]) # NoReply

(* Where the client is in its messages: it is never more than one message       *)
(* ahead of its responses, and its end of the connection is open until it is    *)
(* done.                                                                        *)
Client ==
    /\ messages \in Workloads
    /\ Len(sent) <= Len(messages)
    /\ \A i \in 1 .. Len(sent) : sent[i] = messages[i]
    /\ received \in Seq(Responses) /\ Len(received) <= Len(replies)
    /\ \A i \in 1 .. Len(received) : received[i] = replies[i]
    /\ cpc \notin {"record", "ended"} => peer = "open" /\ coutcome = "none"
    /\ cpc \in {"connect", "handshake", "peer", "group"} => sent = <<>> /\ received = <<>>
    /\ cpc = "send" => Len(received) = Len(sent) /\ Len(sent) < Len(messages)
    /\ cpc = "receive" => Len(received) + 1 = Len(sent) /\ sent[Len(sent)] # "close"
    /\ cpc = "shutdown" \/ (cpc \in {"record", "ended"} /\ coutcome = "none") =>
          \/ Len(received) = Len(sent) /\ Len(sent) = Len(messages)
          \/ Len(received) + 1 = Len(sent) /\ sent[Len(sent)] = "close"
    /\ crecord # Unwritten => cpc = "ended" /\ crecord = coutcome

SInv == IInv /\ Failures /\ Client

-----------------------------------------------------------------------------

(* A message of a workload is one the peer of ServerSession may send.          *)
LEMMA WorkloadType ==
    ASSUME NEW w \in Workloads
    PROVE  /\ Len(w) \in Nat /\ Len(w) <= MaxSent
           /\ \A i \in 1 .. Len(w) : w[i] \in Sends /\ w[i] # Truncated
<1>1. w \in Seq((Requests \cup Responses \cup {BadLength}) \cap Sends) /\ Len(w) <= MaxSent
  BY ClientAssumption
<1>2. \A i \in 1 .. Len(w) : w[i] \in (Requests \cup Responses \cup {BadLength}) \cap Sends
  BY <1>1
<1>3. \A i \in 1 .. Len(w) : w[i] \in Sends /\ w[i] # Truncated
  BY <1>2, Zenon DEF Requests, Responses, BadLength, Truncated
<1>4. Len(w) \in Nat
  BY <1>1
<1> QED
  BY <1>1, <1>3, <1>4

(* How far the two have come.                                                  *)
LEMMA Sizes ==
    ASSUME SInv
    PROVE  /\ sent \in Seq(Kinds) /\ replies \in Seq(Responses) /\ received \in Seq(Responses)
           /\ Len(sent) \in Nat /\ Len(replies) \in Nat /\ Len(received) \in Nat /\ handled \in Nat
           /\ Len(received) <= Len(replies) /\ Len(replies) <= handled /\ handled <= Len(sent)
           /\ messages \in Workloads /\ Len(messages) \in Nat /\ Len(sent) <= Len(messages)
<1>1. ServerTypeOK /\ Loops /\ Client
  BY DEF SInv, IInv
<1>2. sent \in Seq(Kinds) /\ replies \in Seq(Responses) /\ fed \in 0 .. Len(sent) /\ handled \in 0 .. fed
  BY <1>1, Zenon DEF ServerTypeOK
<1>3. /\ received \in Seq(Responses) /\ Len(received) <= Len(replies)
      /\ messages \in Workloads /\ Len(sent) <= Len(messages)
  BY <1>1, Zenon DEF Client
<1>4. Len(replies) \in {handled - 1, handled}
  BY <1>1, Zenon DEF Loops
<1>5. Len(sent) \in Nat /\ Len(replies) \in Nat /\ Len(received) \in Nat
  BY <1>2, <1>3
<1>6. handled \in Nat /\ handled <= Len(sent)
  BY <1>2, <1>5
<1>7. Len(replies) <= handled
  BY <1>4, <1>6
<1>8. Len(messages) \in Nat
  BY <1>3, WorkloadType
<1> QED
  BY <1>2, <1>3, <1>5, <1>6, <1>7, <1>8

(* While the client may send, every message it has sent was well framed.       *)
LEMMA NothingPending ==
    ASSUME SInv, cpc = "send"
    PROVE  \A i \in 1 .. Len(sent) : sent[i] \notin {BadLength, Truncated}
<1>1. handled = Len(sent)
  <2>1. Len(received) = Len(sent)
    BY DEF SInv, Client
  <2> QED
    BY <2>1, Sizes
<1>2. \A i \in 1 .. Len(sent) : sent[i] # Truncated
  <2>1. \A i \in 1 .. Len(sent) : sent[i] = messages[i]
    BY DEF SInv, Client
  <2> QED
    BY <2>1, Sizes, WorkloadType
<1> QED
  BY <1>1, <1>2 DEF SInv, Failures

(* An exception in the client is the loss of the peer, or nothing to the       *)
(* server.                                                                     *)
LEMMA ThrowSimulation ==
    ASSUME NEW c, CThrow(c), peer = "open" PROVE PeerLost \/ UNCHANGED sessionVars
  BY DEF CThrow, PeerLost, sessionVars

(* Every step is one that ServerSession allows, or none to it.                 *)
LEMMA StepSimulation ==
    ASSUME SInv, [Next]_vars PROVE [ServerNext]_sessionVars
<1>1. CASE tcp_connect \/ SSL_connect \/ Receive \/ ClientRecord
  BY <1>1, Zenon DEF tcp_connect, SSL_connect, Receive, ClientRecord
<1>2. CASE tcp_connect_fails \/ SSL_connect_fails \/ SendThrows \/ SocketFails \/ ReceiveThrows
           \/ ReceiveEnd
  <2>1. cpc \notin {"record", "ended"} /\ \E c : CThrow(c)
    BY <1>2 DEF tcp_connect_fails, SSL_connect_fails, SendThrows, SocketFails, ReceiveThrows,
                ReceiveEnd
  <2>2. peer = "open"
    BY <2>1 DEF SInv, Client
  <2> QED
    BY <2>1, <2>2, ThrowSimulation DEF ServerNext, PeerStep
<1>3. CASE client_enforce_peer_verification \/ client_enforce_group_policy
  <2>1. cpc \notin {"record", "ended"} /\ (UNCHANGED sessionVars \/ \E c : CThrow(c))
    BY <1>3 DEF client_enforce_peer_verification, client_enforce_group_policy, Goto
  <2>2. peer = "open"
    BY <2>1 DEF SInv, Client
  <2> QED
    BY <2>1, <2>2, ThrowSimulation DEF ServerNext, PeerStep
<1>4. CASE Send
  <2>1. peer = "open" /\ Len(sent) < Len(messages) /\ messages \in Workloads
    BY <1>4 DEF Send, SInv, Client
  <2>2. Len(sent) \in Nat
    BY Sizes
  <2>3. Message \in Sends /\ Len(sent) < MaxSent
    BY <2>1, <2>2, WorkloadType, SessionAssumption DEF Message
  <2>4. \A i \in 1 .. Len(sent) : sent[i] \notin {BadLength, Truncated}
    BY <1>4, NothingPending DEF Send
  <2>5. PeerSends(Message)
    BY <1>4, <2>1, <2>3, <2>4 DEF Send, PeerSends
  <2> QED
    BY <2>3, <2>5 DEF ServerNext, PeerStep
<1>5. CASE client_graceful_shutdown
  BY <1>5 DEF client_graceful_shutdown, SInv, Client, ServerNext, PeerStep, PeerCloses, PeerLost
<1>6. CASE ServerTurn \/ (Stop /\ UNCHANGED clientVars)
  BY <1>6 DEF ServerTurn, ServerNext
<1>7. CASE UNCHANGED vars
  BY <1>7 DEF vars
<1> QED
  BY <1>1, <1>2, <1>3, <1>4, <1>5, <1>6, <1>7 DEF Next, ClientStep

(* Every step of the server keeps what its failures say.                       *)
LEMMA FailuresStep ==
    ASSUME IInv, Failures, [ServerNext]_sessionVars PROVE Failures'
<1> USE DEF IInv, ServerTypeOK, Failures, serverVars, policyVars, loopVars, outsideVars
<1>1. CASE SetupFails \/ HandshakeFails
  BY <1>1 DEF SetupFails, HandshakeFails, Throw, Gates
<1>2. CASE Handshake
  BY <1>2 DEF Handshake
<1>3. CASE enforce_group_policy \/ enforce_peer_verification
  BY <1>3 DEF enforce_group_policy, enforce_peer_verification, Throw, Gates
<1>4. CASE Loop \/ ReadEnd \/ ssl_graceful_shutdown \/ Record
  BY <1>4 DEF Loop, ReadEnd, ssl_graceful_shutdown, Record
<1>5. CASE Handle
  <2>1. \A i \in 1 .. handled' : sent'[i] # BadLength
    BY <1>5 DEF Handle
  <2>2. outcome' = "none"
    BY <1>5 DEF Handle, Gates
  <2> QED
    BY <2>1, <2>2, Zenon
<1>6. CASE ReadPart \/ ReadFrames
  BY <1>6 DEF ReadPart, ReadFrames
<1>7. CASE DecoderThrows
  <2>1. spc = "frame" /\ UNCHANGED <<sent, loopVars>> /\ outcome' = "protocol"
    BY <1>7 DEF DecoderThrows, Throw
  <2>2. Len(replies) = handled
    BY <2>1 DEF Loops
  <2>3. handled < Len(sent) /\ sent[handled + 1] = BadLength
    BY <1>7 DEF DecoderThrows
  <2>4. Answer(BadLength) # NoReply
    BY Zenon DEF Answer, BadLength, NoReply
  <2> QED
    BY <2>1, <2>2, <2>3, <2>4
<1>8. CASE EncodeThrows
  <2>1. spc = "write" /\ UNCHANGED <<sent, loopVars>> /\ outcome' = "protocol"
    BY <1>8 DEF EncodeThrows, Throw
  <2>2. Len(replies) + 1 = handled /\ Answer(sent[handled]) # NoReply
    BY <2>1 DEF Loops
  <2> QED
    BY <2>1, <2>2
<1>9. CASE ReadFails \/ WriteFails \/ SerializeThrows
  BY <1>9 DEF ReadFails, WriteFails, SerializeThrows, throw_ssl_error, Throw
<1>10. CASE WriteReply
  BY <1>10 DEF WriteReply, Gates
<1>11. ASSUME NEW k \in Sends, PeerSends(k) PROVE Failures'
  <2>1. sent' = Append(sent, k) /\ UNCHANGED <<handled, replies, outcome>>
    BY <1>11 DEF PeerSends
  <2>2. k \in Kinds /\ sent \in Seq(Kinds) /\ handled \in Nat /\ handled <= Len(sent)
    BY SessionAssumption
  <2> HIDE DEF IInv, ServerTypeOK
  <2>3. Len(sent') = Len(sent) + 1 /\ \A i \in 1 .. Len(sent) : sent'[i] = sent[i]
    BY <2>1, <2>2, Appended, Zenon
  <2>4. ASSUME NEW i \in 1 .. handled' PROVE sent'[i] # BadLength
    <3>1. i \in 1 .. handled /\ i \in 1 .. Len(sent)
      BY <2>1, <2>2
    <3>2. sent[i] # BadLength
      BY <3>1
    <3> QED
      BY <2>3, <3>1, <3>2, Zenon
  <2>5. outcome' = "protocol" =>
          Len(replies') < Len(sent') /\ Answer(sent'[Len(replies') + 1]) # NoReply
    BY <2>1, <2>2, <2>3
  <2>6. outcome' \in {"tls-policy", "certificate"} => replies' = <<>>
    BY <2>1
  <2> QED
    BY <2>4, <2>5, <2>6, Zenon
<1>12. CASE PeerCloses \/ PeerLost \/ Stop
  BY <1>12 DEF PeerCloses, PeerLost, Stop
<1>13. CASE UNCHANGED sessionVars
  BY <1>13 DEF sessionVars
<1> QED
  BY <1>1, <1>2, <1>3, <1>4, <1>5, <1>6, <1>7, <1>8, <1>9, <1>10, <1>11, <1>12, <1>13, Zenon
     DEF ServerNext, ServerStep, PeerStep

(* A step of the server only adds to its replies.                              *)
LEMMA RepliesGrow ==
    ASSUME IInv, ServerStep
    PROVE  /\ sent' = sent /\ peer' = peer
           /\ Len(replies) <= Len(replies')
           /\ \A i \in 1 .. Len(replies) : replies'[i] = replies[i]
<1> USE DEF policyVars, loopVars, outsideVars
<1>1. CASE WriteReply
  <2>1. sent' = sent /\ peer' = peer /\ replies' = Append(replies, reply) /\ spc = "write"
    BY <1>1 DEF WriteReply
  <2>2. replies \in Seq(Responses) /\ reply \in Responses
    BY <2>1 DEF IInv, ServerTypeOK, Loops
  <2>3. /\ Len(replies) \in Nat /\ Len(replies') = Len(replies) + 1
        /\ \A i \in 1 .. Len(replies) : replies'[i] = replies[i]
    BY <2>1, <2>2, Appended, Zenon
  <2>4. Len(replies) <= Len(replies')
    BY <2>3
  <2> QED
    BY <2>1, <2>3, <2>4, Zenon
<1>2. CASE UNCHANGED <<sent, peer, replies>>
  <2>1. Len(replies) \in Nat
    BY DEF IInv, ServerTypeOK
  <2> QED
    BY <1>2, <2>1
<1>3. CASE SetupFails \/ HandshakeFails \/ Handshake \/ enforce_group_policy
           \/ enforce_peer_verification \/ DecoderThrows \/ SerializeThrows \/ EncodeThrows
  <2>1. UNCHANGED <<sent, peer, replies>>
    BY <1>3, Zenon DEF SetupFails, HandshakeFails, Handshake, enforce_group_policy,
                enforce_peer_verification, DecoderThrows, SerializeThrows, EncodeThrows, Throw
  <2> QED
    BY <1>2, <2>1
<1>4. CASE Loop \/ Handle \/ ReadPart \/ ReadFrames \/ ReadEnd \/ ssl_graceful_shutdown \/ Record
  <2>1. UNCHANGED <<sent, peer, replies>>
    BY <1>4, Zenon DEF Loop, Handle, ReadPart, ReadFrames, ReadEnd, ssl_graceful_shutdown, Record
  <2> QED
    BY <1>2, <2>1
<1>5. CASE ReadFails \/ WriteFails
  <2>1. UNCHANGED <<sent, peer, replies>>
    BY <1>5 DEF ReadFails, WriteFails, throw_ssl_error, Throw
  <2> QED
    BY <1>2, <2>1
<1> QED
  BY <1>1, <1>3, <1>4, <1>5, Zenon DEF ServerStep

(* An exception in the client leaves its messages and responses as they are.   *)
LEMMA ClientThrow ==
    ASSUME SInv, NEW c, c # "none", cpc \notin {"record", "ended"}, CThrow(c)
    PROVE  Client'
  BY DEF CThrow, SInv, Client, serverVars

(* Every step keeps what is known of the client.                               *)
LEMMA ClientKept == ASSUME SInv, [Next]_vars PROVE Client'
<1>1. CASE tcp_connect \/ SSL_connect
  BY <1>1, Zenon DEF tcp_connect, SSL_connect, SInv, Client, sessionVars, serverVars
<1>2. CASE tcp_connect_fails \/ SSL_connect_fails \/ SendThrows \/ SocketFails \/ ReceiveThrows
           \/ ReceiveEnd
  <2>1. cpc \notin {"record", "ended"} /\ \E c : c # "none" /\ CThrow(c)
    BY <1>2 DEF tcp_connect_fails, SSL_connect_fails, SendThrows, SocketFails, ReceiveThrows,
                ReceiveEnd
  <2> QED
    BY <2>1, ClientThrow
<1>3. CASE client_enforce_peer_verification
  <2>1. CASE Goto("group")
    BY <1>3, <2>1, Zenon DEF client_enforce_peer_verification, Goto, SInv, Client, sessionVars, serverVars
  <2>2. CASE CThrow("certificate")
    BY <1>3, <2>2, ClientThrow DEF client_enforce_peer_verification
  <2> QED
    BY <1>3, <2>1, <2>2 DEF client_enforce_peer_verification
<1>4. CASE client_enforce_group_policy
  <2>1. CASE Goto(AfterMessage(0))
    <3>1. cpc = "group" /\ sent = <<>> /\ received = <<>> /\ messages \in Workloads
      BY <1>4 DEF client_enforce_group_policy, SInv, Client
    <3>2. Len(sent) = 0 /\ Len(received) = 0 /\ Len(messages) \in Nat
      BY <3>1, WorkloadType
    <3>3. /\ UNCHANGED <<sent, peer, replies, messages, received, coutcome, crecord>>
          /\ cpc' = IF Len(messages) = 0 THEN "shutdown" ELSE "send"
      BY <2>1 DEF Goto, AfterMessage, sessionVars, serverVars
    <3> QED
      BY <3>1, <3>2, <3>3 DEF SInv, Client
  <2>2. CASE CThrow("tls-policy")
    BY <1>4, <2>2, ClientThrow DEF client_enforce_group_policy
  <2> QED
    BY <1>4, <2>1, <2>2 DEF client_enforce_group_policy
<1>5. CASE Send
  <2>1. Len(sent) \in Nat /\ sent \in Seq(Kinds) /\ Len(messages) \in Nat
    BY Sizes
  <2>2. /\ Len(sent') = Len(sent) + 1 /\ sent'[Len(sent')] = messages[Len(sent')]
        /\ \A i \in 1 .. Len(sent) : sent'[i] = sent[i]
    BY <1>5, <2>1 DEF Send, Message
  <2>3. /\ Len(received) = Len(sent) /\ Len(sent) < Len(messages)
        /\ UNCHANGED <<replies, received, messages, coutcome, crecord, peer>>
        /\ cpc = "send" /\ cpc' = IF messages[Len(sent')] = "close" THEN "shutdown" ELSE "receive"
    BY <1>5, <2>1, <2>2 DEF Send, Message, SInv, Client, serverVars
  <2>4. Len(sent') <= Len(messages') /\ \A i \in 1 .. Len(sent') : sent'[i] = messages'[i]
    <3>1. \A i \in 1 .. Len(sent) : sent'[i] = messages[i]
      BY <2>2 DEF SInv, Client
    <3> QED
      BY <2>1, <2>2, <2>3, <3>1
  <2>5. /\ cpc' = "receive" => Len(received') + 1 = Len(sent') /\ sent'[Len(sent')] # "close"
        /\ cpc' = "shutdown" => Len(received') + 1 = Len(sent') /\ sent'[Len(sent')] = "close"
        /\ cpc' \in {"receive", "shutdown"}
    BY <2>2, <2>3
  <2> QED
    BY <2>3, <2>4, <2>5 DEF SInv, Client
<1>6. CASE Receive
  <2>1. received \in Seq(Responses) /\ replies \in Seq(Responses) /\ Len(received) < Len(replies)
    BY <1>6, Sizes DEF Receive
  <2>2. /\ received' \in Seq(Responses) /\ Len(received') = Len(received) + 1
        /\ \A i \in 1 .. Len(received') : received'[i] = replies[i]
    <3>1. replies[Len(received) + 1] \in Responses
      BY <2>1, Sizes
    <3>2. received' = Append(received, replies[Len(received) + 1])
      BY <1>6 DEF Receive
    <3>3. \A i \in 1 .. Len(received) : received[i] = replies[i]
      BY DEF SInv, Client
    <3> QED
      BY <2>1, <3>1, <3>2, <3>3
  <2>3. /\ Len(received) + 1 = Len(sent) /\ Len(sent) \in Nat /\ Len(messages) \in Nat
        /\ Len(sent) <= Len(messages)
    <3>1. Len(received) + 1 = Len(sent)
      BY <1>6 DEF Receive, SInv, Client
    <3> QED
      BY <3>1, Sizes
  <2>4. /\ UNCHANGED <<replies, sent, messages, coutcome, crecord, peer>>
        /\ cpc = "receive" /\ cpc' = IF Len(sent) = Len(messages) THEN "shutdown" ELSE "send"
    BY <1>6 DEF Receive, AfterMessage, sessionVars, serverVars
  <2>5. /\ Len(received') <= Len(replies')
        /\ cpc' = "send" => Len(received') = Len(sent') /\ Len(sent') < Len(messages')
        /\ cpc' = "shutdown" => Len(received') = Len(sent') /\ Len(sent') = Len(messages')
        /\ cpc' \in {"send", "shutdown"}
    <3>1. Len(received') <= Len(replies')
      BY <2>1, <2>2, <2>4
    <3>2. Len(received') = Len(sent')
      BY <2>2, <2>3, <2>4
    <3> QED
      BY <2>3, <2>4, <3>1, <3>2
  <2> QED
    BY <2>2, <2>4, <2>5 DEF SInv, Client
<1>7. CASE client_graceful_shutdown \/ ClientRecord
  BY <1>7 DEF client_graceful_shutdown, ClientRecord, SInv, Client, sessionVars, serverVars
<1>8. CASE ServerTurn
  <2>1. /\ sent' = sent /\ peer' = peer
        /\ Len(replies) <= Len(replies')
        /\ \A i \in 1 .. Len(replies) : replies'[i] = replies[i]
    BY <1>8, RepliesGrow DEF ServerTurn, SInv
  <2>2. UNCHANGED clientVars
    BY <1>8 DEF ServerTurn
  <2>3. Len(received') <= Len(replies') /\ \A i \in 1 .. Len(received') : received'[i] = replies'[i]
    <3>1. Len(received) \in Nat /\ Len(replies) \in Nat /\ Len(received) <= Len(replies)
      BY Sizes
    <3>2. Len(replies') \in Nat
      <4>1. ServerTypeOK'
        BY <1>8, TypeStep DEF ServerTurn, SInv, IInv, ServerNext
      <4>2. replies' \in Seq(Responses)
        BY <4>1, Zenon DEF ServerTypeOK
      <4> QED
        BY <4>2
    <3>3. received' = received /\ \A i \in 1 .. Len(received) : received[i] = replies[i]
      BY <2>2 DEF clientVars, SInv, Client
    <3> QED
      BY <2>1, <3>1, <3>2, <3>3
  <2> QED
    BY <2>1, <2>2, <2>3 DEF clientVars, SInv, Client
<1>9. CASE (Stop /\ UNCHANGED clientVars) \/ UNCHANGED vars
  BY <1>9 DEF Stop, vars, clientVars, sessionVars, serverVars, SInv, Client
<1> QED
  BY <1>1, <1>2, <1>3, <1>4, <1>5, <1>6, <1>7, <1>8, <1>9 DEF Next, ClientStep

-----------------------------------------------------------------------------

(* The inductive invariant of the two holds in every reachable state.          *)
LEMMA SessionInvariance == Spec => []SInv
<1>1. Init => SInv
  <2> SUFFICES ASSUME Init PROVE SInv
    OBVIOUS
  <2>1. IInv
    BY InitInv, Zenon DEF Init
  <2>2. Failures
    <3>1. handled = 0 /\ outcome = "none"
      BY Zenon DEF Init, ServerInit
    <3> QED
      BY <3>1 DEF Failures
  <2>3. Client
    <3>1. messages \in Workloads /\ Len(messages) \in Nat
      BY WorkloadType, Zenon DEF Init
    <3>2. sent = <<>> /\ received = <<>> /\ replies = <<>>
      BY Zenon DEF Init, ServerInit
    <3>3. Len(sent) = 0 /\ Len(received) = 0 /\ Len(replies) = 0 /\ received \in Seq(Responses)
      BY <3>2
    <3>4. peer = "open" /\ coutcome = "none" /\ cpc = "connect" /\ crecord = Unwritten
      BY Zenon DEF Init, ServerInit
    <3> QED
      BY <3>1, <3>2, <3>3, <3>4 DEF Client
  <2> QED
    BY <2>1, <2>2, <2>3 DEF SInv
<1>2. SInv /\ [Next]_vars => SInv'
  BY StepSimulation, ServerInvStep, FailuresStep, ClientKept DEF SInv
<1> QED
  BY <1>1, <1>2, PTL DEF Spec

(* The client is a peer as ServerSession has it, whatever its workload and     *)
(* wherever its connection fails.                                              *)
THEOREM SessionImplementsServer == Spec => ImplementsServerSpec
<1>1. Init => ServerInit
  BY Zenon DEF Init
<1>2. SInv /\ [Next]_vars => [ServerNext]_sessionVars
  BY StepSimulation
<1> QED
  BY <1>1, <1>2, SessionInvariance, PTL DEF Spec, ServerSpec, ImplementsServerSpec

(* The client and the server never wait for each other.                        *)
THEOREM NoMutualWait == Spec => []NeverBothWait
<1>1. SInv => NeverBothWait
  <2> SUFFICES ASSUME SInv, cpc = "receive", Len(received) = Len(replies),
                      spc = "frame", handled = Len(sent)
               PROVE  FALSE
    BY DEF NeverBothWait
  <2>1. Len(received) + 1 = Len(sent)
    BY DEF SInv, Client
  <2>2. Len(replies) = handled
    BY DEF SInv, IInv, Loops
  <2> QED
    BY <2>1, <2>2, Sizes
<1> QED
  BY <1>1, SessionInvariance, PTL

(* The i-th response is the answer to the i-th message, and success means that *)
(* nothing is unanswered.                                                      *)
THEOREM ResponsesAlwaysMatch == Spec => []ResponsesMatch
<1>1. SInv => ResponsesMatch
  <2> SUFFICES ASSUME SInv PROVE ResponsesMatch
    OBVIOUS
  <2>1. /\ Len(received) \in Nat /\ Len(replies) \in Nat /\ Len(sent) \in Nat /\ handled \in Nat
        /\ Len(received) <= Len(replies) /\ Len(replies) <= handled /\ handled <= Len(sent)
    BY Sizes
  <2>2. ASSUME NEW i \in 1 .. Len(received) PROVE received[i] = Answer(messages[i])
    <3>1. i \in 1 .. Len(replies) /\ i \in 1 .. Len(sent)
      BY <2>1
    <3>2. received[i] = replies[i] /\ sent[i] = messages[i]
      BY <3>1 DEF SInv, Client
    <3>3. replies[i] = Answer(sent[i])
      BY <3>1 DEF SInv, IInv, Loops
    <3> QED
      BY <3>2, <3>3, Zenon
  <2>3. crecord = "none" =>
          \/ Len(received) = Len(sent) /\ Len(sent) = Len(messages)
          \/ Len(received) + 1 = Len(sent) /\ sent[Len(sent)] = "close"
    BY DEF SInv, Client, Unwritten
  <2>4. ASSUME crecord = "none", NEW i \in 1 .. Len(messages), ~(i <= Len(received))
        PROVE  \E j \in 1 .. i : messages[j] = "close"
    <3>1. i \in Nat /\ Len(messages) \in Nat
      BY Sizes
    <3>2. Len(received) + 1 = Len(sent) /\ sent[Len(sent)] = "close"
      BY <2>1, <2>3, <2>4, <3>1
    <3>3. Len(sent) \in 1 .. i
      BY <2>1, <2>4, <3>1, <3>2
    <3>4. messages[Len(sent)] = "close"
      BY <2>1, <3>2, <3>3 DEF SInv, Client
    <3> QED
      BY <3>3, <3>4
  <2>5. ASSUME crecord = "none", received # <<>>
        PROVE  record \notin {"protocol", "tls-policy", "certificate"}
    <3>1. Len(received) > 0
      BY <2>1, <2>5 DEF SInv, Client
    <3>2. replies # <<>>
      BY <2>1, <3>1
    <3>3. outcome # "protocol"
      <4> SUFFICES ASSUME outcome = "protocol" PROVE FALSE
        OBVIOUS
      <4>1. Len(replies) < Len(sent) /\ Answer(sent[Len(replies) + 1]) # NoReply
        BY DEF SInv, Failures
      <4>2. Len(replies) + 1 = Len(sent) /\ sent[Len(sent)] = "close"
        BY <2>1, <2>3, <2>5, <4>1
      <4> QED
        BY <4>1, <4>2 DEF Answer, NoReply
    <3>4. record # Unwritten => record = outcome
      BY DEF SInv, IInv, Gates
    <3> QED
      BY <3>2, <3>3, <3>4 DEF SInv, Failures, Unwritten
  <2> QED
    BY <2>2, <2>4, <2>5 DEF ResponsesMatch
<1> QED
  BY <1>1, SessionInvariance, PTL

-----------------------------------------------------------------------------
(* The client's protocol errors.                                              *)

OverLimit == \E i \in 1 .. Len(messages) : messages[i] \in TooLong \cup TooLongReply
Declined  == ServerClosed /\ (stopping \/ handled = MaxMessages)

(* A protocol error has its reason from the moment it is thrown.               *)
Explained == coutcome = "protocol" => OverLimit \/ Declined

(* A server that closed while the client waited was stopped or at its limit:   *)
(* the client has sent no close message, and no message that does not parse.   *)
LEMMA ClosedOnWaiting ==
    ASSUME SInv, cpc = "receive", Len(received) = Len(replies), ServerClosed
    PROVE  Declined
<1>1. /\ Len(replies) + 1 = Len(sent) /\ sent[Len(sent)] # "close" /\ peer = "open"
      /\ Len(sent) \in Nat /\ Len(replies) \in Nat /\ handled \in Nat /\ handled <= Len(sent)
  BY Sizes DEF SInv, Client
<1>2. \A i \in 1 .. Len(sent) : sent[i] # Malformed
  <2>1. messages \in Workloads /\ Len(sent) <= Len(messages)
        /\ \A i \in 1 .. Len(sent) : sent[i] = messages[i]
    BY DEF SInv, Client
  <2>2. messages \in Seq((Requests \cup Responses \cup {BadLength}) \cap Sends)
    BY <2>1, ClientAssumption
  <2>3. ASSUME NEW i \in 1 .. Len(sent) PROVE sent[i] \in Requests \cup Responses \cup {BadLength}
    BY <1>1, <2>1, <2>2
  <2> QED
    BY <2>3, Zenon DEF Requests, Responses, BadLength, Malformed
<1>3. handled > 0 => sent[handled] # "close"
  <2> SUFFICES ASSUME handled > 0, sent[handled] = "close" PROVE FALSE
    OBVIOUS
  <2>1. handled <= Len(replies)
    BY <1>1
  <2>2. replies[handled] = Answer(sent[handled])
    <3>1. handled \in 1 .. Len(replies)
      BY <1>1, <2>1
    <3> QED
      BY <3>1, Zenon DEF SInv, IInv, Loops
  <2>3. replies[handled] \in Responses
    <3>1. replies \in Seq(Responses)
      BY Zenon DEF SInv, IInv, ServerTypeOK
    <3> QED
      BY <1>1, <2>1, <3>1
  <2> QED
    BY <2>2, <2>3, Zenon DEF Answer, Responses, NoReply
<1>4. closing => handled > 0 /\ sent[handled] \in {"close", Malformed}
  BY DEF SInv, IInv, Closings
<1>5. ~closing
  BY <1>1, <1>2, <1>3, <1>4
<1> QED
  BY <1>1, <1>2, <1>3, <1>5 DEF SInv, IInv, Books, EndedWell, ServerClosed, Declined

(* Once declined, or over a limit, always so.                                  *)
LEMMA ExplainedStep == ASSUME SInv, Explained, [Next]_vars PROVE Explained'
<1>1. ASSUME Declined, [ServerNext]_sessionVars PROVE Declined'
  <2>1. spc \in {"record", "ended"} /\ outcome = "none"
    BY <1>1 DEF Declined, ServerClosed
  <2>2. CASE ServerStep
    <3>1. Record
      BY <2>1, <2>2, Zenon DEF ServerStep, SetupFails, HandshakeFails, Handshake, enforce_group_policy,
           enforce_peer_verification, Loop, Handle, DecoderThrows, ReadPart, ReadFrames, ReadEnd,
           ReadFails, WriteReply, SerializeThrows, EncodeThrows, WriteFails, ssl_graceful_shutdown
    <3> QED
      BY <1>1, <2>1, <3>1 DEF Record, Declined, ServerClosed, loopVars
  <2>3. CASE PeerStep \/ Stop \/ UNCHANGED sessionVars
    BY <1>1, <2>3, Zenon DEF PeerStep, PeerSends, PeerCloses, PeerLost, Stop, sessionVars, serverVars,
                      Declined, ServerClosed
  <2> QED
    BY <1>1, <2>2, <2>3 DEF ServerNext
<1>2. messages' = messages
  BY Zenon DEF Next, ClientStep, tcp_connect, tcp_connect_fails, SSL_connect, SSL_connect_fails,
         client_enforce_peer_verification, client_enforce_group_policy, Send, SendThrows,
         SocketFails, Receive, ReceiveThrows, ReceiveEnd, client_graceful_shutdown, ClientRecord,
         CThrow, Goto, ServerTurn, vars, clientVars
<1>3. OverLimit' = OverLimit
  BY <1>2 DEF OverLimit
<1>4. CASE SendThrows \/ ReceiveThrows
  <2>1. OverLimit
    <3>1. Len(sent) \in Nat /\ Len(messages) \in Nat
      BY Sizes
    <3>2. CASE SendThrows
      BY <3>1, <3>2 DEF SendThrows, Message, OverLimit, SInv, Client
    <3>3. CASE ReceiveThrows
      <4>1. /\ Len(received) + 1 = Len(sent) /\ Len(sent) <= Len(messages) /\ Len(received) \in Nat
            /\ \A i \in 1 .. Len(sent) : sent[i] = messages[i]
        BY <3>3 DEF ReceiveThrows, SInv, Client
      <4>2. Len(sent) \in 1 .. Len(messages) /\ messages[Len(sent)] = sent[Len(sent)]
        BY <3>1, <4>1
      <4> QED
        BY <3>3, <4>2 DEF ReceiveThrows, OverLimit
    <3> QED
      BY <1>4, <3>2, <3>3
  <2> QED
    BY <1>3, <2>1 DEF Explained
<1>5. CASE ReceiveEnd
  <2>1. Declined
    BY <1>5, ClosedOnWaiting DEF ReceiveEnd
  <2> QED
    BY <1>1, <2>1, StepSimulation DEF Explained
<1>6. CASE coutcome' = coutcome \/ coutcome' # "protocol"
  BY <1>1, <1>3, <1>6, StepSimulation DEF Explained
<1>7. SendThrows \/ ReceiveThrows \/ ReceiveEnd \/ coutcome' = coutcome \/ coutcome' # "protocol"
  BY Zenon DEF Next, ClientStep, tcp_connect, tcp_connect_fails, SSL_connect, SSL_connect_fails,
         client_enforce_peer_verification, client_enforce_group_policy, Send, SocketFails, Receive,
         client_graceful_shutdown, ClientRecord, CThrow, Goto, ServerTurn, vars, clientVars
<1> QED
  BY <1>4, <1>5, <1>6, <1>7

(* The client's protocol errors are those of a limit of its own, of a server   *)
(* that was stopped or of the server's message limit.                          *)
THEOREM ProtocolErrorsExplained == Spec => []ProtocolErrorExplained
<1>1. Init => Explained
  BY Zenon DEF Init, Explained
<1>2. SInv /\ Explained /\ [Next]_vars => Explained'
  BY ExplainedStep
<1>3. SInv /\ Explained => ProtocolErrorExplained
  BY DEF SInv, Client, Explained, OverLimit, Declined, ProtocolErrorExplained, Unwritten
<1> QED
  BY <1>1, <1>2, <1>3, SessionInvariance, PTL DEF Spec

-----------------------------------------------------------------------------
(* The checks of the two ends.                                                *)

(* What the client has checked and the two have agreed on.  The server knows a  *)
(* group from its handshake on, and the client's does not change after that.   *)
Agreement ==
    /\ ClientTypeOK
    /\ cpc \in {"group", "send", "receive", "shutdown"} => ClientAccepts
    /\ cpc \in {"send", "receive", "shutdown"} => permits_negotiated_group(ClientProfile, cgroup)
    /\ sent # <<>> => ClientAccepts /\ permits_negotiated_group(ClientProfile, cgroup)
    /\ cpc \in {"record", "ended"} /\ coutcome = "none" =>
          permits_negotiated_group(ClientProfile, cgroup)
    /\ inspected => spc # "handshake" /\ group = cgroup
    /\ handled > 0 => inspected

(* The server learns its group in the handshake only, and does not go back to  *)
(* it; it handles messages when it knows the group.                            *)
LEMMA GroupKept ==
    ASSUME IInv, ServerStep
    PROVE  /\ spc' # "handshake"
           /\ UNCHANGED <<group, inspected>> \/ (Handshake /\ handled' = handled)
           /\ handled' > 0 => handled > 0 \/ inspected'
<1> USE DEF policyVars, loopVars, outsideVars
<1>1. CASE Handshake
  BY <1>1, Zenon DEF Handshake, IInv, ServerTypeOK
<1>2. CASE Handle
  <2>1. spc = "frame" /\ UNCHANGED <<group, inspected>>
    BY <1>2 DEF Handle
  <2>2. spc' \in {"loop", "write"}
    BY <1>2 DEF Handle
  <2>3. inspected
    BY <2>1 DEF IInv, Gates
  <2> QED
    BY <2>1, <2>2, <2>3
<1>3. CASE spc' # "handshake" /\ UNCHANGED <<group, inspected, handled>>
  BY <1>3
<1>4. CASE SetupFails \/ HandshakeFails \/ enforce_group_policy \/ enforce_peer_verification
           \/ DecoderThrows \/ SerializeThrows \/ EncodeThrows
  <2>1. spc' # "handshake" /\ UNCHANGED <<group, inspected, handled>>
    BY <1>4, Zenon DEF SetupFails, HandshakeFails, enforce_group_policy, enforce_peer_verification,
                DecoderThrows, SerializeThrows, EncodeThrows, Throw
  <2> QED
    BY <1>3, <2>1
<1>5. CASE Loop \/ ReadPart \/ ReadFrames \/ ReadEnd \/ WriteReply \/ ssl_graceful_shutdown \/ Record
  <2>1. spc' # "handshake" /\ UNCHANGED <<group, inspected, handled>>
    BY <1>5, Zenon DEF Loop, ReadPart, ReadFrames, ReadEnd, WriteReply, ssl_graceful_shutdown, Record
  <2> QED
    BY <1>3, <2>1
<1>6. CASE ReadFails \/ WriteFails
  <2>1. spc' # "handshake" /\ UNCHANGED <<group, inspected, handled>>
    BY <1>6 DEF ReadFails, WriteFails, throw_ssl_error, Throw
  <2> QED
    BY <1>3, <2>1
<1> QED
  BY <1>1, <1>2, <1>4, <1>5, <1>6 DEF ServerStep

(* A step of the server leaves the client's checks alone, and its handshake    *)
(* agrees on the group the client has.                                         *)
LEMMA ServerAgrees == ASSUME SInv, Agreement, ServerTurn PROVE Agreement'
<1>1. IInv /\ ServerStep /\ UNCHANGED clientVars
  BY DEF SInv, ServerTurn
<1>2. UNCHANGED <<messages, cpc, connected, agreed, cgroup, cverified, ccert, csignature, received,
                  ccount, coutcome, crecord>>
  BY <1>1 DEF clientVars, handshakeVars
<1>3. sent' = sent
  BY <1>1, RepliesGrow, Zenon
<1>4. ClientTypeOK'
  <2>1. Client'
    BY ClientKept DEF Next
  <2>2. Len(received') <= Len(replies')
    BY <2>1 DEF Client
  <2> QED
    BY <1>2, <2>2, Zenon DEF Agreement, ClientTypeOK
<1>5. inspected' => spc' # "handshake" /\ group' = cgroup'
  <2>1. CASE Handshake
    BY <1>2, <2>1 DEF Handshake, ServerTurn
  <2>2. CASE UNCHANGED <<group, inspected>>
    BY <1>1, <1>2, <2>2, GroupKept DEF Agreement
  <2> QED
    BY <1>1, <2>1, <2>2, GroupKept, Zenon
<1>6. handled' > 0 => inspected'
  BY <1>1, GroupKept, Zenon DEF Agreement, Handshake
<1>7. ClientAccepts' = ClientAccepts
  BY <1>2 DEF ClientAccepts
<1> QED
  BY <1>2, <1>3, <1>4, <1>5, <1>6, <1>7 DEF Agreement

(* An exception in the client keeps what was checked.                          *)
LEMMA ThrowAgrees ==
    ASSUME SInv, Agreement, cpc \notin {"record", "ended"},
           NEW c \in Categories \ {"none"}, CThrow(c),
           UNCHANGED <<connected, agreed, cgroup, ccert, csignature>>,
           cverified' \in BOOLEAN, sent # <<>> => cverified' = cverified
    PROVE  Agreement'
<1>1. /\ UNCHANGED <<spc, group, inspected, handled, replies, sent, messages, received, crecord>>
      /\ cpc' = "record" /\ coutcome' = c /\ ccount' = 0
  BY DEF CThrow, serverVars, policyVars
<1>2. ClientTypeOK'
  BY <1>1, Zenon DEF Agreement, ClientTypeOK
<1>3. sent' # <<>> => ClientAccepts' /\ permits_negotiated_group(ClientProfile, cgroup')
  BY <1>1 DEF Agreement, ClientAccepts
<1> QED
  BY <1>1, <1>2, <1>3 DEF Agreement

(* Every step keeps the agreement.                                             *)
LEMMA AgreementStep == ASSUME SInv, Agreement, [Next]_vars PROVE Agreement'
<1>1. CASE tcp_connect
  <2>1. /\ UNCHANGED <<spc, group, inspected, handled, replies, sent, messages, agreed, cgroup,
                       cverified, ccert, csignature, received, ccount, coutcome, crecord>>
        /\ cpc' = "handshake" /\ connected' = TRUE
    BY <1>1, Zenon DEF tcp_connect, sessionVars, serverVars, policyVars
  <2>2. ClientTypeOK'
    BY <2>1, Zenon DEF Agreement, ClientTypeOK
  <2> QED
    BY <2>1, <2>2 DEF Agreement, ClientAccepts
<1>2. CASE SSL_connect
  <2>1. /\ UNCHANGED <<spc, group, inspected, handled, replies, sent, messages, connected, received,
                       ccount, coutcome, crecord>>
        /\ cpc = "handshake" /\ spc = "handshake" /\ cpc' = "peer"
    BY <1>2, Zenon DEF SSL_connect, sessionVars, serverVars, policyVars
  <2>2. /\ agreed' \in BOOLEAN /\ cgroup' \in Groups \cup {NoName}
        /\ cverified' \in BOOLEAN /\ ccert' \in BOOLEAN /\ csignature' \in Signatures \cup {""}
    BY <1>2, Zenon DEF SSL_connect
  <2>3. ClientTypeOK'
    BY <2>1, <2>2, Zenon DEF Agreement, ClientTypeOK
  <2>4. sent = <<>> /\ ~inspected
    BY <2>1, Zenon DEF SInv, Client, Agreement
  <2>5. handled' > 0 => inspected'
    BY <2>1 DEF Agreement
  <2> QED
    BY <2>1, <2>3, <2>4, <2>5 DEF Agreement
<1>3. CASE tcp_connect_fails \/ SendThrows \/ SocketFails \/ ReceiveThrows \/ ReceiveEnd
  <2>1. /\ cpc \notin {"record", "ended"} /\ UNCHANGED handshakeVars
        /\ \E c \in Categories \ {"none"} : CThrow(c)
    BY <1>3 DEF tcp_connect_fails, SendThrows, SocketFails, ReceiveThrows, ReceiveEnd, Categories
  <2>2. cverified' \in BOOLEAN
    BY <2>1, Zenon DEF handshakeVars, Agreement, ClientTypeOK
  <2> QED
    BY <2>1, <2>2, ThrowAgrees DEF handshakeVars
<1>4. CASE SSL_connect_fails
  <2>1. /\ cpc = "handshake" /\ UNCHANGED <<connected, agreed, cgroup, ccert, csignature>>
        /\ cverified' \in BOOLEAN
    BY <1>4 DEF SSL_connect_fails
  <2>2. \E c \in Categories \ {"none"} : CThrow(c)
    BY <1>4 DEF SSL_connect_fails, Categories
  <2>3. sent = <<>>
    BY <2>1 DEF SInv, Client
  <2> QED
    BY <2>1, <2>2, <2>3, ThrowAgrees
<1>5. ASSUME NEW label \in {"group", "send", "shutdown"}, Goto(label), UNCHANGED handshakeVars,
             ClientAccepts,
             label # "group" => permits_negotiated_group(ClientProfile, cgroup)
      PROVE  Agreement'
  <2>1. /\ UNCHANGED <<spc, group, inspected, handled, replies, sent, messages, connected, agreed,
                       cgroup, cverified, ccert, csignature, received, ccount, coutcome, crecord>>
        /\ cpc' = label
    BY <1>5 DEF Goto, handshakeVars, sessionVars, serverVars, policyVars
  <2>2. ClientTypeOK'
    BY <2>1, Zenon DEF Agreement, ClientTypeOK
  <2>3. ClientAccepts'
    BY <1>5, <2>1 DEF ClientAccepts
  <2> QED
    BY <1>5, <2>1, <2>2, <2>3 DEF Agreement
<1>6. CASE client_enforce_peer_verification
  <2>1. cpc = "peer" /\ UNCHANGED handshakeVars
    BY <1>6 DEF client_enforce_peer_verification
  <2>2. CASE ClientAccepts
    <3>1. Goto("group")
      BY <1>6, <2>2 DEF client_enforce_peer_verification
    <3> QED
      BY <1>5, <2>1, <2>2, <3>1
  <2>3. CASE ~ClientAccepts
    <3>1. CThrow("certificate") /\ cverified' \in BOOLEAN
      BY <1>6, <2>3, Zenon DEF client_enforce_peer_verification, handshakeVars, Agreement, ClientTypeOK
    <3> QED
      BY <2>1, <3>1, ThrowAgrees DEF handshakeVars, Categories
  <2> QED
    BY <2>2, <2>3
<1>7. CASE client_enforce_group_policy
  <2>1. cpc = "group" /\ UNCHANGED handshakeVars /\ ClientAccepts
    BY <1>7 DEF client_enforce_group_policy, Agreement
  <2>2. CASE permits_negotiated_group(ClientProfile, cgroup)
    <3>1. Goto(AfterMessage(0)) /\ AfterMessage(0) \in {"send", "shutdown"}
      BY <1>7, <2>2 DEF client_enforce_group_policy, AfterMessage
    <3> QED
      BY <1>5, <2>1, <2>2, <3>1
  <2>3. CASE ~permits_negotiated_group(ClientProfile, cgroup)
    <3>1. CThrow("tls-policy") /\ cverified' \in BOOLEAN
      BY <1>7, <2>3, Zenon DEF client_enforce_group_policy, handshakeVars, Agreement, ClientTypeOK
    <3> QED
      BY <2>1, <3>1, ThrowAgrees DEF handshakeVars, Categories
  <2> QED
    BY <2>2, <2>3
<1>8. CASE Send
  <2>1. /\ UNCHANGED <<spc, group, inspected, handled, replies, messages, connected, agreed, cgroup,
                       cverified, ccert, csignature, received, coutcome, crecord>>
        /\ cpc = "send" /\ cpc' \in {"shutdown", "receive"} /\ ccount' = ccount + 1
    BY <1>8 DEF Send, handshakeVars, serverVars, policyVars
  <2>2. ClientTypeOK'
    <3>1. ccount' \in Nat
      <4>1. ccount \in Nat
        BY Zenon DEF Agreement, ClientTypeOK
      <4> QED
        BY <2>1, <4>1
    <3>2. ClientTypeOK
      BY DEF Agreement
    <3> QED
      BY <2>1, <3>1, <3>2, Zenon DEF ClientTypeOK
  <2>3. ClientAccepts' /\ permits_negotiated_group(ClientProfile, cgroup')
    BY <2>1 DEF Agreement, ClientAccepts
  <2> QED
    BY <2>1, <2>2, <2>3 DEF Agreement
<1>9. CASE Receive
  <2>1. /\ UNCHANGED <<spc, group, inspected, handled, replies, sent, messages, connected, agreed,
                       cgroup, cverified, ccert, csignature, coutcome, crecord>>
        /\ cpc = "receive" /\ cpc' \in {"shutdown", "send"} /\ ccount' = ccount + 1
    BY <1>9 DEF Receive, AfterMessage, handshakeVars, sessionVars, serverVars, policyVars
  <2>2. received' \in Seq(Responses) /\ Len(received') <= Len(replies')
    BY <1>9, ClientKept DEF Next, ClientStep, Client
  <2>3. ClientTypeOK'
    <3>1. ccount' \in Nat
      <4>1. ccount \in Nat
        BY Zenon DEF Agreement, ClientTypeOK
      <4> QED
        BY <2>1, <4>1
    <3>2. ClientTypeOK
      BY DEF Agreement
    <3> QED
      BY <2>1, <2>2, <3>1, <3>2, Zenon DEF ClientTypeOK
  <2>4. ClientAccepts' /\ permits_negotiated_group(ClientProfile, cgroup')
    BY <2>1 DEF Agreement, ClientAccepts
  <2> QED
    BY <2>1, <2>3, <2>4 DEF Agreement
<1>10. CASE client_graceful_shutdown \/ ClientRecord
  <2>1. /\ UNCHANGED <<spc, group, inspected, handled, replies, sent, messages, connected, agreed,
                       cgroup, cverified, ccert, csignature, received, ccount, coutcome>>
        /\ cpc \in {"shutdown", "record"} /\ cpc' \in {"record", "ended"}
        /\ crecord' \in {crecord, coutcome}
    BY <1>10 DEF client_graceful_shutdown, ClientRecord, handshakeVars, sessionVars, serverVars,
                 policyVars
  <2>2. ClientTypeOK'
    BY <2>1, Zenon DEF Agreement, ClientTypeOK
  <2> QED
    BY <2>1, <2>2 DEF Agreement, ClientAccepts
<1>11. CASE ServerTurn
  BY <1>11, ServerAgrees
<1>12. CASE (Stop /\ UNCHANGED clientVars) \/ UNCHANGED vars
  <2>1. UNCHANGED <<spc, group, inspected, handled, replies, sent, clientVars>>
    BY <1>12 DEF Stop, vars, sessionVars, serverVars, policyVars
  <2>2. ClientTypeOK'
    BY <2>1, Zenon DEF Agreement, ClientTypeOK, clientVars, handshakeVars
  <2> QED
    BY <2>1, <2>2 DEF Agreement, ClientAccepts, clientVars, handshakeVars
<1> QED
  BY <1>1, <1>2, <1>3, <1>4, <1>6, <1>7, <1>8, <1>9, <1>10, <1>11, <1>12 DEF Next, ClientStep

(* What the client has checked and agreed on holds in every reachable state.   *)
LEMMA AgreementInvariance == Spec => []Agreement
<1>1. Init => Agreement
  <2> SUFFICES ASSUME Init PROVE Agreement
    OBVIOUS
  <2>1. sent = <<>> /\ received = <<>> /\ replies = <<>> /\ handled = 0 /\ ~inspected
    BY Zenon DEF Init, ServerInit
  <2>2. Len(received) <= Len(replies) /\ received \in Seq(Responses)
    BY <2>1
  <2>3. ClientTypeOK
    BY <2>2, Zenon DEF Init, ClientTypeOK, Categories, Unwritten
  <2>4. cpc = "connect"
    BY Zenon DEF Init
  <2> QED
    BY <2>1, <2>3, <2>4 DEF Agreement
<1>2. SInv /\ Agreement /\ [Next]_vars => Agreement'
  BY AgreementStep
<1> QED
  BY <1>1, <1>2, SessionInvariance, PTL DEF Spec

(* The fields of the client's record.                                          *)
LEMMA ClientMetricsFields ==
    ASSUME ClientProfile \in Definition, ClientTypeOK
    PROVE  /\ cmetrics \in ConnectionMetrics
           /\ cmetrics.requested_profile = ClientProfile.id
           /\ cmetrics.success = (coutcome = "none") /\ cmetrics.error_category = coutcome
           /\ cmetrics.tls_version = IF coutcome = "none" THEN "TLSv1.3" ELSE ""
           /\ cmetrics.negotiated_group = IF coutcome = "none" THEN cgroup ELSE NoName
           /\ cmetrics.pq_key_establishment = (coutcome = "none" /\ is_post_quantum_group(cgroup))
           /\ cmetrics.hybrid_key_establishment = (coutcome = "none" /\ is_hybrid_group(cgroup))
           /\ cmetrics.pq_authentication => cmetrics.authentication \in PqMarked
<1>1. cgroup \in Name \cup {NoName} /\ coutcome \in Categories /\ ccount \in Nat
  BY SessionAssumption, Zenon DEF ClientTypeOK
<1>2. ClientProfile.id \in STRING /\ ClientProfile.authentication \in Authentications
  BY DEF Definition
<1> DEFINE new    == NewMetrics(ClientProfile.id)
           a      == IF csignature = "" THEN ClientProfile.authentication ELSE csignature
           pq     == is_post_quantum_group(cgroup)
           hybrid == is_hybrid_group(cgroup)
           pqa    == csignature \in PqSignatures
           half   == [new EXCEPT !.tls_version = "TLSv1.3", !.negotiated_group = cgroup,
                                 !.authentication = a]
           m      == populate_negotiation_fields(new, ClientProfile, cgroup, csignature)
<1>3. /\ a \in Authentications \cup Signatures
      /\ pq \in BOOLEAN /\ hybrid \in BOOLEAN /\ pqa \in BOOLEAN
  <2>1. csignature \in Signatures \cup {""}
    BY Zenon DEF ClientTypeOK
  <2>2. a \in Authentications \cup Signatures
    BY <1>2, <2>1, Zenon
  <2>3. pq \in BOOLEAN /\ hybrid \in BOOLEAN /\ pqa \in BOOLEAN
    BY DEF is_post_quantum_group, is_hybrid_group
  <2> QED
    BY <2>2, <2>3, Zenon
<1>4. pqa => a \in PqMarked
  BY DEF PqSignatures, PqMarked
<1>5. /\ new \in ConnectionMetrics /\ new.requested_profile = ClientProfile.id
      /\ new.error_category = "none" /\ new.success = FALSE
      /\ new.tls_version = "" /\ new.negotiated_group = NoName
      /\ new.pq_key_establishment = FALSE /\ new.hybrid_key_establishment = FALSE
      /\ new.pq_authentication = FALSE
  BY <1>2, Zenon DEF NewMetrics, ConnectionMetrics, Categories
<1>6. m = [half EXCEPT !.pq_key_establishment = pq, !.hybrid_key_establishment = hybrid,
                       !.pq_authentication = pqa]
  BY DEF populate_negotiation_fields
<1>7. cmetrics = IF coutcome = "none"
                 THEN [m EXCEPT !.protocol_message_count = ccount, !.success = TRUE]
                 ELSE [new EXCEPT !.error_category = coutcome]
  BY DEF cmetrics
<1> HIDE DEF new, a, pq, hybrid, pqa, m
<1>8. CASE coutcome = "none"
  <2>1. /\ half \in ConnectionMetrics
        /\ half.requested_profile = ClientProfile.id /\ half.tls_version = "TLSv1.3"
        /\ half.negotiated_group = cgroup /\ half.authentication = a
        /\ half.error_category = "none"
    BY <1>1, <1>3, <1>5, Zenon DEF ConnectionMetrics
  <2> HIDE DEF half
  <2>2. /\ m \in ConnectionMetrics
        /\ m.requested_profile = ClientProfile.id /\ m.tls_version = "TLSv1.3"
        /\ m.negotiated_group = cgroup /\ m.authentication = a
        /\ m.error_category = "none"
    BY <1>3, <1>6, <2>1, Zenon DEF ConnectionMetrics
  <2>3. m.pq_key_establishment = pq /\ m.hybrid_key_establishment = hybrid /\ m.pq_authentication = pqa
    BY <1>3, <1>6, <2>1, Zenon DEF ConnectionMetrics
  <2>4. /\ cmetrics \in ConnectionMetrics
        /\ cmetrics.requested_profile = ClientProfile.id /\ cmetrics.tls_version = "TLSv1.3"
        /\ cmetrics.negotiated_group = cgroup /\ cmetrics.authentication = a
        /\ cmetrics.error_category = "none" /\ cmetrics.success = TRUE
        /\ cmetrics.pq_key_establishment = pq /\ cmetrics.hybrid_key_establishment = hybrid
        /\ cmetrics.pq_authentication = pqa
    BY <1>1, <1>7, <1>8, <2>2, <2>3, Zenon DEF ConnectionMetrics
  <2> QED
    BY <1>3, <1>4, <1>8, <2>4, Zenon DEF pq, hybrid
<1>9. CASE coutcome # "none"
  <2>1. /\ cmetrics \in ConnectionMetrics
        /\ cmetrics.requested_profile = ClientProfile.id /\ cmetrics.tls_version = ""
        /\ cmetrics.negotiated_group = NoName
        /\ cmetrics.error_category = coutcome /\ cmetrics.success = FALSE
        /\ cmetrics.pq_key_establishment = FALSE /\ cmetrics.hybrid_key_establishment = FALSE
        /\ cmetrics.pq_authentication = FALSE
    BY <1>1, <1>5, <1>7, <1>9, Zenon DEF ConnectionMetrics
  <2> QED
    BY <1>9, <2>1, Zenon
<1> QED
  BY <1>8, <1>9, Zenon

(* The client's record claims what was negotiated.                             *)
LEMMA ClientRecordAccepted ==
    ASSUME ClientProfile \in Definition, AptlyNamed(ClientProfile), ClientTypeOK,
           coutcome = "none" => permits_negotiated_group(ClientProfile, cgroup)
    PROVE  problems(cmetrics) \subseteq Objectionable(ClientProfile)
<1>1. ~is_post_quantum_group(NoName) /\ ~is_hybrid_group(NoName)
  BY DEF NoName, Listed, is_post_quantum_group, is_hybrid_group, kHybridGroups, kPureMlKemGroups
<1> DEFINE m == cmetrics
<1>2. /\ m \in ConnectionMetrics
      /\ m.requested_profile = ClientProfile.id
      /\ m.success = (coutcome = "none") /\ m.error_category = coutcome
      /\ m.tls_version = IF coutcome = "none" THEN "TLSv1.3" ELSE ""
      /\ m.negotiated_group = IF coutcome = "none" THEN cgroup ELSE NoName
      /\ m.pq_key_establishment = (coutcome = "none" /\ is_post_quantum_group(cgroup))
      /\ m.hybrid_key_establishment = (coutcome = "none" /\ is_hybrid_group(cgroup))
      /\ m.pq_authentication => m.authentication \in PqMarked
  BY ClientMetricsFields, Zenon
<1> HIDE DEF m
<1>3. m.success <=> m.error_category = "none"
  BY <1>2, Zenon
<1>4. m.success =>
        m.tls_version = "TLSv1.3" /\ permits_negotiated_group(ClientProfile, m.negotiated_group)
  BY <1>2, Zenon
<1>5. m.pq_key_establishment <=> is_post_quantum_group(m.negotiated_group)
  BY <1>1, <1>2, Zenon
<1>6. m.hybrid_key_establishment <=> is_hybrid_group(m.negotiated_group)
  BY <1>1, <1>2, Zenon
<1>7. problems(m) \subseteq Objectionable(ClientProfile)
  BY <1>2, <1>3, <1>4, <1>5, <1>6, NothingElseToSay, Zenon
<1> QED
  BY <1>7 DEF m

(* Neither end relies on the other's check, and the two records of a session   *)
(* that both call a success claim the same: for any two profiles that have a   *)
(* post-quantum group if their name promises one, when the client insists on   *)
(* such a group or the validator knows no fallback of the server's profile.    *)
THEOREM BothAlwaysAgree ==
    ASSUME Profile \in Definition, AptlyNamed(Profile),
           ClientProfile \in Definition, AptlyNamed(ClientProfile),
           \/ Objectionable(Profile) = {}
           \/ has_pq(ClientProfile.groups) /\ ~ClientProfile.allow_classical_fallback
    PROVE  Spec => []BothAgree
<1>1. SInv /\ Agreement => BothAgree
  <2> SUFFICES ASSUME SInv, Agreement PROVE BothAgree
    OBVIOUS
  <2>1. ClientTypeOK /\ ServerTypeOK /\ IInv
    BY DEF Agreement, SInv, IInv
  <2>2. sent # <<>> => ClientAccepts /\ permits_negotiated_group(ClientProfile, cgroup)
    BY DEF Agreement
  <2>3. received # <<>> => inspected /\ group = cgroup /\ Admitted
    <3>1. received \in Seq(Responses)
      BY Sizes
    <3>2. received # <<>> => handled > 0
      <4>1. Len(received) \in Nat /\ (received # <<>> => Len(received) > 0)
        BY <3>1
      <4> QED
        BY <4>1, Sizes
    <3> QED
      BY <3>2 DEF Agreement, SInv, IInv, Gates
  <2>4. crecord # Unwritten => cpc = "ended" /\ crecord = coutcome
    BY DEF SInv, Client
  <2>5. crecord # Unwritten /\ coutcome = "none" => permits_negotiated_group(ClientProfile, cgroup)
    BY <2>4 DEF Agreement
  <2>6. crecord # Unwritten =>
          cmetrics \in ConnectionMetrics /\ problems(cmetrics) \subseteq Objectionable(ClientProfile)
    BY <2>1, <2>5, ClientMetricsFields, ClientRecordAccepted, Zenon
  <2>7. ASSUME crecord = "none", record = "none", received # <<>>
        PROVE  /\ cmetrics.negotiated_group = metrics.negotiated_group
               /\ cmetrics.pq_key_establishment = metrics.pq_key_establishment
               /\ problems(metrics) = {}
    <3>1. crecord # Unwritten /\ record # Unwritten
      BY <2>7 DEF Unwritten
    <3>2. coutcome = "none" /\ inspected /\ group = cgroup
      BY <2>3, <2>4, <2>7, <3>1
    <3>3. /\ cmetrics.negotiated_group = cgroup /\ metrics.negotiated_group = group
          /\ cmetrics.pq_key_establishment = is_post_quantum_group(cgroup)
          /\ metrics.pq_key_establishment = is_post_quantum_group(group)
      <4>1. is_post_quantum_group(cgroup) \in BOOLEAN /\ is_post_quantum_group(group) \in BOOLEAN
        BY Zenon DEF is_post_quantum_group, is_hybrid_group
      <4> QED
        BY <2>1, <3>2, <4>1, ClientMetricsFields, MetricsFields, Zenon
    <3>4. /\ problems(metrics) \subseteq Objectionable(Profile)
          /\ inspected /\ is_post_quantum_group(group) => problems(metrics) = {}
      BY <2>1, <3>1, ServerRecordAccepted
    <3>5. has_pq(ClientProfile.groups) /\ ~ClientProfile.allow_classical_fallback
            => is_post_quantum_group(group)
      BY <2>5, <3>1, <3>2, Zenon DEF permits_negotiated_group, offers_post_quantum_key_establishment
    <3>6. problems(metrics) = {}
      BY <3>2, <3>4, <3>5
    <3> QED
      BY <3>2, <3>3, <3>6, Zenon
  <2> QED
    BY <2>1, <2>2, <2>3, <2>6, <2>7 DEF BothAgree
<1> QED
  BY <1>1, SessionInvariance, AgreementInvariance, PTL
=============================================================================
