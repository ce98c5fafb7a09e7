------------------------------ MODULE Message ------------------------------
(***************************************************************************)
(* One application message: how the client builds it, how either side       *)
(* serialises and parses it, and what the server answers                    *)
(* (src/common/application_protocol.cpp, handle_message in                  *)
(* src/server/server.cpp, build_message in src/client/main.cpp).            *)
(*                                                                          *)
(* A JSON document is kept as far as the code looks at it: each envelope    *)
(* field is absent, of the wrong JSON type, or has a value; a string is its *)
(* length where a length is tested; an id is also who chose it; a nested    *)
(* value is the tree of its objects and scalars.  A text that may be no     *)
(* UTF-8 is kept as its bytes, which the parser scans first (Utf8).         *)
(***************************************************************************)
EXTENDS Integers, FiniteSets, FiniteSetsExt, Utf8

CONSTANTS kMaxJsonDepth,   \* maximum nesting depth
          MaxId,           \* maximum length of a message_id
          IntModulus,      \* 2^32: the values of a C++ int
          Versions,        \* integers a peer may put in protocol_version
          Rests,           \* nested values a payload may hold besides device_id
          Absent,          \* a field the document does not have
          Wrong,           \* a field of a JSON type the parser does not accept
          Rejected,        \* parse threw a ProtocolError
          Nothing          \* no message yet, or no reply

kProtocolVersion == 1
UuidLength == 36

ASSUME MessageAssumption ==
  /\ kMaxJsonDepth \in Nat /\ kMaxJsonDepth >= 2
  /\ MaxId \in Nat /\ MaxId >= UuidLength
  /\ IntModulus \in Nat /\ IntModulus > 2 /\ IntModulus % 2 = 0
  /\ Versions \subseteq Int

Requests == {"ping", "echo", "telemetry", "capabilities", "close"}
Responses == {"acknowledgement", "pong", "error"}
MessageType == Requests \cup Responses

VARIABLES stage,     \* "start", "scan", "request" (on the wire), "reply" (on the wire), "end",
                     \* "broken off" (the connection ends without the reply that was due)
          made,      \* the message the client built, or Nothing
          doc,       \* the document on the wire
          request,   \* what the server parsed: a message, Rejected or Nothing
          reply,     \* the server's reply message, or Nothing
          closing,   \* the server closes the connection after it
          response   \* what the client parsed: a message, Rejected or Nothing

messageVars == <<stage, made, doc, request, reply, closing, response, utf8Vars>>

---------------------------------------------------------------------------
(* Nested values.                                                           *)
Scalar == [structured |-> FALSE, children |-> {}]
Object(cs) == [structured |-> TRUE, children |-> cs]

(* The values at each depth, down to the first that is too deep.            *)
Levels(value) ==
  LET level[n \in 0 .. kMaxJsonDepth + 1] ==
        IF n = 0 THEN {value} ELSE UNION {v.children : v \in level[n - 1]}
  IN  level

(* json_depth; where the code stops early the result is already too large.  *)
json_depth(value) == Max({n \in 0 .. kMaxJsonDepth + 1 : Levels(value)[n] # {}})

EmptyPayload == [device |-> Absent, rest |-> {}]
FlatPayload == [device |-> Absent, rest |-> {Scalar}]

(* The tree of a payload, and of a whole document.                          *)
PayloadTree(content) == Object(content.rest \cup (IF content.device = Absent THEN {} ELSE {Scalar}))
Tree(d) ==
  Object((IF \A f \in {"version", "type", "id", "timestamp", "status"} : d[f] = Absent
          THEN {} ELSE {Scalar})
         \cup (IF d.payload = Absent THEN {} ELSE
               IF d.payload = Wrong THEN {Scalar} ELSE {PayloadTree(d.payload)}))

(* A message_id: its length, and the peer or the caller of generate_uuid_v4 *)
(* that chose it.  Each calls at most once, so that no two ids are equal.    *)
Writers == {"peer", "build_message", "make_request", "parse", "make_error"}
generate_uuid_v4(caller) == [length |-> UuidLength, from |-> caller]

Payloads == [device : {Absent, Wrong, "string"}, rest : Rests]
Objects == [form : {"object"}, version : Versions \cup {Absent, Wrong},
            type : MessageType \cup {"unknown", Absent, Wrong},
            id : [length : {UuidLength, MaxId, MaxId + 1}, from : {"peer"}] \cup {Absent, Wrong},
            timestamp : {"time", Absent, Wrong}, status : {"text", Absent, Wrong},
            payload : Payloads \cup {Absent, Wrong}]
Documents == Objects \cup [form : {"empty", "bytes", "not JSON", "not an object"}]

(* The messages that either side has in memory.                             *)
Contents == Payloads \cup {EmptyPayload, FlatPayload}
Messages == [type : MessageType, id : [length : 0 .. MaxId, from : Writers],
             status : {"text", "accepted", "rejected", Absent}, payload : Contents]

ASSUME SentinelAssumption ==
  /\ Absent # Wrong /\ Rejected # Nothing /\ Rejected \notin Messages /\ Nothing \notin Messages
  /\ \A s \in {Absent, Wrong} :
        /\ s \notin Int /\ s \notin [length : Nat, from : Writers] /\ s \notin Contents /\ s \notin MessageType
        /\ s \notin {"string", "time", "text", "accepted", "rejected"}

---------------------------------------------------------------------------
(* Message::parse, with get<int>() keeping the low bits of a JSON integer.  *)
get_int(n) == ((n + IntModulus \div 2) % IntModulus) - IntModulus \div 2

MessageOf(d) ==
  [type |-> d.type,
   id |-> IF d.id = Absent THEN generate_uuid_v4("parse") ELSE d.id,
   status |-> d.status,
   payload |-> IF d.payload = Absent THEN EmptyPayload ELSE d.payload]

Acceptable(d) ==
  /\ d.form = "object"
  /\ json_depth(Tree(d)) <= kMaxJsonDepth
  /\ d.version \notin {Absent, Wrong} /\ get_int(d.version) = kProtocolVersion
  /\ d.type \in MessageType
  /\ d.id = Absent \/ (d.id # Wrong /\ d.id.length <= MaxId)
  /\ d.timestamp # Wrong /\ d.status # Wrong /\ d.payload # Wrong
  /\ d.type = "telemetry" => d.payload # Absent /\ d.payload.device = "string"

parse(d) == IF Acceptable(d) THEN MessageOf(d) ELSE Rejected

\* Mutant: the payload is left out where the server has no use for it.
to_jsonUsedPayload(m) ==
  [form |-> "object", version |-> kProtocolVersion, type |-> m.type, id |-> m.id,
   timestamp |-> "time", status |-> m.status,
   payload |-> IF m.payload = EmptyPayload \/ m.type \in {"ping", "close", "capabilities"}
               THEN Absent ELSE m.payload]

(* to_json: an empty payload and a missing status are left out.             *)
to_json(m) ==
  [form |-> "object", version |-> kProtocolVersion, type |-> m.type, id |-> m.id,
   timestamp |-> "time", status |-> m.status,
   payload |-> IF m.payload = EmptyPayload THEN Absent ELSE m.payload]

make_request(t) ==
  [type |-> t, id |-> generate_uuid_v4("make_request"), status |-> Absent, payload |-> EmptyPayload]

\* Mutant: a reply has an id of its own.
make_acknowledgementFresh(m) ==
  [type |-> "acknowledgement", id |-> generate_uuid_v4("make_request"), status |-> "accepted",
   payload |-> EmptyPayload]

make_acknowledgement(m) ==
  [type |-> "acknowledgement", id |-> m.id, status |-> "accepted", payload |-> EmptyPayload]
make_error(i) ==
  [type |-> "error", id |-> i, status |-> "rejected", payload |-> FlatPayload]

(* handle_message: the reply to a message that was parsed.                  *)
handle_message(m) ==
  LET ack == make_acknowledgement(m)
  IN  CASE m.type = "ping"         -> [ack EXCEPT !.type = "pong"]
        [] m.type = "echo"         -> [ack EXCEPT !.payload = m.payload]
        [] m.type = "telemetry"    -> ack
        [] m.type = "capabilities" -> [ack EXCEPT !.payload = FlatPayload]
        [] m.type = "close"        -> Nothing
        [] m.type \in Responses    -> make_error(m.id)

---------------------------------------------------------------------------
MessageInit ==
  /\ stage = "start" /\ made = Nothing /\ request = Nothing
  /\ doc = [form |-> "empty"]
  /\ reply = Nothing /\ closing = FALSE /\ response = Nothing
  /\ bytes = <<>> /\ Utf8Init

(* build_message: a ping without --message; otherwise the missing envelope  *)
(* fields are filled in and the result goes through the parser.             *)
Filled(d) == [d EXCEPT !.version = IF @ = Absent THEN kProtocolVersion ELSE @,
                       !.id = IF @ = Absent THEN generate_uuid_v4("build_message") ELSE @,
                       !.timestamp = IF @ = Absent THEN "time" ELSE @]
build_message(d) ==
  /\ stage = "start"
  /\ d.form \in {"empty", "object"}
  /\ LET m == IF d.form = "empty" THEN make_request("ping") ELSE parse(Filled(d))
     IN  /\ m # Rejected
         /\ made' = m
         /\ doc' = to_json(m)
  /\ stage' = "request"
  /\ UNCHANGED <<request, reply, closing, response, utf8Vars>>

(* The message is refused before anything is sent.                          *)
build_message_throws(d) ==
  /\ stage = "start"
  /\ \/ d.form \in {"bytes", "not JSON", "not an object"}
     \/ d.form = "object" /\ parse(Filled(d)) = Rejected
  /\ stage' = "end"
  /\ UNCHANGED <<made, doc, request, reply, closing, response, utf8Vars>>

(* A document of some other client.                                         *)
Arrive(d) ==
  /\ stage = "start" /\ d.form # "bytes"
  /\ doc' = d /\ stage' = "request"
  /\ UNCHANGED <<made, request, reply, closing, response, utf8Vars>>

(* Bytes of some other client that make no document; the server's parser    *)
(* finds that out in is_valid_utf8, or if they pass it in the JSON parser.   *)
ArriveBytes(s) ==
  /\ stage = "start"
  /\ doc' = [form |-> "bytes"] /\ stage' = "scan"
  /\ Call(s)
  /\ UNCHANGED <<made, request, reply, closing, response>>

is_valid_utf8 ==
  /\ stage = "scan"
  /\ Utf8Next
  /\ stage' = IF verdict' = "scanning" THEN "scan" ELSE "request"
  /\ UNCHANGED <<made, doc, request, reply, closing, response>>

(* The server's turn: parse, handle, serialise the reply.                   *)
Serve ==
  /\ stage = "request"
  /\ request' = parse(doc)
  /\ reply' = IF request' = Rejected THEN make_error(generate_uuid_v4("make_error"))
              ELSE handle_message(request')
  /\ closing' = (request' = Rejected \/ reply' = Nothing)
  /\ doc' = IF reply' = Nothing THEN doc ELSE to_json(reply')
  /\ stage' = IF reply' = Nothing THEN "end" ELSE "reply"
  /\ UNCHANGED <<made, response, utf8Vars>>

(* The error to a text that is no JSON quotes the last token the parser has  *)
(* read of it.  That ends at the byte it gave up at; when this byte is part  *)
(* of a character, serialize() throws, no reply is sent, and the connection  *)
(* ends.                                                                     *)
QuotesPart ==
  \/ doc.form = "not JSON"
  \/ doc.form = "bytes" /\ verdict = "valid" /\ \E i \in DOMAIN bytes : bytes[i] >= 128

ServeThrows ==
  /\ stage = "request" /\ QuotesPart
  /\ request' = Rejected /\ closing' = TRUE
  /\ stage' = "broken off"
  /\ UNCHANGED <<made, doc, reply, response, utf8Vars>>

(* The client's turn: parse what came back.                                 *)
Receive ==
  /\ stage = "reply"
  /\ response' = parse(doc)
  /\ stage' = "end"
  /\ UNCHANGED <<made, doc, request, reply, closing, utf8Vars>>

MessageNext ==
  \/ /\ stage = "start"
     /\ \E d \in Documents : build_message(d) \/ build_message_throws(d) \/ Arrive(d)
  \/ /\ stage = "start"
     /\ \E s \in Strings \ {<<>>} : ArriveBytes(s)
  \/ is_valid_utf8 \/ Serve \/ ServeThrows \/ Receive

MessageSpec == MessageInit /\ [][MessageNext]_messageVars

---------------------------------------------------------------------------
(* A message that exists has a known type, an id within the limit, and an   *)
(* object for a payload.                                                    *)
MessageTypeOK ==
  /\ stage \in {"start", "scan", "request", "reply", "end", "broken off"}
  /\ made \in Messages \cup {Nothing}
  /\ request \in Messages \cup {Rejected, Nothing}
  /\ reply \in Messages \cup {Nothing}
  /\ response \in Messages \cup {Rejected, Nothing}
  /\ closing \in BOOLEAN
  /\ Utf8TypeOK

(* The server understands what a client built, as the client built it:      *)
(* leaving out an empty payload or a missing status loses nothing.          *)
RequestUnchanged == (made # Nothing /\ request # Nothing) => request = made

(* The client can parse every reply of the server, to whatever document,    *)
(* and finds in it what the server put there.  The id of a request that was *)
(* understood comes back with its reply, also the one parse() gave it, and  *)
(* an echo brings back the payload: what serialising and parsing twice      *)
(* leaves of them.  Every document has a reply but a close message, and a   *)
(* text that is no JSON whose error cannot be serialised; that is never one *)
(* a client of this code has built.                                         *)
RepliesUnderstood ==
  /\ MessageTypeOK
  /\ response # Nothing => response = reply
  /\ (response # Nothing /\ request # Rejected) =>
       /\ response.id = request.id
       /\ request.type = "echo" => response.payload = request.payload
  /\ (stage = "end" /\ request # Nothing) =>
       (response = Nothing <=> request # Rejected /\ request.type = "close")
  /\ stage = "broken off" =>
       made = Nothing /\ request = Rejected /\ doc.form \in {"not JSON", "bytes"}
=============================================================================
