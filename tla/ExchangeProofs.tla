--------------------------- MODULE ExchangeProofs ---------------------------
(***************************************************************************)
(* Theorems about module Exchange, for every value of its constants: what  *)
(* its run checks as invariants, and that it implements the abstract       *)
(* store.                                                                  *)
(***************************************************************************)
EXTENDS Exchange, NamesProofs

-----------------------------------------------------------------------------
(* The inductive invariant.  It says of each call which shape the record of the
   call and its message have, and how the phases of both fit together. *)

Msg(phase, scheme, path, status, signal, body, stream) ==
    [phase |-> phase, scheme |-> scheme, path |-> path, status |-> status,
     signal |-> signal, body |-> body, stream |-> stream]

Call(phase, question) == [phase |-> phase, question |-> question]
Returned(question, result) == [phase |-> "returned", question |-> question, result |-> result]

StreamOK(s) == s \in Streams /\ s.buffer \in {0, s.size} /\ s.size % Page = 0

CallShape(x) ==
    \/ x = Idle
    \/ /\ x.phase \in {"resolving", "waiting", "failed"}
       /\ x = Call(x.phase, x.question)
       /\ x.question \in Questions
    \/ x = Returned(x.question, x.result) /\ x.question \in Questions

MessageShape(m) == m = Msg(m.phase, m.scheme, m.path, m.status, m.signal, m.body, m.stream)

NotSent(x, m) ==
    /\ x.phase \in {"idle", "resolving", "failed"}
    /\ m.phase = "none"
    /\ m = NoMessage

Sent(x, m) ==
    /\ x.phase = "waiting"
    /\ m.phase = "request"
    /\ m.status = ""
    /\ m.signal = ""
    /\ m.body = <<>>
    /\ m.stream = NoStream

(* What has been delivered, and the buffer that the last part came in. *)
BeingWritten(x, m) ==
    /\ x.phase = "waiting"
    /\ m.phase = "writing"
    /\ m.status = "ok"
    /\ m.signal \in {"wrote-headers", "wrote-chunk"}
    /\ m.body \in Seq(Parts)
    /\ StreamOK(m.stream)
    /\ m.signal = "wrote-chunk" => m.stream.buffer >= Size[Last(m.body)]

(* Unless streams fail, nothing is left of what a stream delivers. *)
Answered(x, m) ==
    /\ x.phase = "waiting"
    /\ m.phase = "complete"
    /\ m.signal = ""
    /\ m.status \in {"ok", "not_found"}
    /\ StreamOK(m.stream)
    /\ "read_error" \notin Hazards => m.stream.left = <<>>

Over(x, m) ==
    /\ x.phase \in {"waiting", "returned", "failed"}
    /\ m.phase = "finished"
    /\ m.signal = ""
    /\ m.stream = NoStream
    /\ m.status \in {"ok", "not_found", "error"}
    /\ x.phase = "returned" => m.status # "error"

CallOK(x, m) ==
    /\ CallShape(x)
    /\ MessageShape(m)
    /\ \/ NotSent(x, m)
       \/ Sent(x, m)
       \/ BeingWritten(x, m)
       \/ Answered(x, m)
       \/ Over(x, m)

Typed ==
    /\ settings \in Settings
    /\ resources \in [Keys -> Resources \cup {Absent}]
    /\ disk \in {{}} \cup {{v} : v \in Values}
    /\ budget \in 0..MaxEvents
    /\ calls = [c \in Clients |-> calls[c]]
    /\ messages = [c \in Clients |-> messages[c]]

IInv == Typed /\ \A c \in Clients : CallOK(calls[c], messages[c])

(* Only finitely many keys are published: a listing has a length. *)
FinitelyMany == IsFiniteSet({k \in Keys : HasKey(k)})

(* What is listed has a value. *)
AllHaveValues == \A k \in Keys : HasKey(k) => ValueOf(resources[k]) # {}

(* The path a question has when it arrives. *)
PathFor(q) ==
    CASE q.op \in {"lookup", "link"} -> (settings.contentsPath \o <<"/">>) \o q.text
      [] q.op = "list" -> <<"/", "list", "/">> \o q.text
      [] OTHER -> <<"/">>

(* Without a hazard, every question has a plain text, and arrives as it was asked. *)
PlainQuestion(q) ==
    /\ q.op # "root" => PlainText(q.text)
    /\ q.op = "link" => "%" \notin ToSet(q.text)

AsAsked ==
    \A c \in Clients :
      /\ calls[c].phase # "idle" => PlainQuestion(calls[c].question)
      /\ messages[c].phase = "request" => messages[c].path = PathFor(calls[c].question)
      /\ messages[c].phase = "writing" => calls[c].question.op \in {"lookup", "link"}
-----------------------------------------------------------------------------
(* Records. *)

LEMMA MsgFields ==
    ASSUME NEW a, NEW b, NEW c, NEW d, NEW e, NEW f, NEW g
    PROVE  /\ Msg(a, b, c, d, e, f, g).phase = a
           /\ Msg(a, b, c, d, e, f, g).scheme = b
           /\ Msg(a, b, c, d, e, f, g).path = c
           /\ Msg(a, b, c, d, e, f, g).status = d
           /\ Msg(a, b, c, d, e, f, g).signal = e
           /\ Msg(a, b, c, d, e, f, g).body = f
           /\ Msg(a, b, c, d, e, f, g).stream = g
           /\ MessageShape(Msg(a, b, c, d, e, f, g))
  BY DEF Msg, MessageShape

LEMMA NoMessageFields ==
    /\ NoMessage = Msg("none", "", <<>>, "", "", <<>>, NoStream)
    /\ NoMessage.phase = "none" /\ NoMessage.status = "" /\ NoMessage.signal = ""
    /\ NoMessage.body = <<>> /\ NoMessage.stream = NoStream
    /\ MessageShape(NoMessage)
  <1>1. NoMessage = Msg("none", "", <<>>, "", "", <<>>, NoStream)
    BY DEF NoMessage, Msg
  <1>2. /\ NoMessage.phase = "none" /\ NoMessage.status = "" /\ NoMessage.signal = ""
        /\ NoMessage.body = <<>> /\ NoMessage.stream = NoStream
    BY DEF NoMessage
  <1>3. MessageShape(NoMessage)
    BY DEF MessageShape, NoMessage, Msg
  <1>4. QED  BY <1>1, <1>2, <1>3

Fields == {"phase", "scheme", "path", "status", "signal", "body", "stream"}

LEMMA FieldsMakeMsg ==
    ASSUME NEW u, u = [k \in Fields |-> u[k]]
    PROVE  u = Msg(u.phase, u.scheme, u.path, u.status, u.signal, u.body, u.stream)
  BY DEF Fields, Msg

(* The updates that occur. *)
LEMMA MsgSent ==
    ASSUME NEW m, MessageShape(m), NEW x, NEW y, NEW z,
           NEW u, u = [m EXCEPT !.phase = x, !.scheme = y, !.path = z]
    PROVE  u = Msg(x, y, z, m.status, m.signal, m.body, m.stream)
  <1>1. u = [k \in Fields |-> u[k]]
    BY DEF MessageShape, Msg, Fields
  <1>2. /\ u.phase = x /\ u.scheme = y /\ u.path = z /\ u.status = m.status
        /\ u.signal = m.signal /\ u.body = m.body /\ u.stream = m.stream
    BY DEF MessageShape, Msg
  <1>3. QED  BY <1>1, <1>2, FieldsMakeMsg

LEMMA MsgResponse ==
    ASSUME NEW m, MessageShape(m), NEW x, NEW y, NEW z,
           NEW u, u = [m EXCEPT !.phase = x, !.status = y, !.body = z]
    PROVE  u = Msg(x, m.scheme, m.path, y, m.signal, z, m.stream)
  <1>1. u = [k \in Fields |-> u[k]]
    BY DEF MessageShape, Msg, Fields
  <1>2. /\ u.phase = x /\ u.scheme = m.scheme /\ u.path = m.path /\ u.status = y
        /\ u.signal = m.signal /\ u.body = z /\ u.stream = m.stream
    BY DEF MessageShape, Msg
  <1>3. QED  BY <1>1, <1>2, FieldsMakeMsg

LEMMA MsgStream ==
    ASSUME NEW m, MessageShape(m), NEW x, NEW y, NEW z, NEW w,
           NEW u, u = [m EXCEPT !.phase = x, !.status = y, !.signal = z, !.stream = w]
    PROVE  u = Msg(x, m.scheme, m.path, y, z, m.body, w)
  <1>1. u = [k \in Fields |-> u[k]]
    BY DEF MessageShape, Msg, Fields
  <1>2. /\ u.phase = x /\ u.scheme = m.scheme /\ u.path = m.path /\ u.status = y
        /\ u.signal = z /\ u.body = m.body /\ u.stream = w
    BY DEF MessageShape, Msg
  <1>3. QED  BY <1>1, <1>2, FieldsMakeMsg

LEMMA MsgFinished ==
    ASSUME NEW m, MessageShape(m), NEW x, NEW y,
           NEW u, u = [m EXCEPT !.phase = x, !.stream = y]
    PROVE  u = Msg(x, m.scheme, m.path, m.status, m.signal, m.body, y)
  <1>1. u = [k \in Fields |-> u[k]]
    BY DEF MessageShape, Msg, Fields
  <1>2. /\ u.phase = x /\ u.scheme = m.scheme /\ u.path = m.path /\ u.status = m.status
        /\ u.signal = m.signal /\ u.body = m.body /\ u.stream = y
    BY DEF MessageShape, Msg
  <1>3. QED  BY <1>1, <1>2, FieldsMakeMsg

-----------------------------------------------------------------------------
(* What each action does to the call of a client and to its message. *)

Changed(c, x, m) ==
    /\ calls' = [d \in Clients |-> IF d = c THEN x ELSE calls[d]]
    /\ messages' = [d \in Clients |-> IF d = c THEN m ELSE messages[d]]

SamePublisher == UNCHANGED <<settings, resources, disk>>

LEMMA PhaseOfCall ==
    ASSUME NEW x, NEW m, CallOK(x, m)
    PROVE  /\ x.phase = "resolving" => x = Call("resolving", x.question) /\ m = NoMessage
           /\ x.phase = "waiting" => x = Call("waiting", x.question)
           /\ x.phase # "idle" => x.question \in Questions
           /\ x.phase \in {"idle", "resolving", "waiting", "returned", "failed"}
           /\ x.phase = "waiting" => m.phase # "none"
           /\ x.phase = "returned" => x = Returned(x.question, x.result)
           /\ x.phase = "failed" => x = Call("failed", x.question)
           /\ x.phase = "idle" => x = Idle
  <1>1. CASE x = Idle
    <2>1. x.phase = "idle"
      BY <1>1 DEF Idle
    <2>2. QED  BY <1>1, <2>1
  <1>2. CASE x.phase \in {"resolving", "waiting", "failed"} /\ x = Call(x.phase, x.question)
    <2>1. x.question \in Questions
      BY <1>2 DEF CallOK, CallShape, Idle, Returned
    <2>2. x.phase = "resolving" => m = NoMessage
      BY DEF CallOK, NotSent, Sent, BeingWritten, Answered, Over
    <2>3. x.phase = "waiting" => m.phase # "none"
      BY DEF CallOK, NotSent, Sent, BeingWritten, Answered, Over
    <2>4. QED  BY <1>2, <2>1, <2>2, <2>3
  <1>3. CASE x = Returned(x.question, x.result) /\ x.question \in Questions
    <2>1. x.phase = "returned"
      BY <1>3 DEF Returned
    <2>2. QED  BY <1>3, <2>1
  <1>4. QED  BY <1>1, <1>2, <1>3 DEF CallOK, CallShape

LEMMA PhaseOfMessage ==
    ASSUME NEW x, NEW m, CallOK(x, m)
    PROVE  /\ m.phase = "none" => m = NoMessage
           /\ m.phase = "request" => Sent(x, m)
           /\ m.phase = "writing" => BeingWritten(x, m)
           /\ m.phase = "complete" => Answered(x, m)
           /\ m.phase = "finished" => Over(x, m)
           /\ m.phase \in {"none", "request", "writing", "complete", "finished"}
           /\ m = Msg(m.phase, m.scheme, m.path, m.status, m.signal, m.body, m.stream)
  <1>1. NotSent(x, m) => m.phase = "none" /\ m = NoMessage
    BY DEF NotSent
  <1>2. /\ Sent(x, m) => m.phase = "request"
        /\ BeingWritten(x, m) => m.phase = "writing"
        /\ Answered(x, m) => m.phase = "complete"
        /\ Over(x, m) => m.phase = "finished"
    BY DEF Sent, BeingWritten, Answered, Over
  <1>3. NotSent(x, m) \/ Sent(x, m) \/ BeingWritten(x, m) \/ Answered(x, m) \/ Over(x, m)
    BY DEF CallOK
  <1>4. m = Msg(m.phase, m.scheme, m.path, m.status, m.signal, m.body, m.stream)
    BY DEF CallOK, MessageShape
  <1>5. QED  BY <1>1, <1>2, <1>3, <1>4

LEMMA AskEffect ==
    ASSUME IInv, NEW c \in Clients, Ask(c)
    PROVE  /\ SamePublisher /\ budget' \in 0..MaxEvents
           /\ calls[c].phase \in {"idle", "returned", "failed"}
           /\ \E q \in Questions :
                /\ Changed(c, Call("resolving", q), NoMessage)
                /\ (q.op # "root" /\ ~PlainText(q.text)) => "query_chars" \in Hazards
                /\ (q.op = "link" /\ "%" \in ToSet(q.text)) => "link_escapes" \in Hazards
  <1>1. PICK q \in Questions :
          /\ (q.op # "root" /\ ~PlainText(q.text)) => "query_chars" \in Hazards
          /\ (q.op = "link" /\ "%" \in ToSet(q.text)) => "link_escapes" \in Hazards
          /\ calls' = [calls EXCEPT ![c] = [phase |-> "resolving", question |-> q]]
    BY DEF Ask
  <1>2. /\ calls = [d \in Clients |-> calls[d]]
        /\ messages = [d \in Clients |-> messages[d]]
        /\ budget \in 0..MaxEvents /\ MaxEvents \in Nat
    BY ExchangeAssumption DEF IInv, Typed
  <1>3. messages' = [messages EXCEPT ![c] = NoMessage]
    BY DEF Ask
  <1>4. Changed(c, Call("resolving", q), NoMessage)
    BY <1>1, <1>2, <1>3 DEF Changed, Call
  <1>5. budget' \in 0..MaxEvents
    BY <1>2 DEF Ask, Event
  <1>6. QED  BY <1>1, <1>4, <1>5 DEF Ask, SamePublisher

LEMMA UnresolvedEffect ==
    ASSUME IInv, NEW c \in Clients, Unresolved(c)
    PROVE  /\ SamePublisher /\ budget' \in 0..MaxEvents
           /\ calls[c] = Call("resolving", calls[c].question) /\ messages[c] = NoMessage
           /\ calls[c].question \in Questions
           /\ Changed(c, Call("failed", calls[c].question), NoMessage)
  <1>1. /\ calls = [d \in Clients |-> calls[d]]
        /\ messages = [d \in Clients |-> messages[d]]
        /\ budget \in 0..MaxEvents
    BY DEF IInv, Typed
  <1>2. CallOK(calls[c], messages[c]) /\ calls[c].phase = "resolving"
    BY DEF IInv, Unresolved
  <1>3. /\ calls[c] = Call("resolving", calls[c].question) /\ messages[c] = NoMessage
        /\ calls[c].question \in Questions
    BY <1>2, PhaseOfCall
  <1>4. [calls[c] EXCEPT !.phase = "failed"] = Call("failed", calls[c].question)
    BY <1>3 DEF Call
  <1>5. calls' = [calls EXCEPT ![c] = [calls[c] EXCEPT !.phase = "failed"]]
    BY <1>1 DEF Unresolved
  <1>6. Changed(c, Call("failed", calls[c].question), NoMessage)
    BY <1>1, <1>3, <1>4, <1>5 DEF Changed, Unresolved
  <1>7. QED  BY <1>1, <1>3, <1>6 DEF Unresolved, SamePublisher

LEMMA SendEffect ==
    ASSUME IInv, NEW c \in Clients, Send(c)
    PROVE  /\ SamePublisher /\ budget' \in 0..MaxEvents
           /\ calls[c] = Call("resolving", calls[c].question) /\ messages[c] = NoMessage
           /\ calls[c].question \in Questions
           /\ Changed(c, Call("waiting", calls[c].question),
                      Msg("request", GetProtocol(AnnouncedType),
                          Decode(UriPath(RequestPath(calls[c].question))), "", "", <<>>, NoStream))
  <1> DEFINE s == GetProtocol(AnnouncedType)
             p == Decode(UriPath(RequestPath(calls[c].question)))
             m == [messages[c] EXCEPT !.phase = "request", !.scheme = s, !.path = p]
  <1>1. /\ calls = [d \in Clients |-> calls[d]]
        /\ messages = [d \in Clients |-> messages[d]]
        /\ budget \in 0..MaxEvents
    BY DEF IInv, Typed
  <1>2. CallOK(calls[c], messages[c]) /\ calls[c].phase = "resolving"
    BY DEF IInv, Send
  <1>3. /\ calls[c] = Call("resolving", calls[c].question) /\ messages[c] = NoMessage
        /\ calls[c].question \in Questions
    BY <1>2, PhaseOfCall
  <1>4. [calls[c] EXCEPT !.phase = "waiting"] = Call("waiting", calls[c].question)
    BY <1>3 DEF Call
  <1>5. calls' = [calls EXCEPT ![c] = [calls[c] EXCEPT !.phase = "waiting"]]
    BY <1>1 DEF Send
  <1>6. messages' = [messages EXCEPT ![c].phase = "request", ![c].scheme = s, ![c].path = p]
    BY DEF Send
  <1>7. SamePublisher /\ budget' = budget
    BY DEF Send, SamePublisher
  <1> HIDE DEF s, p
  <1>8. m = Msg("request", s, p, "", "", <<>>, NoStream)
    <2> DEFINE M == messages[c]
    <2>1. MessageShape(M)
      BY <1>3, NoMessageFields
    <2>2. M.status = "" /\ M.signal = "" /\ M.body = <<>> /\ M.stream = NoStream
      BY <1>3, NoMessageFields, Zenon
    <2>3. m = [M EXCEPT !.phase = "request", !.scheme = s, !.path = p]
      OBVIOUS
    <2> HIDE DEF m, M
    <2>4. m = Msg("request", s, p, M.status, M.signal, M.body, M.stream)
      BY <2>1, <2>3, MsgSent
    <2>5. QED  BY <2>2, <2>4
  <1>9. messages' = [messages EXCEPT ![c] = m]
    BY <1>1, <1>6
  <1> HIDE DEF m
  <1>10. Changed(c, Call("waiting", calls[c].question),
                    Msg("request", s, p, "", "", <<>>, NoStream))
    BY <1>1, <1>4, <1>5, <1>8, <1>9 DEF Changed
  <1>11. QED  BY <1>1, <1>3, <1>7, <1>10 DEF s, p

(* A response with a body: what HandleContents, HandleList and HandleRoot have in
   common. *)
LEMMA RespondEffect ==
    ASSUME IInv, NEW c \in Clients, messages[c].phase = "request", UNCHANGED calls,
           NEW status, NEW body, Respond(c, status, body)
    PROVE  /\ Sent(calls[c], messages[c])
           /\ Changed(c, calls[c], Msg("complete", messages[c].scheme, messages[c].path,
                                       status, "", body, NoStream))
  <1> DEFINE M == messages[c]
             m == [M EXCEPT !.phase = "complete", !.status = status, !.body = body]
  <1>1. /\ calls = [d \in Clients |-> calls[d]]
        /\ messages = [d \in Clients |-> messages[d]]
        /\ CallOK(calls[c], messages[c])
    BY DEF IInv, Typed
  <1>2. /\ Sent(calls[c], M)
        /\ MessageShape(M)
    BY <1>1, PhaseOfMessage DEF MessageShape
  <1>3. messages' = [messages EXCEPT ![c] = m]
    BY <1>1 DEF Respond
  <1>4. M.signal = "" /\ M.stream = NoStream
    BY <1>2 DEF Sent
  <1>5. m = Msg("complete", M.scheme, M.path, status, "", body, NoStream)
    <2>m. m = [M EXCEPT !.phase = "complete", !.status = status, !.body = body]
      OBVIOUS
    <2> HIDE DEF M, m
    <2>1. m = Msg("complete", M.scheme, M.path, status, M.signal, body, M.stream)
      BY <1>2, <2>m, MsgResponse
    <2>2. QED  BY <2>1, <1>4
  <1> HIDE DEF m
  <1>6. Changed(c, calls[c], m)
    BY <1>1, <1>3 DEF Changed
  <1>7. QED  BY <1>2, <1>5, <1>6

LEMMA StreamEffect ==
    ASSUME IInv, NEW c \in Clients, messages[c].phase = "request", UNCHANGED calls, NEW v,
           messages' = [messages EXCEPT
                 ![c].phase = "writing", ![c].status = "ok", ![c].signal = "wrote-headers",
                 ![c].stream = [NoStream EXCEPT !.left = v]]
    PROVE  /\ Sent(calls[c], messages[c])
           /\ Changed(c, calls[c], Msg("writing", messages[c].scheme, messages[c].path, "ok",
                                       "wrote-headers", <<>>, [left |-> v, buffer |-> 0, size |-> 0]))
  <1> DEFINE M == messages[c]
             st == [NoStream EXCEPT !.left = v]
             m == [M EXCEPT !.phase = "writing", !.status = "ok", !.signal = "wrote-headers",
                            !.stream = st]
  <1>1. /\ calls = [d \in Clients |-> calls[d]]
        /\ messages = [d \in Clients |-> messages[d]]
        /\ CallOK(calls[c], messages[c])
    BY DEF IInv, Typed
  <1>2. /\ Sent(calls[c], M)
        /\ MessageShape(M)
    BY <1>1, PhaseOfMessage DEF MessageShape
  <1>s. st = [left |-> v, buffer |-> 0, size |-> 0]
    BY DEF NoStream
  <1> HIDE DEF st
  <1>3. messages' = [messages EXCEPT ![c] = m]
    BY <1>1 DEF st
  <1>4. M.body = <<>>
    BY <1>2 DEF Sent
  <1>5. m = Msg("writing", M.scheme, M.path, "ok", "wrote-headers", <<>>, st)
    <2>m. m = [M EXCEPT !.phase = "writing", !.status = "ok", !.signal = "wrote-headers",
                        !.stream = st]
      OBVIOUS
    <2> HIDE DEF M, m
    <2>1. m = Msg("writing", M.scheme, M.path, "ok", "wrote-headers", M.body, st)
      BY <1>2, <2>m, MsgStream, ZenonT(60)
    <2>2. QED  BY <2>1, <1>4
  <1> HIDE DEF m
  <1>6. Changed(c, calls[c], m)
    BY <1>1, <1>3 DEF Changed
  <1>7. QED  BY <1>2, <1>5, <1>6, <1>s

LEMMA MsgOfChunk ==
    ASSUME NEW m, MessageShape(m), m.status = "ok", NEW r
    PROVE  [m EXCEPT !.stream = r.stream, !.body = @ \o r.data,
                     !.signal = IF r.data = <<>> THEN "" ELSE "wrote-chunk",
                     !.phase = IF r.data = <<>> THEN "complete" ELSE "writing"]
             = Msg(IF r.data = <<>> THEN "complete" ELSE "writing", m.scheme, m.path, "ok",
                   IF r.data = <<>> THEN "" ELSE "wrote-chunk", m.body \o r.data, r.stream)
  <1> DEFINE signal == IF r.data = <<>> THEN "" ELSE "wrote-chunk"
             phase == IF r.data = <<>> THEN "complete" ELSE "writing"
             st == r.stream
             body == m.body \o r.data
             u == [m EXCEPT !.stream = st, !.body = body, !.signal = signal, !.phase = phase]
  <1>1. u = [m EXCEPT !.stream = st, !.body = @ \o r.data, !.signal = signal, !.phase = phase]
    <2> HIDE DEF signal, phase
    <2>1. [m EXCEPT !.stream = st].body = m.body
      OBVIOUS
    <2>2. QED  BY <2>1
  <1>2. u = [k \in Fields |-> u[k]]
    <2> HIDE DEF signal, phase, st, body
    <2>1. QED  BY DEF MessageShape, Msg, Fields
  <1>3. /\ u.phase = phase /\ u.scheme = m.scheme /\ u.path = m.path /\ u.status = m.status
        /\ u.signal = signal /\ u.body = body /\ u.stream = st
    <2> HIDE DEF signal, phase, st, body
    <2>1. QED  BY DEF MessageShape, Msg
  <1> HIDE DEF u, signal, phase, st, body
  <1>4. u = Msg(phase, m.scheme, m.path, "ok", signal, body, st)
    BY <1>2, <1>3, FieldsMakeMsg
  <1>5. QED  BY <1>1, <1>4 DEF u, signal, phase, st, body

LEMMA ChunkEffect ==
    ASSUME IInv, NEW c \in Clients, ChunkCb(c)
    PROVE  /\ SamePublisher /\ budget' \in 0..MaxEvents
           /\ BeingWritten(calls[c], messages[c])
           /\ \E r \in StreamRead(messages[c].stream) \cup StreamFails(messages[c].stream) :
                Changed(c, calls[c],
                        Msg(IF r.data = <<>> THEN "complete" ELSE "writing",
                            messages[c].scheme, messages[c].path, "ok",
                            IF r.data = <<>> THEN "" ELSE "wrote-chunk",
                            messages[c].body \o r.data, r.stream))
  <1> DEFINE M == messages[c]
  <1>1. /\ calls = [d \in Clients |-> calls[d]]
        /\ messages = [d \in Clients |-> messages[d]]
        /\ CallOK(calls[c], messages[c])
        /\ budget \in 0..MaxEvents
    BY DEF IInv, Typed
  <1>2. /\ BeingWritten(calls[c], M)
        /\ MessageShape(M)
    BY <1>1, PhaseOfMessage DEF ChunkCb, MessageShape
  <1>3. PICK r \in StreamRead(messages[c].stream) \cup StreamFails(messages[c].stream) :
         messages' = [messages EXCEPT
           ![c].stream = r.stream,
           ![c].body = @ \o r.data,
           ![c].signal = IF r.data = <<>> THEN "" ELSE "wrote-chunk",
           ![c].phase = IF r.data = <<>> THEN "complete" ELSE "writing"]
    BY DEF ChunkCb
  <1> DEFINE m == [M EXCEPT !.stream = r.stream, !.body = @ \o r.data,
                            !.signal = IF r.data = <<>> THEN "" ELSE "wrote-chunk",
                            !.phase = IF r.data = <<>> THEN "complete" ELSE "writing"]
  <1>4. messages' = [messages EXCEPT ![c] = m]
    BY <1>1, <1>3
  <1>5. m = Msg(IF r.data = <<>> THEN "complete" ELSE "writing", M.scheme, M.path, "ok",
                IF r.data = <<>> THEN "" ELSE "wrote-chunk", M.body \o r.data, r.stream)
    <2>1. M.status = "ok"
      BY <1>2 DEF BeingWritten
    <2> HIDE DEF M
    <2>2. QED  BY <1>2, <2>1, MsgOfChunk
  <1> HIDE DEF m
  <1>6. Changed(c, calls[c], m)
    BY <1>1, <1>4 DEF Changed, ChunkCb
  <1>7. SamePublisher /\ budget' \in 0..MaxEvents
    BY <1>1 DEF ChunkCb, SamePublisher
  <1>8. QED  BY <1>2, <1>5, <1>6, <1>7

LEMMA FinishedEffect ==
    ASSUME IInv, NEW c \in Clients, Finished(c)
    PROVE  /\ SamePublisher /\ budget' \in 0..MaxEvents
           /\ Answered(calls[c], messages[c])
           /\ Changed(c, calls[c], Msg("finished", messages[c].scheme, messages[c].path,
                                       messages[c].status, "", messages[c].body, NoStream))
  <1> DEFINE M == messages[c]
             m == [M EXCEPT !.phase = "finished", !.stream = NoStream]
  <1>1. /\ calls = [d \in Clients |-> calls[d]]
        /\ messages = [d \in Clients |-> messages[d]]
        /\ CallOK(calls[c], messages[c])
        /\ budget \in 0..MaxEvents
    BY DEF IInv, Typed
  <1>2. Answered(calls[c], M) /\ MessageShape(M)
    BY <1>1, PhaseOfMessage DEF Finished, MessageShape
  <1>3. messages' = [messages EXCEPT ![c] = m]
    BY <1>1 DEF Finished
  <1>4. M.signal = ""
    BY <1>2 DEF Answered
  <1>5. m = Msg("finished", M.scheme, M.path, M.status, "", M.body, NoStream)
    <2>m. m = [M EXCEPT !.phase = "finished", !.stream = NoStream]
      OBVIOUS
    <2> HIDE DEF M, m
    <2>1. m = Msg("finished", M.scheme, M.path, M.status, M.signal, M.body, NoStream)
      BY <1>2, <2>m, MsgFinished
    <2>2. QED  BY <2>1, <1>4
  <1> HIDE DEF m
  <1>6. Changed(c, calls[c], m)
    BY <1>1, <1>3 DEF Changed, Finished
  <1>7. SamePublisher /\ budget' \in 0..MaxEvents
    BY <1>1 DEF Finished, SamePublisher
  <1>8. QED  BY <1>2, <1>5, <1>6, <1>7

LEMMA AbortedEffect ==
    ASSUME IInv, NEW c \in Clients, Aborted(c)
    PROVE  /\ SamePublisher /\ budget' \in 0..MaxEvents
           /\ calls[c].phase = "waiting"
           /\ messages[c].phase \in {"request", "writing", "complete"}
           /\ Changed(c, calls[c], Msg("finished", messages[c].scheme, messages[c].path,
                                       "error", "", messages[c].body, NoStream))
  <1> DEFINE M == messages[c]
             m == [M EXCEPT !.phase = "finished", !.status = "error", !.signal = "",
                            !.stream = NoStream]
  <1>1. /\ calls = [d \in Clients |-> calls[d]]
        /\ messages = [d \in Clients |-> messages[d]]
        /\ CallOK(calls[c], messages[c])
        /\ budget \in 0..MaxEvents
    BY DEF IInv, Typed
  <1>2. MessageShape(M) /\ M.phase \in {"request", "writing", "complete"}
    BY <1>1, PhaseOfMessage DEF Aborted, MessageShape
  <1>3. calls[c].phase = "waiting"
    BY <1>1, <1>2, PhaseOfMessage DEF Sent, BeingWritten, Answered
  <1>4. messages' = [messages EXCEPT ![c] = m]
    BY <1>1 DEF Aborted
  <1>5. m = Msg("finished", M.scheme, M.path, "error", "", M.body, NoStream)
    <2>m. m = [M EXCEPT !.phase = "finished", !.status = "error", !.signal = "",
                        !.stream = NoStream]
      OBVIOUS
    <2> HIDE DEF M, m
    <2>1. QED  BY <1>2, <2>m, MsgStream, ZenonT(60)
  <1> HIDE DEF m
  <1>6. Changed(c, calls[c], m)
    BY <1>1, <1>4 DEF Changed, Aborted
  <1>7. SamePublisher /\ budget' \in 0..MaxEvents
    BY <1>1 DEF Aborted, SamePublisher
  <1>8. QED  BY <1>2, <1>3, <1>5, <1>6, <1>7

LEMMA ReturnEffect ==
    ASSUME IInv, NEW c \in Clients, Return(c)
    PROVE  /\ SamePublisher /\ budget' \in 0..MaxEvents
           /\ calls[c].phase = "waiting" /\ calls[c].question \in Questions
           /\ Over(calls[c], messages[c])
           /\ Changed(c, IF messages[c].status = "error" THEN Call("failed", calls[c].question)
                         ELSE Returned(calls[c].question, Result(c, <<>>)), messages[c])
  <1>1. /\ calls = [d \in Clients |-> calls[d]]
        /\ messages = [d \in Clients |-> messages[d]]
        /\ CallOK(calls[c], messages[c])
        /\ budget \in 0..MaxEvents
    BY DEF IInv, Typed
  <1>2. Over(calls[c], messages[c])
    BY <1>1, PhaseOfMessage DEF Return
  <1>3. calls[c].phase = "waiting" /\ calls[c].question \in Questions
    BY <1>1, PhaseOfCall DEF Return
  <1> DEFINE x == IF messages[c].status = "error" THEN Call("failed", calls[c].question)
                  ELSE Returned(calls[c].question, Result(c, <<>>))
  <1>4. calls' = [calls EXCEPT ![c] = x] /\ messages' = messages
    BY DEF Return, Call, Returned
  <1> HIDE DEF x
  <1>5. Changed(c, x, messages[c])
    BY <1>1, <1>4 DEF Changed
  <1>6. SamePublisher /\ budget' \in 0..MaxEvents
    BY <1>1 DEF Return, SamePublisher
  <1>7. QED  BY <1>2, <1>3, <1>5, <1>6 DEF x

-----------------------------------------------------------------------------
(* Streams. *)

LEMMA Multiple ==
    ASSUME NEW q \in Nat, NEW P \in Nat \ {0}
    PROVE  (q * P) % P = 0
  <1> DEFINE a == q * P
             k == a \div P
             r == a % P
  <1>1. a \in Nat
    OBVIOUS
  <1>2. a = q * P
    OBVIOUS
  <1> HIDE DEF a
  <1>3. k \in Nat /\ r \in 0..(P - 1) /\ a = P * k + r
    BY <1>1
  <1> HIDE DEF k, r
  <1>4. r = P * (q - k)
    BY <1>2, <1>3
  <1>5. CASE q - k >= 1
    <2>1. P * (q - k) >= P
      BY <1>3, <1>5
    <2>2. QED  BY <1>3, <1>4, <2>1 DEF a, r
  <1>6. CASE q - k <= -1
    <2>1. P * (q - k) <= -P
      BY <1>3, <1>6
    <2>2. QED  BY <1>3, <1>4, <2>1 DEF a, r
  <1>7. CASE q = k
    <2>1. r = 0
      BY <1>3, <1>4, <1>7
    <2>2. QED  BY <2>1 DEF a, r
  <1>8. QED  BY <1>3, <1>5, <1>6, <1>7

(* The length that is negotiated covers what was asked for, in whole pages. *)
LEMMA PagesFit ==
    ASSUME NEW n \in Nat
    PROVE  Pages(n) \in Nat /\ n <= Pages(n) /\ Pages(n) % Page = 0
  <1> DEFINE q == (n + Page - 1) \div Page
  <1>0. Page \in Nat \ {0}
    BY ExchangeAssumption
  <1>1. q \in Nat /\ n + Page - 1 < (q + 1) * Page
    BY <1>0
  <1>2. Pages(n) = q * Page
    BY DEF Pages
  <1> HIDE DEF q
  <1>3. q * Page \in Nat
    BY <1>0, <1>1
  <1>4. (q * Page) % Page = 0
    BY <1>0, <1>1, Multiple
  <1>5. n <= q * Page
    BY <1>0, <1>1
  <1>6. QED  BY <1>2, <1>3, <1>4, <1>5

LEMMA GrowFits ==
    ASSUME NEW s \in Streams, NEW n \in Nat
    PROVE  /\ StreamOK(Grow(s, n))
           /\ Grow(s, n).left = s.left
           /\ Grow(s, n).buffer = Pages(n) /\ Grow(s, n).size = Pages(n)
  <1>1. Pages(n) \in Nat /\ Pages(n) % Page = 0
    BY PagesFit
  <1>2. /\ Grow(s, n) \in Streams /\ Grow(s, n).left = s.left
        /\ Grow(s, n).buffer = Pages(n) /\ Grow(s, n).size = Pages(n)
    BY <1>1 DEF Grow, Streams
  <1>3. QED  BY <1>1, <1>2 DEF StreamOK

(* Reading keeps a stream in order; a part that is delivered fits the buffer, and as
   long as there is one, a stream that does not fail delivers it. *)
LEMMA ReadDelivers ==
    ASSUME NEW s \in Streams, StreamOK(s), NEW r \in StreamRead(s)
    PROVE  /\ StreamOK(r.stream)
           /\ \/ s.left = <<>> /\ r.data = <<>> /\ r.stream.left = <<>>
              \/ /\ s.left # <<>>
                 /\ r.data = <<Head(s.left)>>
                 /\ r.stream.left = Tail(s.left)
                 /\ r.stream.buffer >= Size[Head(s.left)]
  <1> DEFINE t == IF s.size = 0 THEN [s EXCEPT !.size = Page] ELSE s
             retry(n) == IF Fills(Grow(t, n), Grow(t, n).buffer, Grow(t, n).size)
                         THEN Filled(Grow(t, n)) ELSE Unfilled(Grow(t, n))
  <1>0. Page \in Nat \ {0} /\ Size \in [Parts -> Nat \ {0}]
    BY ExchangeAssumption
  <1>1. t \in Streams /\ t.left = s.left /\ t.buffer = s.buffer
        /\ t.size % Page = 0 /\ t.size \in Nat /\ (t.buffer > 0 => t.buffer = t.size)
    <2>1. CASE s.size = 0
      <3>1. t = [s EXCEPT !.size = Page]
        BY <2>1
      <3>2. t \in Streams /\ t.left = s.left /\ t.buffer = s.buffer /\ t.size = Page
        BY <1>0, <3>1 DEF Streams
      <3>3. Page % Page = 0
        BY <1>0
      <3>4. s.buffer = 0
        BY <2>1 DEF StreamOK
      <3>5. QED  BY <1>0, <3>2, <3>3, <3>4
    <2>2. CASE s.size # 0
      BY <2>2 DEF StreamOK, Streams
    <2>3. QED  BY <2>1, <2>2
  <1> HIDE DEF t
  <1>2. s.left \in Seq(Parts)
    BY DEF Streams
  <1>3. s.left # <<>> => Head(s.left) \in Parts /\ Tail(s.left) \in Seq(Parts)
                         /\ Size[Head(s.left)] \in Nat \ {0}
    BY <1>0, <1>2, HeadTailProperties
  <1>4. ASSUME NEW u \in Streams, u.left = s.left, StreamOK(u), u.left # <<>>,
               Size[Head(u.left)] <= u.size, u.buffer > 0
        PROVE  /\ Filled(u).data = <<Head(s.left)>>
               /\ StreamOK(Filled(u).stream)
               /\ Filled(u).stream.left = Tail(s.left)
               /\ Filled(u).stream.buffer >= Size[Head(s.left)]
    <2>1. Filled(u).data = <<Head(s.left)>> /\ Filled(u).stream = [u EXCEPT !.left = Tail(s.left)]
      BY <1>4 DEF Filled
    <2> DEFINE v == [u EXCEPT !.left = Tail(s.left)]
    <2>2. /\ v \in Streams /\ v.left = Tail(s.left)
          /\ v.buffer = u.buffer /\ v.size = u.size
      BY <1>3, <1>4 DEF Streams
    <2>3. u.buffer = u.size /\ u.buffer \in Nat
      BY <1>4 DEF StreamOK, Streams
    <2> HIDE DEF v
    <2>4. StreamOK(v)
      BY <1>4, <2>2 DEF StreamOK
    <2>5. v.buffer >= Size[Head(s.left)]
      BY <1>3, <1>4, <2>2, <2>3
    <2>6. QED  BY <2>1, <2>2, <2>4, <2>5 DEF v
  <1>5. \/ Fills(t, t.buffer, t.size) /\ r = Filled(t)
        \/ /\ ~Fills(t, t.buffer, t.size)
           /\ \E n \in Needed(t, t.size) : r = IF n > 0 THEN retry(n) ELSE Unfilled(t)
    BY DEF StreamRead, t
  <1>6. CASE Fills(t, t.buffer, t.size) /\ r = Filled(t)
    <2>1. t.left # <<>> /\ t.buffer > 0 /\ Size[Head(t.left)] <= t.size
      BY <1>6 DEF Fills
    <2>2. StreamOK(t)
      BY <1>1, <2>1 DEF StreamOK
    <2>3. QED  BY <1>1, <1>4, <1>6, <2>1, <2>2
  <1>7. CASE ~Fills(t, t.buffer, t.size)
    <2>1. PICK n \in Needed(t, t.size) : r = IF n > 0 THEN retry(n) ELSE Unfilled(t)
      BY <1>5, <1>7
    <2>2. CASE s.left # <<>>
      <3>1. n = Size[Head(s.left)] /\ n \in Nat \ {0}
        BY <1>1, <1>3, <2>2 DEF Needed
      <3> DEFINE u == Grow(t, n)
      <3>2. /\ StreamOK(u) /\ u.left = s.left /\ u.buffer = Pages(n) /\ u.size = Pages(n)
        BY <1>1, <3>1, GrowFits
      <3>3. n <= Pages(n) /\ Pages(n) \in Nat
        BY <3>1, PagesFit
      <3>4. r = IF Fills(u, u.buffer, u.size) THEN Filled(u) ELSE Unfilled(u)
        BY <2>1, <3>1
      <3> HIDE DEF u
      <3>5. u \in Streams /\ u.left # <<>> /\ Size[Head(u.left)] <= u.size /\ u.buffer > 0
        BY <2>2, <3>1, <3>2, <3>3 DEF StreamOK
      <3>6. r = Filled(u)
        BY <3>4, <3>5 DEF Fills
      <3>7. QED  BY <1>4, <2>2, <3>2, <3>5, <3>6
    <2>3. CASE s.left = <<>>
      <3>1. n \in {0, t.size} /\ n \in Nat
        BY <1>1, <2>3 DEF Needed
      <3>2. CASE n > 0
        <4> DEFINE u == Grow(t, n)
        <4>1. StreamOK(u) /\ u.left = s.left
          BY <1>1, <3>1, GrowFits
        <4>2. r = IF Fills(u, u.buffer, u.size) THEN Filled(u) ELSE Unfilled(u)
          BY <2>1, <3>2
        <4> HIDE DEF u
        <4>3. r = Unfilled(u)
          BY <2>3, <4>1, <4>2 DEF Fills
        <4>4. r.stream = u /\ r.data = <<>>
          BY <4>3 DEF Unfilled
        <4>5. QED  BY <2>3, <4>1, <4>4
      <3>3. CASE ~(n > 0)
        <4>1. r.stream = t /\ r.data = <<>>
          BY <2>1, <3>3 DEF Unfilled
        <4>2. StreamOK(t)
          <5>1. t.buffer \in {0, t.size}
            BY <1>1, <3>1, <3>3 DEF Streams
          <5>2. QED  BY <1>1, <5>1 DEF StreamOK
        <4>3. QED  BY <1>1, <2>3, <4>1, <4>2
      <3>4. QED  BY <3>2, <3>3
    <2>4. QED  BY <2>2, <2>3
  <1>8. QED  BY <1>5, <1>6, <1>7

-----------------------------------------------------------------------------
(* The invariant is inductive. *)

LEMMA OneCall ==
    ASSUME IInv, NEW c \in Clients, NEW x, NEW m, Changed(c, x, m), CallOK(x, m),
           settings' = settings, resources' \in [Keys -> Resources \cup {Absent}],
           disk' = disk, budget' \in 0..MaxEvents
    PROVE  IInv'
  <1>1. Typed'
    BY DEF IInv, Typed, Changed
  <1>2. ASSUME NEW d \in Clients PROVE CallOK(calls'[d], messages'[d])
    <2>1. CASE d = c
      <3>1. calls'[d] = x /\ messages'[d] = m
        BY <2>1 DEF Changed
      <3>2. QED  BY <3>1
    <2>2. CASE d # c
      <3>1. calls'[d] = calls[d] /\ messages'[d] = messages[d]
        BY <2>2 DEF Changed
      <3>2. CallOK(calls[d], messages[d])
        BY DEF IInv
      <3>3. QED  BY <3>1, <3>2
    <2>3. QED  BY <2>1, <2>2
  <1>3. QED  BY <1>1, <1>2 DEF IInv

LEMMA CallFields ==
    ASSUME NEW phase, NEW question, NEW result
    PROVE  /\ Call(phase, question).phase = phase
           /\ Call(phase, question).question = question
           /\ Returned(question, result).phase = "returned"
           /\ Returned(question, result).question = question
           /\ Returned(question, result).result = result
  BY DEF Call, Returned

LEMMA ShapesOfCalls ==
    ASSUME NEW q \in Questions
    PROVE  /\ \A p \in {"resolving", "waiting", "failed"} : CallShape(Call(p, q))
           /\ \A r : CallShape(Returned(q, r))
  <1>1. ASSUME NEW p \in {"resolving", "waiting", "failed"} PROVE CallShape(Call(p, q))
    <2> DEFINE x == Call(p, q)
    <2>1. x.phase = p /\ x.question = q
      BY CallFields
    <2>2. x = Call(x.phase, x.question)
      BY <2>1
    <2> HIDE DEF x
    <2>3. CallShape(x)
      BY <2>1, <2>2 DEF CallShape
    <2>4. QED  BY <2>3 DEF x
  <1>2. ASSUME NEW r PROVE CallShape(Returned(q, r))
    <2> DEFINE x == Returned(q, r)
    <2>1. x.result = r /\ x.question = q
      BY CallFields
    <2>2. x = Returned(x.question, x.result)
      BY <2>1
    <2> HIDE DEF x
    <2>3. CallShape(x)
      BY <2>1, <2>2 DEF CallShape
    <2>4. QED  BY <2>3 DEF x
  <1>3. QED  BY <1>1, <1>2

LEMMA NoStreamOK == StreamOK(NoStream)
  <1>1. Page \in Nat \ {0}
    BY ExchangeAssumption
  <1>2. 0 % Page = 0
    BY <1>1
  <1>3. <<>> \in Seq(Parts)
    BY EmptySeq
  <1>4. QED  BY <1>2, <1>3 DEF StreamOK, NoStream, Streams

LEMMA NothingLeft == NoStream.left = <<>>
  BY DEF NoStream

(* Messages as the handlers leave them. *)
LEMMA AnsweredOK ==
    ASSUME NEW x, CallShape(x), x.phase = "waiting",
           NEW scheme, NEW path, NEW status \in {"ok", "not_found"}, NEW body,
           NEW s, StreamOK(s), "read_error" \notin Hazards => s.left = <<>>
    PROVE  CallOK(x, Msg("complete", scheme, path, status, "", body, s))
  <1> DEFINE m == Msg("complete", scheme, path, status, "", body, s)
  <1>1. /\ m.phase = "complete" /\ m.status = status /\ m.signal = "" /\ m.stream = s
        /\ MessageShape(m)
    BY DEF Msg, MessageShape
  <1> HIDE DEF m
  <1>2. Answered(x, m)
    BY <1>1 DEF Answered
  <1>3. CallOK(x, m)
    BY <1>1, <1>2 DEF CallOK
  <1>4. QED  BY <1>3 DEF m

LEMMA WritingOK ==
    ASSUME NEW x, CallShape(x), x.phase = "waiting", NEW scheme, NEW path,
           NEW signal \in {"wrote-headers", "wrote-chunk"}, NEW body \in Seq(Parts),
           NEW s, StreamOK(s), signal = "wrote-chunk" => s.buffer >= Size[Last(body)]
    PROVE  CallOK(x, Msg("writing", scheme, path, "ok", signal, body, s))
  <1> DEFINE m == Msg("writing", scheme, path, "ok", signal, body, s)
  <1>1. /\ m.phase = "writing" /\ m.status = "ok" /\ m.signal = signal /\ m.body = body
        /\ m.stream = s /\ MessageShape(m)
    BY MsgFields
  <1> HIDE DEF m
  <1>2. BeingWritten(x, m)
    BY <1>1 DEF BeingWritten
  <1>3. CallOK(x, m)
    BY <1>1, <1>2 DEF CallOK
  <1>4. QED  BY <1>3 DEF m

LEMMA OverOK ==
    ASSUME NEW x, CallShape(x), x.phase \in {"waiting", "returned", "failed"},
           NEW scheme, NEW path, NEW status \in {"ok", "not_found", "error"}, NEW body,
           NEW s, s = NoStream, x.phase = "returned" => status # "error"
    PROVE  CallOK(x, Msg("finished", scheme, path, status, "", body, s))
  <1> DEFINE m == Msg("finished", scheme, path, status, "", body, s)
  <1>1. /\ m.phase = "finished" /\ m.status = status /\ m.signal = "" /\ m.stream = s
        /\ MessageShape(m)
    BY DEF Msg, MessageShape
  <1> HIDE DEF m
  <1>2. Over(x, m)
    BY <1>1 DEF Over
  <1>3. CallOK(x, m)
    BY <1>1, <1>2 DEF CallOK
  <1>4. QED  BY <1>3 DEF m

LEMMA NotSentOK ==
    ASSUME NEW x, CallShape(x), x.phase \in {"idle", "resolving", "failed"}
    PROVE  CallOK(x, NoMessage)
  BY NoMessageFields DEF CallOK, NotSent

LEMMA InitIInv ==
    ASSUME Init
    PROVE  IInv
  <1>1. Typed
    BY ExchangeAssumption DEF Init, Typed
  <1>2. CallShape(Idle) /\ Idle.phase = "idle"
    BY DEF CallShape, Idle
  <1>3. \A c \in Clients : calls[c] = Idle /\ messages[c] = NoMessage
    BY DEF Init
  <1>4. QED  BY <1>1, <1>2, <1>3, NotSentOK DEF IInv

(* What the handlers have in common besides the response. *)
LEMMA AnswersInOrder ==
    ASSUME IInv, NEW c \in Clients, NEW status \in {"ok", "not_found"}, NEW body,
           messages[c].phase = "request", Respond(c, status, body),
           UNCHANGED <<settings, resources, disk, calls, budget>>
    PROVE  IInv'
  <1> DEFINE m == Msg("complete", messages[c].scheme, messages[c].path, status, "", body, NoStream)
  <1>1. Sent(calls[c], messages[c]) /\ Changed(c, calls[c], m)
    BY RespondEffect
  <1>2. CallShape(calls[c]) /\ calls[c].phase = "waiting"
    BY <1>1 DEF IInv, CallOK, Sent
  <1>3. CallOK(calls[c], m)
    BY <1>2, AnsweredOK, NoStreamOK, NothingLeft
  <1>4. resources \in [Keys -> Resources \cup {Absent}] /\ budget \in 0..MaxEvents
    BY DEF IInv, Typed
  <1> HIDE DEF m
  <1>5. QED  BY <1>1, <1>3, <1>4, OneCall

LEMMA StreamsPublished ==
    ASSUME IInv, NEW k \in Keys, resources[k].kind = "stream"
    PROVE  resources[k].value \in Values
  <1>1. resources[k] \in Resources \cup {Absent}
    BY DEF IInv, Typed
  <1>2. resources[k] \in [kind : {"static", "stream"}, value : Values]
    BY <1>1 DEF Resources, Absent
  <1>3. QED  BY <1>2

LEMMA StreamStartsInOrder ==
    ASSUME IInv, NEW c \in Clients, NEW v \in Seq(Parts), messages[c].phase = "request",
           messages' = [messages EXCEPT
                 ![c].phase = "writing", ![c].status = "ok", ![c].signal = "wrote-headers",
                 ![c].stream = [NoStream EXCEPT !.left = v]],
           UNCHANGED <<settings, resources, disk, calls, budget>>
    PROVE  IInv'
  <1> DEFINE s == [left |-> v, buffer |-> 0, size |-> 0]
             m == Msg("writing", messages[c].scheme, messages[c].path,
                      "ok", "wrote-headers", <<>>, s)
  <1>1. Sent(calls[c], messages[c]) /\ Changed(c, calls[c], m)
    BY StreamEffect
  <1>2. CallShape(calls[c]) /\ calls[c].phase = "waiting"
    BY <1>1 DEF IInv, CallOK, Sent
  <1>3. StreamOK(s)
    <2>1. 0 % Page = 0
      BY ExchangeAssumption
    <2>2. QED  BY <2>1 DEF StreamOK, Streams
  <1>4. <<>> \in Seq(Parts)
    BY EmptySeq
  <1> HIDE DEF s
  <1>5. CallOK(calls[c], m)
    BY <1>2, <1>3, <1>4, WritingOK
  <1>6. resources \in [Keys -> Resources \cup {Absent}] /\ budget \in 0..MaxEvents
    BY DEF IInv, Typed
  <1> HIDE DEF m
  <1>7. QED  BY <1>1, <1>5, <1>6, OneCall

LEMMA SendInOrder ==
    ASSUME IInv, NEW c \in Clients, Send(c)
    PROVE  IInv'
  <1> DEFINE x == Call("waiting", calls[c].question)
             scheme == GetProtocol(AnnouncedType)
             path == Decode(UriPath(RequestPath(calls[c].question)))
             n == NoStream
             m == Msg("request", scheme, path, "", "", <<>>, n)
  <1>1. /\ SamePublisher /\ budget' \in 0..MaxEvents
        /\ calls[c].question \in Questions
        /\ Changed(c, x, m)
    BY SendEffect
  <1>2. CallShape(x) /\ x.phase = "waiting"
    BY <1>1, ShapesOfCalls, CallFields
  <1> HIDE DEF scheme, path, n, x
  <1>3. /\ m.phase = "request" /\ m.status = "" /\ m.signal = "" /\ m.body = <<>> /\ m.stream = n
        /\ MessageShape(m)
    BY DEF Msg, MessageShape
  <1> HIDE DEF m
  <1>4. Sent(x, m)
    BY <1>2, <1>3 DEF Sent, n
  <1>5. CallOK(x, m)
    BY <1>2, <1>3, <1>4 DEF CallOK
  <1>6. resources \in [Keys -> Resources \cup {Absent}]
    BY DEF IInv, Typed
  <1>7. QED  BY <1>1, <1>5, <1>6, OneCall DEF SamePublisher

LEMMA ChunkInOrder ==
    ASSUME IInv, NEW c \in Clients, ChunkCb(c)
    PROVE  IInv'
  <1> DEFINE M == messages[c]
  <1>1. /\ SamePublisher /\ budget' \in 0..MaxEvents
        /\ BeingWritten(calls[c], M)
    BY ChunkEffect
  <1>2. PICK r \in StreamRead(M.stream) \cup StreamFails(M.stream) :
          Changed(c, calls[c],
                  Msg(IF r.data = <<>> THEN "complete" ELSE "writing", M.scheme, M.path, "ok",
                      IF r.data = <<>> THEN "" ELSE "wrote-chunk", M.body \o r.data, r.stream))
    BY ChunkEffect
  <1>3. /\ CallShape(calls[c]) /\ calls[c].phase = "waiting"
        /\ M.body \in Seq(Parts) /\ StreamOK(M.stream) /\ M.stream \in Streams
    BY <1>1 DEF IInv, CallOK, BeingWritten, StreamOK
  <1>4. resources \in [Keys -> Resources \cup {Absent}]
    BY DEF IInv, Typed
  <1> HIDE DEF M
  <1>5. SUFFICES CallOK(calls[c],
                  Msg(IF r.data = <<>> THEN "complete" ELSE "writing", M.scheme, M.path, "ok",
                      IF r.data = <<>> THEN "" ELSE "wrote-chunk", M.body \o r.data, r.stream))
    BY <1>1, <1>2, <1>4, OneCall DEF SamePublisher
  <1>6. CASE r.data = <<>>
    <2>1. StreamOK(r.stream) /\ ("read_error" \notin Hazards => r.stream.left = <<>>)
      <3>1. CASE r \in StreamRead(M.stream)
        <4>1. \A a : <<a>> # <<>>
          OBVIOUS
        <4>2. QED  BY <1>3, <1>6, <3>1, <4>1, ReadDelivers
      <3>2. CASE r \in StreamFails(M.stream)
        <4>1. "read_error" \in Hazards /\ r = Unfilled(M.stream)
          BY <3>2 DEF StreamFails
        <4>2. r.stream = M.stream
          BY <4>1 DEF Unfilled
        <4>3. QED  BY <1>3, <4>1, <4>2
      <3>3. QED  BY <1>2, <3>1, <3>2
    <2>2. CallOK(calls[c], Msg("complete", M.scheme, M.path, "ok", "", M.body \o r.data, r.stream))
      BY <1>3, <2>1, AnsweredOK
    <2>3. QED  BY <1>6, <2>2
  <1>7. CASE r.data # <<>>
    <2>1. r \in StreamRead(M.stream)
      BY <1>2, <1>7 DEF StreamFails, Unfilled
    <2> DEFINE a == Head(M.stream.left)
    <2>2. /\ StreamOK(r.stream) /\ M.stream.left # <<>> /\ r.data = <<a>>
          /\ r.stream.buffer >= Size[a]
      BY <1>3, <1>7, <2>1, ReadDelivers
    <2>3. a \in Parts
      BY <1>3, <2>2, HeadTailProperties DEF Streams
    <2> HIDE DEF a
    <2> DEFINE body == M.body \o r.data
    <2>4. body \in Seq(Parts) /\ Last(body) = a
      BY <1>3, <2>2, <2>3 DEF Last
    <2> HIDE DEF body
    <2>5. CallOK(calls[c], Msg("writing", M.scheme, M.path, "ok", "wrote-chunk", body, r.stream))
      BY <1>3, <2>2, <2>4, WritingOK
    <2>6. QED  BY <1>7, <2>5 DEF body
  <1>8. QED  BY <1>6, <1>7

LEMMA PublisherInOrder ==
    ASSUME IInv, UNCHANGED <<settings, calls, messages>>,
           resources' \in [Keys -> Resources \cup {Absent}],
           disk' \in {{}} \cup {{v} : v \in Values}, budget' \in 0..MaxEvents
    PROVE  IInv'
  BY DEF IInv, Typed

LEMMA EventInOrder ==
    ASSUME IInv, Event
    PROVE  budget' \in 0..MaxEvents
  <1>1. budget \in 0..MaxEvents /\ MaxEvents \in Nat
    BY ExchangeAssumption DEF IInv, Typed
  <1>2. QED  BY <1>1 DEF Event

LEMMA ChangeInOrder ==
    ASSUME IInv, DiskChanges \/ \E k \in Keys : Add(k) \/ RemoveKey(k)
    PROVE  IInv'
  <1>1. /\ resources \in [Keys -> Resources \cup {Absent}]
        /\ disk \in {{}} \cup {{v} : v \in Values}
    BY DEF IInv, Typed
  <1>2. budget' \in 0..MaxEvents
    BY EventInOrder DEF DiskChanges, Add, RemoveKey
  <1>3. CASE DiskChanges
    BY <1>1, <1>2, <1>3, PublisherInOrder DEF DiskChanges
  <1>4. ASSUME NEW k \in Keys, Add(k)
        PROVE  IInv'
    <2>1. resources' \in [Keys -> Resources \cup {Absent}]
      BY <1>1, <1>4 DEF Add
    <2>2. QED  BY <1>1, <1>2, <1>4, <2>1, PublisherInOrder DEF Add
  <1>5. ASSUME NEW k \in Keys, RemoveKey(k)
        PROVE  IInv'
    <2>1. resources' \in [Keys -> Resources \cup {Absent}]
      BY <1>1, <1>5 DEF RemoveKey
    <2>2. QED  BY <1>1, <1>2, <1>5, <2>1, PublisherInOrder DEF RemoveKey
  <1>6. QED  BY <1>3, <1>4, <1>5

LEMMA ContentsInOrder ==
    ASSUME IInv, NEW c \in Clients, HandleContents(c)
    PROVE  IInv'
  <1>1. /\ messages[c].phase = "request"
        /\ UNCHANGED <<settings, resources, disk, calls, budget>>
    BY DEF HandleContents, Request
  <1>2. ASSUME NEW k \in Requested(c), resources[k].kind = "stream",
               messages' = [messages EXCEPT
                 ![c].phase = "writing", ![c].status = "ok", ![c].signal = "wrote-headers",
                 ![c].stream = [NoStream EXCEPT !.left = resources[k].value]]
        PROVE  IInv'
    <2>1. k \in Keys
      BY DEF Requested
    <2>2. resources[k].value \in Seq(Parts)
      BY <1>2, <2>1, StreamsPublished, ExchangeAssumption
    <2>3. QED  BY <1>1, <1>2, <2>2, StreamStartsInOrder
  <1>3. ASSUME NEW status \in {"ok", "not_found"}, NEW body, Respond(c, status, body)
        PROVE  IInv'
    BY <1>1, <1>3, AnswersInOrder
  <1>4. QED  BY <1>2, <1>3 DEF HandleContents

LEMMA IInvNext ==
    ASSUME IInv, [Next]_vars
    PROVE  IInv'
  <1>r. resources \in [Keys -> Resources \cup {Absent}] /\ budget \in 0..MaxEvents
    BY DEF IInv, Typed
  <1>1. CASE UNCHANGED vars
    BY <1>1 DEF vars, IInv, Typed
  <1>2. CASE DiskChanges \/ \E k \in Keys : Add(k) \/ RemoveKey(k)
    BY <1>2, ChangeInOrder
  <1>3. ASSUME NEW c \in Clients, Ask(c)
        PROVE  IInv'
    <2>1. SamePublisher /\ budget' \in 0..MaxEvents
      BY <1>3, AskEffect
    <2>2. PICK q \in Questions : Changed(c, Call("resolving", q), NoMessage)
      BY <1>3, AskEffect
    <2>3. CallOK(Call("resolving", q), NoMessage)
      <3>1. CallShape(Call("resolving", q))
        BY ShapesOfCalls
      <3>2. Call("resolving", q).phase = "resolving"
        BY CallFields, Zenon
      <3>3. QED  BY <3>1, <3>2, NotSentOK
    <2>4. QED  BY <1>r, <2>1, <2>2, <2>3, OneCall DEF SamePublisher
  <1>4. ASSUME NEW c \in Clients, Unresolved(c)
        PROVE  IInv'
    <2>1. /\ SamePublisher /\ budget' \in 0..MaxEvents /\ calls[c].question \in Questions
          /\ Changed(c, Call("failed", calls[c].question), NoMessage)
      BY <1>4, UnresolvedEffect
    <2>2. CallOK(Call("failed", calls[c].question), NoMessage)
      BY <2>1, NotSentOK, ShapesOfCalls, CallFields
    <2>3. QED  BY <1>r, <2>1, <2>2, OneCall DEF SamePublisher
  <1>5. ASSUME NEW c \in Clients, Send(c)
        PROVE  IInv'
    BY <1>5, SendInOrder
  <1>6. ASSUME NEW c \in Clients, HandleContents(c)
        PROVE  IInv'
    BY <1>6, ContentsInOrder
  <1>7. ASSUME NEW c \in Clients, HandleList(c)
        PROVE  IInv'
    BY <1>7, AnswersInOrder DEF HandleList, Request
  <1>8. ASSUME NEW c \in Clients, HandleRoot(c)
        PROVE  IInv'
    <2>1. PICK status \in {"ok", "not_found"} : \E body : Respond(c, status, body)
      BY <1>8 DEF HandleRoot
    <2>2. QED  BY <1>8, <2>1, AnswersInOrder DEF HandleRoot, Request
  <1>9. ASSUME NEW c \in Clients, ChunkCb(c)
        PROVE  IInv'
    BY <1>9, ChunkInOrder
  <1>10. ASSUME NEW c \in Clients, Finished(c)
         PROVE  IInv'
    <2>1. /\ SamePublisher /\ budget' \in 0..MaxEvents
          /\ Answered(calls[c], messages[c])
          /\ Changed(c, calls[c], Msg("finished", messages[c].scheme, messages[c].path,
                                      messages[c].status, "", messages[c].body, NoStream))
      BY <1>10, FinishedEffect
    <2>2. CallShape(calls[c]) /\ calls[c].phase = "waiting"
          /\ messages[c].status \in {"ok", "not_found", "error"}
      BY <2>1 DEF IInv, CallOK, Answered
    <2>3. CallOK(calls[c], Msg("finished", messages[c].scheme, messages[c].path,
                               messages[c].status, "", messages[c].body, NoStream))
      BY <2>2, OverOK
    <2>4. QED  BY <1>r, <2>1, <2>3, OneCall DEF SamePublisher
  <1>11. ASSUME NEW c \in Clients, Aborted(c)
         PROVE  IInv'
    <2>1. /\ SamePublisher /\ budget' \in 0..MaxEvents /\ calls[c].phase = "waiting"
          /\ Changed(c, calls[c], Msg("finished", messages[c].scheme, messages[c].path,
                                      "error", "", messages[c].body, NoStream))
      BY <1>11, AbortedEffect
    <2>2. CallShape(calls[c])
      BY DEF IInv, CallOK
    <2>3. CallOK(calls[c], Msg("finished", messages[c].scheme, messages[c].path,
                               "error", "", messages[c].body, NoStream))
      BY <2>1, <2>2, OverOK
    <2>4. QED  BY <1>r, <2>1, <2>3, OneCall DEF SamePublisher
  <1>12. ASSUME NEW c \in Clients, Return(c)
         PROVE  IInv'
    <2> DEFINE x == IF messages[c].status = "error" THEN Call("failed", calls[c].question)
                    ELSE Returned(calls[c].question, Result(c, <<>>))
    <2>1. /\ SamePublisher /\ budget' \in 0..MaxEvents /\ calls[c].question \in Questions
          /\ Over(calls[c], messages[c])
          /\ Changed(c, x, messages[c])
      BY <1>12, ReturnEffect
    <2>2. MessageShape(messages[c])
      BY DEF IInv, CallOK
    <2>3. /\ CallShape(x) /\ x.phase \in {"failed", "returned"}
          /\ x.phase = "returned" => messages[c].status # "error"
      BY <2>1, ShapesOfCalls, CallFields
    <2> HIDE DEF x
    <2>4. CallOK(x, messages[c])
      BY <2>1, <2>2, <2>3 DEF CallOK, Over
    <2>5. QED  BY <1>r, <2>1, <2>4, OneCall DEF SamePublisher
  <1>13. QED
    BY <1>1, <1>2, <1>3, <1>4, <1>5, <1>6, <1>7, <1>8, <1>9, <1>10, <1>11, <1>12 DEF Next

LEMMA AlwaysIInv == Spec => []IInv
  BY InitIInv, IInvNext, PTL DEF Spec

-----------------------------------------------------------------------------
(* The streams of messages that are written, and of all others. *)
LEMMA StreamAlwaysOK ==
    ASSUME IInv, NEW c \in Clients
    PROVE  /\ StreamOK(messages[c].stream)
           /\ messages[c].signal \in {"", "wrote-headers", "wrote-chunk"}
           /\ messages[c].signal = "wrote-chunk" => BeingWritten(calls[c], messages[c])
  <1> DEFINE x == calls[c]
             m == messages[c]
  <1>1. CallOK(x, m)
    BY DEF IInv
  <1> HIDE DEF x, m
  <1>2. NotSent(x, m) \/ Sent(x, m) \/ BeingWritten(x, m) \/ Answered(x, m) \/ Over(x, m)
    BY <1>1 DEF CallOK
  <1>3. CASE BeingWritten(x, m)
    BY <1>3 DEF BeingWritten, x, m
  <1>4. CASE NotSent(x, m)
    <2>1. m.signal = "" /\ m.stream = NoStream
      BY <1>4, NoMessageFields DEF NotSent
    <2>2. QED  BY <2>1, NoStreamOK DEF x, m
  <1>5. CASE Sent(x, m) \/ Over(x, m)
    <2>1. m.signal = "" /\ m.stream = NoStream
      BY <1>5 DEF Sent, Over
    <2>2. QED  BY <2>1, NoStreamOK DEF x, m
  <1>6. CASE Answered(x, m)
    BY <1>6 DEF Answered, x, m
  <1>7. QED  BY <1>2, <1>3, <1>4, <1>5, <1>6

(* Every variable keeps its type: a call that was made has its question, and a message
   has a status as soon as a handler has answered it, and not before. *)
THEOREM TypeCorrect == Spec => []TypeOK
  <1>1. IInv => TypeOK
    <2> SUFFICES ASSUME IInv PROVE TypeOK
      OBVIOUS
    <2>1. /\ settings \in Settings
          /\ \A k \in Keys : resources[k] \in Resources \cup {Absent}
          /\ disk \in {{}} \cup {{v} : v \in Values}
          /\ budget \in 0..MaxEvents
      BY DEF IInv, Typed
    <2>2. ASSUME NEW c \in Clients
          PROVE  /\ calls[c].phase \in {"idle", "resolving", "waiting", "returned", "failed"}
                 /\ calls[c].phase # "idle" => calls[c].question \in Questions
                 /\ messages[c].phase \in {"none", "request", "writing", "complete", "finished"}
      <3>1. CallOK(calls[c], messages[c])
        BY DEF IInv
      <3>2. QED  BY <3>1, PhaseOfCall, PhaseOfMessage
    <2>3. ASSUME NEW c \in Clients
          PROVE  messages[c].status \in IF messages[c].phase \in {"none", "request"}
                                        THEN {""} ELSE {"ok", "not_found", "error"}
      <3>1. CallOK(calls[c], messages[c])
        BY DEF IInv
      <3>2. CASE NotSent(calls[c], messages[c])
        BY <3>2, NoMessageFields DEF NotSent
      <3>3. CASE Sent(calls[c], messages[c])
        BY <3>3 DEF Sent
      <3>4. CASE BeingWritten(calls[c], messages[c])
        BY <3>4 DEF BeingWritten
      <3>5. CASE Answered(calls[c], messages[c])
        BY <3>5 DEF Answered
      <3>6. CASE Over(calls[c], messages[c])
        BY <3>6 DEF Over
      <3>7. QED  BY <3>1, <3>2, <3>3, <3>4, <3>5, <3>6 DEF CallOK
    <2>4. QED  BY <2>1, <2>2, <2>3, StreamAlwaysOK DEF TypeOK, StreamOK
  <1>2. QED  BY <1>1, AlwaysIInv, PTL

(* A callback that gets a buffer gets its true length, in whole pages, and what was
   negotiated covers the part delivered last, whatever the sizes of the parts
   (epc_contents_stream_read). *)
THEOREM BuffersFit == Spec => []BufferFits
  <1>1. IInv => BufferFits
    <2>1. ASSUME IInv, NEW c \in Clients
          PROVE  /\ messages[c].stream.buffer \in {0, messages[c].stream.size}
                 /\ messages[c].stream.size % Page = 0
                 /\ messages[c].signal = "wrote-chunk" =>
                      messages[c].stream.buffer >= Size[Last(messages[c].body)]
      BY <2>1, StreamAlwaysOK DEF StreamOK, BeingWritten
    <2>2. QED  BY <2>1 DEF BufferFits
  <1>2. QED  BY <1>1, AlwaysIInv, PTL

-----------------------------------------------------------------------------
(* Requests arrive. *)

(* Every step changes the publisher, starts a call, sends its request, or takes it a
   step further. *)
Continues(c, x, m) ==
    /\ calls[c].phase # "idle"
    /\ x.question = calls[c].question
    /\ m.phase # "request"
    /\ m.phase = "writing" => messages[c].phase = "writing" \/ Request(c, "contents")

LEMMA ResponseContinues ==
    ASSUME IInv, NEW c \in Clients, messages[c].phase = "request", UNCHANGED calls,
           NEW status, NEW body, Respond(c, status, body)
    PROVE  \E x, m : Changed(c, x, m) /\ Continues(c, x, m)
  <1> DEFINE m == Msg("complete", messages[c].scheme, messages[c].path, status, "", body, NoStream)
  <1>1. Sent(calls[c], messages[c]) /\ Changed(c, calls[c], m)
    BY RespondEffect
  <1>2. m.phase = "complete"
    BY DEF Msg
  <1> HIDE DEF m
  <1>3. Continues(c, calls[c], m)
    BY <1>1, <1>2 DEF Continues, Sent
  <1>4. QED  BY <1>1, <1>3

LEMMA CallSteps ==
    ASSUME IInv, [Next]_vars
    PROVE  /\ settings' = settings
           /\ \/ UNCHANGED <<calls, messages>>
              \/ \E c \in Clients : Ask(c)
              \/ \E c \in Clients : Send(c)
              \/ \E c \in Clients : \E x, m : Changed(c, x, m) /\ Continues(c, x, m)
  <1>1. CASE UNCHANGED vars \/ DiskChanges \/ \E k \in Keys : Add(k) \/ RemoveKey(k)
    BY <1>1 DEF vars, DiskChanges, Add, RemoveKey
  <1>2. CASE \E c \in Clients : Ask(c) \/ Send(c)
    BY <1>2 DEF Ask, Send
  <1>3. ASSUME NEW c \in Clients, Unresolved(c)
        PROVE  settings' = settings /\ \E x, m : Changed(c, x, m) /\ Continues(c, x, m)
    <2> DEFINE x == Call("failed", calls[c].question)
    <2>1. Changed(c, x, NoMessage) /\ settings' = settings
      BY <1>3, UnresolvedEffect DEF SamePublisher
    <2>2. x.question = calls[c].question
      BY DEF Call
    <2> HIDE DEF x
    <2>3. Continues(c, x, NoMessage)
      BY <1>3, <2>2, NoMessageFields DEF Continues, Unresolved
    <2>4. QED  BY <2>1, <2>3
  <1>4. ASSUME NEW c \in Clients, HandleContents(c)
        PROVE  settings' = settings /\ \E x, m : Changed(c, x, m) /\ Continues(c, x, m)
    <2>1. /\ messages[c].phase = "request" /\ Request(c, "contents")
          /\ UNCHANGED <<settings, resources, disk, calls, budget>>
      BY <1>4 DEF HandleContents, Request
    <2>2. ASSUME NEW k \in Requested(c),
                 messages' = [messages EXCEPT
                   ![c].phase = "writing", ![c].status = "ok", ![c].signal = "wrote-headers",
                   ![c].stream = [NoStream EXCEPT !.left = resources[k].value]]
          PROVE  \E x, m : Changed(c, x, m) /\ Continues(c, x, m)
      <3> DEFINE s == [left |-> resources[k].value, buffer |-> 0, size |-> 0]
                 m == Msg("writing", messages[c].scheme, messages[c].path, "ok",
                          "wrote-headers", <<>>, s)
      <3>1. Sent(calls[c], messages[c]) /\ Changed(c, calls[c], m)
        BY <2>1, <2>2, StreamEffect
      <3> HIDE DEF s
      <3>2. m.phase = "writing"
        BY DEF Msg
      <3> HIDE DEF m
      <3>3. Continues(c, calls[c], m)
        BY <2>1, <3>1, <3>2 DEF Continues, Sent
      <3>4. QED  BY <3>1, <3>3
    <2>3. ASSUME NEW status, NEW body, Respond(c, status, body)
          PROVE  \E x, m : Changed(c, x, m) /\ Continues(c, x, m)
      BY <2>1, <2>3, ResponseContinues
    <2>4. QED  BY <1>4, <2>1, <2>2, <2>3 DEF HandleContents
  <1>5. ASSUME NEW c \in Clients, HandleList(c) \/ HandleRoot(c)
        PROVE  settings' = settings /\ \E x, m : Changed(c, x, m) /\ Continues(c, x, m)
    <2>1. messages[c].phase = "request" /\ UNCHANGED <<settings, calls>>
      BY <1>5 DEF HandleList, HandleRoot, Request
    <2>2. \E status, body : Respond(c, status, body)
      BY <1>5 DEF HandleList, HandleRoot
    <2>3. QED  BY <2>1, <2>2, ResponseContinues
  <1>6. ASSUME NEW c \in Clients, ChunkCb(c)
        PROVE  settings' = settings /\ \E x, m : Changed(c, x, m) /\ Continues(c, x, m)
    <2>1. settings' = settings /\ BeingWritten(calls[c], messages[c])
      BY <1>6, ChunkEffect DEF SamePublisher
    <2>2. PICK r :
             Changed(c, calls[c],
                        Msg(IF r.data = <<>> THEN "complete" ELSE "writing",
                            messages[c].scheme, messages[c].path, "ok",
                            IF r.data = <<>> THEN "" ELSE "wrote-chunk",
                            messages[c].body \o r.data, r.stream))
      BY <1>6, ChunkEffect
    <2> DEFINE p == IF r.data = <<>> THEN "complete" ELSE "writing"
               signal == IF r.data = <<>> THEN "" ELSE "wrote-chunk"
               m == Msg(p, messages[c].scheme, messages[c].path, "ok", signal,
                        messages[c].body \o r.data, r.stream)
    <2>3. p \in {"complete", "writing"}
      OBVIOUS
    <2>4. Changed(c, calls[c], m)
      BY <2>2
    <2> HIDE DEF p, signal
    <2>5. m.phase = p
      BY DEF Msg
    <2> HIDE DEF m
    <2>6. Continues(c, calls[c], m)
      BY <2>1, <2>3, <2>5 DEF Continues, BeingWritten
    <2>7. QED  BY <2>1, <2>4, <2>6
  <1>7. ASSUME NEW c \in Clients, Finished(c)
        PROVE  settings' = settings /\ \E x, m : Changed(c, x, m) /\ Continues(c, x, m)
    <2> DEFINE m == Msg("finished", messages[c].scheme, messages[c].path,
                        messages[c].status, "", messages[c].body, NoStream)
    <2>1. /\ settings' = settings /\ Answered(calls[c], messages[c])
          /\ Changed(c, calls[c], m)
      BY <1>7, FinishedEffect DEF SamePublisher
    <2>2. m.phase = "finished"
      BY DEF Msg
    <2> HIDE DEF m
    <2>3. Continues(c, calls[c], m)
      BY <2>1, <2>2 DEF Continues, Answered
    <2>4. QED  BY <2>1, <2>3
  <1>8. ASSUME NEW c \in Clients, Aborted(c)
        PROVE  settings' = settings /\ \E x, m : Changed(c, x, m) /\ Continues(c, x, m)
    <2> DEFINE m == Msg("finished", messages[c].scheme, messages[c].path,
                        "error", "", messages[c].body, NoStream)
    <2>1. /\ settings' = settings /\ calls[c].phase = "waiting"
          /\ Changed(c, calls[c], m)
      BY <1>8, AbortedEffect DEF SamePublisher
    <2>2. m.phase = "finished"
      BY DEF Msg
    <2> HIDE DEF m
    <2>3. Continues(c, calls[c], m)
      BY <2>1, <2>2 DEF Continues
    <2>4. QED  BY <2>1, <2>3
  <1>9. ASSUME NEW c \in Clients, Return(c)
        PROVE  settings' = settings /\ \E x, m : Changed(c, x, m) /\ Continues(c, x, m)
    <2> DEFINE x == IF messages[c].status = "error" THEN Call("failed", calls[c].question)
                    ELSE Returned(calls[c].question, Result(c, <<>>))
    <2>1. /\ settings' = settings /\ calls[c].phase = "waiting"
          /\ Over(calls[c], messages[c])
          /\ Changed(c, x, messages[c])
      BY <1>9, ReturnEffect DEF SamePublisher
    <2>2. x.question = calls[c].question
      BY CallFields
    <2> HIDE DEF x
    <2>3. Continues(c, x, messages[c])
      BY <2>1, <2>2 DEF Continues, Over
    <2>4. QED  BY <2>1, <2>3
  <1>10. QED
    BY <1>1, <1>2, <1>3, <1>4, <1>5, <1>6, <1>7, <1>8, <1>9 DEF Next

LEMMA OnlyThisCall ==
    ASSUME NEW c \in Clients, NEW x, NEW m, Changed(c, x, m)
    PROVE  /\ calls'[c] = x /\ messages'[c] = m
           /\ \A d \in Clients \ {c} : calls'[d] = calls[d] /\ messages'[d] = messages[d]
  BY DEF Changed

(* What is needed of the contents path: no escapes, nothing that ends the path of a
   URI, and not the name under which the listings are. *)
KnownPaths ==
    \A s \in Settings : /\ Plain(s.contentsPath)
                        /\ Len(s.contentsPath) >= 2
                        /\ s.contentsPath[2] # "list"

LEMMA SettingsTyped ==
    ASSUME IInv
    PROVE  /\ settings \in Settings
           /\ settings.protocol \in Protocols
           /\ settings.application \in Seq(Symbols)
           /\ settings.contentsPath \in Seq(Symbols)
  BY ExchangeAssumption DEF IInv, Typed

LEMMA SymbolsSpell ==
    /\ Alphabet(Symbols)
    /\ <<"/", "list">> \in Seq(Symbols) /\ <<"/", "list", "/">> \in Seq(Symbols)
    /\ <<"/">> \in Seq(Symbols)
    /\ Plain(<<"/", "list", "/">>) /\ Plain(<<"/">>)
  <1>1. Codes \subseteq Symbols /\ "/" \in Symbols /\ "list" \in Symbols
    BY ExchangeAssumption, EscapesOf DEF Codes
  <1>2. Plain(<<"/", "list", "/">>) /\ Plain(<<"/">>)
    BY DEF Plain, Ends
  <1> DEFINE a == "/"  b == "list"
  <1>3. a \in Symbols /\ b \in Symbols
    BY <1>1
  <1> HIDE DEF a, b
  <1>4. <<a, b>> \in Seq(Symbols) /\ <<a, b, a>> \in Seq(Symbols) /\ <<a>> \in Seq(Symbols)
    BY <1>3
  <1>5. QED  BY <1>1, <1>2, <1>4 DEF Alphabet, a, b

LEMMA Appended ==
    ASSUME NEW x, NEW y
    PROVE  <<x, y>> \o <<x>> = <<x, y, x>>
  <1> DEFINE T == {x, y}
             s == <<x, y>>
             a == <<x>>
             u == <<x, y, x>>
             v == s \o a
  <1>1. x \in T /\ y \in T
    OBVIOUS
  <1> HIDE DEF T
  <1>2. s \in Seq(T) /\ Len(s) = 2 /\ s[1] = x /\ s[2] = y
    BY <1>1
  <1>3. a \in Seq(T) /\ Len(a) = 1 /\ a[1] = x
    BY <1>1
  <1>4. u \in Seq(T) /\ Len(u) = 3 /\ u[1] = x /\ u[2] = y /\ u[3] = x
    BY <1>1
  <1> HIDE DEF s, a, u
  <1>5. /\ v \in Seq(T) /\ Len(v) = Len(s) + Len(a)
        /\ \A i \in 1..(Len(s) + Len(a)) : v[i] = IF i <= Len(s) THEN s[i] ELSE a[i - Len(s)]
    BY <1>2, <1>3, ConcatProperties
  <1> HIDE DEF v
  <1>6. Len(v) = 3 /\ v[1] = x /\ v[2] = y /\ v[3] = x
    BY <1>2, <1>3, <1>5
  <1>7. \A i \in 1..3 : v[i] = u[i]
    BY <1>4, <1>6
  <1>8. v = u
    BY <1>4, <1>5, <1>6, <1>7, SeqEqual
  <1>9. QED  BY <1>8 DEF v, s, a, u

LEMMA PrefixAt ==
    ASSUME NEW T, NEW p \in Seq(T), NEW t \in Seq(T), IsPrefix(p, t), NEW i \in 1..Len(p)
    PROVE  p[i] = t[i] /\ Len(p) <= Len(t)
  <1>1. Len(p) \in Nat /\ Len(t) \in Nat /\ Len(p) <= Len(t)
    BY LenProperties DEF IsPrefix
  <1>2. SubSeq(p, 1, Len(p))[i] = p[i] /\ SubSeq(t, 1, Len(p))[i] = t[i]
    BY <1>1
  <1>3. QED  BY <1>1, <1>2 DEF IsPrefix

(* What the consumer reads in the announcement is what the publisher was set up with. *)
LEMMA FoundAsAnnounced ==
    ASSUME IInv
    PROVE  FoundPath = settings.contentsPath /\ GetProtocol(AnnouncedType) = settings.protocol
  <1>1. GetProtocol(AnnouncedType) = settings.protocol
    BY SettingsTyped, TypeIsRecognized DEF AnnouncedType
  <1> DEFINE p == settings.contentsPath
             d == AnnouncedDetails
             named == {i \in DOMAIN d : d[i].name = "path"}
  <1>2. DOMAIN d = {1} /\ d[1].name = "path" /\ d[1].value = {p}
    BY DEF AnnouncedDetails
  <1> HIDE DEF p, d
  <1>3. named = {1}
    BY <1>2
  <1>4. Min(named) = 1
    <2>1. Min({1}) = 1
      BY MinIs
    <2>2. QED  BY <1>3, <2>1
  <1>5. GetDetail(d, "path") = {p}
    BY <1>2, <1>3, <1>4 DEF GetDetail
  <1>6. FoundPath = CHOOSE path \in {p} : TRUE
    BY <1>5 DEF FoundPath, d
  <1>7. QED  BY <1>1, <1>6 DEF p

HandlerFor(q) ==
    CASE q.op \in {"lookup", "link"} -> "contents"
      [] q.op = "list" -> "list"
      [] OTHER -> "root"

LEMMA Ops ==
    ASSUME NEW q \in Questions
    PROVE  \/ q.op \in {"lookup", "link"} /\ q.text \in Keys
           \/ q.op = "list" /\ q.text \in Patterns
           \/ q.op = "root"
  BY DEF Questions

LEMMA HandlersDiffer ==
    ASSUME IInv, KnownPaths, NEW r \in Seq(Symbols)
    PROVE  /\ Handler((settings.contentsPath \o <<"/">>) \o r) = "contents"
           /\ Handler(settings.contentsPath \o r) = "contents"
           /\ Handler(<<"/", "list", "/">> \o r) = "list"
           /\ Handler(<<"/">>) = "root"
  <1> DEFINE p == settings.contentsPath
             l == <<"/", "list">>
             a == <<"/">>
             t == <<"/", "list", "/">> \o r
  <1>1. /\ p \in Seq(Symbols) /\ l \in Seq(Symbols) /\ a \in Seq(Symbols)
        /\ <<"/", "list", "/">> \in Seq(Symbols)
    BY SettingsTyped, SymbolsSpell
  <1>2. Len(p) >= 2 /\ p[2] # "list" /\ Len(p) \in Nat
    BY <1>1, SettingsTyped, LenProperties DEF KnownPaths
  <1>3. t \in Seq(Symbols) /\ t[2] = "list"
    <2> DEFINE u == <<"/", "list", "/">>
    <2>1. Len(u) = 3 /\ u[2] = "list"
      OBVIOUS
    <2>2. u \in Seq(Symbols)
      BY <1>1
    <2> HIDE DEF u
    <2>3. /\ u \o r \in Seq(Symbols) /\ Len(r) \in Nat
          /\ \A i \in 1..(Len(u) + Len(r)) : (u \o r)[i] =
                                               IF i <= Len(u) THEN u[i] ELSE r[i - Len(u)]
      BY <2>2, ConcatProperties, LenProperties
    <2>n. Len(u) + Len(r) >= 2 /\ 2 <= Len(u)
      BY <2>1, <2>3
    <2>4. (u \o r)[2] = u[2]
      BY <2>n, <2>3
    <2>5. QED  BY <2>1, <2>3, <2>4 DEF u
  <1>4. t = l \o (a \o r)
    <2>1. l \o a = <<"/", "list", "/">>
      BY Appended DEF l, a
    <2> HIDE DEF l, a, t
    <2>2. (l \o a) \o r = l \o (a \o r)
      BY <1>1, ConcatAssociative
    <2>3. QED  BY <2>1, <2>2 DEF t
  <1>5. Len(a) = 1 /\ Len(l) = 2
    OBVIOUS
  <1> HIDE DEF p, l, a, t
  <1>6. a \o r \in Seq(Symbols)
    BY <1>1, ConcatProperties
  <1>7. IsPrefix(l, t) /\ IsPrefix(p, p \o r)
    BY <1>1, <1>4, <1>6, Parts2
  <1>8. IsPrefix(p, (p \o a) \o r)
    <2>1. (p \o a) \o r = p \o (a \o r)
      BY <1>1, ConcatAssociative
    <2> DEFINE u == a \o r
    <2>2. u \in Seq(Symbols)
      BY <1>6
    <2> HIDE DEF u
    <2>3. IsPrefix(p, p \o u)
      BY <1>1, <2>2, Parts2
    <2>4. QED  BY <2>1, <2>3 DEF u
  <1>9. ~IsPrefix(p, t)
    <2>1. 2 \in 1..Len(p)
      BY <1>2
    <2>2. QED  BY <1>1, <1>2, <1>3, <2>1, PrefixAt
  <1>10. ~IsPrefix(p, a) /\ ~IsPrefix(l, a)
    <2>1. ~(Len(p) <= Len(a)) /\ ~(Len(l) <= Len(a))
      BY <1>2, <1>5
    <2>2. QED  BY <2>1 DEF IsPrefix
  <1>p. ASSUME NEW path \in Seq(Symbols), IsPrefix(p, path)
        PROVE  Handler(path) = "contents"
    <2>1. 2 \in 1..Len(p) /\ 2 \in 1..Len(l) /\ l[2] = "list"
      BY <1>2, <1>5 DEF l
    <2>2. p[2] = path[2]
      BY <1>1, <1>p, <2>1, PrefixAt
    <2>3. IsPrefix(l, path) => l[2] = path[2]
      BY <1>1, <2>1, PrefixAt
    <2>4. ~IsPrefix(l, path)
      BY <1>2, <2>1, <2>2, <2>3
    <2>5. QED  BY <1>p, <2>4 DEF Handler, p, l
  <1>c. (p \o a) \o r \in Seq(Symbols) /\ p \o r \in Seq(Symbols)
    BY <1>1, ConcatProperties
  <1>11. Handler((p \o a) \o r) = "contents" /\ Handler(p \o r) = "contents"
    BY <1>7, <1>8, <1>c, <1>p
  <1>12. Handler(t) = "list"
    BY <1>7, <1>9 DEF Handler, p, l
  <1>13. Handler(a) = "root"
    BY <1>10 DEF Handler, p, l
  <1>14. QED  BY <1>11, <1>12, <1>13 DEF p, a, t

LEMMA RootArrives == Decode(UriPath(<<"/">>)) = <<"/">>
  <1> DEFINE a == <<"/">>
             n == <<>>
  <1>1. Alphabet(Symbols) /\ a \in Seq(Symbols) /\ Plain(a) /\ a \o n = a
    BY SymbolsSpell
  <1>2. n \in Seq(Symbols) /\ Decode(UriPath(n)) = n
    <2>1. UriPath(<<>>) = <<>>
      BY DEF UriPath
    <2>2. QED  BY <2>1, DecodeEmpty, EmptySeq
  <1> HIDE DEF a, n
  <1>3. Decode(UriPath(a \o n)) = a \o Decode(UriPath(n))
    BY <1>1, <1>2, PathArrives
  <1>4. QED  BY <1>1, <1>2, <1>3 DEF a

LEMMA RequestUnderstood ==
    ASSUME IInv, KnownPaths, NEW q \in Questions
    PROVE  Handler(Decode(UriPath(RequestPath(q)))) = HandlerFor(q)
  <1> DEFINE p == settings.contentsPath
             a == <<"/">>
  <1>0. /\ p \in Seq(Symbols) /\ a \in Seq(Symbols) /\ Plain(p)
        /\ Alphabet(Symbols) /\ Plain(a)
        /\ a \o <<>> = a
    BY SettingsTyped, SymbolsSpell DEF KnownPaths
  <1> HIDE DEF p, a
  <1>1. CASE q.op \in {"lookup", "link"}
    <2>1. q.text \in Seq(Symbols)
      BY <1>1, Ops, ExchangeAssumption DEF Questions
    <2>2. PICK k \in Seq(Symbols) : RequestPath(q) = (p \o a) \o k
      <3>1. Encode(q.text) \in Seq(Symbols)
        BY <1>0, <2>1, EncodeText DEF Alphabet
      <3>2. CASE q.op = "lookup"
        BY <3>1, <3>2, FoundAsAnnounced DEF RequestPath, KeyPath, p, a
      <3>3. CASE q.op = "link"
        BY <2>1, <3>3 DEF RequestPath, p, a
      <3>4. QED  BY <1>1, <3>2, <3>3
    <2>3. (p \o a) \o k = p \o (a \o k) /\ a \o k \in Seq(Symbols)
      BY <1>0, ConcatAssociative, ConcatProperties
    <2> DEFINE b == a \o k
               r == Decode(UriPath(b))
    <2>b. b \in Seq(Symbols) /\ RequestPath(q) = p \o b
      BY <2>2, <2>3
    <2> HIDE DEF b
    <2>4. Decode(UriPath(p \o b)) = p \o r /\ r \in Seq(Symbols)
      BY <1>0, <2>b, PathArrives
    <2> HIDE DEF r
    <2>5. Handler(p \o r) = "contents"
      BY <2>4, HandlersDiffer DEF p
    <2>6. QED  BY <1>1, <2>b, <2>4, <2>5 DEF HandlerFor
  <1>2. CASE q.op = "list"
    <2>1. q.text \in Seq(Symbols)
      BY <1>2, Ops, ExchangeAssumption
    <2> DEFINE u == <<"/", "list", "/">>
               r == Decode(UriPath(q.text))
    <2>2. RequestPath(q) = u \o q.text
      BY <1>2 DEF RequestPath
    <2>3. u \in Seq(Symbols) /\ Plain(u)
      BY SymbolsSpell
    <2> HIDE DEF u
    <2>4. Decode(UriPath(RequestPath(q))) = u \o r /\ r \in Seq(Symbols)
      BY <1>0, <2>1, <2>2, <2>3, PathArrives
    <2> HIDE DEF r
    <2>5. Handler(u \o r) = "list"
      BY <2>4, HandlersDiffer DEF u
    <2>6. QED  BY <1>2, <2>4, <2>5 DEF HandlerFor
  <1>3. CASE q.op = "root"
    <2>1. RequestPath(q) = a
      BY <1>3 DEF RequestPath, a
    <2>2. Decode(UriPath(a)) = a
      BY RootArrives DEF a
    <2>3. Handler(a) = "root"
      <3>1. <<>> \in Seq(Symbols)
        BY EmptySeq
      <3>2. QED  BY <3>1, HandlersDiffer DEF a
    <2>4. QED  BY <1>3, <2>1, <2>2, <2>3 DEF HandlerFor
  <1>4. QED  BY <1>1, <1>2, <1>3, Ops


LEMMA ReachNext ==
    ASSUME IInv, KnownPaths, RequestsReach, [Next]_vars
    PROVE  RequestsReach'
  <1>1. settings' = settings
    BY CallSteps
  <1>2. ASSUME NEW c \in Clients, NEW x, NEW m, Changed(c, x, m),
               m.phase = "request" => /\ m.scheme = settings.protocol
                                      /\ Handler(m.path) = HandlerFor(x.question)
        PROVE  RequestsReach'
    <2> SUFFICES ASSUME NEW d \in Clients, messages'[d].phase = "request"
                 PROVE  /\ messages'[d].scheme = settings.protocol
                        /\ Handler(messages'[d].path) = HandlerFor(calls'[d].question)
      BY <1>1 DEF RequestsReach, HandlerFor, Handler
    <2>1. CASE d = c
      BY <1>2, <2>1, OnlyThisCall
    <2>2. CASE d # c
      <3>1. messages'[d] = messages[d] /\ calls'[d] = calls[d]
        BY <1>2, <2>2, OnlyThisCall
      <3>2. /\ messages[d].scheme = settings.protocol
            /\ Handler(messages[d].path) = HandlerFor(calls[d].question)
        BY <3>1 DEF RequestsReach, HandlerFor
      <3>3. QED  BY <3>1, <3>2
    <2>3. QED  BY <2>1, <2>2
  <1>3. CASE UNCHANGED <<calls, messages>>
    BY <1>1, <1>3 DEF RequestsReach, Handler
  <1>4. ASSUME NEW c \in Clients, Ask(c)
        PROVE  RequestsReach'
    <2>1. PICK q \in Questions : Changed(c, Call("resolving", q), NoMessage)
      BY <1>4, AskEffect
    <2>2. NoMessage.phase # "request"
      BY NoMessageFields
    <2>3. QED  BY <1>2, <2>1, <2>2
  <1>5. ASSUME NEW c \in Clients, Send(c)
        PROVE  RequestsReach'
    <2> DEFINE q == calls[c].question
               x == Call("waiting", q)
               scheme == GetProtocol(AnnouncedType)
               path == Decode(UriPath(RequestPath(q)))
               m == Msg("request", scheme, path, "", "", <<>>, NoStream)
    <2>1. q \in Questions /\ Changed(c, x, m)
      BY <1>5, SendEffect
    <2>2. scheme = settings.protocol /\ Handler(path) = HandlerFor(q)
      BY <2>1, FoundAsAnnounced, RequestUnderstood
    <2> HIDE DEF scheme, path, q
    <2>3. x.question = q /\ m.scheme = scheme /\ m.path = path
      BY DEF Call, Msg
    <2> HIDE DEF x, m
    <2>4. QED  BY <1>2, <2>1, <2>2, <2>3
  <1>6. ASSUME NEW c \in Clients, NEW x, NEW m, Changed(c, x, m), Continues(c, x, m)
        PROVE  RequestsReach'
    BY <1>2, <1>6 DEF Continues
  <1>7. QED  BY <1>3, <1>4, <1>5, <1>6, CallSteps

(* Whatever the keys and patterns, escapes, slashes, question marks and number signs
   included: a request reaches a server that speaks the protocol of the announced type,
   and there the handler for its question, provided that the contents path is plain
   and not that of the listings (epc_publisher_get_path, epc_publisher_announce,
   epc_consumer_create_request, and the handlers that create_server installs). *)
THEOREM RequestsArrive ==
    ASSUME KnownPaths
    PROVE  Spec => []RequestsReach
  <1>1. Init => RequestsReach
    <2>1. Init => \A c \in Clients : messages[c].phase = "none"
      BY NoMessageFields DEF Init
    <2>2. QED  BY <2>1 DEF RequestsReach
  <1>2. IInv /\ RequestsReach /\ [Next]_vars => RequestsReach'
    BY ReachNext
  <1>3. QED  BY <1>1, <1>2, AlwaysIInv, PTL DEF Spec

-----------------------------------------------------------------------------
(* Exchange implements the abstract store. *)

(* What is needed besides KnownPaths, and what goes wrong otherwise: of a contents
   path of two components, epc_publisher_get_key takes the second for a part of the key;
   libsoup decodes a pattern that was not encoded; an empty key has no text for the
   parser of a listing; and without the hazards streams do not fail, every key in the
   table has a value, keys and patterns do not end the path of a URI, and links have no
   escapes. *)
OrdinaryUse ==
    /\ Hazards = {}
    /\ <<>> \notin Keys
    /\ \A p \in Patterns : Decode(p) = p
    /\ \A s \in Settings : OneComponent(Symbols, s.contentsPath)

LEMMA InitFinite == Init => FinitelyMany
  <1>1. Init => {k \in Keys : HasKey(k)} = {}
    BY DEF Init, HasKey
  <1>2. QED  BY <1>1, FS_EmptySet DEF FinitelyMany

LEMMA FiniteNext ==
    ASSUME IInv, FinitelyMany, [Next]_vars
    PROVE  FinitelyMany'
  <1> DEFINE P == {k \in Keys : resources[k] # Absent}
             Q == {k \in Keys : resources'[k] # Absent}
  <1>1. IsFiniteSet(P) /\ resources \in [Keys -> Resources \cup {Absent}]
    BY DEF FinitelyMany, HasKey, IInv, Typed
  <1>2. SUFFICES IsFiniteSet(Q)
    BY DEF FinitelyMany, HasKey
  <1>3. CASE resources' = resources
    BY <1>1, <1>3
  <1>4. ASSUME NEW k \in Keys, NEW r, resources' = [resources EXCEPT ![k] = r]
        PROVE  IsFiniteSet(Q)
    <2>1. Q \subseteq P \cup {k}
      BY <1>1, <1>4
    <2>2. IsFiniteSet(P \cup {k})
      BY <1>1, FS_AddElement
    <2> HIDE DEF P, Q
    <2>3. QED  BY <2>1, <2>2, FS_Subset
  <1>5. CASE \E k \in Keys : Add(k) \/ RemoveKey(k)
    BY <1>4, <1>5 DEF Add, RemoveKey
  <1>6. QED
    BY <1>3, <1>5 DEF Next, vars, DiskChanges, Ask, Unresolved, Send, HandleContents, HandleList,
       HandleRoot, ChunkCb, Finished, Aborted, Return

LEMMA InitValues == Init => AllHaveValues
  BY DEF Init, AllHaveValues, HasKey

LEMMA ValuesNext ==
    ASSUME IInv, OrdinaryUse, AllHaveValues, [Next]_vars
    PROVE  AllHaveValues'
  <1>0. resources \in [Keys -> Resources \cup {Absent}]
    BY DEF IInv, Typed
  <1>1. SUFFICES ASSUME NEW k \in Keys, resources'[k] # Absent
                 PROVE  ValueOf(resources[k])' # {}
    BY DEF AllHaveValues, HasKey
  <1>2. CASE resources'[k] = resources[k] /\ disk' = disk
    BY <1>1, <1>2 DEF AllHaveValues, HasKey, ValueOf
  <1>3. ASSUME NEW j \in Keys, Add(j)
        PROVE  ValueOf(resources[k])' # {}
    <2>1. disk' = disk
      BY <1>3 DEF Add
    <2>2. PICK r \in Resources : ValueOf(r) # {} /\ resources' = [resources EXCEPT ![j] = r]
      BY <1>3 DEF Add, OrdinaryUse
    <2>3. CASE j = k
      BY <1>0, <2>1, <2>2, <2>3 DEF ValueOf
    <2>4. CASE j # k
      BY <1>0, <1>2, <2>1, <2>2, <2>4
    <2>5. QED  BY <2>3, <2>4
  <1>4. ASSUME NEW j \in Keys, RemoveKey(j)
        PROVE  ValueOf(resources[k])' # {}
    <2>1. disk' = disk /\ resources' = [resources EXCEPT ![j] = Absent]
      BY <1>4 DEF RemoveKey
    <2>2. resources'[k] = resources[k]
      BY <1>0, <1>1, <2>1
    <2>3. QED  BY <1>2, <2>1, <2>2
  <1>5. CASE DiskChanges
    <2>1. resources' = resources /\ (disk' = {} => \A j \in Keys : resources[j].kind # "file")
      BY <1>5 DEF DiskChanges, OrdinaryUse
    <2>2. ValueOf(resources[k]) # {}
      BY <1>1, <2>1 DEF AllHaveValues, HasKey
    <2>3. CASE resources[k].kind = "file"
      BY <2>1, <2>3 DEF ValueOf
    <2>4. CASE resources[k].kind # "file"
      BY <2>1, <2>2, <2>4 DEF ValueOf
    <2>5. QED  BY <2>3, <2>4
  <1>6. CASE UNCHANGED <<resources, disk>>
    BY <1>2, <1>6
  <1>7. QED
    BY <1>3, <1>4, <1>5, <1>6 DEF Next, vars, Ask, Unresolved, Send, HandleContents, HandleList,
       HandleRoot, ChunkCb, Finished, Aborted, Return

(* The text of a question that needs no escapes, or gets them. *)
LEMMA RequestArrives ==
    ASSUME IInv, KnownPaths, OrdinaryUse, NEW q \in Questions, PlainQuestion(q)
    PROVE  Decode(UriPath(RequestPath(q))) = PathFor(q)
  <1> DEFINE p == settings.contentsPath
             a == <<"/">>
             k == q.text
  <1>0. /\ p \in Seq(Symbols) /\ OneComponent(Symbols, p) /\ Alphabet(Symbols)
        /\ FoundPath = p
    BY SettingsTyped, SymbolsSpell, FoundAsAnnounced DEF OrdinaryUse
  <1> HIDE DEF p
  <1>1. CASE q.op \in {"lookup", "link"}
    <2>1. k \in Seq(Symbols)
      BY <1>1, Ops, ExchangeAssumption
    <2>2. \A i \in 1..Len(k) : k[i] \notin Ends
      <3>1. q.op # "root" /\ DOMAIN k = 1..Len(k)
        BY <1>1, <2>1, LenProperties
      <3>2. QED  BY <3>1 DEF PlainQuestion, PlainText, Ends
    <2>3. PathFor(q) = (p \o a) \o k
      BY <1>1 DEF PathFor, p
    <2>4. CASE q.op = "lookup"
      <3>1. RequestPath(q) = KeyPath(p, k)
        BY <1>0, <2>4 DEF RequestPath
      <3> HIDE DEF k
      <3>2. QED  BY <1>0, <2>1, <2>2, <2>3, <3>1, KeyArrives
    <2>5. CASE q.op = "link"
      <3>1. RequestPath(q) = (p \o a) \o k
        BY <2>5 DEF RequestPath, p
      <3>2. \A i \in 1..Len(k) : k[i] # "%"
        <4>1. DOMAIN k = 1..Len(k)
          BY <2>1, LenProperties
        <4>2. "%" \notin ToSet(k)
          BY <2>5 DEF PlainQuestion
        <4>3. QED  BY <4>1, <4>2 DEF ToSet
      <3> HIDE DEF k
      <3>3. QED  BY <1>0, <2>1, <2>2, <2>3, <3>1, <3>2, KeyArrives
    <2>6. QED  BY <1>1, <2>4, <2>5
  <1>2. CASE q.op = "list"
    <2>1. k \in Seq(Symbols) /\ k \in Patterns
      BY <1>2, Ops, ExchangeAssumption
    <2>2. \A i \in 1..Len(k) : k[i] \notin Ends
      <3>1. q.op # "root" /\ DOMAIN k = 1..Len(k)
        BY <1>2, <2>1, LenProperties
      <3>2. QED  BY <3>1 DEF PlainQuestion, PlainText, Ends
    <2> DEFINE u == <<"/", "list", "/">>
    <2>3. RequestPath(q) = u \o k /\ PathFor(q) = u \o k
      BY <1>2 DEF RequestPath, PathFor
    <2>4. u \in Seq(Symbols) /\ Plain(u)
      BY SymbolsSpell
    <2> HIDE DEF u, k
    <2>5. UriPath(k) = k /\ Decode(k) = k
      BY <2>1, <2>2, UriPathPlain DEF OrdinaryUse
    <2>6. Decode(UriPath(u \o k)) = u \o Decode(UriPath(k))
      BY <1>0, <2>1, <2>4, PathArrives
    <2>7. QED  BY <2>3, <2>5, <2>6
  <1>3. CASE q.op = "root"
    BY <1>3, RootArrives DEF RequestPath, PathFor
  <1>4. QED  BY <1>1, <1>2, <1>3, Ops

LEMMA InitAsAsked == Init => AsAsked
  <1>1. Init => \A c \in Clients : calls[c].phase = "idle" /\ messages[c].phase = "none"
    <2>1. Idle.phase = "idle"
      BY DEF Idle
    <2>2. QED  BY <2>1, NoMessageFields DEF Init
  <1>2. QED  BY <1>1 DEF AsAsked

LEMMA AsAskedNext ==
    ASSUME IInv, KnownPaths, OrdinaryUse, RequestsReach, AsAsked, [Next]_vars
    PROVE  AsAsked'
  <1>1. settings' = settings
    BY CallSteps
  <1>2. ASSUME NEW c \in Clients, NEW x, NEW m, Changed(c, x, m),
               x.phase # "idle" => PlainQuestion(x.question),
               m.phase = "request" => m.path = PathFor(x.question),
               m.phase = "writing" => x.question.op \in {"lookup", "link"}
        PROVE  AsAsked'
    <2>1. SUFFICES ASSUME NEW d \in Clients
                   PROVE  /\ calls'[d].phase # "idle" => PlainQuestion(calls'[d].question)
                          /\ messages'[d].phase = "request" =>
                                 messages'[d].path = PathFor(calls'[d].question)
                          /\ messages'[d].phase = "writing" =>
                                 calls'[d].question.op \in {"lookup", "link"}
      BY <1>1 DEF AsAsked, PathFor
    <2>2. CASE d = c
      BY <1>2, <2>2, OnlyThisCall
    <2>3. CASE d # c
      <3>1. messages'[d] = messages[d] /\ calls'[d] = calls[d]
        BY <1>2, <2>3, OnlyThisCall
      <3>2. QED  BY <3>1 DEF AsAsked
    <2>4. QED  BY <2>2, <2>3
  <1>3. CASE UNCHANGED <<calls, messages>>
    BY <1>1, <1>3 DEF AsAsked, PathFor
  <1>4. ASSUME NEW c \in Clients, Ask(c)
        PROVE  AsAsked'
    <2>1. PICK q \in Questions : /\ Changed(c, Call("resolving", q), NoMessage)
                                 /\ (q.op # "root" /\ ~PlainText(q.text)) =>
                                        "query_chars" \in Hazards
                                 /\ (q.op = "link" /\ "%" \in ToSet(q.text)) =>
                                        "link_escapes" \in Hazards
      BY <1>4, AskEffect
    <2>2. PlainQuestion(q)
      BY <2>1 DEF PlainQuestion, OrdinaryUse
    <2> DEFINE x == Call("resolving", q)
    <2>3. x.question = q
      BY DEF Call
    <2> HIDE DEF x
    <2>4. NoMessage.phase \notin {"request", "writing"}
      BY NoMessageFields
    <2>5. QED  BY <1>2, <2>1, <2>2, <2>3, <2>4 DEF x
  <1>5. ASSUME NEW c \in Clients, Send(c)
        PROVE  AsAsked'
    <2> DEFINE q == calls[c].question
               x == Call("waiting", q)
               scheme == GetProtocol(AnnouncedType)
               path == Decode(UriPath(RequestPath(q)))
               m == Msg("request", scheme, path, "", "", <<>>, NoStream)
    <2>1. q \in Questions /\ Changed(c, x, m)
      BY <1>5, SendEffect
    <2>2. PlainQuestion(q)
      BY <1>5 DEF AsAsked, Send
    <2>3. path = PathFor(q)
      BY <2>1, <2>2, RequestArrives
    <2> HIDE DEF scheme, path, q
    <2>4. x.question = q /\ m.path = path /\ m.phase = "request"
      BY DEF Call, Msg
    <2> HIDE DEF x, m
    <2>5. QED  BY <1>2, <2>1, <2>2, <2>3, <2>4
  <1>6. ASSUME NEW c \in Clients, NEW x, NEW m, Changed(c, x, m), Continues(c, x, m)
        PROVE  AsAsked'
    <2>1. PlainQuestion(x.question) /\ m.phase # "request"
      BY <1>6 DEF Continues, AsAsked
    <2>2. ASSUME m.phase = "writing" PROVE x.question.op \in {"lookup", "link"}
      <3>1. CASE messages[c].phase = "writing"
        BY <1>6, <3>1 DEF Continues, AsAsked
      <3>2. CASE Request(c, "contents")
        <4>1. HandlerFor(calls[c].question) = "contents"
          BY <3>2 DEF Request, RequestsReach, HandlerFor
        <4>2. QED  BY <1>6, <4>1 DEF HandlerFor, Continues
      <3>3. QED  BY <1>6, <2>2, <3>1, <3>2 DEF Continues
    <2>3. QED  BY <1>2, <1>6, <2>1, <2>2
  <1>7. QED  BY <1>3, <1>4, <1>5, <1>6, CallSteps

(* What the call of a client is for the store. *)
AskedCall(q) == [phase |-> "asked", question |-> q]
FailedCall == [phase |-> "failed"]
BoundCall(q, a) == [phase |-> "bound", question |-> q, answer |-> a]
ReturnedCall(q, a) == [phase |-> "returned", question |-> q, answer |-> a]

ResultOf(q, m, rest) ==
    IF m.status # "ok" THEN {}
    ELSE CASE q.op = "list" -> ParseList(m.body)
           [] q.op = "root" -> UNION {GetKey(h) : h \in ToSet(m.body)}
           [] OTHER -> {m.body \o rest}

View(x, m) ==
    CASE x.phase = "idle" -> Idle
      [] x.phase = "failed" -> FailedCall
      [] x.phase = "resolving" -> AskedCall(x.question)
      [] x.phase = "returned" -> ReturnedCall(x.question, x.result)
      [] m.phase = "request" -> AskedCall(x.question)
      [] m.status = "error" -> FailedCall
      [] OTHER -> BoundCall(x.question, ResultOf(x.question, m, m.stream.left))

LEMMA ViewOfCall ==
    ASSUME NEW c
    PROVE  CallAsAsked(c) = View(calls[c], messages[c])
  BY DEF CallAsAsked, View, AskedCall, FailedCall, BoundCall, ReturnedCall, Result, ResultOf

LEMMA ViewOfNextCall ==
    ASSUME NEW c
    PROVE  CallAsAsked(c)' = View(calls'[c], messages'[c])
  BY DEF CallAsAsked, View, AskedCall, FailedCall, BoundCall, ReturnedCall, Result, ResultOf

LEMMA Views ==
    ASSUME NEW x, NEW m, CallOK(x, m)
    PROVE  /\ x.phase = "idle" => View(x, m) = Idle
           /\ x.phase = "failed" => View(x, m) = FailedCall
           /\ x.phase = "resolving" => View(x, m) = AskedCall(x.question)
           /\ x.phase = "returned" => View(x, m) = ReturnedCall(x.question, x.result)
           /\ m.phase = "request" => View(x, m) = AskedCall(x.question)
           /\ x.phase = "waiting" /\ m.phase = "finished" /\ m.status = "error"
                => View(x, m) = FailedCall
           /\ x.phase = "waiting" /\ m.phase # "request" /\ m.status # "error"
                => View(x, m) = BoundCall(x.question, ResultOf(x.question, m, m.stream.left))
  <1>1. CASE NotSent(x, m)
    <2>1. m.phase = "none" /\ m.status = ""
      BY <1>1, NoMessageFields DEF NotSent
    <2>2. QED  BY <1>1, <2>1 DEF View, NotSent
  <1>2. CASE Sent(x, m)
    BY <1>2 DEF View, Sent
  <1>3. CASE BeingWritten(x, m)
    BY <1>3 DEF View, BeingWritten
  <1>4. CASE Answered(x, m)
    BY <1>4 DEF View, Answered
  <1>5. CASE Over(x, m)
    BY <1>5 DEF View, Over
  <1>6. QED  BY <1>1, <1>2, <1>3, <1>4, <1>5 DEF CallOK

(* The variables of the store, and what a step of one call does to them. *)
LEMMA StoreSteps ==
    ASSUME IInv, NEW c \in Clients, NEW x, NEW m, Changed(c, x, m), SamePublisher
    PROVE  /\ Published' = Published
           /\ [d \in Clients |-> CallAsAsked(d)]' =
                [[d \in Clients |-> CallAsAsked(d)] EXCEPT ![c] = View(x, m)]
           /\ [d \in Clients |-> CallAsAsked(d)][c] = View(calls[c], messages[c])
  <1>1. Published' = Published
    BY DEF SamePublisher, Published, HasKey, ValueOf
  <1>2. ASSUME NEW d \in Clients
        PROVE  CallAsAsked(d)' = IF d = c THEN View(x, m) ELSE CallAsAsked(d)
    <2>1. CallAsAsked(d)' = View(calls'[d], messages'[d])
      BY ViewOfNextCall
    <2>2. CallAsAsked(d) = View(calls[d], messages[d])
      BY ViewOfCall
    <2>3. CASE d = c
      BY <2>1, <2>3, OnlyThisCall
    <2>4. CASE d # c
      BY <2>1, <2>2, <2>4, OnlyThisCall
    <2>5. QED  BY <2>3, <2>4
  <1>3. [d \in Clients |-> CallAsAsked(d)][c] = View(calls[c], messages[c])
    BY ViewOfCall
  <1>4. [d \in Clients |-> CallAsAsked(d)]' = [d \in Clients |-> CallAsAsked(d)']
    OBVIOUS
  <1>5. QED  BY <1>1, <1>2, <1>3, <1>4

StoreVars == <<Published, [d \in Clients |-> CallAsAsked(d)]>>

LEMMA Stutters ==
    ASSUME IInv, NEW c \in Clients, NEW x, NEW m, Changed(c, x, m), SamePublisher,
           View(x, m) = View(calls[c], messages[c])
    PROVE  UNCHANGED StoreVars
  <1> DEFINE F == [d \in Clients |-> CallAsAsked(d)]
  <1>1. /\ Published' = Published
        /\ F' = [F EXCEPT ![c] = View(x, m)]
        /\ F[c] = View(calls[c], messages[c])
    BY StoreSteps
  <1>2. F = [d \in Clients |-> F[d]]
    OBVIOUS
  <1>3. F' = F
    <2> HIDE DEF F
    <2>1. QED  BY <1>1, <1>2
  <1>4. QED  BY <1>1, <1>3 DEF StoreVars

LEMMA AsksStore ==
    ASSUME IInv, NEW c \in Clients, NEW x, NEW m, Changed(c, x, m), SamePublisher,
           View(calls[c], messages[c]).phase \in {"idle", "returned", "failed"},
           NEW q \in Questions, View(x, m) = AskedCall(q)
    PROVE  S!Ask(c, q)
  BY StoreSteps DEF S!Ask, AskedCall

LEMMA BindsAnswer ==
    ASSUME IInv, NEW c \in Clients, NEW x, NEW m, Changed(c, x, m), SamePublisher,
           NEW q, View(calls[c], messages[c]) = AskedCall(q),
           View(x, m) = BoundCall(q, AnswerOf(Published, q))
    PROVE  S!Bind(c)
  <1> DEFINE F == [d \in Clients |-> CallAsAsked(d)]
             a == AnswerOf(Published, q)
  <1>1. /\ Published' = Published
        /\ F' = [F EXCEPT ![c] = BoundCall(q, a)]
        /\ F[c] = AskedCall(q)
    BY StoreSteps
  <1>2. F[c].phase = "asked" /\ F[c].question = q
    BY <1>1 DEF AskedCall
  <1>3. AnswerOf(Published, F[c].question) = a
    BY <1>2
  <1> HIDE DEF a
  <1>4. QED  BY <1>1, <1>2, <1>3 DEF S!Bind, BoundCall

LEMMA ReturnsAnswer ==
    ASSUME IInv, NEW c \in Clients, NEW x, NEW m, Changed(c, x, m), SamePublisher,
           NEW q, NEW a, View(calls[c], messages[c]) = BoundCall(q, a),
           View(x, m) = ReturnedCall(q, a)
    PROVE  S!Return(c)
  <1> DEFINE F == [d \in Clients |-> CallAsAsked(d)]
  <1>1. /\ Published' = Published
        /\ F' = [F EXCEPT ![c] = ReturnedCall(q, a)]
        /\ F[c] = BoundCall(q, a)
    BY StoreSteps
  <1>2. F[c].phase = "bound"
    BY <1>1 DEF BoundCall
  <1>3. [F[c] EXCEPT !.phase = "returned"] = ReturnedCall(q, a)
    BY <1>1 DEF BoundCall, ReturnedCall
  <1>4. QED  BY <1>1, <1>2, <1>3 DEF S!Return

LEMMA FailsStore ==
    ASSUME IInv, NEW c \in Clients, NEW x, NEW m, Changed(c, x, m), SamePublisher,
           View(calls[c], messages[c]).phase \in {"asked", "bound"},
           View(x, m) = FailedCall
    PROVE  S!Fail(c)
  BY StoreSteps DEF S!Fail, FailedCall

(* A listing has each key once, and no others. *)
LEMMA SequenceOfSet ==
    ASSUME NEW T, IsFiniteSet(T)
    PROVE  ToSet(SetToSeq(T)) = T
  <1> DEFINE n == Cardinality(T)
             f == SetToSeq(T)
  <1>1. n \in Nat /\ ExistsBijection(1..n, T)
    BY FS_CardinalityType
  <1>2. \E g \in [1..n -> T] : IsInjective(g)
    BY <1>1 DEF ExistsBijection, Bijection, Injection
  <1>3. f \in [1..n -> T] /\ IsInjective(f)
    BY <1>2 DEF SetToSeq
  <1> HIDE DEF f
  <1>4. f \in Injection(1..n, T)
    BY <1>3 DEF Injection
  <1>5. IsFiniteSet(1..n) /\ Cardinality(1..n) = n
    <2>1. 1 \in Int /\ n \in Int /\ (IF 1 > n THEN 0 ELSE n - 1 + 1) = n
      BY <1>1
    <2> HIDE DEF n
    <2>2. QED  BY <2>1, FS_Interval
  <1>6. f \in Surjection(1..n, T)
    BY <1>4, <1>5, FS_Injection
  <1>7. ToSet(f) = T
    BY <1>3, <1>6 DEF Surjection, ToSet
  <1>8. QED  BY <1>7 DEF f

LEMMA ListFinite ==
    ASSUME FinitelyMany, NEW pattern
    PROVE  IsFiniteSet(List(pattern)) /\ List(pattern) \subseteq Keys
  <1>1. List(pattern) \subseteq {k \in Keys : HasKey(k)}
    BY DEF List
  <1>2. QED  BY <1>1, FS_Subset DEF FinitelyMany

(* What the store holds is what the handlers of the resources return now. *)
LEMMA PublishedAt ==
    ASSUME NEW k \in Keys
    PROVE  Published[k] = ValueOf(resources[k])
  BY DEF Published

LEMMA ValueCases ==
    ASSUME IInv, NEW k \in Keys
    PROVE  /\ ValueOf(resources[k]) \in {{}} \cup {{v} : v \in Values}
           /\ ~HasKey(k) => ValueOf(resources[k]) = {}
           /\ resources[k].kind = "stream" => /\ ValueOf(resources[k]) = {resources[k].value}
                                              /\ resources[k].value \in Values
  <1>1. resources[k] \in Resources \cup {Absent} /\ disk \in {{}} \cup {{v} : v \in Values}
    BY DEF IInv, Typed
  <1>2. CASE resources[k] \in [kind : {"static", "stream"}, value : Values]
    <2>1. resources[k].kind \in {"static", "stream"} /\ resources[k].value \in Values
      BY <1>2
    <2>2. ValueOf(resources[k]) = {resources[k].value}
      BY <2>1 DEF ValueOf
    <2>3. HasKey(k)
      BY <2>1 DEF HasKey, Absent
    <2>4. QED  BY <2>1, <2>2, <2>3
  <1>3. CASE resources[k] \in [kind : {"file", "null"}]
    <2>1. resources[k].kind \in {"file", "null"}
      BY <1>3
    <2>2. ValueOf(resources[k]) \in {disk, {}}
      BY <2>1 DEF ValueOf
    <2>3. HasKey(k)
      BY <2>1 DEF HasKey, Absent
    <2>4. QED  BY <1>1, <2>1, <2>2, <2>3
  <1>4. CASE resources[k] = Absent
    <2>1. resources[k].kind = "absent"
      BY <1>4 DEF Absent
    <2>2. QED  BY <2>1 DEF ValueOf
  <1>5. QED  BY <1>1, <1>2, <1>3, <1>4 DEF Resources

LEMMA ListedAt ==
    ASSUME IInv, AllHaveValues, NEW k \in Keys
    PROVE  Published[k] # {} <=> HasKey(k)
  BY PublishedAt, ValueCases DEF AllHaveValues

LEMMA PublishedTyped ==
    ASSUME NEW res, NEW file \in {{}} \cup {{v} : v \in Values},
           res \in [Keys -> Resources \cup {Absent}],
           NEW store,
           store = [k \in Keys |-> CASE res[k].kind \in {"static", "stream"} -> {res[k].value}
                                     [] res[k].kind = "file" -> file
                                     [] OTHER -> {}]
    PROVE  store \in StoreContents
  <1> DEFINE value(k) == CASE res[k].kind \in {"static", "stream"} -> {res[k].value}
                           [] res[k].kind = "file" -> file
                           [] OTHER -> {}
  <1>1. ASSUME NEW k \in Keys
        PROVE  value(k) \in {{}} \cup {{v} : v \in Values}
    <2>1. res[k] \in Resources \cup {Absent}
      OBVIOUS
    <2>2. CASE res[k] \in [kind : {"static", "stream"}, value : Values]
      <3>1. res[k].kind \in {"static", "stream"} /\ res[k].value \in Values
        BY <2>2
      <3>2. value(k) = {res[k].value}
        BY <3>1
      <3>3. QED  BY <3>1, <3>2
    <2>3. CASE res[k] \in [kind : {"file", "null"}]
      <3>1. res[k].kind \in {"file", "null"}
        BY <2>3
      <3>2. value(k) \in {file, {}}
        BY <3>1
      <3>3. QED  BY <3>2
    <2>4. CASE res[k] = Absent
      <3>1. res[k].kind = "absent"
        BY <2>4 DEF Absent
      <3>2. value(k) = {}
        BY <3>1
      <3>3. QED  BY <3>2
    <2>5. QED  BY <2>1, <2>2, <2>3, <2>4 DEF Resources
  <1>2. store = [k \in Keys |-> value(k)]
    OBVIOUS
  <1> HIDE DEF value
  <1>3. QED  BY <1>1, <1>2 DEF StoreContents

-----------------------------------------------------------------------------
(* The handlers bind a call to its answer. *)

LEMMA Handled ==
    ASSUME IInv, RequestsReach, AsAsked, NEW c \in Clients, NEW h, Request(c, h)
    PROVE  /\ messages[c].phase = "request"
           /\ calls[c].question \in Questions
           /\ HandlerFor(calls[c].question) = h
           /\ messages[c].path = PathFor(calls[c].question)
           /\ View(calls[c], messages[c]) = AskedCall(calls[c].question)
           /\ calls[c].phase = "waiting"
  <1>1. messages[c].phase = "request" /\ Handler(messages[c].path) = h
    BY DEF Request
  <1>2. CallOK(calls[c], messages[c])
    BY DEF IInv
  <1>3. calls[c].phase = "waiting"
    BY <1>1, <1>2, PhaseOfMessage DEF Sent
  <1>4. HandlerFor(calls[c].question) = h
    BY <1>1 DEF RequestsReach, HandlerFor
  <1>5. QED  BY <1>1, <1>2, <1>3, <1>4, PhaseOfCall, Views DEF AsAsked

(* A response with the answer to the question. *)
LEMMA ResponseBinds ==
    ASSUME IInv, NEW c \in Clients, NEW q, NEW status \in {"ok", "not_found"}, NEW body,
           messages[c].phase = "request", Respond(c, status, body),
           UNCHANGED <<settings, resources, disk, calls, budget>>,
           View(calls[c], messages[c]) = AskedCall(q), calls[c].question = q,
           NEW m, m = Msg("complete", messages[c].scheme, messages[c].path,
                          status, "", body, NoStream),
           ResultOf(q, m, <<>>) = AnswerOf(Published, q)
    PROVE  S!Bind(c)
  <1>1. Sent(calls[c], messages[c]) /\ Changed(c, calls[c], m)
    BY RespondEffect
  <1>2. CallShape(calls[c]) /\ calls[c].phase = "waiting"
    BY <1>1 DEF IInv, CallOK, Sent
  <1>3. CallOK(calls[c], m)
    BY <1>2, AnsweredOK, NoStreamOK, NothingLeft
  <1> DEFINE n == NoStream
  <1>4. m.phase = "complete" /\ m.status = status /\ m.stream = n
    <2> HIDE DEF n
    <2>1. QED  BY DEF Msg, n
  <1>5. n.left = <<>>
    BY NothingLeft
  <1> HIDE DEF n
  <1>6. View(calls[c], m) = BoundCall(q, ResultOf(q, m, m.stream.left))
    BY <1>2, <1>3, <1>4, Views
  <1>7. View(calls[c], m) = BoundCall(q, AnswerOf(Published, q))
    BY <1>4, <1>5, <1>6
  <1>8. QED  BY <1>1, <1>7, BindsAnswer DEF SamePublisher

LEMMA RequestedKey ==
    ASSUME IInv, OrdinaryUse, NEW c \in Clients, NEW k \in Keys,
           messages[c].path = (settings.contentsPath \o <<"/">>) \o k
    PROVE  Requested(c) = IF HasKey(k) THEN {k} ELSE {}
  <1>1. OneComponent(Symbols, settings.contentsPath) /\ k \in Seq(Symbols) /\ Alphabet(Symbols)
    BY SettingsTyped, SymbolsSpell, ExchangeAssumption DEF OrdinaryUse
  <1>2. GetKey(messages[c].path) = {k}
    BY <1>1, GetKeyBehind
  <1>3. QED  BY <1>2 DEF Requested

LEMMA ContentsBind ==
    ASSUME IInv, OrdinaryUse, RequestsReach, AsAsked, NEW c \in Clients, HandleContents(c)
    PROVE  S!Bind(c)
  <1> DEFINE q == calls[c].question
             k == q.text
  <1>1. /\ messages[c].phase = "request" /\ Request(c, "contents")
        /\ UNCHANGED <<settings, resources, disk, calls, budget>>
    BY DEF HandleContents, Request
  <1>2. /\ q \in Questions /\ HandlerFor(q) = "contents" /\ messages[c].path = PathFor(q)
        /\ View(calls[c], messages[c]) = AskedCall(q) /\ calls[c].phase = "waiting"
    BY <1>1, Handled
  <1>3. q.op \in {"lookup", "link"} /\ k \in Keys
    BY <1>2, Ops DEF HandlerFor
  <1>4. Requested(c) = IF HasKey(k) THEN {k} ELSE {}
    BY <1>2, <1>3, RequestedKey DEF PathFor
  <1>5. AnswerOf(Published, q) = ValueOf(resources[k])
    BY <1>3, PublishedAt DEF AnswerOf
  <1>6. ASSUME NEW m
        PROVE  /\ m.status = "ok" => \A rest : ResultOf(q, m, rest) = {m.body \o rest}
               /\ m.status = "not_found" => \A rest : ResultOf(q, m, rest) = {}
    BY <1>3 DEF ResultOf
  <1>7. ASSUME NEW r \in Requested(c), resources[r].kind = "stream",
               messages' = [messages EXCEPT
                 ![c].phase = "writing", ![c].status = "ok", ![c].signal = "wrote-headers",
                 ![c].stream = [NoStream EXCEPT !.left = resources[r].value]]
        PROVE  S!Bind(c)
    <2>1. r = k
      BY <1>4
    <2> DEFINE v == resources[r].value
               s == [left |-> v, buffer |-> 0, size |-> 0]
               m == Msg("writing", messages[c].scheme, messages[c].path, "ok",
                        "wrote-headers", <<>>, s)
    <2>2. v \in Seq(Parts) /\ ValueOf(resources[k]) = {v}
      BY <1>3, <1>7, <2>1, ValueCases, ExchangeAssumption
    <2>3. Sent(calls[c], messages[c]) /\ Changed(c, calls[c], m)
      BY <1>1, <1>7, StreamEffect
    <2>4. CallShape(calls[c])
      BY DEF IInv, CallOK
    <2> HIDE DEF v
    <2>5. StreamOK(s) /\ s.left = v
      <3>1. 0 % Page = 0
        BY ExchangeAssumption
      <3>2. QED  BY <2>2, <3>1 DEF StreamOK, Streams
    <2>6. <<>> \in Seq(Parts)
      BY EmptySeq
    <2> HIDE DEF s
    <2>7. CallOK(calls[c], m)
      BY <1>2, <2>4, <2>5, <2>6, WritingOK
    <2>8. m.phase = "writing" /\ m.status = "ok" /\ m.body = <<>> /\ m.stream = s
      BY DEF Msg
    <2> HIDE DEF m, q
    <2>9. View(calls[c], m) = BoundCall(q, ResultOf(q, m, m.stream.left))
      BY <1>2, <2>7, <2>8, Views DEF q
    <2>10. <<>> \o v = v
      BY <2>2, ConcatEmptySeq
    <2>11. ResultOf(q, m, m.stream.left) = {v}
      BY <1>6, <2>5, <2>8, <2>10
    <2>12. View(calls[c], m) = BoundCall(q, AnswerOf(Published, q))
      BY <1>5, <2>2, <2>9, <2>11
    <2>13. QED  BY <1>1, <1>2, <2>3, <2>12, BindsAnswer DEF SamePublisher
  <1>8. ASSUME NEW r \in Requested(c), NEW v \in ValueOf(resources[r]), Respond(c, "ok", v)
        PROVE  S!Bind(c)
    <2>1. r = k
      BY <1>4
    <2>2. v \in Values /\ ValueOf(resources[k]) = {v}
      BY <1>3, <1>8, <2>1, ValueCases
    <2> DEFINE n == NoStream
               m == Msg("complete", messages[c].scheme, messages[c].path, "ok", "", v, n)
    <2>3. m.status = "ok" /\ m.body = v
      <3> HIDE DEF n
      <3>1. QED  BY DEF Msg
    <2>4. v \o <<>> = v
      BY <2>2, ConcatEmptySeq, ExchangeAssumption
    <2> DEFINE status == "ok"
    <2>5. status \in {"ok", "not_found"} /\ Respond(c, status, v)
          /\ m = Msg("complete", messages[c].scheme, messages[c].path, status, "", v, NoStream)
      BY <1>8
    <2> HIDE DEF m, n, status, q
    <2>6. ResultOf(q, m, <<>>) = AnswerOf(Published, q)
      BY <1>5, <1>6, <2>2, <2>3, <2>4
    <2>7. calls[c].question = q
      BY DEF q
    <2>8. QED  BY <1>1, <1>2, <2>5, <2>6, <2>7, ResponseBinds
  <1>9. ASSUME \A r \in Requested(c) : ValueOf(resources[r]) = {}, Respond(c, "not_found", <<>>)
        PROVE  S!Bind(c)
    <2>1. ValueOf(resources[k]) = {}
      <3>1. CASE HasKey(k)
        BY <1>4, <1>9, <3>1
      <3>2. CASE ~HasKey(k)
        BY <1>3, <3>2, ValueCases
      <3>3. QED  BY <3>1, <3>2
    <2> DEFINE n == NoStream
               e == <<>>
               m == Msg("complete", messages[c].scheme, messages[c].path, "not_found", "", e, n)
               status == "not_found"
    <2>2. m.status = "not_found"
      <3> HIDE DEF n
      <3>1. QED  BY DEF Msg
    <2>3. status \in {"ok", "not_found"} /\ Respond(c, status, e)
          /\ m = Msg("complete", messages[c].scheme, messages[c].path, status, "", e, NoStream)
      BY <1>9
    <2> HIDE DEF m, n, status, q, e
    <2>4. ResultOf(q, m, <<>>) = AnswerOf(Published, q)
      BY <1>5, <1>6, <2>1, <2>2
    <2>5. calls[c].question = q
      BY DEF q
    <2>6. QED  BY <1>1, <1>2, <2>3, <2>4, <2>5, ResponseBinds
  <1>10. QED  BY <1>7, <1>8, <1>9 DEF HandleContents

LEMMA ListBinds ==
    ASSUME IInv, OrdinaryUse, RequestsReach, AsAsked, FinitelyMany, AllHaveValues,
           NEW c \in Clients, HandleList(c)
    PROVE  S!Bind(c)
  <1> DEFINE q == calls[c].question
             k == q.text
             keys == List(k)
             body == SetToSeq(keys)
  <1>1. /\ messages[c].phase = "request" /\ Request(c, "list")
        /\ UNCHANGED <<settings, resources, disk, calls, budget>>
    BY DEF HandleList, Request
  <1>2. /\ q \in Questions /\ HandlerFor(q) = "list" /\ messages[c].path = PathFor(q)
        /\ View(calls[c], messages[c]) = AskedCall(q)
    BY <1>1, Handled
  <1>3. q.op = "list" /\ k \in Patterns /\ k \in Seq(Symbols)
    BY <1>2, Ops, ExchangeAssumption DEF HandlerFor
  <1>4. PatternOf(messages[c].path) = k
    <2> DEFINE u == <<"/", "list", "/">>
    <2>1. u \in Seq(Symbols) /\ k \in Seq(Symbols)
      BY <1>3, SymbolsSpell
    <2>0. Len(u) + 1 = 4
      OBVIOUS
    <2>2. messages[c].path = u \o k
      BY <1>2, <1>3 DEF PathFor
    <2>3. PatternOf(messages[c].path) =
            IF IsPrefix(u, messages[c].path)
            THEN SubSeq(messages[c].path, 4, Len(messages[c].path)) ELSE <<>>
      BY DEF PatternOf
    <2> HIDE DEF u, k
    <2>4. IsPrefix(u, u \o k) /\ SubSeq(u \o k, Len(u) + 1, Len(u \o k)) = k
      BY <2>1, Parts2
    <2>5. QED  BY <2>2, <2>3, <2>4, <2>0
  <1>5. Respond(c, "ok", body)
    BY <1>4 DEF HandleList, ListBody
  <1>6. ToSet(body) = keys
    BY ListFinite, SequenceOfSet
  <1>7. keys \subseteq Keys
    BY ListFinite
  <1>8. AnswerOf(Published, q) = keys
    <2>1. AnswerOf(Published, q) = {j \in Keys : Published[j] # {} /\ (k = <<>> \/ Match(k, j))}
      BY <1>3 DEF AnswerOf
    <2>2. QED  BY <2>1, ListedAt DEF List
  <1> HIDE DEF keys, body
  <1>9. ParseList(body) = keys
    <2>1. \A i \in DOMAIN body : body[i] \in keys
      BY <1>6 DEF ToSet
    <2>2. \A i \in DOMAIN body : ItemName(body, i) = body[i]
      BY <1>7, <2>1 DEF ItemName, OrdinaryUse
    <2>3. QED  BY <1>6, <2>2 DEF ParseList, ToSet
  <1> DEFINE n == NoStream
             status == "ok"
             m == Msg("complete", messages[c].scheme, messages[c].path, status, "", body, n)
  <1>10. m.status = "ok" /\ m.body = body
    <2> HIDE DEF n
    <2>1. QED  BY DEF Msg
  <1>11. status \in {"ok", "not_found"} /\ Respond(c, status, body)
         /\ m = Msg("complete", messages[c].scheme, messages[c].path, status, "", body, NoStream)
    BY <1>5
  <1> HIDE DEF m, n, status
  <1>12. ResultOf(q, m, <<>>) = AnswerOf(Published, q)
    BY <1>3, <1>8, <1>9, <1>10 DEF ResultOf
  <1>13. calls[c].question = q
    OBVIOUS
  <1> HIDE DEF q
  <1>14. QED  BY <1>1, <1>2, <1>11, <1>12, <1>13, ResponseBinds

LEMMA RootBinds ==
    ASSUME IInv, OrdinaryUse, RequestsReach, AsAsked, FinitelyMany, AllHaveValues,
           NEW c \in Clients, HandleRoot(c)
    PROVE  S!Bind(c)
  <1> DEFINE q == calls[c].question
             keys == List(<<>>)
             link(k) == (settings.contentsPath \o <<"/">>) \o k
             links == {link(k) : k \in keys}
             body == SetToSeq(links)
  <1>1. /\ messages[c].phase = "request" /\ Request(c, "root")
        /\ UNCHANGED <<settings, resources, disk, calls, budget>>
    BY DEF HandleRoot, Request
  <1>2. /\ q \in Questions /\ HandlerFor(q) = "root" /\ messages[c].path = PathFor(q)
        /\ View(calls[c], messages[c]) = AskedCall(q)
    BY <1>1, Handled
  <1>3. q.op = "root"
    BY <1>2, Ops DEF HandlerFor
  <1>4. messages[c].path = <<"/">>
    BY <1>2, <1>3 DEF PathFor
  <1>5. Respond(c, "ok", body)
    BY <1>4 DEF HandleRoot
  <1>6. \A k \in keys : GetKey(link(k)) = {k}
    <2> SUFFICES ASSUME NEW k \in keys PROVE GetKey(link(k)) = {k}
      OBVIOUS
    <2>1. OneComponent(Symbols, settings.contentsPath) /\ Alphabet(Symbols)
      BY SettingsTyped, SymbolsSpell DEF OrdinaryUse
    <2>2. k \in Seq(Symbols)
      BY ListFinite, ExchangeAssumption
    <2>3. QED  BY <2>1, <2>2, GetKeyBehind
  <1>7. IsFiniteSet(keys)
    BY ListFinite
  <1>8. AnswerOf(Published, q) = keys
    <2>1. AnswerOf(Published, q) = {j \in Keys : Published[j] # {}}
      BY <1>3 DEF AnswerOf
    <2>2. QED  BY <2>1, ListedAt DEF List
  <1> HIDE DEF keys, link
  <1>9. IsFiniteSet(links)
    <2> DEFINE f == [k \in keys |-> link(k)]
    <2>1. f \in Surjection(keys, links)
      BY DEF Surjection
    <2> HIDE DEF f
    <2>2. QED  BY <1>7, <2>1, FS_Surjection
  <1>10. ToSet(body) = links
    BY <1>9, SequenceOfSet
  <1>11. UNION {GetKey(h) : h \in links} = keys
    <2>1. {GetKey(h) : h \in links} = {{k} : k \in keys}
      BY <1>6
    <2>2. UNION {{k} : k \in keys} = keys
      OBVIOUS
    <2> DEFINE found == {GetKey(h) : h \in links}
    <2>3. found = {{k} : k \in keys}
      BY <2>1
    <2> HIDE DEF found
    <2>4. UNION found = keys
      BY <2>2, <2>3
    <2>5. QED  BY <2>4 DEF found
  <1> HIDE DEF body
  <1> DEFINE n == NoStream
             status == "ok"
             m == Msg("complete", messages[c].scheme, messages[c].path, status, "", body, n)
  <1>12. m.status = "ok" /\ m.body = body
    <2> HIDE DEF n
    <2>1. QED  BY DEF Msg
  <1>13. status \in {"ok", "not_found"} /\ Respond(c, status, body)
         /\ m = Msg("complete", messages[c].scheme, messages[c].path, status, "", body, NoStream)
    BY <1>5
  <1> HIDE DEF m, n, status
  <1>14. ResultOf(q, m, <<>>) = AnswerOf(Published, q)
    BY <1>3, <1>8, <1>10, <1>11, <1>12 DEF ResultOf
  <1>15. calls[c].question = q
    OBVIOUS
  <1> HIDE DEF q
  <1>16. QED  BY <1>1, <1>2, <1>13, <1>14, <1>15, ResponseBinds

-----------------------------------------------------------------------------
(* All other steps of a call. *)

(* What has been written and what is left are the value, however often the stream is
   read. *)
LEMMA ChunkStutters ==
    ASSUME IInv, IInv', OrdinaryUse, AsAsked, NEW c \in Clients, ChunkCb(c)
    PROVE  UNCHANGED StoreVars
  <1> DEFINE M == messages[c]
             q == calls[c].question
  <1>1. /\ SamePublisher
        /\ BeingWritten(calls[c], M)
    BY ChunkEffect
  <1>2. PICK r \in StreamRead(M.stream) \cup StreamFails(M.stream) :
          Changed(c, calls[c],
                  Msg(IF r.data = <<>> THEN "complete" ELSE "writing", M.scheme, M.path, "ok",
                      IF r.data = <<>> THEN "" ELSE "wrote-chunk", M.body \o r.data, r.stream))
    BY ChunkEffect
  <1> DEFINE phase == IF r.data = <<>> THEN "complete" ELSE "writing"
             signal == IF r.data = <<>> THEN "" ELSE "wrote-chunk"
             m == Msg(phase, M.scheme, M.path, "ok", signal, M.body \o r.data, r.stream)
  <1>3. /\ CallOK(calls[c], M) /\ calls[c].phase = "waiting"
        /\ M.phase = "writing" /\ M.status = "ok"
        /\ M.body \in Seq(Parts) /\ StreamOK(M.stream) /\ M.stream \in Streams
        /\ q.op \in {"lookup", "link"}
    BY <1>1 DEF IInv, BeingWritten, StreamOK, AsAsked
  <1>4. r \in StreamRead(M.stream)
    BY <1>2 DEF StreamFails, OrdinaryUse
  <1> HIDE DEF M
  <1>5. Changed(c, calls[c], m)
    BY <1>2
  <1>6. phase # "request"
    OBVIOUS
  <1> HIDE DEF phase, signal
  <1>7. m.phase = phase /\ m.status = "ok" /\ m.body = M.body \o r.data /\ m.stream = r.stream
    BY DEF Msg
  <1> HIDE DEF m
  <1>8. CallOK(calls[c], m)
    <2>1. CallOK(calls'[c], messages'[c])
      BY DEF IInv
    <2>2. QED  BY <1>5, <2>1, OnlyThisCall
  <1>9. (M.body \o r.data) \o r.stream.left = M.body \o M.stream.left
    <2> DEFINE l == M.stream.left
    <2>1. l \in Seq(Parts)
      BY <1>3 DEF Streams
    <2>2. CASE l = <<>> /\ r.data = <<>> /\ r.stream.left = <<>>
      <3>1. M.body \o <<>> = M.body
        BY <1>3, ConcatEmptySeq
      <3>2. QED  BY <2>2, <3>1
    <2>3. CASE l # <<>> /\ r.data = <<Head(l)>> /\ r.stream.left = Tail(l)
      <3>1. Head(l) \in Parts /\ Tail(l) \in Seq(Parts)
        BY <2>1, <2>3, HeadTailProperties
      <3>2. <<Head(l)>> \o Tail(l) = l
        BY <2>1, <2>3, Split
      <3> DEFINE a == <<Head(l)>>  t == Tail(l)  b == M.body
      <3>3. a \in Seq(Parts) /\ t \in Seq(Parts) /\ b \in Seq(Parts)
        BY <1>3, <3>1
      <3>4. a \o t = l
        BY <3>2
      <3>5. r.data = a /\ r.stream.left = t
        BY <2>3
      <3> HIDE DEF a, t, l, b
      <3>6. (b \o a) \o t = b \o (a \o t)
        BY <3>3, ConcatAssociative
      <3>7. QED  BY <3>4, <3>5, <3>6 DEF b, l
    <2>4. QED  BY <1>3, <1>4, <2>2, <2>3, ReadDelivers
  <1>10. View(calls[c], M) = BoundCall(q, ResultOf(q, M, M.stream.left))
    BY <1>3, Views
  <1>11. View(calls[c], m) = BoundCall(q, ResultOf(q, m, m.stream.left))
    BY <1>3, <1>6, <1>7, <1>8, Views
  <1>12. ResultOf(q, m, m.stream.left) = ResultOf(q, M, M.stream.left)
    <2>1. ASSUME NEW u, NEW rest, u.status = "ok" PROVE ResultOf(q, u, rest) = {u.body \o rest}
      BY <1>3, <2>1 DEF ResultOf
    <2>2. ResultOf(q, m, m.stream.left) = {m.body \o m.stream.left}
      BY <1>7, <2>1
    <2>3. ResultOf(q, M, M.stream.left) = {M.body \o M.stream.left}
      BY <1>3, <2>1
    <2>4. QED  BY <1>7, <1>9, <2>2, <2>3
  <1>13. QED  BY <1>1, <1>5, <1>10, <1>11, <1>12, Stutters DEF M

LEMMA FinishedStutters ==
    ASSUME IInv, IInv', OrdinaryUse, NEW c \in Clients, Finished(c)
    PROVE  UNCHANGED StoreVars
  <1> DEFINE M == messages[c]
             q == calls[c].question
             n == NoStream
             m == Msg("finished", M.scheme, M.path, M.status, "", M.body, n)
  <1>1. /\ SamePublisher /\ Answered(calls[c], M) /\ Changed(c, calls[c], m)
    BY FinishedEffect
  <1>2. /\ CallOK(calls[c], M) /\ calls[c].phase = "waiting" /\ M.phase = "complete"
        /\ M.status \in {"ok", "not_found"} /\ M.stream.left = <<>>
    BY <1>1 DEF IInv, Answered, OrdinaryUse
  <1>3. n.left = <<>>
    BY NothingLeft
  <1> HIDE DEF M, n
  <1>4. m.phase = "finished" /\ m.status = M.status /\ m.body = M.body /\ m.stream = n
    BY DEF Msg
  <1> HIDE DEF m
  <1>5. CallOK(calls[c], m)
    <2>1. CallOK(calls'[c], messages'[c])
      BY DEF IInv
    <2>2. QED  BY <1>1, <2>1, OnlyThisCall
  <1>6. View(calls[c], M) = BoundCall(q, ResultOf(q, M, M.stream.left))
    BY <1>2, Views
  <1>7. View(calls[c], m) = BoundCall(q, ResultOf(q, m, m.stream.left))
    BY <1>2, <1>4, <1>5, Views
  <1>8. ResultOf(q, m, m.stream.left) = ResultOf(q, M, M.stream.left)
    BY <1>2, <1>3, <1>4 DEF ResultOf
  <1>9. QED  BY <1>1, <1>6, <1>7, <1>8, Stutters DEF M

LEMMA StepsOfStore ==
    ASSUME IInv, IInv', KnownPaths, OrdinaryUse, RequestsReach, AsAsked, FinitelyMany,
           AllHaveValues, [Next]_vars
    PROVE  [S!Next]_StoreVars
  <1>1. CASE UNCHANGED vars
    <2>1. UNCHANGED Published
      BY <1>1 DEF vars, Published, HasKey, ValueOf
    <2>2. \A c \in Clients : CallAsAsked(c)' = CallAsAsked(c)
      BY <1>1 DEF vars, CallAsAsked, Result
    <2>3. QED  BY <2>1, <2>2 DEF StoreVars
  <1>2. CASE DiskChanges \/ \E k \in Keys : Add(k) \/ RemoveKey(k)
    <2>1. UNCHANGED <<calls, messages>>
      BY <1>2 DEF DiskChanges, Add, RemoveKey
    <2>2. \A c \in Clients : CallAsAsked(c)' = CallAsAsked(c)
      BY <2>1 DEF CallAsAsked, Result
    <2>3. UNCHANGED [c \in Clients |-> CallAsAsked(c)]
      BY <2>2
    <2>4. Published' \in StoreContents
      <3>1. /\ disk' \in {{}} \cup {{v} : v \in Values}
            /\ resources' \in [Keys -> Resources \cup {Absent}]
        BY DEF IInv, Typed
      <3>2. Published' = [k \in Keys |->
              CASE resources'[k].kind \in {"static", "stream"} -> {resources'[k].value}
                [] resources'[k].kind = "file" -> disk'
                [] OTHER -> {}]
        BY DEF Published, ValueOf
      <3>3. QED  BY <3>1, <3>2, PublishedTyped
    <2>5. S!Change
      BY <2>3, <2>4 DEF S!Change
    <2>6. QED  BY <2>5 DEF S!Next
  <1>3. ASSUME NEW c \in Clients, Ask(c)
        PROVE  S!Next
    <2>1. PICK q \in Questions : Changed(c, Call("resolving", q), NoMessage)
      BY <1>3, AskEffect
    <2> DEFINE x == Call("resolving", q)
    <2>2. SamePublisher /\ calls[c].phase \in {"idle", "returned", "failed"}
      BY <1>3, AskEffect
    <2>3. CallOK(calls[c], messages[c]) /\ CallOK(x, NoMessage)
      <3>1. CallOK(calls'[c], messages'[c]) /\ CallOK(calls[c], messages[c])
        BY DEF IInv
      <3>2. QED  BY <2>1, <3>1, OnlyThisCall
    <2>4. x.phase = "resolving" /\ x.question = q
      BY DEF Call
    <2> HIDE DEF x
    <2>5. View(x, NoMessage) = AskedCall(q)
      BY <2>3, <2>4, Views
    <2>6. View(calls[c], messages[c]).phase \in {"idle", "returned", "failed"}
      <3>1. CASE calls[c].phase = "idle"
        BY <2>3, <3>1, Views DEF Idle
      <3>2. CASE calls[c].phase = "returned"
        BY <2>3, <3>2, Views DEF ReturnedCall
      <3>3. CASE calls[c].phase = "failed"
        BY <2>3, <3>3, Views DEF FailedCall
      <3>4. QED  BY <2>2, <3>1, <3>2, <3>3
    <2>7. S!Ask(c, q)
      BY <2>1, <2>2, <2>5, <2>6, AsksStore DEF x
    <2>8. QED  BY <2>7 DEF S!Next
  <1>4. ASSUME NEW c \in Clients, Unresolved(c)
        PROVE  S!Next
    <2> DEFINE x == Call("failed", calls[c].question)
    <2>1. Changed(c, x, NoMessage) /\ SamePublisher /\ calls[c].phase = "resolving"
      BY <1>4, UnresolvedEffect DEF Unresolved
    <2>2. CallOK(calls[c], messages[c]) /\ CallOK(x, NoMessage)
      <3>1. CallOK(calls'[c], messages'[c]) /\ CallOK(calls[c], messages[c])
        BY DEF IInv
      <3>2. QED  BY <2>1, <3>1, OnlyThisCall
    <2>3. x.phase = "failed"
      BY DEF Call
    <2> HIDE DEF x
    <2>4. View(x, NoMessage) = FailedCall
      BY <2>2, <2>3, Views
    <2>5. View(calls[c], messages[c]).phase \in {"asked", "bound"}
      BY <2>1, <2>2, Views DEF AskedCall
    <2>6. S!Fail(c)
      BY <2>1, <2>4, <2>5, FailsStore
    <2>7. QED  BY <2>6 DEF S!Next
  <1>5. ASSUME NEW c \in Clients, Send(c)
        PROVE  UNCHANGED StoreVars
    <2> DEFINE q == calls[c].question
               x == Call("waiting", q)
               scheme == GetProtocol(AnnouncedType)
               path == Decode(UriPath(RequestPath(q)))
               m == Msg("request", scheme, path, "", "", <<>>, NoStream)
    <2>1. SamePublisher /\ Changed(c, x, m) /\ calls[c].phase = "resolving"
      BY <1>5, SendEffect DEF Send
    <2>2. CallOK(calls[c], messages[c]) /\ CallOK(x, m)
      <3>1. CallOK(calls'[c], messages'[c]) /\ CallOK(calls[c], messages[c])
        BY DEF IInv
      <3> HIDE DEF x, m
      <3>2. QED  BY <2>1, <3>1, OnlyThisCall
    <2> HIDE DEF scheme, path, q
    <2>3. x.question = q /\ m.phase = "request"
      BY DEF Call, Msg
    <2> HIDE DEF x, m
    <2>4. View(x, m) = AskedCall(q) /\ View(calls[c], messages[c]) = AskedCall(q)
      BY <2>1, <2>2, <2>3, Views DEF q
    <2>5. QED  BY <2>1, <2>4, Stutters
  <1>6. ASSUME NEW c \in Clients, HandleContents(c) \/ HandleList(c) \/ HandleRoot(c)
        PROVE  S!Next
    <2>1. S!Bind(c)
      BY <1>6, ContentsBind, ListBinds, RootBinds
    <2>2. QED  BY <2>1 DEF S!Next
  <1>7. ASSUME NEW c \in Clients, ChunkCb(c) \/ Finished(c)
        PROVE  UNCHANGED StoreVars
    BY <1>7, ChunkStutters, FinishedStutters
  <1>8. ASSUME NEW c \in Clients, Aborted(c)
        PROVE  S!Next
    <2> DEFINE n == NoStream
               m == Msg("finished", messages[c].scheme, messages[c].path,
                        "error", "", messages[c].body, n)
    <2>1. /\ SamePublisher /\ calls[c].phase = "waiting"
          /\ messages[c].phase \in {"request", "writing", "complete"}
          /\ Changed(c, calls[c], m)
      BY <1>8, AbortedEffect
    <2>2. CallOK(calls[c], messages[c]) /\ CallOK(calls[c], m)
      <3>1. CallOK(calls'[c], messages'[c]) /\ CallOK(calls[c], messages[c])
        BY DEF IInv
      <3> HIDE DEF m
      <3>2. QED  BY <2>1, <3>1, OnlyThisCall
    <2> HIDE DEF n
    <2>3. m.phase = "finished" /\ m.status = "error"
      BY DEF Msg
    <2> HIDE DEF m
    <2>4. View(calls[c], m) = FailedCall
      BY <2>1, <2>2, <2>3, Views
    <2>5. View(calls[c], messages[c]).phase \in {"asked", "bound"}
      <3>1. CASE messages[c].phase = "request"
        BY <2>2, <3>1, Views DEF AskedCall
      <3>2. CASE messages[c].phase \in {"writing", "complete"}
        <4>1. messages[c].status # "error"
          BY <2>2, <3>2, PhaseOfMessage DEF BeingWritten, Answered
        <4>2. QED  BY <2>1, <2>2, <3>2, <4>1, Views DEF BoundCall
      <3>3. QED  BY <2>1, <3>1, <3>2
    <2>6. S!Fail(c)
      BY <2>1, <2>4, <2>5, FailsStore
    <2>7. QED  BY <2>6 DEF S!Next
  <1>9. ASSUME NEW c \in Clients, Return(c)
        PROVE  [S!Next]_StoreVars
    <2> DEFINE q == calls[c].question
               m == messages[c]
               a == Result(c, <<>>)
    <2>1. /\ SamePublisher /\ calls[c].phase = "waiting" /\ Over(calls[c], m)
          /\ Changed(c, IF m.status = "error" THEN Call("failed", q) ELSE Returned(q, a), m)
      BY <1>9, ReturnEffect
    <2>2. /\ CallOK(calls[c], m)
          /\ CallOK(IF m.status = "error" THEN Call("failed", q) ELSE Returned(q, a), m)
      <3>1. CallOK(calls'[c], messages'[c]) /\ CallOK(calls[c], messages[c])
        BY DEF IInv
      <3> HIDE DEF a
      <3>2. QED  BY <2>1, <3>1, OnlyThisCall
    <2>3. m.phase = "finished" /\ m.stream.left = <<>>
      BY <2>1, NothingLeft DEF Over
    <2>4. CASE m.status = "error"
      <3> DEFINE x == Call("failed", q)
      <3>1. x.phase = "failed"
        BY DEF Call
      <3>2. Changed(c, x, m) /\ CallOK(x, m)
        BY <2>1, <2>2, <2>4
      <3> HIDE DEF x
      <3>3. View(x, m) = FailedCall /\ View(calls[c], m) = FailedCall
        BY <2>1, <2>2, <2>3, <2>4, <3>1, <3>2, Views
      <3>4. QED  BY <2>1, <3>2, <3>3, Stutters
    <2>5. CASE m.status # "error"
      <3> DEFINE x == Returned(q, a)
      <3> HIDE DEF a
      <3>1. x.phase = "returned" /\ x.question = q /\ x.result = a
        BY DEF Returned
      <3>2. Changed(c, x, m) /\ CallOK(x, m)
        BY <2>1, <2>2, <2>5
      <3> HIDE DEF x
      <3>3. ResultOf(q, m, m.stream.left) = a
        BY <2>3 DEF ResultOf, Result, a
      <3>4. View(x, m) = ReturnedCall(q, a) /\ View(calls[c], m) = BoundCall(q, a)
        BY <2>1, <2>2, <2>3, <2>5, <3>1, <3>2, <3>3, Views
      <3>5. S!Return(c)
        BY <2>1, <3>2, <3>4, ReturnsAnswer
      <3>6. QED  BY <3>5 DEF S!Next
    <2>6. QED  BY <2>4, <2>5
  <1>10. QED
    BY <1>1, <1>2, <1>3, <1>4, <1>5, <1>6, <1>7, <1>8, <1>9 DEF Next

(* With plain texts on both sides (KnownPaths, OrdinaryUse) and no hazard, however the
   publisher's resources change meanwhile, whichever way a value is delivered and
   however its parts relate to the pages of the buffer: a call that succeeds returns all of what the store held at one moment of the call, a listing the
   keys of one moment, and what has been written and is left is that answer in between
   (epc_consumer_lookup, epc_consumer_list, the handlers of the publisher, and
   epc_publisher_chunk_cb). *)
THEOREM ImplementsStore ==
    ASSUME KnownPaths, OrdinaryUse
    PROVE  Spec => AsStore
  <1>1. Init => S!Init
    <2> SUFFICES ASSUME Init PROVE S!Init
      OBVIOUS
    <2>1. IInv
      BY InitIInv
    <2>2. Published \in StoreContents
      <3>1. /\ disk \in {{}} \cup {{v} : v \in Values}
            /\ resources \in [Keys -> Resources \cup {Absent}]
        BY <2>1 DEF IInv, Typed
      <3>2. Published = [k \in Keys |->
              CASE resources[k].kind \in {"static", "stream"} -> {resources[k].value}
                [] resources[k].kind = "file" -> disk
                [] OTHER -> {}]
        BY DEF Published, ValueOf
      <3>3. QED  BY <3>1, <3>2, PublishedTyped
    <2>3. ASSUME NEW c \in Clients PROVE CallAsAsked(c) = [phase |-> "idle"]
      <3>1. CallAsAsked(c) = View(calls[c], messages[c]) /\ CallOK(calls[c], messages[c])
        BY <2>1, ViewOfCall DEF IInv
      <3>2. calls[c].phase = "idle"
        BY DEF Init, Idle
      <3>3. QED  BY <3>1, <3>2, Views DEF Idle
    <2>4. QED  BY <2>2, <2>3 DEF S!Init
  <1>2. Spec => []FinitelyMany
    BY InitFinite, FiniteNext, AlwaysIInv, PTL DEF Spec
  <1>3. Spec => []AsAsked
    BY InitAsAsked, AsAskedNext, AlwaysIInv, RequestsArrive, PTL DEF Spec
  <1>4. Spec => []AllHaveValues
    BY InitValues, ValuesNext, AlwaysIInv, PTL DEF Spec
  <1>5. IInv /\ IInv' /\ RequestsReach /\ AsAsked /\ FinitelyMany /\ AllHaveValues /\ [Next]_vars
          => [S!Next]_StoreVars
    BY StepsOfStore
  <1>6. [S!Next]_StoreVars => [S!Next]_<<Published, [c \in Clients |-> CallAsAsked(c)]>>
    BY DEF StoreVars
  <1>7. QED
    BY <1>1, <1>2, <1>3, <1>4, <1>5, <1>6, AlwaysIInv, RequestsArrive, PTL
       DEF Spec, AsStore, S!Spec
=============================================================================
