-------------------------- MODULE H3Stream_proofs --------------------------
(***************************************************************************)
(* Safety of one HTTP/3 stream for any body limit and any number of        *)
(* chunks, and the proof that the stream implements the abstract exchange. *)
(***************************************************************************)
EXTENDS H3Stream, TLAPS

Streams ==
  [life : {"open", "destroyed"}, head : Statuses, fin : {"no", "body", "end"}]

Nets ==
  [sent : 0 .. MaxChunks, inbox : 0 .. MaxChunks,
   eof : {"no", "bare", "trailers", "reset"}, event : BOOLEAN]

\* The bytes that are let through the iterator.
Limit == IF MaxBody = 0 THEN MaxChunks ELSE MaxBody

Bodies ==
  [ctl : {"open", "closed", "errored", "cancelled"},
   reader : {"none", "handler", "server"}, bytes : 0 .. Limit,
   trailers : {"pending", "client", "empty"}, fallback : BOOLEAN]

Steps == {"stream", "fetch", "drainGet", "check", "drainPost", "commit",
          "values", "handOver", "connect", "tunnel", "tunnelDrain", "done"}

\* The values of handleStream's own variables.
Scalars ==
  /\ kind \in Kinds /\ pc \in Steps
  /\ resp \in Responses \cup {"none", "null"}
  /\ src \in {"none", "open", "finished", "errored", "cancelled"}
  /\ duplex \in {"none", "open", "ended", "destroyed"}
  /\ timer \in {"unset", "armed", "fired", "cleared"}
  /\ denied \in BOOLEAN /\ aborted \in BOOLEAN /\ tooLarge \in BOOLEAN

\* A chunk is counted, dropped as the one too many, or still on its way: with
\* no limit this is what bounds the bytes.
Counted == body.bytes + net.inbox <= net.sent

TypeInv == TypeOK /\ Counted

-----------------------------------------------------------------------------
(* What the steps do to the fields of the stream, the body and the net.    *)

LEMMA TypeParts ==
  TypeInv <=> Scalars /\ stream \in Streams /\ net \in Nets /\ body \in Bodies /\ Counted
  BY DEF TypeInv, TypeOK, Scalars, Steps, Streams, Nets, Bodies, Limit

LEMMA TypePartsNext ==
  ASSUME Scalars', stream' \in Streams, net' \in Nets, body' \in Bodies, Counted'
  PROVE  TypeInv'
  BY DEF TypeInv, TypeOK, Scalars, Steps, Streams, Nets, Bodies, Limit

\* Headers are sent once.
LEMMA HeadersFields ==
  ASSUME NEW s \in Streams, NEW h \in Statuses
  PROVE  /\ SendHeaders(s, h, TRUE) \in Streams /\ SendHeaders(s, h, FALSE) \in Streams
         /\ SendHeaders(s, h, TRUE).life = s.life /\ SendHeaders(s, h, FALSE).life = s.life
         /\ s.head # "none" => SendHeaders(s, h, TRUE) = s /\ SendHeaders(s, h, FALSE) = s
         /\ s.head = "none" =>
              /\ SendHeaders(s, h, TRUE).head = h /\ SendHeaders(s, h, FALSE).head = h
              /\ SendHeaders(s, h, TRUE).fin = "end" /\ SendHeaders(s, h, FALSE).fin = "no"
<1>1. CASE s.head # "none"
  BY <1>1 DEF SendHeaders
<1>2. CASE s.head = "none"
  BY <1>2 DEF SendHeaders, Streams
<1>. QED BY <1>1, <1>2

LEMMA DestroyFields ==
  ASSUME NEW s \in Streams
  PROVE  /\ Destroy(s) \in Streams
         /\ Destroy(s).life = "destroyed" /\ Destroy(s).head = s.head /\ Destroy(s).fin = s.fin
  BY DEF Destroy, Streams

\* The end of the answer, and the hand-over of its body to the runtime.
LEMMA FinFields ==
  ASSUME NEW s \in Streams, NEW f \in {"body", "end"}, NEW t, t = [s EXCEPT !.fin = f]
  PROVE  t \in Streams /\ t.life = s.life /\ t.head = s.head /\ t.fin = f
  BY DEF Streams

LEMMA ReaderFields ==
  ASSUME NEW b \in Bodies, NEW r \in {"none", "handler", "server"},
         NEW c, c = [b EXCEPT !.reader = r]
  PROVE  c \in Bodies /\ c.reader = r /\ c.ctl = b.ctl /\ c.bytes = b.bytes
  BY DEF Bodies

LEMMA CtlFields ==
  ASSUME NEW b \in Bodies, NEW v \in {"open", "closed", "errored", "cancelled"},
         NEW f \in BOOLEAN, NEW c, c = [b EXCEPT !.ctl = v, !.fallback = f]
  PROVE  c \in Bodies /\ c.reader = b.reader /\ c.ctl = v /\ c.bytes = b.bytes
  BY DEF Bodies

LEMMA SettledFields ==
  ASSUME NEW b \in Bodies, NEW v \in {"client", "empty"}, NEW c,
         \/ c = [b EXCEPT !.trailers = Settled(@, v)]
         \/ c = [b EXCEPT !.fallback = FALSE, !.trailers = Settled(@, v)]
  PROVE  c \in Bodies /\ c.reader = b.reader /\ c.ctl = b.ctl /\ c.bytes = b.bytes
<1>1. Settled(b.trailers, v) \in {"pending", "client", "empty"}
  BY DEF Settled, Bodies
<1>. DEFINE t == Settled(b.trailers, v)
<1>. HIDE DEF t
<1>2. CASE c = [b EXCEPT !.trailers = t]
  BY <1>1, <1>2 DEF Bodies, t
<1>3. CASE c = [b EXCEPT !.fallback = FALSE, !.trailers = t]
  BY <1>1, <1>3 DEF Bodies, t
<1>. QED BY <1>2, <1>3 DEF t

\* What the end of the generator does.
LEMMA FinishedFields ==
  ASSUME body \in Bodies, NEW v \in {"closed", "errored"}, Finished(v)
  PROVE  /\ body' \in Bodies /\ body'.reader = body.reader /\ body'.bytes = body.bytes
         /\ body'.ctl = v
         /\ pc' = IF pc = "drainGet" THEN "check"
                  ELSE IF pc = "drainPost" THEN "commit" ELSE pc
<1>1. body' = [body EXCEPT !.ctl = v, !.fallback = TRUE]
  BY DEF Finished
<1>2. /\ body' \in Bodies /\ body'.reader = body.reader /\ body'.bytes = body.bytes
      /\ body'.ctl = v
  BY <1>1 DEF Bodies
<1>. QED BY <1>2 DEF Finished

-----------------------------------------------------------------------------
(* Types.                                                                  *)

\* Steps that read nothing from the net.
LEMMA StillCounted ==
  ASSUME Counted, body'.bytes = body.bytes, net' = net
  PROVE  Counted'
  BY DEF Counted

LEMMA TypeStill ==
  ASSUME TypeInv, Scalars', stream' \in Streams, body' \in Bodies,
         body'.bytes = body.bytes, net' = net
  PROVE  TypeInv'
  BY TypeParts, TypePartsNext, StillCounted

LEMMA TypeInit == Init => TypeInv
<1>. SUFFICES ASSUME Init PROVE TypeInv
  OBVIOUS
<1>1. Limit \in Nat
  BY MaxBodyAssumption, MaxChunksAssumption DEF Limit
<1>2. stream \in Streams /\ net \in Nets /\ body \in Bodies
  BY <1>1, MaxChunksAssumption DEF Init, Streams, Statuses, Nets, Bodies
<1>3. Scalars
  BY DEF Init, Scalars, Steps
<1>4. Counted
  BY DEF Init, Counted
<1>. QED BY <1>2, <1>3, <1>4, TypeParts

LEMMA DispatchedType ==
  ASSUME NEW o \in Outcomes, NEW d
  PROVE  Dispatched(d, o) \in Responses \cup {"null"}
  BY DEF Dispatched, Outcomes, Responses

LEMMA TypeCode == TypeInv /\ Code => TypeInv'
<1>. SUFFICES ASSUME TypeInv, Code PROVE TypeInv'
  OBVIOUS
<1>0. Scalars /\ stream \in Streams /\ net \in Nets /\ body \in Bodies
  BY TypeParts
<1>1. CASE OnStream
  <2>1. stream' \in Streams
    <3>1. ASSUME NEW h \in {"413", "431", "501"}, stream' = SendHeaders(stream, h, TRUE)
          PROVE  stream' \in Streams
      <4>1. h \in Statuses BY DEF Statuses
      <4>. QED BY <1>0, <3>1, <4>1, HeadersFields
    <3>. QED BY <1>0, <1>1, <3>1 DEF OnStream
  <2>2. /\ UNCHANGED <<kind, net, body, handlerVars, aborted, tooLarge>>
        /\ timer' \in {timer} \cup Timers /\ pc' \in {"done", "connect", "fetch"}
    BY <1>1 DEF OnStream
  <2>3. Scalars'
    BY <1>0, <2>2, TimersAssumption DEF Scalars, Steps, handlerVars
  <2>. QED BY <1>0, <2>1, <2>2, <2>3, TypeStill
<1>2. CASE NoAnswer
  BY <1>0, <1>2, TypeStill DEF NoAnswer, Scalars, Steps
<1>3. CASE Check
  <2>1. body' \in Bodies /\ body'.bytes = body.bytes
    BY <1>0, <1>3, ReaderFields DEF Check
  <2>. QED BY <1>0, <1>3, <2>1, TypeStill DEF Check, Scalars, Steps, handlerVars
<1>4. CASE Commit
  <2>1. stream' \in Streams
    <3>1. "handler" \in Statuses BY DEF Statuses
    <3>2. \/ stream' = Destroy(stream)
          \/ stream' = SendHeaders(stream, "handler", TRUE)
          \/ stream' = SendHeaders(stream, "handler", FALSE)
      BY <1>4 DEF Commit, Gone
    <3>3. CASE stream' = Destroy(stream)
      BY <1>0, <3>3, DestroyFields
    <3>4. CASE stream' = SendHeaders(stream, "handler", TRUE)
      BY <1>0, <3>1, <3>4, HeadersFields
    <3>5. CASE stream' = SendHeaders(stream, "handler", FALSE)
      BY <1>0, <3>1, <3>5, HeadersFields
    <3>. QED BY <3>2, <3>3, <3>4, <3>5
  <2>2. Scalars' /\ UNCHANGED <<net, body>>
    BY <1>0, <1>4 DEF Commit, Gone, Disarmed, Scalars, Steps
  <2>. QED BY <1>0, <2>1, <2>2, TypeStill
<1>5. CASE HandOver
  <2>1. stream' \in Streams
    BY <1>0, <1>5, FinFields DEF HandOver
  <2>2. body' \in Bodies /\ body'.bytes = body.bytes
    BY <1>0, <1>5, ReaderFields DEF HandOver
  <2>. QED BY <1>0, <1>5, <2>1, <2>2, TypeStill DEF HandOver, Scalars, Steps, handlerVars
<1>. QED BY <1>1, <1>2, <1>3, <1>4, <1>5 DEF Code

\* What connect() leaves of the stream.
LEMMA ConnectFields ==
  ASSUME stream \in Streams, NEW r \in Tunnels, OnConnect(r), stream.head = "none"
  PROVE  /\ stream' \in Streams
         /\ \/ stream' = stream /\ stream.life = "destroyed"
            \/ stream' = Destroy(stream)
            \/ /\ stream.life = "open" /\ stream'.life = "open"
               /\ \/ stream'.head \in {"501", "502", "handler"} /\ stream'.fin = "end"
                  \/ stream'.head \in {"200", "handler"} /\ stream'.fin = "body"
<1>0. {"501", "502", "200", "handler"} \subseteq Statuses
  BY DEF Statuses
<1>1. CASE r = "broken"
  <2>1. stream' = Destroy(stream) BY <1>1 DEF OnConnect
  <2>. QED BY <2>1, DestroyFields
<1>2. CASE r # "broken" /\ stream.life = "destroyed"
  BY <1>2 DEF OnConnect
<1>3. CASE stream.life = "open" /\ r \in {"nothing", "invalid", "empty"}
  <2>. DEFINE h == CASE r = "nothing" -> "501" [] r = "invalid" -> "502" [] OTHER -> "handler"
  <2>1. stream' = SendHeaders(stream, h, TRUE)
    BY <1>3 DEF OnConnect
  <2>2. h \in {"501", "502", "handler"} OBVIOUS
  <2>. HIDE DEF h
  <2>3. h \in Statuses BY <1>0, <2>2
  <2>. QED BY <1>3, <2>1, <2>2, <2>3, HeadersFields
<1>4. CASE stream.life = "open" /\ r \in {"body", "duplex"}
  <2>. DEFINE h == IF r = "body" THEN "handler" ELSE "200"
  <2>. DEFINE s == SendHeaders(stream, h, FALSE)
  <2>1. stream' = [s EXCEPT !.fin = "body"]
    BY <1>4 DEF OnConnect
  <2>2. h \in {"200", "handler"} OBVIOUS
  <2>. HIDE DEF h
  <2>3. h \in Statuses BY <1>0, <2>2
  <2>4. s \in Streams /\ s.life = "open" /\ s.head = h
    BY <1>4, <2>3, HeadersFields
  <2>. HIDE DEF s
  <2>. QED BY <1>4, <2>1, <2>2, <2>4, FinFields
<1>. QED BY <1>1, <1>2, <1>3, <1>4 DEF Tunnels, Streams

LEMMA TypeHandler == TypeInv /\ Handler /\ (pc = "connect" => stream.head = "none") => TypeInv'
<1>. SUFFICES ASSUME TypeInv, Handler, pc = "connect" => stream.head = "none" PROVE TypeInv'
  OBVIOUS
<1>0. Scalars /\ stream \in Streams /\ net \in Nets /\ body \in Bodies
  BY TypeParts
<1>1. ASSUME NEW o \in Outcomes, Return(o) PROVE TypeInv'
  <2>1. stream' \in Streams /\ timer' \in {timer, "cleared"}
    BY <1>0, <1>1, DestroyFields DEF Return, Gone, Disarmed
  <2>2. body' \in Bodies /\ body'.bytes = body.bytes
    BY <1>0, <1>1, ReaderFields DEF Return
  <2>3. resp' \in Responses \cup {"null"}
    BY <1>1, DispatchedType DEF Return
  <2>4. pc' \in {"drainGet", "check"}
        /\ UNCHANGED <<kind, net, src, denied, duplex, aborted, tooLarge>>
    BY <1>1 DEF Return
  <2>5. Scalars'
    BY <1>0, <2>1, <2>3, <2>4 DEF Scalars, Steps
  <2>. QED BY <1>0, <2>1, <2>2, <2>4, <2>5, TypeStill
<1>2. ASSUME NEW r \in Tunnels, OnConnect(r) PROVE TypeInv'
  <2>0. stream.head = "none"
    BY <1>2 DEF OnConnect
  <2>1. stream' \in Streams
    BY <1>0, <1>2, <2>0, ConnectFields
  <2>2. /\ timer' \in {timer, "cleared"} /\ pc' \in {"done", "tunnel"} /\ resp' = "body"
        /\ src' \in {src, "open"} /\ duplex' \in {duplex, "destroyed", "open"}
        /\ UNCHANGED <<kind, net, body, denied, aborted, tooLarge>>
    BY <1>2 DEF OnConnect, Late, Disarmed
  <2>3. Scalars'
    BY <1>0, <2>2 DEF Scalars, Steps, Responses
  <2>. QED BY <1>0, <2>1, <2>2, <2>3, TypeStill
<1>3. CASE Values
  <2>1. stream' \in Streams /\ timer' \in {timer, "cleared"}
    BY <1>0, <1>3, DestroyFields DEF Values, Gone, Disarmed
  <2>. QED BY <1>0, <1>3, <2>1, TypeStill DEF Values, Scalars, Steps, handlerVars
<1>4. CASE Deny
  <2>1. stream' \in Streams /\ timer' \in {timer, "cleared"}
    BY <1>0, <1>4, DestroyFields DEF Deny, Gone, Disarmed
  <2>. QED BY <1>0, <1>4, <2>1, TypeStill DEF Deny, Scalars, Steps
<1>5. CASE Lock
  <2>1. body' \in Bodies /\ body'.bytes = body.bytes
    BY <1>0, <1>5, ReaderFields DEF Lock
  <2>. QED BY <1>0, <1>5, <2>1, TypeStill DEF Lock, Scalars, Steps, handlerVars
<1>6. CASE LetGo
  <2>1. CASE body' = [body EXCEPT !.reader = "none"]
    <3>1. body' \in Bodies /\ body'.bytes = body.bytes
      BY <1>0, <2>1, ReaderFields
    <3>. QED BY <1>0, <1>6, <3>1, TypeStill DEF LetGo, Scalars, Steps, handlerVars
  <2>2. ASSUME NEW ran \in {body.bytes > 0, TRUE},
               body' = [body EXCEPT !.ctl = "cancelled", !.fallback = ran]
        PROVE  TypeInv'
    <3>0. (body.bytes > 0) \in BOOLEAN
      OBVIOUS
    <3>1. ran \in BOOLEAN
      BY <2>2, <3>0, Zenon
    <3>2. body' \in Bodies /\ body'.bytes = body.bytes
      BY <1>0, <2>2, <3>1 DEF Bodies
    <3>. QED BY <1>0, <1>6, <3>2, TypeStill DEF LetGo, Scalars, Steps, handlerVars
  <2>. QED BY <1>6, <2>1, <2>2 DEF LetGo
<1>7. CASE Upstream
  BY <1>0, <1>7, TypeStill DEF Upstream, Scalars, Steps, handlerVars
<1>8. CASE DuplexFails
  <2>1. stream' \in Streams /\ timer' \in {timer, "cleared"} /\ duplex' = "destroyed"
    BY <1>0, <1>8, DestroyFields DEF DuplexFails, TunnelFails, Gone, Disarmed
  <2>. QED BY <1>0, <1>8, <2>1, TypeStill DEF DuplexFails, Scalars, Steps
<1>. QED BY <1>1, <1>2, <1>3, <1>4, <1>5, <1>6, <1>7, <1>8 DEF Handler

\* A chunk leaves the net.
LEMMA InboxFields ==
  ASSUME net \in Nets, net.inbox > 0, net' = [net EXCEPT !.inbox = @ - 1]
  PROVE  net' \in Nets /\ net'.inbox = net.inbox - 1 /\ net'.sent = net.sent
<1>1. net.inbox - 1 \in 0 .. MaxChunks
  BY MaxChunksAssumption DEF Nets
<1>. QED BY <1>1 DEF Nets

LEMMA TypeEvents == TypeInv /\ (Client \/ Runtime) => TypeInv'
<1>. SUFFICES ASSUME TypeInv, Client \/ Runtime PROVE TypeInv'
  OBVIOUS
<1>0. Scalars /\ stream \in Streams /\ net \in Nets /\ body \in Bodies /\ Counted
  BY TypeParts
<1>a. "413" \in Statuses /\ "408" \in Statuses
  BY DEF Statuses
<1>b. body.bytes \in Nat /\ net.sent \in Nat /\ net.inbox \in Nat /\ Limit \in Nat
  BY <1>0, MaxBodyAssumption, MaxChunksAssumption DEF Bodies, Nets, Limit
<1>1. CASE ClientData
  <2>1. net.sent + 1 \in 0 .. MaxChunks /\ net.inbox + 1 \in 0 .. MaxChunks
    BY <1>0, <1>1, <1>b, MaxChunksAssumption DEF ClientData, Counted
  <2>2. net' \in Nets /\ net'.sent = net.sent + 1 /\ net'.inbox = net.inbox + 1
    BY <1>0, <1>1, <2>1 DEF ClientData, Nets
  <2>3. UNCHANGED <<kind, stream, body, pc, handlerVars, aborted, tooLarge, timer>>
    BY <1>1 DEF ClientData
  <2>4. Scalars'
    BY <1>0, <2>3 DEF Scalars, handlerVars
  <2>5. Counted'
    BY <1>0, <1>b, <2>2, <2>3 DEF Counted
  <2>. QED BY <1>0, <2>2, <2>3, <2>4, <2>5, TypePartsNext
<1>2. CASE ClientEnd
  <2>1. PICK t \in {"bare", "trailers"} :
          net' = [net EXCEPT !.eof = t, !.event = (t = "trailers")]
    BY <1>2 DEF ClientEnd
  <2>2. net' \in Nets /\ net'.sent = net.sent /\ net'.inbox = net.inbox
    BY <1>0, <2>1 DEF Nets
  <2>3. UNCHANGED <<kind, stream, body, pc, handlerVars, aborted, tooLarge, timer>>
    BY <1>2 DEF ClientEnd
  <2>4. Scalars'
    BY <1>0, <2>3 DEF Scalars, handlerVars
  <2>5. Counted'
    BY <1>0, <2>2, <2>3 DEF Counted
  <2>. QED BY <1>0, <2>2, <2>3, <2>4, <2>5, TypePartsNext
<1>3. CASE OnReset
  <2>1. net' \in Nets /\ net'.sent = net.sent /\ net'.inbox = net.inbox
    BY <1>0, <1>3 DEF OnReset, Nets
  <2>2. body' \in Bodies /\ body'.bytes = body.bytes
    BY <1>0, <1>3, SettledFields DEF OnReset
  <2>3. aborted' = TRUE /\ UNCHANGED <<kind, stream, pc, handlerVars, tooLarge, timer>>
    BY <1>3 DEF OnReset
  <2>4. Scalars'
    BY <1>0, <2>3 DEF Scalars, handlerVars
  <2>5. Counted'
    BY <1>0, <2>1, <2>2 DEF Counted
  <2>. QED BY <1>0, <2>1, <2>2, <2>3, <2>4, <2>5, TypePartsNext
<1>4. CASE OnError
  <2>1. stream' \in Streams /\ timer' \in {timer, "cleared"}
    BY <1>0, <1>4, DestroyFields DEF OnError, Gone, Disarmed
  <2>2. body' \in Bodies /\ body'.bytes = body.bytes
    BY <1>0, <1>4, SettledFields DEF OnError
  <2>. QED BY <1>0, <1>4, <2>1, <2>2, TypeStill DEF OnError, Scalars, Steps, handlerVars
<1>5. CASE Chunk
  <2>1. body.bytes + 1 \in 0 .. Limit
    BY <1>0, <1>5, <1>b, MaxBodyAssumption DEF Chunk, Fits, Limit, Counted, Nets
  <2>2. body' \in Bodies /\ body'.bytes = body.bytes + 1
    BY <1>0, <1>5, <2>1 DEF Chunk, Bodies
  <2>3. UNCHANGED <<kind, stream, pc, handlerVars, aborted, tooLarge, timer>>
    BY <1>5 DEF Chunk
  <2>4. net' \in Nets /\ net'.inbox = net.inbox - 1 /\ net'.sent = net.sent
    BY <1>0, <1>5, InboxFields DEF Chunk
  <2>5. Scalars'
    BY <1>0, <2>3 DEF Scalars, handlerVars
  <2>6. Counted'
    BY <1>0, <1>b, <2>2, <2>4 DEF Counted
  <2>. QED BY <1>0, <2>2, <2>3, <2>4, <2>5, <2>6, TypePartsNext
<1>6. CASE Exceeded
  <2>1. stream' \in Streams
    BY <1>0, <1>6, <1>a, HeadersFields DEF Exceeded
  <2>2. body' \in Bodies /\ body'.bytes = body.bytes /\ pc' \in {pc, "check", "commit"}
    BY <1>0, <1>6, FinishedFields DEF Exceeded
  <2>3. net' \in Nets /\ net'.inbox = net.inbox - 1 /\ net'.sent = net.sent
    BY <1>0, <1>6, InboxFields DEF Exceeded
  <2>4. tooLarge' = TRUE /\ aborted' = TRUE /\ UNCHANGED <<kind, handlerVars, timer>>
    BY <1>6 DEF Exceeded
  <2>5. Scalars'
    BY <1>0, <2>2, <2>4 DEF Scalars, Steps, handlerVars
  <2>6. Counted'
    BY <1>0, <1>b, <2>2, <2>3 DEF Counted
  <2>. QED BY <2>1, <2>2, <2>3, <2>5, <2>6, TypePartsNext
<1>7. CASE BodyEnds
  <2>1. PICK ctl \in {"closed", "errored"} : Finished(ctl)
    BY <1>7, Zenon DEF BodyEnds
  <2>2. body' \in Bodies /\ body'.bytes = body.bytes /\ pc' \in {pc, "check", "commit"}
    BY <1>0, <2>1, FinishedFields
  <2>. QED BY <1>0, <1>7, <2>2, TypeStill DEF BodyEnds, Scalars, Steps, handlerVars
<1>8. CASE Fallback
  <2>1. body' \in Bodies /\ body'.bytes = body.bytes
    BY <1>0, <1>8, SettledFields DEF Fallback
  <2>. QED BY <1>0, <1>8, <2>1, TypeStill DEF Fallback, Scalars, Steps, handlerVars
<1>9. CASE OnTrailers
  <2>1. body' \in Bodies /\ body'.bytes = body.bytes
    BY <1>0, <1>9, SettledFields DEF OnTrailers
  <2>2. net' \in Nets /\ net'.sent = net.sent /\ net'.inbox = net.inbox
    BY <1>0, <1>9 DEF OnTrailers, Nets
  <2>3. UNCHANGED <<kind, stream, pc, handlerVars, aborted, tooLarge, timer>>
    BY <1>9 DEF OnTrailers
  <2>4. Scalars'
    BY <1>0, <2>3 DEF Scalars, handlerVars
  <2>5. Counted'
    BY <1>0, <2>1, <2>2 DEF Counted
  <2>. QED BY <1>0, <2>1, <2>2, <2>3, <2>4, <2>5, TypePartsNext
<1>10. CASE OnTimeout
  <2>1. stream' \in Streams
    BY <1>0, <1>10, <1>a, HeadersFields, DestroyFields DEF OnTimeout, Expired
  <2>. QED BY <1>0, <1>10, <2>1, TypeStill DEF OnTimeout, Scalars, Steps, handlerVars
<1>11. CASE BodySent
  <2>1. stream' \in Streams /\ timer' \in {timer, "cleared"}
    BY <1>0, <1>11, FinFields, DestroyFields DEF BodySent, Gone, Disarmed
  <2>2. src' \in {"finished", "errored"} /\ (aborted' = aborted \/ aborted' = TRUE)
        /\ UNCHANGED <<kind, net, body, pc, resp, denied, duplex, tooLarge>>
    BY <1>11 DEF BodySent
  <2>3. aborted' \in BOOLEAN
    BY <1>0, <2>2, Zenon DEF Scalars
  <2>4. Scalars'
    BY <1>0, <2>1, <2>2, <2>3 DEF Scalars
  <2>. QED BY <1>0, <2>1, <2>2, <2>4, TypeStill
<1>12. CASE StreamCloses
  <2>1. stream' \in Streams /\ timer' \in {timer, "cleared"}
    BY <1>0, <1>12, DestroyFields DEF StreamCloses, Gone, Disarmed
  <2>. QED BY <1>0, <1>12, <2>1, TypeStill DEF StreamCloses, Scalars, Steps, handlerVars
<1>13. CASE UpstreamEnds
  <2>1. stream' \in Streams /\ timer' \in {timer, "cleared"} /\ duplex' \in {"ended", "destroyed"}
    BY <1>0, <1>13, DestroyFields DEF UpstreamEnds, TunnelFails, Gone, Disarmed
  <2>. QED BY <1>0, <1>13, <2>1, TypeStill DEF UpstreamEnds, Scalars, Steps
<1>. QED
  BY <1>1, <1>2, <1>3, <1>4, <1>5, <1>6, <1>7, <1>8, <1>9, <1>10, <1>11, <1>12, <1>13
  DEF Client, Runtime


-----------------------------------------------------------------------------
(* The invariant.                                                          *)

\* Which steps belong to which kind of request.
RequestInv ==
  /\ pc \in {"fetch", "drainGet", "check", "drainPost", "commit", "values", "handOver"} =>
       kind \in Streamed
  /\ pc \in {"connect", "tunnel", "tunnelDrain"} => kind = "connect"
  /\ pc = "drainGet" => kind = "get"
  /\ pc = "drainPost" => kind = "post"
  /\ body.reader # "none" => kind \in Streamed

\* Who reads the body on the way to the response: when it is committed the
\* body has ended, or somebody else answers for it.
ReaderInv ==
  /\ pc \in {"drainGet", "drainPost"} => body.reader = "server"
  /\ pc \in {"stream", "fetch"} => body.reader # "server"
  /\ pc = "check" => IF kind = "get" THEN body.ctl # "open" ELSE body.reader # "server"
  /\ pc = "commit" => body.ctl # "open" \/ body.reader = "handler" \/ resp = "echo"

\* Where the answer stands.
AnswerInv ==
  /\ stream.head = "none" => stream.fin = "no"
  /\ pc = "stream" => stream.head = "none" /\ stream.life = "open"
  /\ pc = "connect" => stream.head = "none"
  /\ pc \in {"values", "handOver"} => stream.head = "handler" /\ stream.fin = "no"

\* A deadline or a deny() leaves nothing to be answered.
RefusalInv ==
  /\ timer = "fired" /\ kind # "connect" => stream.head # "none" \/ stream.life = "destroyed"
  /\ denied => stream.life = "destroyed"

IInv == TypeInv /\ RequestInv /\ ReaderInv /\ AnswerInv /\ RefusalInv

FlowInv == RequestInv /\ ReaderInv /\ AnswerInv /\ RefusalInv

\* The end of a stream changes nothing that the invariant says of its head.
LEMMA GoneFields ==
  ASSUME stream \in Streams, Gone
  PROVE  /\ stream'.life = "destroyed" /\ stream'.head = stream.head /\ stream'.fin = stream.fin
         /\ timer' = "fired" => timer = "fired"
  BY DestroyFields DEF Gone, Disarmed

\* What a step that leaves the steps of handleStream alone may do.
LEMMA FlowKept ==
  ASSUME FlowInv, UNCHANGED <<kind, pc, resp, denied>>,
         body'.reader = body.reader, body'.ctl = body.ctl \/ body'.ctl # "open",
         stream'.head = stream.head, stream'.fin = stream.fin,
         stream'.life = stream.life \/ (stream'.life = "destroyed" /\ pc # "stream"),
         timer' = "fired" => timer = "fired"
  PROVE  FlowInv'
  BY DEF FlowInv, RequestInv, ReaderInv, AnswerInv, RefusalInv

LEMMA FlowCode == TypeInv /\ FlowInv /\ Code => FlowInv'
<1>. SUFFICES ASSUME TypeInv, FlowInv, Code PROVE FlowInv'
  OBVIOUS
<1>0. stream \in Streams /\ body \in Bodies /\ kind \in AllKinds /\ Scalars
  BY TypeParts, KindsAssumption DEF Scalars
<1>. USE DEF FlowInv
<1>a. {"413", "431", "501"} \subseteq Statuses /\ "handler" \in Statuses
  BY DEF Statuses
<1>1. CASE OnStream
  <2>0. /\ UNCHANGED <<kind, body, resp, denied>> /\ pc = "stream"
        /\ timer' = timer \/ timer' \in Timers
        /\ \/ pc' = "done" /\ \E h \in {"413", "431", "501"} : stream' = SendHeaders(stream, h, TRUE)
           \/ pc' = "connect" /\ kind = "connect" /\ stream' = stream /\ timer' \in Timers
           \/ pc' = "fetch" /\ kind \in Streamed /\ stream' = stream /\ timer' \in Timers
    BY <1>1 DEF OnStream, handlerVars
  <2>1. stream.head = "none" /\ stream.fin = "no" /\ stream.life = "open" /\ ~denied
    BY <2>0 DEF AnswerInv, RefusalInv
  <2>2. CASE pc' = "done"
    <3>1. PICK h \in {"413", "431", "501"} : stream' = SendHeaders(stream, h, TRUE)
      BY <2>0, <2>2
    <3>2. h \in Statuses /\ h # "none"
      BY <1>a
    <3>3. stream'.head = h /\ stream'.fin = "end" /\ stream'.life = "open"
      BY <1>0, <2>1, <3>1, <3>2, HeadersFields
    <3>. QED BY <2>0, <2>1, <2>2, <3>2, <3>3 DEF RequestInv, ReaderInv, AnswerInv, RefusalInv
  <2>3. CASE pc' # "done"
    <3>1. timer' # "fired"
      BY <2>0, <2>3, TimersAssumption
    <3>. QED BY <2>0, <2>1, <2>3, <3>1 DEF RequestInv, ReaderInv, AnswerInv, RefusalInv
  <2>. QED BY <2>2, <2>3
<1>2. CASE NoAnswer
  <2>1. pc' = "done" /\ UNCHANGED <<kind, stream, body, denied, timer>>
    BY <1>2 DEF NoAnswer
  <2>. QED BY <2>1 DEF RequestInv, ReaderInv, AnswerInv, RefusalInv
<1>3. CASE Check
  <2>0. pc = "check" /\ kind \in Streamed /\ UNCHANGED <<kind, stream, resp, denied, timer>>
    BY <1>3 DEF Check, handlerVars, RequestInv
  <2>1. CASE Ignored /\ body.ctl = "open"
    <3>1. pc' = "drainPost" /\ body' = [body EXCEPT !.reader = "server"] /\ kind = "post"
      BY <1>3, <2>1 DEF Check, Ignored
    <3>2. body'.reader = "server" BY <1>0, <3>1, ReaderFields
    <3>. QED BY <2>0, <3>1, <3>2 DEF RequestInv, ReaderInv, AnswerInv, RefusalInv
  <2>2. CASE ~(Ignored /\ body.ctl = "open")
    <3>1. pc' = "commit" /\ UNCHANGED body
      BY <1>3, <2>2 DEF Check
    <3>2. body.reader \in {"none", "handler", "server"}
      BY <1>0 DEF Bodies
    <3>3. body.ctl # "open" \/ body.reader = "handler" \/ resp = "echo"
      BY <2>0, <2>2, <3>2 DEF Ignored, ReaderInv, Streamed
    <3>. QED BY <2>0, <3>1, <3>3 DEF RequestInv, ReaderInv, AnswerInv, RefusalInv
  <2>. QED BY <2>1, <2>2
<1>4. CASE Commit
  <2>0. /\ UNCHANGED <<kind, body, resp, denied>> /\ pc = "commit"
        /\ kind \in Streamed /\ stream.life # "destroyed"
    BY <1>4 DEF Commit, TooLate, RequestInv
  <2>1. CASE Refused
    <3>1. Gone /\ pc' = "done" BY <1>4, <2>1 DEF Commit
    <3>. QED
      BY <1>0, <2>0, <3>1, GoneFields DEF RequestInv, ReaderInv, AnswerInv, RefusalInv
  <2>2. CASE ~Refused
    <3>0. stream.head = "none" BY <2>2 DEF Refused
    <3>1. /\ stream'.head = "handler" /\ stream'.life = stream.life
          /\ \/ pc' = "done"
             \/ pc' \in {"values", "handOver"} /\ stream'.fin = "no"
      <4>1. CASE resp \in {"empty", "omit"}
        <5>1. stream' = SendHeaders(stream, "handler", TRUE) /\ pc' = "done"
          BY <1>4, <2>2, <4>1 DEF Commit
        <5>. QED BY <1>0, <1>a, <3>0, <5>1, HeadersFields, ZenonT(60)
      <4>2. CASE resp \in {"body", "trailed", "echo"}
        <5>1. stream' = SendHeaders(stream, "handler", FALSE) /\ pc' \in {"values", "handOver"}
          BY <1>4, <2>2, <4>2 DEF Commit
        <5>2. /\ stream'.head = "handler" /\ stream'.life = stream.life
              /\ stream'.fin = "no"
          <6>1. "handler" \in Statuses BY <1>a
          <6>. QED BY <1>0, <3>0, <5>1, <6>1, HeadersFields
        <5>. QED BY <5>1, <5>2
      <4>. QED BY <1>4, <2>2, <4>1, <4>2 DEF Commit
    <3>. QED BY <2>0, <3>0, <3>1 DEF RequestInv, ReaderInv, AnswerInv, RefusalInv
  <2>. QED BY <2>1, <2>2
<1>5. CASE HandOver
  <2>0. /\ UNCHANGED <<kind, denied, timer>> /\ pc = "handOver" /\ pc' = "done"
        /\ kind \in Streamed
        /\ stream' = IF stream.life = "open" THEN [stream EXCEPT !.fin = "body"] ELSE stream
    BY <1>5 DEF HandOver, handlerVars, RequestInv
  <2>1. stream'.head = stream.head /\ stream'.life = stream.life /\ stream.head = "handler"
    BY <1>0, <2>0, FinFields DEF AnswerInv
  <2>. QED BY <2>0, <2>1 DEF RequestInv, ReaderInv, AnswerInv, RefusalInv
<1>. QED BY <1>1, <1>2, <1>3, <1>4, <1>5 DEF Code

LEMMA FlowHandler == TypeInv /\ FlowInv /\ Handler => FlowInv'
<1>. SUFFICES ASSUME TypeInv, FlowInv, Handler PROVE FlowInv'
  OBVIOUS
<1>0. stream \in Streams /\ body \in Bodies
  BY TypeParts
<1>. USE DEF FlowInv
<1>1. ASSUME NEW o \in Outcomes, Return(o) PROVE FlowInv'
  <2>0. UNCHANGED <<kind, denied>> /\ pc = "fetch" /\ kind \in Streamed
    BY <1>1 DEF Return, RequestInv
  <2>1. /\ stream'.head = stream.head /\ stream'.fin = stream.fin
        /\ stream'.life \in {stream.life, "destroyed"}
        /\ timer' = "fired" => timer = "fired"
    BY <1>0, <1>1, GoneFields DEF Return
  <2>2. CASE kind = "get" /\ body.ctl = "open"
    <3>1. pc' = "drainGet" /\ body' = [body EXCEPT !.reader = "server"]
      BY <1>1, <2>2 DEF Return
    <3>2. body'.reader = "server" BY <1>0, <3>1, ReaderFields
    <3>. QED BY <2>0, <2>1, <2>2, <3>1, <3>2 DEF RequestInv, ReaderInv, AnswerInv, RefusalInv
  <2>3. CASE ~(kind = "get" /\ body.ctl = "open")
    <3>1. pc' = "check" /\ UNCHANGED body
      BY <1>1, <2>3 DEF Return
    <3>. QED BY <2>0, <2>1, <2>3, <3>1 DEF RequestInv, ReaderInv, AnswerInv, RefusalInv
  <2>. QED BY <2>2, <2>3
<1>2. ASSUME NEW r \in Tunnels, OnConnect(r) PROVE FlowInv'
  <2>0. /\ UNCHANGED <<kind, body, denied>> /\ pc = "connect" /\ kind = "connect"
        /\ stream.head = "none" /\ stream.fin = "no"
        /\ pc' \in {"done", "tunnel"}
    BY <1>2 DEF OnConnect, RequestInv, AnswerInv
  <2>1. CASE stream' = stream
    BY <2>0, <2>1 DEF RequestInv, ReaderInv, AnswerInv, RefusalInv
  <2>2. CASE stream' = Destroy(stream)
    BY <1>0, <2>0, <2>2, DestroyFields DEF RequestInv, ReaderInv, AnswerInv, RefusalInv
  <2>3. CASE stream.life = "open" /\ stream'.life = "open" /\ stream'.head # "none"
    BY <2>0, <2>3 DEF RequestInv, ReaderInv, AnswerInv, RefusalInv
  <2>. QED BY <1>0, <1>2, <2>0, <2>1, <2>2, <2>3, ConnectFields
<1>3. CASE Values
  <2>0. UNCHANGED <<kind, body, resp, denied>> /\ pc = "values" /\ kind \in Streamed
    BY <1>3 DEF Values, handlerVars, RequestInv
  <2>1. CASE pc' = "handOver" /\ UNCHANGED <<stream, timer>>
    BY <2>0, <2>1 DEF RequestInv, ReaderInv, AnswerInv, RefusalInv
  <2>2. CASE Gone /\ pc' = "done"
    BY <1>0, <2>0, <2>2, GoneFields DEF RequestInv, ReaderInv, AnswerInv, RefusalInv
  <2>. QED BY <1>3, <2>1, <2>2 DEF Values
<1>4. CASE Deny
  <2>1. UNCHANGED <<kind, body, pc, resp>> /\ Gone /\ pc # "stream"
    BY <1>4 DEF Deny, Handling, Turn
  <2>. QED
    BY <1>0, <2>1, GoneFields DEF RequestInv, ReaderInv, AnswerInv, RefusalInv
<1>5. CASE Lock
  <2>0. UNCHANGED <<kind, stream, pc, resp, denied, timer>> /\ pc = "fetch" /\ kind = "post"
    BY <1>5 DEF Lock, handlerVars
  <2>1. body'.reader = "handler"
    BY <1>0, <1>5, ReaderFields DEF Lock
  <2>. QED BY <2>0, <2>1 DEF RequestInv, ReaderInv, AnswerInv, RefusalInv, Streamed
<1>6. CASE LetGo
  <2>0. /\ UNCHANGED <<kind, stream, pc, resp, denied, timer>>
        /\ pc \notin {"stream", "check", "commit", "handOver"} /\ body.reader = "handler"
    BY <1>6 DEF LetGo, Handling, Turn, handlerVars
  <2>1. body'.reader \in {"none", "handler"}
    BY <1>0, <1>6, <2>0 DEF LetGo, Bodies
  <2>. QED BY <2>0, <2>1 DEF RequestInv, ReaderInv, AnswerInv, RefusalInv
<1>7. CASE Upstream
  <2>1. UNCHANGED <<kind, stream, body, resp, denied, timer>>
        /\ pc \in {"tunnel", "tunnelDrain"} /\ pc' \in {"tunnel", "tunnelDrain"}
    BY <1>7 DEF Upstream, handlerVars
  <2>. QED BY <2>1 DEF RequestInv, ReaderInv, AnswerInv, RefusalInv
<1>8. CASE DuplexFails
  <2>1. UNCHANGED <<kind, body, resp, denied>> /\ pc' = "done" /\ Gone
    BY <1>8 DEF DuplexFails, TunnelFails
  <2>. QED BY <1>0, <2>1, GoneFields DEF RequestInv, ReaderInv, AnswerInv, RefusalInv
<1>. QED BY <1>1, <1>2, <1>3, <1>4, <1>5, <1>6, <1>7, <1>8 DEF Handler

LEMMA FlowEvents == TypeInv /\ FlowInv /\ (Client \/ Runtime) => FlowInv'
<1>. SUFFICES ASSUME TypeInv, FlowInv, Client \/ Runtime PROVE FlowInv'
  OBVIOUS
<1>0. stream \in Streams /\ body \in Bodies
  BY TypeParts
<1>a. "413" \in Statuses /\ "408" \in Statuses
  BY DEF Statuses
<1>1. CASE ClientData \/ ClientEnd
  BY <1>1, FlowKept DEF ClientData, ClientEnd, handlerVars
<1>2. CASE OnReset
  <2>1. UNCHANGED <<kind, stream, pc, resp, denied, timer>>
        /\ body' = [body EXCEPT !.trailers = Settled(@, "empty")]
    BY <1>2 DEF OnReset, handlerVars
  <2>. QED BY <1>0, <2>1, SettledFields, FlowKept
<1>3. CASE OnError
  <2>1. UNCHANGED <<kind, pc, resp, denied>> /\ Gone /\ pc # "stream"
        /\ body' = [body EXCEPT !.trailers = Settled(@, "empty")]
    BY <1>3 DEF OnError, Turn, handlerVars
  <2>. QED BY <1>0, <2>1, SettledFields, GoneFields, FlowKept
<1>4. CASE Chunk
  <2>1. UNCHANGED <<kind, stream, pc, resp, denied, timer>>
        /\ body' = [body EXCEPT !.bytes = @ + 1]
    BY <1>4 DEF Chunk, handlerVars
  <2>2. body'.reader = body.reader /\ body'.ctl = body.ctl
    BY <1>0, <2>1 DEF Bodies
  <2>. QED BY <2>1, <2>2, FlowKept
\* The generator has come to its end.
<1>5. ASSUME NEW ctl \in {"closed", "errored"}, Finished(ctl), pc # "stream",
             UNCHANGED <<kind, resp, denied, timer>>,
             \/ UNCHANGED stream
             \/ /\ stream.head = "none" /\ stream'.head = "413" /\ stream'.life = stream.life
                /\ pc # "connect"
      PROVE  FlowInv'
  <2>1. /\ body'.reader = body.reader /\ body'.ctl = ctl
        /\ pc' = IF pc = "drainGet" THEN "check"
                 ELSE IF pc = "drainPost" THEN "commit" ELSE pc
    BY <1>0, <1>5, FinishedFields
  <2>2. RequestInv'
    BY <1>5, <2>1 DEF FlowInv, RequestInv, Streamed
  <2>3. ReaderInv'
    BY <1>5, <2>1 DEF FlowInv, RequestInv, ReaderInv, Streamed
  <2>4. AnswerInv'
    BY <1>5, <2>1 DEF FlowInv, AnswerInv
  <2>5. RefusalInv'
    BY <1>5, <2>1 DEF FlowInv, RefusalInv
  <2>. QED BY <2>2, <2>3, <2>4, <2>5 DEF FlowInv
<1>6. CASE Exceeded
  <2>1. /\ UNCHANGED <<kind, resp, denied, timer>> /\ pc # "stream" /\ Finished("errored")
        /\ stream' = SendHeaders(stream, "413", TRUE) /\ body.reader # "none"
    BY <1>6 DEF Exceeded, Reading, Turn, handlerVars
  <2>2. pc # "connect"
    BY <2>1 DEF FlowInv, RequestInv, Streamed
  <2>. QED BY <1>0, <1>a, <1>5, <2>1, <2>2, HeadersFields
<1>7. CASE BodyEnds
  <2>1. PICK ctl \in {"closed", "errored"} : Finished(ctl)
    BY <1>7, Zenon DEF BodyEnds
  <2>2. UNCHANGED <<kind, stream, resp, denied, timer>> /\ pc # "stream"
    BY <1>7 DEF BodyEnds, Reading, Turn, handlerVars
  <2>. QED BY <1>5, <2>1, <2>2
<1>8. CASE Fallback
  <2>1. UNCHANGED <<kind, stream, pc, resp, denied, timer>>
        /\ body' = [body EXCEPT !.fallback = FALSE, !.trailers = Settled(@, "empty")]
    BY <1>8 DEF Fallback, handlerVars
  <2>. QED BY <1>0, <2>1, SettledFields, FlowKept
<1>9. CASE OnTrailers
  <2>1. UNCHANGED <<kind, stream, pc, resp, denied, timer>>
        /\ body' = [body EXCEPT !.trailers = Settled(@, "client")]
    BY <1>9 DEF OnTrailers, handlerVars
  <2>. QED BY <1>0, <2>1, SettledFields, FlowKept
<1>10. CASE OnTimeout
  <2>1. UNCHANGED <<kind, body, pc, resp, denied>> /\ pc # "stream" /\ pc # "handOver"
    BY <1>10 DEF OnTimeout, Turn, handlerVars
  <2>2. CASE (kind = "connect" \/ stream.life = "destroyed") /\ UNCHANGED stream
    BY <2>1, <2>2 DEF FlowInv, RequestInv, ReaderInv, AnswerInv, RefusalInv
  <2>3. CASE /\ kind # "connect" /\ stream.life # "destroyed"
             /\ stream' = Expired(stream)
    <3>1. /\ stream'.head # "none" \/ stream'.life = "destroyed"
          /\ stream.head # "none" => stream'.head = stream.head /\ stream'.fin = stream.fin
          /\ stream.head = "none" => stream'.head # "none"
      BY <1>0, <1>a, <2>3, HeadersFields, DestroyFields, ZenonT(60) DEF Expired
    <3>2. pc # "connect" BY <2>3 DEF FlowInv, RequestInv
    <3>3. stream'.life \in {stream.life, "destroyed"}
      BY <1>0, <1>a, <2>3, HeadersFields, DestroyFields, ZenonT(60) DEF Expired
    <3>. QED
      BY <2>1, <2>3, <3>1, <3>2, <3>3 DEF FlowInv, RequestInv, ReaderInv, AnswerInv, RefusalInv
  <2>. QED BY <1>10, <2>2, <2>3 DEF OnTimeout
<1>11. CASE BodySent
  <2>1. /\ UNCHANGED <<kind, body, pc, resp, denied>> /\ pc # "stream"
        /\ stream.fin = "body" /\ stream.life = "open"
    BY <1>11 DEF BodySent, Turn
  <2>2. CASE Gone
    BY <1>0, <2>1, <2>2, GoneFields, FlowKept
  <2>3. CASE stream' = [stream EXCEPT !.fin = "end"] /\ UNCHANGED timer
    <3>1. stream'.head = stream.head /\ stream'.life = stream.life /\ stream'.fin = "end"
      BY <1>0, <2>3, FinFields
    <3>. QED
      BY <2>1, <2>3, <3>1 DEF FlowInv, RequestInv, ReaderInv, AnswerInv, RefusalInv
  <2>. QED BY <1>11, <2>2, <2>3 DEF BodySent
<1>12. CASE StreamCloses
  <2>1. UNCHANGED <<kind, body, pc, resp, denied>> /\ pc # "stream" /\ Gone
    BY <1>12 DEF StreamCloses, Turn, handlerVars
  <2>. QED BY <1>0, <2>1, GoneFields, FlowKept
<1>13. CASE UpstreamEnds
  <2>1. /\ UNCHANGED <<kind, body, resp, denied>> /\ pc' = "done"
        /\ Gone \/ UNCHANGED <<stream, timer>>
    BY <1>13 DEF UpstreamEnds, TunnelFails
  <2>. QED
    BY <1>0, <2>1, GoneFields DEF FlowInv, RequestInv, ReaderInv, AnswerInv, RefusalInv
<1>. QED
  BY <1>1, <1>2, <1>3, <1>4, <1>6, <1>7, <1>8, <1>9, <1>10, <1>11, <1>12, <1>13
  DEF Client, Runtime

\* The types need the rest of the invariant only for CONNECT, which must find
\* that no headers were sent.
LEMMA IInvCorrect == Spec => []IInv
<1>1. Init => IInv
  BY TypeInit DEF Init, IInv, RequestInv, ReaderInv, AnswerInv, RefusalInv
<1>2. IInv /\ UNCHANGED vars => IInv'
  BY DEF vars, IInv, TypeInv, TypeOK, Counted, RequestInv, ReaderInv, AnswerInv, RefusalInv
<1>3. IInv /\ Next => IInv'
  <2>. SUFFICES ASSUME TypeInv, FlowInv, Next PROVE TypeInv' /\ FlowInv'
    BY DEF IInv, FlowInv
  <2>1. TypeInv'
    BY TypeCode, TypeHandler, TypeEvents DEF Next, FlowInv, AnswerInv
  <2>2. FlowInv'
    BY FlowCode, FlowHandler, FlowEvents DEF Next
  <2>. QED BY <2>1, <2>2
<1>. QED BY <1>1, <1>2, <1>3, PTL DEF Spec

\* The type invariant, for any limit and any number of chunks.
THEOREM TypeCorrect == Spec => []TypeOK
<1>1. IInv => TypeOK
  BY DEF IInv, TypeInv
<1>. QED BY <1>1, IInvCorrect, PTL

\* A response is begun in one step only.
LEMMA BeginsAtCommit ==
  ASSUME IInv, Next, Begins
  PROVE  Commit /\ ~Refused
<1>0. stream \in Streams /\ IInv
  BY TypeParts DEF IInv
<1>a. {"408", "413", "431", "501"} \subseteq Statuses
  BY DEF Statuses
<1>b. stream.head # "handler" /\ stream'.head = "handler" /\ kind # "connect"
  BY DEF Begins
<1>1. stream' # stream /\ stream'.head # stream.head
  BY <1>b
<1>2. ~Gone
  BY <1>0, <1>1, GoneFields
<1>3. ASSUME NEW h \in {"408", "413", "431", "501"}, stream' = SendHeaders(stream, h, TRUE)
      PROVE  FALSE
  <2>1. h \in Statuses /\ h # "handler" BY <1>a
  <2>. QED BY <1>0, <1>b, <1>3, <2>1, HeadersFields
<1>4. ~(stream' = Destroy(stream))
  BY <1>0, <1>1, DestroyFields
<1>5. ASSUME NEW f \in {"body", "end"} PROVE stream' # [stream EXCEPT !.fin = f]
  BY <1>0, <1>1, FinFields
<1>6. ~OnStream
  BY <1>1, <1>3 DEF OnStream
<1>7. ~NoAnswer /\ ~Check
  BY <1>1 DEF NoAnswer, Check
<1>8. ~HandOver
  BY <1>1, <1>5 DEF HandOver
<1>9. ~Handler
  <2>1. ASSUME NEW o \in Outcomes PROVE ~Return(o)
    BY <1>1, <1>2 DEF Return
  <2>2. ASSUME NEW r \in Tunnels PROVE ~OnConnect(r)
    BY <1>0, <1>b DEF OnConnect, IInv, RequestInv
  <2>3. ~Values /\ ~Deny /\ ~DuplexFails
    BY <1>1, <1>2 DEF Values, Deny, DuplexFails, TunnelFails
  <2>4. ~Lock /\ ~LetGo /\ ~Upstream
    BY <1>1 DEF Lock, LetGo, Upstream
  <2>. QED BY <2>1, <2>2, <2>3, <2>4 DEF Handler
<1>10. ~Client
  BY <1>1, <1>2 DEF Client, ClientData, ClientEnd, OnReset, OnError
<1>11. ~Runtime
  <2>1. ~Chunk /\ ~BodyEnds /\ ~Fallback /\ ~OnTrailers
    BY <1>1 DEF Chunk, BodyEnds, Fallback, OnTrailers
  <2>2. ~Exceeded
    BY <1>3 DEF Exceeded
  <2>3. ~OnTimeout
    BY <1>1, <1>3, <1>4 DEF OnTimeout, Expired
  <2>4. ~BodySent /\ ~StreamCloses /\ ~UpstreamEnds
    BY <1>1, <1>2, <1>5 DEF BodySent, StreamCloses, UpstreamEnds, TunnelFails
  <2>. QED BY <2>1, <2>2, <2>3, <2>4 DEF Runtime
<1>12. Commit
  BY <1>6, <1>7, <1>8, <1>9, <1>10, <1>11 DEF Next, Code
<1>13. ~Refused
  BY <1>2, <1>12 DEF Commit
<1>. QED BY <1>12, <1>13

\* No response is begun once the deadline passed, the handler refused or the
\* body was too large, whatever came during the awaits.
THEOREM NothingAfterRefusal == Spec => NoResponseAfterRefusal
<1>1. IInv /\ [Next]_vars =>
        [Begins => timer # "fired" /\ ~denied /\ ~tooLarge /\ stream.life = "open"]_vars
  <2>. SUFFICES ASSUME IInv, Next, Begins
                PROVE  timer # "fired" /\ ~denied /\ ~tooLarge /\ stream.life = "open"
    OBVIOUS
  <2>1. Commit /\ ~Refused
    BY BeginsAtCommit
  <2>2. stream.head = "none" /\ stream.life = "open" /\ ~tooLarge
    BY <2>1, TypeParts DEF Commit, Refused, TooLate, IInv, Streams
  <2>. QED BY <2>2 DEF IInv, RefusalInv, Begins
<1>. QED BY <1>1, IInvCorrect, PTL DEF Spec, NoResponseAfterRefusal

\* A body that its handler ignores was counted to its end before the response.
THEOREM IgnoredBodies == Spec => IgnoredBodyCounted
<1>1. IInv /\ [Next]_vars =>
        [Begins => body.ctl # "open" \/ body.reader = "handler" \/ resp = "echo"]_vars
  <2>. SUFFICES ASSUME IInv, Next, Begins
                PROVE  body.ctl # "open" \/ body.reader = "handler" \/ resp = "echo"
    OBVIOUS
  <2>1. pc = "commit"
    BY BeginsAtCommit DEF Commit
  <2>. QED BY <2>1 DEF IInv, ReaderInv
<1>. QED BY <1>1, IInvCorrect, PTL DEF Spec, IgnoredBodyCounted

-----------------------------------------------------------------------------
(* The stream implements the abstract exchange.                            *)

\* The mapping by the fields of the stream.
StageOf(s) ==
  IF s.fin = "end" THEN "complete"
  ELSE IF s.life = "destroyed" THEN "reset"
  ELSE IF s.head = "none" THEN "waiting" ELSE "answering"

AnswerOf(s) ==
  IF s.head = "none" THEN "none"
  ELSE IF s.head \in {"handler", "200"} THEN "response" ELSE "refusal"

LEMMA Mapped ==
  ASSUME stream \in Streams, stream' \in Streams
  PROVE  /\ Stage = StageOf(stream) /\ Stage' = StageOf(stream')
         /\ Answered = AnswerOf(stream) /\ Answered' = AnswerOf(stream')
<1>1. Stage = StageOf(stream)
  BY DEF Stage, StageOf, Streams
<1>2. Stage' = StageOf(stream')
  BY DEF Stage, StageOf, Streams
<1>3. Answered = AnswerOf(stream)
  BY DEF Answered, AnswerOf
<1>4. Answered' = AnswerOf(stream')
  BY DEF Answered, AnswerOf
<1>. QED BY <1>1, <1>2, <1>3, <1>4

\* A step that leaves the stream and the signal alone is a stutter.
LEMMA Stutters ==
  ASSUME UNCHANGED <<stream, aborted>>
  PROVE  UNCHANGED X!vars
  BY DEF X!vars, Stage, Answered

\* Headers that the server sends in the handler's place.
LEMMA RefusesX ==
  ASSUME stream \in Streams, stream' \in Streams, aborted' \in {aborted, TRUE},
         stream.head = "none", stream.fin = "no", stream.life = "open",
         stream'.head \notin {"none", "handler", "200"}, stream'.fin = "end"
  PROVE  X!Next
<1>1. X!Refuse
  BY Mapped DEF X!Refuse, X!MayTell, StageOf, AnswerOf
<1>. QED BY <1>1 DEF X!Next

\* The handler's headers, with the whole of the answer or before its body.
LEMMA RespondsX ==
  ASSUME stream \in Streams, stream' \in Streams, UNCHANGED aborted,
         stream.head = "none", stream.fin = "no", stream.life = "open",
         stream'.head \in {"handler", "200"}, stream'.life = "open"
  PROVE  X!Next
<1>1. X!Respond
  BY Mapped DEF X!Respond, StageOf, AnswerOf
<1>. QED BY <1>1 DEF X!Next

\* A stream that is destroyed, or stays as it was, while the handler may be
\* told: here it may be told of an answer that is still being sent.
LEMMA EndsX ==
  ASSUME stream \in Streams, stream' \in Streams, aborted \in BOOLEAN,
         aborted' \in {aborted, TRUE}, stream'.head = stream.head,
         stream'.fin = stream.fin \/ (stream.fin = "no" /\ stream'.fin = "body"),
         stream'.life = stream.life \/ stream'.life = "destroyed"
  PROVE  [X!Next]_(X!vars)
<1>1. CASE Stage' = Stage /\ aborted' = aborted
  BY <1>1, Mapped DEF X!vars, AnswerOf
<1>2. CASE Stage' = Stage /\ aborted' # aborted
  <2>1. X!Tell
    BY <1>2, Mapped DEF X!Tell, StageOf, AnswerOf
  <2>. QED BY <2>1 DEF X!Next
<1>3. CASE Stage' # Stage
  <2>1. X!Reset
    BY <1>3, Mapped DEF X!Reset, X!MayTell, StageOf, AnswerOf
  <2>. QED BY <2>1 DEF X!Next
<1>. QED BY <1>1, <1>2, <1>3

LEMMA ExchangeInit == Init => X!Init
<1>. SUFFICES ASSUME Init PROVE X!Init
  OBVIOUS
<1>1. stream.head = "none" /\ stream.fin = "no" /\ stream.life = "open" /\ aborted = FALSE
  BY DEF Init
<1>. QED BY <1>1 DEF X!Init, Stage, Answered


\* Most steps do one of three things to the stream.
LEMMA GoneX ==
  ASSUME IInv, IInv', Gone \/ UNCHANGED stream, aborted' \in {aborted, TRUE}
  PROVE  [X!Next]_(X!vars)
<1>1. stream \in Streams /\ stream' \in Streams /\ aborted \in BOOLEAN
  BY TypeParts DEF IInv, TypeInv, TypeOK, Streams
<1>2. /\ stream'.head = stream.head /\ stream'.fin = stream.fin
      /\ stream'.life = stream.life \/ stream'.life = "destroyed"
  BY <1>1, GoneFields
<1>. QED BY <1>1, <1>2, EndsX

LEMMA ExchangeCode == IInv /\ IInv' /\ Code => [X!Next]_(X!vars)
<1>. SUFFICES ASSUME IInv, IInv', Code PROVE [X!Next]_(X!vars)
  OBVIOUS
<1>0. stream \in Streams /\ stream' \in Streams /\ aborted \in BOOLEAN /\ AnswerInv
  BY TypeParts DEF IInv, TypeInv, TypeOK, Streams
<1>1. CASE OnStream
  <2>1. UNCHANGED aborted /\ pc = "stream"
        /\ \/ stream' = stream
           \/ \E h \in {"413", "431", "501"} : stream' = SendHeaders(stream, h, TRUE)
    BY <1>1 DEF OnStream
  <2>2. CASE stream' = stream
    BY <2>1, <2>2, Stutters
  <2>3. ASSUME NEW h \in {"413", "431", "501"}, stream' = SendHeaders(stream, h, TRUE)
        PROVE  X!Next
    <3>1. stream.head = "none" /\ stream.fin = "no" /\ stream.life = "open"
      BY <1>0, <2>1 DEF AnswerInv
    <3>2. h \in Statuses /\ h \notin {"none", "handler", "200"} BY DEF Statuses
    <3>3. stream'.head = h /\ stream'.fin = "end"
      BY <1>0, <2>3, <3>1, <3>2, HeadersFields
    <3>. QED BY <1>0, <2>1, <3>1, <3>2, <3>3, RefusesX
  <2>. QED BY <2>1, <2>2, <2>3
<1>2. CASE NoAnswer \/ Check
  BY <1>2, Stutters DEF NoAnswer, Check
<1>3. CASE Commit
  <2>1. UNCHANGED aborted /\ stream.life = "open"
    BY <1>0, <1>3 DEF Commit, TooLate, Streams
  <2>2. CASE Refused
    <3>1. Gone BY <1>3, <2>2 DEF Commit
    <3>. QED BY <2>1, <3>1, GoneX
  <2>3. CASE ~Refused
    <3>1. stream.head = "none" /\ stream.fin = "no" BY <1>0, <2>3 DEF Refused, AnswerInv
    <3>2. "handler" \in Statuses BY DEF Statuses
    <3>3. CASE stream' = SendHeaders(stream, "handler", TRUE)
      BY <1>0, <2>1, <3>1, <3>2, <3>3, HeadersFields, RespondsX
    <3>4. CASE stream' = SendHeaders(stream, "handler", FALSE)
      BY <1>0, <2>1, <3>1, <3>2, <3>4, HeadersFields, RespondsX
    <3>. QED BY <1>3, <2>3, <3>3, <3>4 DEF Commit
  <2>. QED BY <2>2, <2>3
<1>4. CASE HandOver
  <2>1. UNCHANGED aborted /\ pc = "handOver"
        /\ stream' = IF stream.life = "open" THEN [stream EXCEPT !.fin = "body"] ELSE stream
    BY <1>4 DEF HandOver
  <2>2. CASE stream' = stream
    BY <2>1, <2>2, Stutters
  <2>3. CASE stream' = [stream EXCEPT !.fin = "body"]
    <3>1. stream'.head = stream.head /\ stream'.life = stream.life /\ stream'.fin = "body"
          /\ stream.fin = "no"
      BY <1>0, <2>1, <2>3, FinFields DEF AnswerInv
    <3>. QED BY <1>0, <2>1, <3>1, EndsX
  <2>. QED BY <2>1, <2>2, <2>3
<1>. QED BY <1>1, <1>2, <1>3, <1>4 DEF Code

LEMMA ExchangeHandler == IInv /\ IInv' /\ Handler => [X!Next]_(X!vars)
<1>. SUFFICES ASSUME IInv, IInv', Handler PROVE [X!Next]_(X!vars)
  OBVIOUS
<1>0. stream \in Streams /\ stream' \in Streams /\ aborted \in BOOLEAN /\ AnswerInv
  BY TypeParts DEF IInv, TypeInv, TypeOK, Streams
<1>1. ASSUME NEW o \in Outcomes, Return(o) PROVE [X!Next]_(X!vars)
  BY <1>1, GoneX DEF Return
<1>2. ASSUME NEW r \in Tunnels, OnConnect(r) PROVE [X!Next]_(X!vars)
  <2>1. UNCHANGED aborted /\ stream.head = "none" /\ stream.fin = "no"
    BY <1>0, <1>2 DEF OnConnect, AnswerInv
  <2>2. CASE stream' = stream
    BY <2>1, <2>2, Stutters
  <2>3. CASE stream' = Destroy(stream)
    BY <1>0, <2>1, <2>3, DestroyFields, EndsX
  <2>4. CASE /\ stream.life = "open" /\ stream'.life = "open"
             /\ stream'.head \in {"200", "handler"}
    BY <1>0, <2>1, <2>4, RespondsX
  <2>5. CASE /\ stream.life = "open" /\ stream'.life = "open"
             /\ stream'.head \in {"501", "502"} /\ stream'.fin = "end"
    BY <1>0, <2>1, <2>5, RefusesX
  <2>. QED BY <1>0, <1>2, <2>1, <2>2, <2>3, <2>4, <2>5, ConnectFields
<1>3. CASE Values \/ Deny
  <2>1. UNCHANGED aborted /\ (Gone \/ UNCHANGED stream)
    BY <1>3 DEF Values, Deny
  <2>. QED BY <2>1, GoneX
<1>4. CASE Lock \/ LetGo \/ Upstream
  BY <1>4, Stutters DEF Lock, LetGo, Upstream
<1>5. CASE DuplexFails
  BY <1>5, GoneX DEF DuplexFails, TunnelFails
<1>. QED BY <1>1, <1>2, <1>3, <1>4, <1>5 DEF Handler

LEMMA ExchangeEvents == IInv /\ IInv' /\ (Client \/ Runtime) => [X!Next]_(X!vars)
<1>. SUFFICES ASSUME IInv, IInv', Client \/ Runtime PROVE [X!Next]_(X!vars)
  OBVIOUS
<1>0. stream \in Streams /\ stream' \in Streams /\ aborted \in BOOLEAN /\ AnswerInv
  BY TypeParts DEF IInv, TypeInv, TypeOK, Streams
<1>1. CASE ClientData \/ ClientEnd \/ Chunk \/ BodyEnds \/ Fallback \/ OnTrailers
  BY <1>1, Stutters DEF ClientData, ClientEnd, Chunk, BodyEnds, Fallback, OnTrailers
<1>2. CASE OnReset \/ OnError \/ StreamCloses \/ UpstreamEnds
  <2>1. (Gone \/ UNCHANGED stream) /\ (aborted' = aborted \/ aborted' = TRUE)
    BY <1>2 DEF OnReset, OnError, StreamCloses, UpstreamEnds, TunnelFails
  <2>. QED BY <2>1, GoneX
\* Headers that were sent already are not sent again.
<1>3. ASSUME NEW h \in {"408", "413"}, stream' = SendHeaders(stream, h, TRUE),
             aborted' = TRUE, stream.life = "open"
      PROVE  [X!Next]_(X!vars)
  <2>1. h \in Statuses /\ h \notin {"none", "handler", "200"} BY DEF Statuses
  <2>2. CASE stream.head = "none"
    <3>1. stream'.head = h /\ stream'.fin = "end" /\ stream.fin = "no"
      BY <1>0, <1>3, <2>1, <2>2, HeadersFields DEF AnswerInv
    <3>. QED BY <1>0, <1>3, <2>1, <2>2, <3>1, RefusesX
  <2>3. CASE stream.head # "none"
    <3>1. stream' = stream
      BY <1>0, <1>3, <2>1, <2>3, HeadersFields
    <3>. QED BY <1>3, <3>1, GoneX
  <2>. QED BY <2>2, <2>3
<1>4. CASE Exceeded
  BY <1>3, <1>4 DEF Exceeded
<1>5. CASE OnTimeout
  <2>1. aborted' = TRUE BY <1>5 DEF OnTimeout
  <2>2. CASE stream' = stream
    BY <2>1, <2>2, GoneX
  <2>3. CASE stream' = Destroy(stream)
    BY <1>0, <2>1, <2>3, DestroyFields, EndsX
  <2>4. CASE stream' = SendHeaders(stream, "408", TRUE) /\ stream.life = "open"
    BY <1>3, <2>1, <2>4
  <2>. QED BY <1>0, <1>5, <2>2, <2>3, <2>4 DEF OnTimeout, Expired, Streams
<1>6. CASE BodySent
  <2>1. stream.fin = "body" /\ stream.life = "open"
    BY <1>6 DEF BodySent
  <2>2. CASE Gone /\ aborted' \in {aborted, TRUE}
    BY <2>2, GoneX
  <2>3. CASE stream' = [stream EXCEPT !.fin = "end"] /\ UNCHANGED aborted
    <3>1. stream'.head = stream.head /\ stream'.fin = "end"
      BY <1>0, <2>3, FinFields
    <3>2. stream.head # "none"
      BY <1>0, <2>1 DEF AnswerInv
    <3>3. X!Finish
      BY <1>0, <2>1, <2>3, <3>1, <3>2, Mapped DEF X!Finish, StageOf, AnswerOf
    <3>. QED BY <3>3 DEF X!Next
  <2>. QED BY <1>6, <2>2, <2>3 DEF BodySent
<1>. QED BY <1>1, <1>2, <1>4, <1>5, <1>6 DEF Client, Runtime

\* Every step of the stream is a step of the exchange or changes nothing of it:
\* one answer at most, and none that reads as whole after it was cut.
THEOREM Implements == Spec => ImplementsExchange
<1>1. IInv /\ IInv' /\ [Next]_vars => [X!Next]_(X!vars)
  <2>. SUFFICES ASSUME IInv, IInv', [Next]_vars PROVE [X!Next]_(X!vars)
    OBVIOUS
  <2>1. CASE UNCHANGED vars
    BY <2>1, Stutters DEF vars
  <2>2. CASE Next
    BY <2>2, ExchangeCode, ExchangeHandler, ExchangeEvents DEF Next
  <2>. QED BY <2>1, <2>2
<1>. QED
  BY <1>1, ExchangeInit, IInvCorrect, PTL DEF Spec, ImplementsExchange, X!Spec
=============================================================================
