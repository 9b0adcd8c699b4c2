-------------------------- MODULE H2Stream_proofs --------------------------
(***************************************************************************)
(* Safety of one HTTP/2 stream for any body limit and any number of DATA   *)
(* frames, and the proof that the stream implements the abstract exchange. *)
(***************************************************************************)
EXTENDS H2Stream, TLAPS

NoData == [sent |-> 0, inbox |-> 0, eof |-> "no", event |-> FALSE]

Streams ==
  [life : {"open", "closed", "destroyed"}, head : Statuses,
   fin : {"no", "trailing", "end"}]

Nets ==
  [sent : 0 .. MaxChunks, inbox : 0 .. MaxChunks,
   eof : {"no", "bare", "trailers"}, event : BOOLEAN]

-----------------------------------------------------------------------------
(* Types.                                                                  *)

\* Before handleStream has run nothing has happened.
Unbegun ==
  pc = "stream" =>
    /\ stream = [life |-> "open", head |-> "none", fin |-> "no"]
    /\ net = NoData /\ body = NoBody
    /\ aborted = FALSE /\ responded = FALSE /\ timer = "unset" /\ denied = FALSE

\* Every chunk of the client is counted once, and a stream that flows into the
\* queue finds it empty: without it the counters have no bound.
Counted ==
  /\ body.bytes + net.inbox = net.sent
  /\ body.flowing /\ ~body.discarded => body.queued = 0

TypeInv == TypeOK /\ Unbegun /\ Counted

\* What the functions of the stream's state return.
LEMMA StreamType ==
  ASSUME NEW s \in Streams
  PROVE  /\ \A h \in Statuses, e \in BOOLEAN : Respond(s, h, e) \in Streams
         /\ Closed(s) \in Streams
         /\ \A t \in BOOLEAN : Ended(s, t) \in Streams
         /\ Exceeded(s) \in Streams /\ Expired(s) \in Streams
         /\ [s EXCEPT !.life = "destroyed"] \in Streams
         /\ [s EXCEPT !.fin = "end"] \in Streams
  BY DEF Streams, Respond, Closed, Ended, Exceeded, Expired, Statuses

\* A field of a body set to a value of its type.
LEMMA FieldType ==
  ASSUME NEW b \in Bodies
  PROVE  /\ \A v \in {"none", "open", "closed", "errored", "cancelled"} :
              [b EXCEPT !.ctl = v] \in Bodies
         /\ \A v \in 0 .. 1 : [b EXCEPT !.queued = v] \in Bodies
         /\ \A v \in 0 .. MaxChunks : [b EXCEPT !.bytes = v] \in Bodies
         /\ \A v \in BOOLEAN : [b EXCEPT !.flowing = v] \in Bodies
         /\ \A v \in BOOLEAN : [b EXCEPT !.discarded = v] \in Bodies
         /\ \A v \in BOOLEAN : [b EXCEPT !.ended = v] \in Bodies
         /\ \A v \in BOOLEAN : [b EXCEPT !.locked = v] \in Bodies
         /\ \A v \in BOOLEAN : [b EXCEPT !.fallback = v] \in Bodies
         /\ \A v \in {"pending", "client", "empty"} : [b EXCEPT !.trailers = v] \in Bodies
  BY DEF Bodies

\* The fields two bodies may share.
SameCount(b, c) == c.bytes = b.bytes /\ c.fallback = b.fallback /\ c.ended = b.ended

\* What each function of the body returns, field by field.
LEMMA OnAbortedFields ==
  ASSUME NEW b \in Bodies
  PROVE  /\ OnAborted(b) \in Bodies /\ SameCount(b, OnAborted(b))
         /\ OnAborted(b).flowing = b.flowing /\ OnAborted(b).locked = b.locked
         /\ \/ (b.ended \/ b.discarded) /\ OnAborted(b) = b
            \/ /\ ~b.ended /\ ~b.discarded
               /\ OnAborted(b).ctl = "errored" /\ OnAborted(b).queued = 0
               /\ OnAborted(b).discarded = TRUE
               /\ OnAborted(b).trailers = Settled(b.trailers, "empty")
<1>1. Settled(b.trailers, "empty") \in {"pending", "client", "empty"} /\ 0 \in 0 .. 1
  BY DEF Bodies, Settled
<1>2. OnAborted(b) \in Bodies
  BY <1>1, FieldType, Zenon DEF OnAborted
<1>3. SameCount(b, OnAborted(b)) /\ OnAborted(b).flowing = b.flowing
      /\ OnAborted(b).locked = b.locked
  BY DEF Bodies, OnAborted, SameCount, Settled
<1>4. ~b.ended /\ ~b.discarded =>
        /\ OnAborted(b).ctl = "errored" /\ OnAborted(b).queued = 0
        /\ OnAborted(b).discarded = TRUE
        /\ OnAborted(b).trailers = Settled(b.trailers, "empty")
  BY DEF Bodies, OnAborted, Settled
<1>5. b.ended \/ b.discarded => OnAborted(b) = b
  BY DEF OnAborted
<1>. QED BY <1>2, <1>3, <1>4, <1>5

LEMMA CancelledFields ==
  ASSUME NEW b \in Bodies
  PROVE  /\ Cancelled(b) \in Bodies /\ SameCount(b, Cancelled(b))
         /\ Cancelled(b).locked = b.locked /\ Cancelled(b).trailers = b.trailers
         /\ \/ b.ctl # "open" /\ b.queued = 0 /\ Cancelled(b) = b
            \/ /\ b.ctl = "open" \/ b.queued > 0
               /\ Cancelled(b).ctl = "cancelled" /\ Cancelled(b).queued = 0
               /\ Cancelled(b).flowing = TRUE /\ Cancelled(b).discarded = TRUE
<1>1. 0 \in 0 .. 1 OBVIOUS
<1>2. Cancelled(b) \in Bodies
  BY <1>1, FieldType, Zenon DEF Cancelled
<1>3. SameCount(b, Cancelled(b)) /\ Cancelled(b).locked = b.locked
      /\ Cancelled(b).trailers = b.trailers
  BY DEF Bodies, Cancelled, SameCount
<1>4. b.ctl = "open" \/ b.queued > 0 =>
        /\ Cancelled(b).ctl = "cancelled" /\ Cancelled(b).queued = 0
        /\ Cancelled(b).flowing = TRUE /\ Cancelled(b).discarded = TRUE
  BY DEF Bodies, Cancelled
<1>5. ~(b.ctl = "open" \/ b.queued > 0) => Cancelled(b) = b /\ b.queued = 0
  BY DEF Bodies, Cancelled
<1>. QED BY <1>2, <1>3, <1>4, <1>5

LEMMA OversizedFields ==
  ASSUME NEW b \in Bodies
  PROVE  /\ Oversized(b) \in Bodies /\ SameCount(b, Oversized(b))
         /\ Oversized(b).ctl = (IF b.ctl = "open" THEN "errored" ELSE b.ctl)
         /\ Oversized(b).queued = 0 /\ Oversized(b).flowing = TRUE
         /\ Oversized(b).discarded = TRUE /\ Oversized(b).trailers = b.trailers
<1>1. (IF b.ctl = "open" THEN "errored" ELSE b.ctl)
        \in {"none", "open", "closed", "errored", "cancelled"} /\ 0 \in 0 .. 1
  BY DEF Bodies
<1>2. [b EXCEPT !.discarded = TRUE, !.flowing = TRUE].ctl = b.ctl
  BY DEF Bodies
<1>3. Oversized(b) \in Bodies
  BY <1>1, <1>2, FieldType, Zenon DEF Oversized
<1>4. SameCount(b, Oversized(b)) /\ Oversized(b).trailers = b.trailers
  BY DEF Bodies, Oversized, SameCount
<1>5. Oversized(b).ctl = (IF b.ctl = "open" THEN "errored" ELSE b.ctl)
      /\ Oversized(b).queued = 0
  BY DEF Bodies, Oversized
<1>6. Oversized(b).flowing = TRUE /\ Oversized(b).discarded = TRUE
  BY DEF Bodies, Oversized
<1>. QED BY <1>3, <1>4, <1>5, <1>6

LEMMA UnlockedFields ==
  ASSUME NEW b \in Bodies
  PROVE  /\ Unlocked(b) \in Bodies /\ SameCount(b, Unlocked(b))
         /\ Unlocked(b).ctl = b.ctl /\ Unlocked(b).queued = b.queued
         /\ Unlocked(b).flowing = b.flowing /\ Unlocked(b).discarded = b.discarded
         /\ Unlocked(b).trailers = b.trailers
<1>1. Unlocked(b) \in Bodies
  BY FieldType, Zenon DEF Unlocked
<1>. QED BY <1>1 DEF Bodies, Unlocked, SameCount

LEMMA TakenFields ==
  ASSUME NEW b \in Bodies, b.queued > 0
  PROVE  /\ Taken(b) \in Bodies /\ SameCount(b, Taken(b))
         /\ Taken(b).ctl = b.ctl /\ Taken(b).queued = 0
         /\ b.flowing => Taken(b).flowing
         /\ Taken(b).discarded = b.discarded /\ Taken(b).trailers = b.trailers
<1>1. b.queued - 1 = 0 /\ 0 \in 0 .. 1 BY DEF Bodies
<1>2. (b.flowing \/ b.ctl = "open") \in BOOLEAN OBVIOUS
<1>3. [b EXCEPT !.queued = 0].flowing = b.flowing
  BY DEF Bodies
<1>4. Taken(b) \in Bodies
  BY <1>1, <1>2, <1>3, FieldType, Zenon DEF Taken
<1>5. SameCount(b, Taken(b)) /\ Taken(b).ctl = b.ctl /\ Taken(b).queued = 0
  BY DEF Bodies, Taken, SameCount
<1>6. (b.flowing => Taken(b).flowing)
      /\ Taken(b).discarded = b.discarded /\ Taken(b).trailers = b.trailers
  BY DEF Bodies, Taken
<1>. QED BY <1>4, <1>5, <1>6

LEMMA EnqueuedFields ==
  ASSUME NEW b \in Bodies, b.flowing /\ ~b.discarded => b.queued = 0, b.flowing
  PROVE  /\ Enqueued(b) \in Bodies /\ SameCount(b, Enqueued(b))
         /\ Enqueued(b).ctl = b.ctl /\ Enqueued(b).discarded = b.discarded
         /\ Enqueued(b).trailers = b.trailers
         /\ b.discarded => Enqueued(b) = b
         /\ ~b.discarded => Enqueued(b).flowing = FALSE
<1>1. CASE b.discarded
  BY <1>1 DEF Enqueued, SameCount
<1>2. CASE ~b.discarded
  <2>1. b.queued + 1 = 1 /\ 1 \in 0 .. 1 BY <1>2
  <2>2. Enqueued(b) \in Bodies
    BY <1>2, <2>1, FieldType, Zenon DEF Enqueued
  <2>3. SameCount(b, Enqueued(b)) /\ Enqueued(b).ctl = b.ctl
    BY <1>2 DEF Bodies, Enqueued, SameCount
  <2>4. /\ Enqueued(b).discarded = b.discarded /\ Enqueued(b).trailers = b.trailers
        /\ Enqueued(b).flowing = FALSE
    BY <1>2 DEF Bodies, Enqueued
  <2>. QED BY <1>2, <2>2, <2>3, <2>4
<1>. QED BY <1>1, <1>2

\* A reader takes or releases the lock: nothing else changes.
LEMMA LockedFields ==
  ASSUME NEW b \in Bodies, NEW v \in BOOLEAN, NEW c, c = [b EXCEPT !.locked = v]
  PROVE  /\ c \in Bodies /\ SameCount(b, c) /\ c.ctl = b.ctl /\ c.queued = b.queued
         /\ c.flowing = b.flowing /\ c.discarded = b.discarded /\ c.trailers = b.trailers
<1>1. [b EXCEPT !.locked = v] \in Bodies
  BY FieldType
<1>. QED BY <1>1 DEF Bodies, SameCount

\* The body a request starts with.
LEMMA RequestBodyFields ==
  /\ NoBody \in Bodies /\ RequestBody \in Bodies
  /\ RequestBody.bytes = 0 /\ RequestBody.queued = 0 /\ RequestBody.fallback = FALSE
  /\ kind \notin {"get", "post"} => RequestBody = NoBody
  /\ kind \in {"get", "post"} =>
       /\ RequestBody.ended = FALSE /\ RequestBody.flowing = TRUE
       /\ RequestBody.trailers = "pending"
       /\ IF kind = "post" THEN RequestBody.ctl = "open" /\ RequestBody.discarded = FALSE
          ELSE RequestBody.ctl = "cancelled" /\ RequestBody.discarded = TRUE
<1>. DEFINE b == [NoBody EXCEPT !.ctl = "open", !.flowing = TRUE, !.ended = FALSE,
                                !.trailers = "pending"]
<1>1. NoBody \in Bodies
  BY MaxChunksAssumption DEF NoBody, Bodies
<1>3. b \in Bodies
  BY <1>1, FieldType, Zenon
<1>4. /\ b.bytes = 0 /\ b.queued = 0 /\ b.fallback = FALSE /\ b.ended = FALSE
      /\ b.flowing = TRUE /\ b.trailers = "pending" /\ b.ctl = "open" /\ b.discarded = FALSE
  BY DEF NoBody
<1>5. NoBody.bytes = 0 /\ NoBody.queued = 0 /\ NoBody.fallback = FALSE
  BY DEF NoBody
<1>6. RequestBody = CASE kind = "post" -> b [] kind = "get" -> Cancelled(b) [] OTHER -> NoBody
  BY DEF RequestBody
<1>. HIDE DEF b
<1>7. CASE kind = "post"
  BY <1>1, <1>3, <1>4, <1>6, <1>7
<1>8. CASE kind = "get"
  BY <1>1, <1>3, <1>4, <1>6, <1>8, CancelledFields DEF SameCount
<1>9. CASE kind \notin {"get", "post"}
  BY <1>1, <1>5, <1>6, <1>9
<1>. QED BY <1>7, <1>8, <1>9

\* A body that flows into its queue finds it empty, whatever is done to it.
Fits(b) == b \in Bodies /\ (b.flowing /\ ~b.discarded => b.queued = 0)

LEMMA FitsKept ==
  ASSUME NEW b, Fits(b), NEW s
  PROVE  /\ Fits(OnAborted(b)) /\ OnAborted(b).bytes = b.bytes
         /\ Fits(Cancelled(b)) /\ Cancelled(b).bytes = b.bytes
         /\ Fits(Unlocked(b)) /\ Unlocked(b).bytes = b.bytes
         /\ Fits(Oversized(b)) /\ Oversized(b).bytes = b.bytes
         /\ Fits(AfterClose(s, b)) /\ AfterClose(s, b).bytes = b.bytes
         /\ Fits(Released(b)) /\ Released(b).bytes = b.bytes
<1>0. b \in Bodies BY DEF Fits
<1>1. Fits(OnAborted(b)) /\ OnAborted(b).bytes = b.bytes
  BY <1>0, OnAbortedFields DEF Fits, SameCount
<1>2. Fits(Cancelled(b)) /\ Cancelled(b).bytes = b.bytes
  BY <1>0, CancelledFields DEF Fits, SameCount
<1>3. Fits(Unlocked(b)) /\ Unlocked(b).bytes = b.bytes
  BY <1>0, UnlockedFields DEF Fits, SameCount
<1>4. Fits(Oversized(b)) /\ Oversized(b).bytes = b.bytes
  BY <1>0, OversizedFields DEF Fits, SameCount
<1>5. Fits(AfterClose(s, b)) /\ AfterClose(s, b).bytes = b.bytes
  BY <1>1 DEF AfterClose
<1>6. Fits(Released(b)) /\ Released(b).bytes = b.bytes
  BY <1>2 DEF Released
<1>. QED BY <1>1, <1>2, <1>3, <1>4, <1>5, <1>6

\* What a step that moves no data keeps.
LEMMA CountKept ==
  ASSUME TypeInv, Turn \/ pc # "stream", Fits(body'), body'.bytes = body.bytes,
         net' = net, pc' # "stream"
  PROVE  Unbegun' /\ Counted'
  BY DEF TypeInv, Unbegun, Counted, Fits

\* The end of a stream keeps the types.
LEMMA CloseType ==
  ASSUME TypeInv, NEW b, Fits(b), b.bytes = body.bytes, Close(b)
  PROVE  /\ stream' \in Streams /\ Fits(body') /\ body'.bytes = body.bytes
         /\ timer' \in {"unset", "armed", "fired", "cleared"} /\ aborted' \in BOOLEAN
<1>1. stream' \in Streams
  BY StreamType DEF Close, TypeInv, TypeOK, Streams
<1>2. Fits(body') /\ body'.bytes = body.bytes
  BY FitsKept DEF Close
<1>. QED BY <1>1, <1>2 DEF Close, TypeInv, TypeOK, Disarmed

\* What a Response may be.
LEMMA DispatchedType ==
  ASSUME NEW o \in Outcomes, NEW d
  PROVE  Dispatched(d, o) \in Responses \cup {"null"}
  BY DEF Dispatched, Outcomes, Responses

\* The values of handleStream's own variables.
Steps == {"stream", "fetch", "drainBody", "commit", "pump", "drain",
          "stuck", "endTrailers", "end", "connect", "tunnel", "done"}

Scalars ==
  /\ kind \in Kinds /\ pc \in Steps
  /\ resp \in Responses \cup {"none", "null"}
  /\ src \in {"none", "open", "finished", "errored", "cancelled"}
  /\ duplex \in {"none", "open", "ended", "destroyed"}
  /\ timer \in {"unset", "armed", "fired", "cleared"}
  /\ denied \in BOOLEAN /\ aborted \in BOOLEAN /\ tooLarge \in BOOLEAN
  /\ responded \in BOOLEAN /\ fault \in BOOLEAN

\* The type invariant by its parts.
LEMMA TypeParts ==
  TypeInv <=> /\ Scalars /\ stream \in Streams /\ net \in Nets /\ Fits(body)
              /\ Unbegun /\ body.bytes + net.inbox = net.sent
  BY DEF TypeInv, TypeOK, Scalars, Steps, Streams, Nets, Fits, Counted

\* A step keeps the types if it keeps those of the parts it changes.
LEMMA TypeKept ==
  ASSUME TypeInv, pc' # "stream", Scalars', stream' \in Streams, Fits(body'), net' \in Nets,
         body'.bytes + net'.inbox = net'.sent
  PROVE  TypeInv'
<1>1. Unbegun'
  BY DEF Unbegun
<1>. QED
  BY <1>1 DEF TypeInv, TypeOK, Scalars, Steps, Streams, Nets, Fits, Counted

\* Most steps move no data.
LEMMA TypeStill ==
  ASSUME TypeInv, pc' # "stream", Scalars', stream' \in Streams, net' = net,
         Fits(body'), body'.bytes = body.bytes
  PROVE  TypeInv'
<1>1. net' \in Nets /\ body'.bytes + net'.inbox = net'.sent
  BY TypeParts
<1>. QED BY <1>1, TypeKept

LEMMA TypeInit == Init => TypeInv
<1>. SUFFICES ASSUME Init PROVE TypeInv
  OBVIOUS
<1>1. stream \in Streams BY DEF Init, Streams, Statuses
<1>2. net \in Nets /\ net = NoData BY MaxChunksAssumption DEF Init, Nets, NoData
<1>3. Fits(body) /\ body.bytes = 0
  BY RequestBodyFields DEF Init, Fits, NoBody
<1>4. Scalars BY DEF Init, Scalars, Steps
<1>5. Unbegun BY DEF Init, Unbegun, NoData
<1>. QED BY <1>1, <1>2, <1>3, <1>4, <1>5, TypeParts DEF NoData

LEMMA TypeCode == TypeInv /\ Code => TypeInv'
<1>. SUFFICES ASSUME TypeInv, Code PROVE TypeInv'
  OBVIOUS
<1>0. Scalars /\ stream \in Streams /\ net \in Nets /\ Fits(body)
  BY TypeParts
<1>1. CASE OnStream
  <2>1. net = NoData /\ body = NoBody BY <1>1 DEF OnStream, TypeInv, Unbegun
  <2>2. stream' \in Streams
    BY <1>0, <1>1, StreamType DEF OnStream, Statuses
  <2>3. Fits(body') /\ body'.bytes = body.bytes
    BY <1>0, <1>1, <2>1, RequestBodyFields DEF OnStream, Fits, NoBody
  <2>4. timer' \in {timer} \cup Timers /\ pc' \in {"done", "connect", "fetch"}
    BY <1>1 DEF OnStream
  <2>5. UNCHANGED <<kind, net, handlerVars, aborted, flagVars>>
    BY <1>1 DEF OnStream
  <2>6. Scalars' /\ pc' # "stream" /\ net' = net
    BY <1>0, <2>4, <2>5, TimersAssumption DEF Scalars, Steps, handlerVars, flagVars
  <2>. QED BY <2>2, <2>3, <2>6, TypeStill
<1>2. CASE Drained
  BY <1>0, <1>2, TypeStill DEF Drained, Scalars, Steps, handlerVars, flagVars
<1>3. CASE NoAnswer
  <2>1. Fits(body') /\ body'.bytes = body.bytes
    BY <1>0, <1>3, FitsKept DEF NoAnswer
  <2>. QED BY <1>0, <1>3, <2>1, TypeStill DEF NoAnswer, Scalars, Steps, flagVars
<1>4. CASE Commit
  <2>1. CASE stream.life = "closed"
    <3>1. Close(body) /\ pc' = "done" /\ UNCHANGED responded
          /\ src' \in {"none", "open"}
      BY <1>4, <2>1 DEF Commit
    <3>. QED BY <1>0, <1>4, <3>1, CloseType, TypeStill DEF Commit, Scalars, Steps
  <2>2. CASE stream.life # "closed"
    <3>1. stream' \in Streams
      BY <1>0, <1>4, <2>2, StreamType DEF Commit, Statuses
    <3>2. Fits(body') /\ body'.bytes = body.bytes
      BY <1>0, <1>4, <2>2, LockedFields DEF Commit, Fits, SameCount
    <3>. QED
      BY <1>0, <1>4, <2>2, <3>1, <3>2, TypeStill DEF Commit, Scalars, Steps, Disarmed
  <2>. QED BY <2>1, <2>2
<1>5. CASE EndResponse
  <2>1. stream' \in Streams
    BY <1>0, <1>5, StreamType DEF EndResponse
  <2>2. Fits(body') /\ body'.bytes = body.bytes
    BY <1>0, <1>5, FitsKept DEF EndResponse
  <2>. QED
    BY <1>0, <1>5, <2>1, <2>2, TypeStill
    DEF EndResponse, Scalars, Steps, Disarmed, handlerVars
<1>. QED BY <1>1, <1>2, <1>3, <1>4, <1>5 DEF Code

LEMMA TypeHandler == TypeInv /\ Handler => TypeInv'
<1>. SUFFICES ASSUME TypeInv, Handler PROVE TypeInv'
  OBVIOUS
<1>0. Scalars /\ stream \in Streams /\ net \in Nets /\ Fits(body) /\ body \in Bodies
  BY TypeParts DEF Fits
<1>1. ASSUME NEW o \in Outcomes, Return(o) PROVE TypeInv'
  <2>1. stream' \in Streams
    BY <1>0, <1>1, StreamType DEF Return
  <2>2. Fits(body') /\ body'.bytes = body.bytes
    <3>1. Fits(AfterClose(stream, body)) /\ AfterClose(stream, body).bytes = body.bytes
      BY <1>0, FitsKept
    <3>. QED BY <1>0, <1>1, <3>1, FitsKept DEF Return
  <2>3. resp' \in Responses \cup {"null"}
    BY <1>1, DispatchedType DEF Return
  <2>. QED
    BY <1>0, <1>1, <2>1, <2>2, <2>3, TypeStill DEF Return, Scalars, Steps, flagVars
<1>2. ASSUME NEW r \in Tunnels, OnConnect(r) PROVE TypeInv'
  <2>0. resp' = "body" /\ UNCHANGED <<kind, net, denied, flagVars>>
    BY <1>2 DEF OnConnect
  <2>1. CASE r = "broken"
    <3>1. Close(body) /\ pc' = "done" /\ UNCHANGED <<src, duplex>>
      BY <1>2, <2>1 DEF OnConnect
    <3>. QED
      BY <1>0, <2>0, <3>1, CloseType, TypeStill
      DEF Scalars, Steps, Responses, flagVars
  <2>2. CASE r # "broken"
    <3>1. UNCHANGED <<body, aborted>> /\ timer' = Disarmed
      BY <1>2, <2>2 DEF OnConnect
    <3>2. stream' \in Streams
      BY <1>0, <1>2, <2>2, StreamType DEF OnConnect, Statuses, Tunnels
    <3>3. /\ pc' \in {"done", "pump", "tunnel"} /\ src' \in {src, "open"}
          /\ duplex' \in {duplex, "destroyed", "open"}
      BY <1>2, <2>2 DEF OnConnect, Late, Tunnels
    <3>. QED
      BY <1>0, <2>0, <3>1, <3>2, <3>3, TypeStill
      DEF Scalars, Steps, Responses, Disarmed, flagVars
  <2>. QED BY <2>1, <2>2
<1>3. CASE Write
  <2>1. Fits(body') /\ body'.bytes = body.bytes
    BY <1>0, <1>3, TakenFields DEF Write, Fits, SameCount
  <2>2. pc' \in {"pump", "drain", "stuck"}
    BY <1>0, <1>3 DEF Write, Streams
  <2>. QED
    BY <1>0, <1>3, <2>1, <2>2, TypeStill DEF Write, Scalars, Steps, handlerVars, flagVars
<1>4. CASE SourceEnds
  <2>1. Fits(body') /\ body'.bytes = body.bytes
    BY <1>0, <1>4, FitsKept DEF SourceEnds
  <2>. QED BY <1>0, <1>4, <2>1, TypeStill DEF SourceEnds, Scalars, Steps, flagVars
<1>5. CASE SourceFails
  <2>1. Fits(Unlocked(body)) /\ Unlocked(body).bytes = body.bytes
    BY <1>0, FitsKept
  <2>. QED
    BY <1>0, <1>5, <2>1, CloseType, TypeStill DEF SourceFails, Scalars, Steps, flagVars
<1>6. CASE SendTrailers
  <2>0. pc' # "stream" BY <1>6 DEF SendTrailers, Turn
  <2>1. CASE stream' = [stream EXCEPT !.fin = "end"] /\ UNCHANGED <<body, timer, aborted>>
    <3>1. stream' \in Streams BY <1>0, <2>1, StreamType, Zenon
    <3>. QED
      BY <1>0, <1>6, <2>0, <2>1, <3>1, TypeStill
      DEF SendTrailers, Scalars, handlerVars, flagVars
  <2>2. CASE Close(body)
    BY <1>0, <1>6, <2>0, <2>2, CloseType, TypeStill
    DEF SendTrailers, Scalars, handlerVars, flagVars
  <2>. QED BY <1>6, <2>1, <2>2 DEF SendTrailers
<1>7. CASE Deny
  BY <1>0, <1>7, StreamType, FitsKept, TypeStill, ZenonT(60)
  DEF Deny, Handling, Turn, Scalars, flagVars
<1>8. CASE Lock
  <2>1. body' = [body EXCEPT !.locked = TRUE] BY <1>8 DEF Lock
  <2>2. /\ body' \in Bodies /\ SameCount(body, body') /\ body'.queued = body.queued
        /\ body'.flowing = body.flowing /\ body'.discarded = body.discarded
    BY <1>0, <2>1, LockedFields, Zenon
  <2>3. Fits(body') /\ body'.bytes = body.bytes
    BY <1>0, <2>2 DEF Fits, SameCount
  <2>. QED
    BY <1>0, <1>8, <2>3, TypeStill
    DEF Lock, Handling, Turn, Scalars, handlerVars, flagVars
<1>9. CASE Read
  <2>1. Fits(body') /\ body'.bytes = body.bytes
    BY <1>0, <1>9, TakenFields DEF Read, Fits, SameCount
  <2>. QED
    BY <1>0, <1>9, <2>1, TypeStill
    DEF Read, Reading, Handling, Turn, Scalars, handlerVars, flagVars
<1>10. CASE LetGo
  <2>1. Fits(body') /\ body'.bytes = body.bytes
    <3>1. CASE body' = [body EXCEPT !.locked = FALSE]
      BY <1>0, <3>1, LockedFields, ZenonT(60) DEF Fits, SameCount
    <3>2. CASE body' = Cancelled(body)
      BY <1>0, <3>2, FitsKept
    <3>. QED BY <1>10, <3>1, <3>2 DEF LetGo
  <2>. QED
    BY <1>0, <1>10, <2>1, TypeStill
    DEF LetGo, Reading, Handling, Turn, Scalars, handlerVars, flagVars
<1>11. CASE TunnelEnds
  BY <1>0, <1>11, StreamType, TypeStill, ZenonT(60) DEF TunnelEnds, Scalars, Steps, flagVars
<1>12. CASE DuplexFails
  BY <1>0, <1>12, CloseType, TypeStill DEF DuplexFails, Scalars, Steps, flagVars
<1>. QED
  BY <1>1, <1>2, <1>3, <1>4, <1>5, <1>6, <1>7, <1>8, <1>9, <1>10, <1>11, <1>12 DEF Handler

\* A field of what the client sent set to a value of its type.
LEMMA NetType ==
  ASSUME NEW n \in Nets
  PROVE  /\ \A v \in 0 .. MaxChunks : [n EXCEPT !.sent = v] \in Nets
         /\ \A v \in 0 .. MaxChunks : [n EXCEPT !.inbox = v] \in Nets
         /\ \A v \in {"no", "bare", "trailers"} : [n EXCEPT !.eof = v] \in Nets
         /\ \A v \in BOOLEAN : [n EXCEPT !.event = v] \in Nets
  BY DEF Nets

\* What the events of the stream do to the fields of net and body.
LEMMA ClientDataFields ==
  ASSUME TypeInv, ClientData
  PROVE  /\ net' \in Nets /\ net'.sent = net.sent + 1 /\ net'.inbox = net.inbox + 1
         /\ net'.eof = net.eof /\ net'.event = net.event
<1>0. net \in Nets /\ body \in Bodies /\ body.bytes + net.inbox = net.sent
  BY TypeParts DEF Fits
<1>1. net' = [net EXCEPT !.sent = net.sent + 1, !.inbox = net.inbox + 1]
  BY DEF ClientData
<1>2. net.sent + 1 \in 0 .. MaxChunks /\ net.inbox + 1 \in 0 .. MaxChunks
  BY <1>0, MaxChunksAssumption DEF ClientData, Nets, Bodies
<1>3. net' \in Nets
  BY <1>0, <1>1, <1>2, NetType, Zenon
<1>. QED BY <1>0, <1>1, <1>3 DEF Nets

LEMMA ClientEndFields ==
  ASSUME TypeInv, ClientEnd
  PROVE  /\ net' \in Nets /\ net'.sent = net.sent /\ net'.inbox = net.inbox
         /\ net'.eof \in {"bare", "trailers"} /\ net'.event = (net'.eof = "trailers")
<1>0. net \in Nets
  BY TypeParts
<1>1. PICK t \in {"bare", "trailers"} :
        net' = [net EXCEPT !.eof = t, !.event = (t = "trailers")]
  BY DEF ClientEnd
<1>2. (t = "trailers") \in BOOLEAN
  OBVIOUS
<1>3. net' \in Nets
  BY <1>0, <1>1, <1>2, NetType, Zenon
<1>. QED BY <1>0, <1>1, <1>3 DEF Nets

TooMuch ==
  /\ stream' = Exceeded(stream) /\ tooLarge' = TRUE /\ aborted' = TRUE
  /\ body'.ctl \in {body.ctl, "errored"} \ {"open"}
  /\ body'.discarded = TRUE /\ body'.flowing = TRUE
  /\ body.ended \/ stream.head = "none" => body'.trailers = body.trailers
  /\ body'.trailers \in {body.trailers, Settled(body.trailers, "empty")}

Received ==
  /\ UNCHANGED <<stream, tooLarge, aborted>>
  /\ body'.ctl = body.ctl /\ body'.discarded = body.discarded
  /\ body'.trailers = body.trailers
  /\ body.discarded => body'.flowing = body.flowing

LEMMA OnDataFields ==
  ASSUME TypeInv, OnData
  PROVE  /\ net' \in Nets /\ net'.sent = net.sent /\ net'.inbox = net.inbox - 1
         /\ net'.eof = net.eof /\ net'.event = net.event
         /\ Fits(body') /\ body'.bytes = body.bytes + 1
         /\ body'.fallback = body.fallback /\ body'.ended = body.ended
         /\ TooMuch \/ Received
<1>0. net \in Nets /\ body \in Bodies /\ Fits(body) /\ body.bytes + net.inbox = net.sent
  BY TypeParts DEF Fits
<1>1. /\ net' \in Nets /\ net'.sent = net.sent /\ net'.inbox = net.inbox - 1
      /\ net'.eof = net.eof /\ net'.event = net.event
  <2>1. net' = [net EXCEPT !.inbox = net.inbox - 1] /\ net.inbox > 0
    BY DEF OnData
  <2>2. net.inbox - 1 \in 0 .. MaxChunks
    BY <1>0, <2>1, MaxChunksAssumption DEF Nets
  <2>3. net' \in Nets
    BY <1>0, <2>1, <2>2, NetType, Zenon
  <2>. QED BY <1>0, <2>1, <2>3 DEF Nets
<1>. DEFINE b == [body EXCEPT !.bytes = @ + 1]
<1>2. body.bytes + 1 \in 0 .. MaxChunks
  BY <1>0, MaxChunksAssumption DEF OnData, Nets, Bodies
<1>3. b \in Bodies
  BY <1>0, <1>2, FieldType, Zenon
<1>4. /\ b.bytes = body.bytes + 1 /\ b.ctl = body.ctl /\ b.queued = body.queued
      /\ b.flowing = body.flowing /\ b.discarded = body.discarded /\ b.ended = body.ended
      /\ b.trailers = body.trailers /\ b.fallback = body.fallback
  BY <1>0 DEF Bodies
<1>5. \/ /\ stream' = Exceeded(stream) /\ tooLarge' = TRUE /\ aborted' = TRUE
         /\ body' = Oversized(IF stream.head = "none" THEN b ELSE AfterClose(stream, b))
      \/ /\ UNCHANGED <<stream, tooLarge, aborted>> /\ body' = Enqueued(b)
  BY DEF OnData
<1>6. body.flowing BY DEF OnData
<1>. HIDE DEF b
<1>7. Fits(b) BY <1>0, <1>3, <1>4 DEF Fits
<1>8. CASE /\ stream' = Exceeded(stream) /\ tooLarge' = TRUE /\ aborted' = TRUE
           /\ body' = Oversized(IF stream.head = "none" THEN b ELSE AfterClose(stream, b))
  <2>. DEFINE c == IF stream.head = "none" THEN b ELSE AfterClose(stream, b)
  <2>1. /\ c \in Bodies /\ Fits(c) /\ SameCount(b, c) /\ c.ctl \in {b.ctl, "errored"}
        /\ b.ended \/ stream.head = "none" => c.trailers = b.trailers
        /\ c.trailers \in {b.trailers, Settled(b.trailers, "empty")}
    BY <1>3, <1>7, FitsKept, OnAbortedFields DEF AfterClose, Fits, SameCount
  <2>. HIDE DEF c
  <2>2. /\ Fits(body') /\ SameCount(b, body') /\ body'.ctl \in {b.ctl, "errored"} \ {"open"}
        /\ body'.discarded = TRUE /\ body'.flowing = TRUE /\ body'.trailers = c.trailers
    BY <1>8, <2>1, OversizedFields, FitsKept, ZenonT(60) DEF SameCount, c
  <2>. QED BY <1>1, <1>4, <1>8, <2>1, <2>2 DEF SameCount, TooMuch
<1>9. CASE UNCHANGED <<stream, tooLarge, aborted>> /\ body' = Enqueued(b)
  <2>1. b.flowing /\ ~b.discarded => b.queued = 0
    BY <1>7 DEF Fits
  <2>. QED
    BY <1>1, <1>3, <1>4, <1>6, <1>9, <2>1, EnqueuedFields DEF Fits, SameCount, Received
<1>. QED BY <1>5, <1>8, <1>9

LEMMA OnEndFields ==
  ASSUME TypeInv, OnEnd
  PROVE  /\ Fits(body') /\ body'.bytes = body.bytes /\ body'.ended = TRUE
         /\ body'.fallback = TRUE /\ body'.discarded = body.discarded
         /\ body'.trailers = body.trailers /\ body'.flowing = body.flowing
         /\ body'.ctl = IF body.discarded THEN body.ctl ELSE "closed"
<1>0. body \in Bodies /\ Fits(body)
  BY TypeParts DEF Fits
<1>. DEFINE c == IF body.discarded THEN body.ctl ELSE "closed"
<1>1. /\ body' = [body EXCEPT !.ended = TRUE, !.fallback = TRUE, !.ctl = c]
      /\ c \in {"none", "open", "closed", "errored", "cancelled"}
  BY <1>0 DEF OnEnd, Bodies
<1>. HIDE DEF c
<1>2. body' \in Bodies
  BY <1>0, <1>1, FieldType, Zenon
<1>3. /\ body'.bytes = body.bytes /\ body'.ended = TRUE /\ body'.fallback = TRUE
      /\ body'.discarded = body.discarded /\ body'.trailers = body.trailers
  BY <1>0, <1>1 DEF Bodies
<1>4. body'.flowing = body.flowing /\ body'.queued = body.queued /\ body'.ctl = c
  BY <1>0, <1>1 DEF Bodies
<1>. QED BY <1>0, <1>2, <1>3, <1>4 DEF Fits, c

LEMMA OnTrailersFields ==
  ASSUME TypeInv, OnTrailers
  PROVE  /\ net' \in Nets /\ net'.sent = net.sent /\ net'.inbox = net.inbox
         /\ net'.eof = net.eof /\ net'.event = FALSE
         /\ Fits(body') /\ SameCount(body, body') /\ body'.ctl = body.ctl
         /\ body'.flowing = body.flowing /\ body'.discarded = body.discarded
         /\ body'.trailers = Settled(body.trailers, "client")
<1>0. body \in Bodies /\ Fits(body) /\ net \in Nets
  BY TypeParts DEF Fits
<1>1. net' = [net EXCEPT !.event = FALSE]
  BY DEF OnTrailers
<1>2. /\ net' \in Nets /\ net'.sent = net.sent /\ net'.inbox = net.inbox
      /\ net'.eof = net.eof /\ net'.event = FALSE
  BY <1>0, <1>1 DEF Nets
<1>3. /\ body' = [body EXCEPT !.trailers = Settled(body.trailers, "client")]
      /\ Settled(body.trailers, "client") \in {"pending", "client", "empty"}
  BY <1>0 DEF OnTrailers, Settled, Bodies
<1>4. body' \in Bodies
  BY <1>0, <1>3, FieldType, Zenon
<1>5. /\ SameCount(body, body') /\ body'.ctl = body.ctl /\ body'.queued = body.queued
      /\ body'.flowing = body.flowing /\ body'.discarded = body.discarded
      /\ body'.trailers = Settled(body.trailers, "client")
  BY <1>0, <1>3 DEF Bodies, SameCount
<1>. QED BY <1>0, <1>2, <1>4, <1>5 DEF Fits

LEMMA FallbackFields ==
  ASSUME TypeInv, Fallback
  PROVE  /\ Fits(body') /\ body'.bytes = body.bytes /\ body'.ended = body.ended
         /\ body'.fallback = FALSE /\ body'.ctl = body.ctl
         /\ body'.flowing = body.flowing /\ body'.discarded = body.discarded
         /\ body'.trailers = Settled(body.trailers, "empty")
<1>0. body \in Bodies /\ Fits(body)
  BY TypeParts DEF Fits
<1>1. /\ body' = [body EXCEPT !.fallback = FALSE, !.trailers = Settled(body.trailers, "empty")]
      /\ Settled(body.trailers, "empty") \in {"pending", "client", "empty"}
  BY <1>0 DEF Fallback, Settled, Bodies
<1>2. body' \in Bodies
  BY <1>0, <1>1, FieldType, Zenon
<1>3. /\ body'.bytes = body.bytes /\ body'.ended = body.ended /\ body'.fallback = FALSE
      /\ body'.ctl = body.ctl /\ body'.queued = body.queued
  BY <1>0, <1>1 DEF Bodies
<1>4. /\ body'.flowing = body.flowing /\ body'.discarded = body.discarded
      /\ body'.trailers = Settled(body.trailers, "empty")
  BY <1>0, <1>1 DEF Bodies
<1>. QED BY <1>0, <1>2, <1>3, <1>4 DEF Fits

LEMMA TypeEvents == TypeInv /\ (Client \/ Node) => TypeInv'
<1>. SUFFICES ASSUME TypeInv, Client \/ Node PROVE TypeInv'
  OBVIOUS
<1>0. /\ Scalars /\ stream \in Streams /\ net \in Nets /\ Fits(body) /\ body \in Bodies
      /\ body.bytes + net.inbox = net.sent
  BY TypeParts DEF Fits
<1>1. CASE ClientData
  <2>1. body'.bytes + net'.inbox = net'.sent
    BY <1>0, <1>1, ClientDataFields DEF ClientData, Nets, Bodies
  <2>. QED
    BY <1>0, <1>1, <2>1, ClientDataFields, TypeKept
    DEF ClientData, Turn, Scalars, handlerVars, flagVars
<1>2. CASE ClientEnd
  <2>1. UNCHANGED <<kind, stream, body, pc, handlerVars, aborted, timer, flagVars>>
        /\ pc # "stream"
    BY <1>2 DEF ClientEnd, Turn
  <2>. QED
    BY <1>0, <1>2, <2>1, ClientEndFields, TypeKept DEF Scalars, handlerVars, flagVars
<1>3. ASSUME NEW quiet, Destroyed(quiet), pc # "stream" PROVE TypeInv'
  BY <1>0, <1>3, CloseType, TypeStill DEF Destroyed, Scalars, Steps, flagVars
<1>4. CASE Reset
  BY <1>3, <1>4 DEF Reset, Turn
<1>5. CASE Drain
  BY <1>0, <1>5, TypeStill DEF Drain, Scalars, Steps, handlerVars, flagVars
<1>6. CASE OnData
  <2>1. body'.bytes + net'.inbox = net'.sent
    BY <1>0, <1>6, OnDataFields DEF Nets, Bodies
  <2>2. stream' \in Streams
    BY <1>0, <1>6, OnDataFields, StreamType DEF TooMuch, Received
  <2>3. /\ UNCHANGED <<kind, pc, handlerVars, responded, timer, fault>> /\ pc # "stream"
        /\ tooLarge' \in {TRUE, tooLarge} /\ aborted' \in {TRUE, aborted}
    BY <1>6 DEF OnData, Turn
  <2>4. tooLarge' \in BOOLEAN /\ aborted' \in BOOLEAN BY <1>0, <2>3 DEF Scalars
  <2>5. Scalars' BY <1>0, <2>3, <2>4 DEF Scalars, handlerVars
  <2>. QED BY <1>6, <2>1, <2>2, <2>3, <2>5, OnDataFields, TypeKept
<1>7. CASE OnEnd
  <2>1. UNCHANGED <<kind, stream, net, pc, handlerVars, aborted, timer, flagVars>>
        /\ pc # "stream"
    BY <1>7 DEF OnEnd, Turn
  <2>. QED
    BY <1>0, <1>7, <2>1, OnEndFields, TypeStill DEF Scalars, handlerVars, flagVars
<1>8. CASE OnTrailers
  <2>1. UNCHANGED <<kind, stream, pc, handlerVars, aborted, timer, flagVars>>
        /\ pc # "stream"
    BY <1>8 DEF OnTrailers, Turn
  <2>. QED
    BY <1>0, <1>8, <2>1, OnTrailersFields, TypeKept
    DEF Scalars, handlerVars, flagVars, SameCount
<1>9. CASE Fallback
  <2>1. UNCHANGED <<kind, stream, net, pc, handlerVars, aborted, timer, flagVars>>
        /\ pc # "stream"
    BY <1>9 DEF Fallback, Turn
  <2>. QED
    BY <1>0, <1>9, <2>1, FallbackFields, TypeStill DEF Scalars, handlerVars, flagVars
<1>10. CASE OnTimeout
  <2>1. stream' \in Streams
    BY <1>0, <1>10, StreamType DEF OnTimeout
  <2>2. Fits(body') /\ body'.bytes = body.bytes
    BY <1>0, <1>10, FitsKept DEF OnTimeout
  <2>. QED
    BY <1>0, <1>10, <2>1, <2>2, TypeStill DEF OnTimeout, Turn, Scalars, handlerVars
<1>11. CASE StreamCloses
  BY <1>3, <1>11 DEF StreamCloses, Turn
<1>. QED
  BY <1>1, <1>2, <1>4, <1>5, <1>6, <1>7, <1>8, <1>9, <1>10, <1>11 DEF Client, Node

\* The fields of the stream and of its body hold values of their types, for
\* any limit on the body and however much of it is sent.
LEMMA TypeInvCorrect == Spec => []TypeInv
<1>1. TypeInv /\ UNCHANGED vars => TypeInv'
  BY DEF vars, TypeInv, TypeOK, Unbegun, Counted
<1>2. TypeInv /\ [Next]_vars => TypeInv'
  BY <1>1, TypeCode, TypeHandler, TypeEvents DEF Next
<1>. QED BY TypeInit, <1>2, PTL DEF Spec

\* The type invariant, for any limit and any number of DATA frames.
THEOREM TypeCorrect == Spec => []TypeOK
<1>1. TypeInv => TypeOK
  BY DEF TypeInv
<1>. QED BY <1>1, TypeInvCorrect, PTL

-----------------------------------------------------------------------------
(* The request body and its trailers.                                      *)

\* What holds of a body b of a stream whose life and data are l and n.
Sound(b, l, n) ==
  /\ b.ctl = "none" => b = NoBody /\ n = NoData
  /\ b.ctl = "open" => ~b.ended /\ ~b.discarded
  /\ l = "destroyed" => b.ctl # "open"
  /\ b.ctl = "closed" => n.eof # "no" /\ n.inbox = 0
  /\ b.discarded /\ ~b.ended /\ l = "open" => b.flowing
  /\ b.ctl # "none" /\ ~b.ended /\ l = "open" => b.trailers # "empty"
  /\ b.ctl # "none" /\ b.ended => n.eof # "no"
  /\ b.fallback => b.ended
  /\ b.ctl # "none" /\ n.eof = "trailers" /\ ~n.event => b.trailers # "pending"
  /\ b.ctl # "none" /\ b.ended /\ b.trailers = "empty" => n.eof = "bare"

\* A request has a body when handleStream has run, and only then: a stream
\* whose request has none gets none of the body's events.
BodyInv ==
  /\ Sound(body, stream.life, net)
  /\ body.ctl # "none" <=> kind \in {"get", "post"} /\ pc # "stream"

\* Which steps and states belong to which kind of request.
RequestInv ==
  /\ kind \in {"big", "declared"} => pc \in {"stream", "done"}
  /\ pc \in {"fetch", "drainBody", "commit"} => kind \in Streamed
  /\ pc \in {"connect", "tunnel"} => kind = "connect"
  /\ resp = "echo" => kind = "post"
  /\ kind = "connect" => stream.life # "closed" /\ ~responded

\* A request without a body keeps it.
LEMMA NoBodyKept ==
  /\ OnAborted(NoBody) = NoBody /\ Cancelled(NoBody) = NoBody
  /\ NoBody.ctl = "none" /\ NoBody.fallback = FALSE /\ NoBody.ended = TRUE
  /\ NoBody.queued = 0 /\ NoBody.discarded = FALSE
  BY DEF NoBody, OnAborted, Cancelled

\* When the stream is over, what is left of the body is settled.
LEMMA AbortedSound ==
  ASSUME NEW b \in Bodies, NEW l, NEW n, Sound(b, l, n), NEW m \in {"closed", "destroyed"}
  PROVE  /\ Sound(OnAborted(b), m, n)
         /\ OnAborted(b).ctl = "none" <=> b.ctl = "none"
<1>1. CASE b.ctl = "none"
  <2>1. b = NoBody /\ OnAborted(b) = b
    BY <1>1, NoBodyKept DEF Sound
  <2>. QED BY <1>1, <2>1, NoBodyKept DEF Sound
<1>2. CASE b.ctl # "none"
  BY <1>2, OnAbortedFields DEF Sound, SameCount, Settled
<1>. QED BY <1>1, <1>2

\* So does a close, which leaves a body alone whose stream had ended.
LEMMA ClosedSound ==
  ASSUME NEW b \in Bodies, stream \in Streams, Sound(b, stream.life, net)
  PROVE  /\ Sound(AfterClose(stream, b), Closed(stream).life, net)
         /\ AfterClose(stream, b).ctl = "none" <=> b.ctl = "none"
<1>1. CASE stream.life # "open"
  BY <1>1 DEF AfterClose, Closed
<1>2. CASE stream.life = "open"
  <2>1. Closed(stream).life = "closed" BY <1>2 DEF Closed, Streams
  <2>2. CASE stream.fin = "no"
    BY <1>2, <2>1, <2>2, AbortedSound DEF AfterClose
  <2>3. CASE stream.fin # "no"
    BY <1>2, <2>1, <2>3 DEF AfterClose, Sound
  <2>. QED BY <2>2, <2>3
<1>. QED BY <1>1, <1>2

\* The reader of a body keeps it sound.
LEMMA ReaderSound ==
  ASSUME NEW b \in Bodies, NEW l, NEW n, Sound(b, l, n)
  PROVE  /\ Sound(Cancelled(b), l, n) /\ (Cancelled(b).ctl = "none" <=> b.ctl = "none")
         /\ Sound(Released(b), l, n) /\ (Released(b).ctl = "none" <=> b.ctl = "none")
         /\ Sound(Unlocked(b), l, n) /\ (Unlocked(b).ctl = "none" <=> b.ctl = "none")
         /\ b.queued > 0 => Sound(Taken(b), l, n) /\ Taken(b).ctl = b.ctl
<1>1. Sound(Cancelled(b), l, n) /\ (Cancelled(b).ctl = "none" <=> b.ctl = "none")
  BY CancelledFields, NoBodyKept DEF Sound, SameCount
<1>2. Sound(Released(b), l, n) /\ (Released(b).ctl = "none" <=> b.ctl = "none")
  BY <1>1 DEF Released
<1>3. Sound(Unlocked(b), l, n) /\ (Unlocked(b).ctl = "none" <=> b.ctl = "none")
  <2>1. CASE b.ctl = "none"
    <3>1. Unlocked(b) = b
      BY <2>1 DEF Sound, Unlocked, NoBody
    <3>. QED BY <3>1
  <2>2. CASE b.ctl # "none"
    BY <2>2, UnlockedFields DEF Sound, SameCount
  <2>. QED BY <2>1, <2>2
<1>4. ASSUME b.queued > 0
      PROVE  Sound(Taken(b), l, n) /\ Taken(b).ctl = b.ctl
  <2>1. b.ctl # "none"
    BY <1>4, NoBodyKept DEF Sound
  <2>. QED BY <1>4, <2>1, TakenFields DEF Sound, SameCount
<1>. QED BY <1>1, <1>2, <1>3, <1>4

\* A body that was requested can be locked.
LEMMA LockedSound ==
  ASSUME NEW b \in Bodies, NEW l, NEW n, Sound(b, l, n), b.ctl # "none",
         NEW v \in BOOLEAN, NEW c, c = [b EXCEPT !.locked = v]
  PROVE  Sound(c, l, n) /\ c.ctl # "none"
<1>1. SameCount(b, c) /\ c.ctl = b.ctl /\ c.flowing = b.flowing
      /\ c.discarded = b.discarded /\ c.trailers = b.trailers
  BY LockedFields, Zenon
<1>. QED BY <1>1 DEF Sound, SameCount

\* What a step that changes neither the data nor the request keeps.
LEMMA BodyKept ==
  ASSUME BodyInv, UNCHANGED <<kind, net>>, pc # "stream", pc' # "stream",
         Sound(body', stream'.life, net), body'.ctl = "none" <=> body.ctl = "none"
  PROVE  BodyInv'
  BY DEF BodyInv

\* Sending a head or an end leaves the stream alive as it was.
LEMMA LifeKept ==
  ASSUME NEW s \in Streams
  PROVE  /\ \A h : Respond(s, h, TRUE).life = s.life /\ Respond(s, h, FALSE).life = s.life
         /\ \A t : Ended(s, t).life = s.life
         /\ [s EXCEPT !.fin = "end"].life = s.life
         /\ [s EXCEPT !.life = "destroyed"].life = "destroyed"
         /\ s.head = "none" => Exceeded(s).life = s.life /\ Expired(s).life = s.life
         /\ s.head # "none" => Exceeded(s) = Closed(s) /\ Expired(s) = Closed(s)
  BY DEF Streams, Respond, Ended, Exceeded, Expired

\* handleStream runs once.
LEMMA Begun == TypeInv /\ Next => pc' # "stream"
<1>. SUFFICES ASSUME TypeInv PROVE Next => pc' # "stream"
  OBVIOUS
<1>1. Code => pc' # "stream"
  BY DEF Code, OnStream, Drained, NoAnswer, Commit, EndResponse
<1>2. Handler => pc' # "stream"
  <2>1. ASSUME NEW o \in Outcomes, Return(o) PROVE pc' # "stream"
    BY <2>1 DEF Return
  <2>2. ASSUME NEW r \in Tunnels, OnConnect(r) PROVE pc' # "stream"
    BY <2>2 DEF OnConnect
  <2>3. CASE Write
    <3>1. stream.life \in {"open", "closed", "destroyed"}
      BY TypeParts DEF Streams
    <3>. QED BY <2>3, <3>1 DEF Write
  <2>4. CASE SourceEnds \/ SourceFails \/ TunnelEnds \/ DuplexFails
    BY <2>4 DEF SourceEnds, SourceFails, TunnelEnds, DuplexFails
  <2>5. CASE SendTrailers \/ Deny \/ Lock \/ Read \/ LetGo
    BY <2>5 DEF SendTrailers, Deny, Lock, Read, LetGo, Reading, Handling, Turn
  <2>. QED BY <2>1, <2>2, <2>3, <2>4, <2>5 DEF Handler
<1>3. Client => pc' # "stream"
  BY DEF Client, ClientData, ClientEnd, Reset, Destroyed, Turn
<1>4. Node => pc' # "stream"
  BY DEF Node, Drain, OnData, OnEnd, OnTrailers, Fallback, OnTimeout, StreamCloses,
         Destroyed, Turn
<1>. QED BY <1>1, <1>2, <1>3, <1>4 DEF Next

\* What connect() leaves of the stream when it did not fail.
LEMMA ConnectStream ==
  ASSUME NEW r \in Tunnels, OnConnect(r), r # "broken"
  PROVE  /\ \/ stream' = stream
            \/ \E h \in Statuses :
                 stream' = Respond(stream, h, TRUE) \/ stream' = Respond(stream, h, FALSE)
         /\ UNCHANGED <<kind, net, body, aborted>>
<1>1. UNCHANGED <<kind, net, body, aborted>>
  BY DEF OnConnect
<1>2. CASE stream.life = "destroyed"
  BY <1>2 DEF OnConnect
<1>3. CASE stream.life # "destroyed" /\ r \in {"nothing", "invalid", "empty"}
  <2>. DEFINE h == CASE r = "nothing" -> "501" [] r = "invalid" -> "502" [] OTHER -> "handler"
  <2>1. h \in Statuses BY <1>3 DEF Statuses
  <2>2. stream' = Respond(stream, h, TRUE) BY <1>3 DEF OnConnect
  <2>. QED BY <1>1, <2>1, <2>2
<1>4. CASE stream.life # "destroyed" /\ r \in {"body", "duplex"}
  <2>1. stream' = Respond(stream, IF r = "body" THEN "handler" ELSE "200", FALSE)
    BY <1>4 DEF OnConnect
  <2>. QED BY <1>1, <1>4, <2>1 DEF Statuses
<1>. QED BY <1>1, <1>2, <1>3, <1>4 DEF Tunnels

\* The end of a stream leaves its body sound.
LEMMA CloseSound ==
  ASSUME TypeInv, BodyInv, NEW b \in Bodies, Sound(b, stream.life, net),
         b.ctl = "none" <=> body.ctl = "none",
         Close(b), UNCHANGED <<kind, net>>, pc # "stream", pc' # "stream"
  PROVE  BodyInv'
<1>1. stream'.life = "destroyed" /\ body' = OnAborted(b)
  BY TypeParts, LifeKept DEF Close
<1>2. Sound(body', stream'.life, net) /\ (body'.ctl = "none" <=> body.ctl = "none")
  BY <1>1, AbortedSound
<1>. QED BY <1>2, BodyKept

LEMMA BodyCode == TypeInv /\ BodyInv /\ RequestInv /\ Code => BodyInv'
<1>. SUFFICES ASSUME TypeInv, BodyInv, RequestInv, Code PROVE BodyInv'
  OBVIOUS
<1>0. /\ stream \in Streams /\ body \in Bodies /\ Sound(body, stream.life, net)
      /\ pc' # "stream"
  BY TypeParts, Begun DEF Fits, BodyInv, Next
<1>1. CASE OnStream
  <2>1. net' = NoData /\ body = NoBody /\ stream.life = "open" /\ UNCHANGED kind
    BY <1>1 DEF OnStream, TypeInv, Unbegun
  <2>2. stream'.life = "open"
    <3>1. \/ stream' = stream \/ stream' = Respond(stream, "431", TRUE)
          \/ stream' = Respond(stream, "413", TRUE)
      BY <1>1, Zenon DEF OnStream
    <3>2. CASE stream' = Respond(stream, "431", TRUE) BY <1>0, <2>1, <3>2, LifeKept
    <3>3. CASE stream' = Respond(stream, "413", TRUE) BY <1>0, <2>1, <3>3, LifeKept
    <3>. QED BY <2>1, <3>1, <3>2, <3>3
  <2>3. CASE kind \in {"get", "post"}
    <3>1. body' = RequestBody
      BY <1>1, <2>3 DEF OnStream
    <3>. QED
      BY <1>0, <2>1, <2>2, <2>3, <3>1, RequestBodyFields DEF BodyInv, Sound, NoData
  <2>4. CASE kind \notin {"get", "post"}
    <3>1. body' = NoBody
      BY <1>1, <2>1, <2>4, RequestBodyFields DEF OnStream
    <3>. QED
      BY <1>0, <2>1, <2>2, <2>4, <3>1, NoBodyKept DEF BodyInv, Sound
  <2>. QED BY <2>3, <2>4
<1>2. CASE Drained
  BY <1>0, <1>2, BodyKept DEF Drained
<1>3. CASE NoAnswer
  BY <1>0, <1>3, BodyKept, ReaderSound DEF NoAnswer
<1>4. CASE Commit
  <2>0. UNCHANGED <<kind, net>> /\ pc = "commit" BY <1>4 DEF Commit
  <2>1. CASE stream.life = "closed" /\ Close(body)
    BY <1>0, <2>0, <2>1, CloseSound
  <2>2. CASE UNCHANGED body /\ stream' = Respond(stream, "handler", TRUE)
    BY <1>0, <2>0, <2>2, BodyKept, LifeKept
  <2>3. CASE /\ stream' = Respond(stream, "handler", FALSE)
             /\ body' = IF resp = "echo" THEN [body EXCEPT !.locked = TRUE] ELSE body
    <3>1. stream'.life = stream.life BY <1>0, <2>3, LifeKept
    <3>2. CASE resp = "echo"
      <4>1. body.ctl # "none" BY <2>0, <3>2 DEF BodyInv, RequestInv
      <4>2. body' = [body EXCEPT !.locked = TRUE] BY <2>3, <3>2
      <4>3. Sound(body', stream.life, net) /\ body'.ctl # "none"
        BY <1>0, <4>1, <4>2, LockedSound
      <4>. QED BY <1>0, <2>0, <3>1, <4>1, <4>3, BodyKept
    <3>3. CASE resp # "echo"
      BY <1>0, <2>0, <2>3, <3>1, <3>3, BodyKept
    <3>. QED BY <3>2, <3>3
  <2>. QED BY <1>4, <2>1, <2>2, <2>3 DEF Commit
<1>5. CASE EndResponse
  <2>1. stream'.life = stream.life /\ body' = Released(body)
    BY <1>0, <1>5, LifeKept DEF EndResponse
  <2>. QED BY <1>0, <1>5, <2>1, BodyKept, ReaderSound DEF EndResponse
<1>. QED BY <1>1, <1>2, <1>3, <1>4, <1>5 DEF Code

LEMMA BodyHandler == TypeInv /\ BodyInv /\ Handler => BodyInv'
<1>. SUFFICES ASSUME TypeInv, BodyInv, Handler PROVE BodyInv'
  OBVIOUS
<1>0. /\ stream \in Streams /\ body \in Bodies /\ Sound(body, stream.life, net)
      /\ pc' # "stream"
  BY TypeParts, Begun DEF Fits, BodyInv, Next
<1>1. ASSUME NEW o \in Outcomes, Return(o) PROVE BodyInv'
  <2>. DEFINE b == IF Refuses(denied, o) THEN AfterClose(stream, body) ELSE body
  <2>1. /\ b \in Bodies /\ Sound(b, stream'.life, net) /\ (b.ctl = "none" <=> body.ctl = "none")
        /\ body' \in {b, Cancelled(b)} /\ UNCHANGED <<kind, net>> /\ pc = "fetch"
    BY <1>0, <1>1, ClosedSound, FitsKept, TypeParts DEF Return, Fits
  <2>. HIDE DEF b
  <2>. QED BY <1>0, <2>1, ReaderSound, BodyKept
<1>2. ASSUME NEW r \in Tunnels, OnConnect(r) PROVE BodyInv'
  <2>0. UNCHANGED <<kind, net>> /\ pc = "connect" BY <1>2 DEF OnConnect
  <2>1. CASE r = "broken"
    BY <1>0, <1>2, <2>0, <2>1, CloseSound DEF OnConnect
  <2>2. CASE r # "broken"
    <3>1. stream'.life = stream.life /\ body' = body
      <4>1. /\ body' = body
            /\ \/ stream' = stream
               \/ \E h \in Statuses :
                    stream' = Respond(stream, h, TRUE) \/ stream' = Respond(stream, h, FALSE)
        BY <1>2, <2>2, ConnectStream
      <4>2. ASSUME NEW h, stream' = Respond(stream, h, TRUE) PROVE stream'.life = stream.life
        BY <1>0, <4>2, LifeKept
      <4>3. ASSUME NEW h, stream' = Respond(stream, h, FALSE) PROVE stream'.life = stream.life
        BY <1>0, <4>3, LifeKept
      <4>. QED BY <4>1, <4>2, <4>3
    <3>. QED BY <1>0, <2>0, <3>1, BodyKept
  <2>. QED BY <2>1, <2>2
<1>3. CASE Write
  BY <1>0, <1>3, BodyKept, ReaderSound DEF Write
<1>4. CASE SourceEnds
  BY <1>0, <1>4, BodyKept, ReaderSound DEF SourceEnds
<1>5. CASE SourceFails
  <2>1. Unlocked(body) \in Bodies BY <1>0, UnlockedFields
  <2>2. /\ Sound(Unlocked(body), stream.life, net)
        /\ Unlocked(body).ctl = "none" <=> body.ctl = "none"
    BY <1>0, ReaderSound
  <2>. QED BY <1>0, <1>5, <2>1, <2>2, CloseSound DEF SourceFails
<1>6. CASE SendTrailers
  <2>0. UNCHANGED <<kind, net>> /\ pc # "stream" BY <1>6 DEF SendTrailers, Turn
  <2>1. CASE Close(body)
    BY <1>0, <2>0, <2>1, CloseSound
  <2>2. CASE stream' = [stream EXCEPT !.fin = "end"] /\ UNCHANGED body
    <3>1. stream'.life = stream.life BY <1>0, <2>2, LifeKept, Zenon
    <3>. QED BY <1>0, <2>0, <2>2, <3>1, BodyKept
  <2>. QED BY <1>6, <2>1, <2>2 DEF SendTrailers
<1>7. CASE Deny
  BY <1>0, <1>7, BodyKept, ClosedSound DEF Deny, Handling, Turn
<1>8. CASE Lock
  <2>1. body' = [body EXCEPT !.locked = TRUE] /\ UNCHANGED <<kind, stream, net>>
        /\ kind = "post" /\ pc = "fetch"
    BY <1>8 DEF Lock
  <2>2. body.ctl # "none"
    BY <2>1 DEF BodyInv
  <2>3. Sound(body', stream.life, net) /\ body'.ctl # "none"
    BY <1>0, <2>1, <2>2, LockedSound
  <2>. QED BY <1>0, <2>1, <2>2, <2>3, BodyKept
<1>9. CASE Read
  BY <1>0, <1>9, BodyKept, ReaderSound DEF Read, Reading, Handling, Turn
<1>10. CASE LetGo
  <2>0. /\ UNCHANGED <<kind, stream, net>> /\ kind = "post" /\ pc # "stream"
        /\ body' \in {[body EXCEPT !.locked = FALSE], Cancelled(body)}
    BY <1>10 DEF LetGo, Reading, Handling, Turn
  <2>1. CASE body' = [body EXCEPT !.locked = FALSE]
    <3>1. body.ctl # "none"
      BY <2>0 DEF BodyInv
    <3>2. Sound(body', stream.life, net) /\ body'.ctl # "none"
      BY <1>0, <2>1, <3>1, LockedSound
    <3>. QED BY <1>0, <2>0, <3>1, <3>2, BodyKept
  <2>2. CASE body' = Cancelled(body)
    BY <1>0, <2>0, <2>2, BodyKept, ReaderSound
  <2>. QED BY <2>0, <2>1, <2>2
<1>11. CASE TunnelEnds
  BY <1>0, <1>11, BodyKept, LifeKept DEF TunnelEnds
<1>12. CASE DuplexFails
  BY <1>0, <1>12, CloseSound DEF DuplexFails
<1>. QED
  BY <1>1, <1>2, <1>3, <1>4, <1>5, <1>6, <1>7, <1>8, <1>9, <1>10, <1>11, <1>12 DEF Handler

LEMMA BodyEvents == TypeInv /\ BodyInv /\ (Client \/ Node) => BodyInv'
<1>. SUFFICES ASSUME TypeInv, BodyInv, Client \/ Node PROVE BodyInv'
  OBVIOUS
<1>0. /\ stream \in Streams /\ body \in Bodies /\ Sound(body, stream.life, net)
      /\ pc' # "stream"
  BY TypeParts, Begun DEF Fits, BodyInv, Next
<1>1. CASE ClientData
  <2>1. UNCHANGED <<kind, stream, body>> /\ net.eof = "no" /\ kind \in {"get", "post"} /\ pc # "stream"
    BY <1>1 DEF ClientData, Turn
  <2>. QED BY <1>0, <1>1, <2>1, ClientDataFields DEF BodyInv, Sound
<1>2. CASE ClientEnd
  <2>1. UNCHANGED <<kind, stream, body>> /\ net.eof = "no" /\ kind \in {"get", "post"} /\ pc # "stream"
    BY <1>2 DEF ClientEnd, Turn
  <2>. QED BY <1>0, <1>2, <2>1, ClientEndFields DEF BodyInv, Sound
<1>3. ASSUME NEW quiet, Destroyed(quiet), pc # "stream" PROVE BodyInv'
  BY <1>0, <1>3, CloseSound DEF Destroyed
<1>4. CASE Reset
  BY <1>3, <1>4 DEF Reset, Turn
<1>5. CASE Drain
  BY <1>0, <1>5, BodyKept DEF Drain
<1>6. CASE OnData
  <2>0. UNCHANGED kind /\ pc # "stream" /\ net.inbox > 0 /\ stream.life = "open"
    BY <1>6 DEF OnData, Turn
  <2>1. body.ctl # "none" /\ body.ctl # "closed"
    BY <1>0, <2>0 DEF Sound, NoData
  <2>2. CASE Received
    BY <1>0, <1>6, <2>0, <2>1, <2>2, OnDataFields DEF BodyInv, Sound, Received
  <2>3. CASE TooMuch /\ stream.head = "none"
    <3>1. stream'.life = "open" BY <1>0, <2>0, <2>3, LifeKept DEF TooMuch
    <3>. QED BY <1>0, <1>6, <2>0, <2>1, <2>3, <3>1, OnDataFields DEF BodyInv, Sound, TooMuch
  <2>4. CASE TooMuch /\ stream.head # "none"
    <3>1. stream'.life = "closed" BY <1>0, <2>0, <2>4, LifeKept DEF Closed, Streams, TooMuch
    <3>. QED
      BY <1>0, <1>6, <2>0, <2>1, <2>4, <3>1, OnDataFields DEF BodyInv, Sound, Settled, TooMuch
  <2>. QED BY <1>6, <2>2, <2>3, <2>4, OnDataFields
<1>7. CASE OnEnd
  <2>1. UNCHANGED <<kind, stream, net>> /\ pc # "stream" /\ ~body.ended
        /\ net.eof # "no" /\ net.inbox = 0 /\ stream.life = "open"
    BY <1>7 DEF OnEnd, Turn
  <2>2. body.ctl # "none"
    BY <1>0, <2>1, NoBodyKept DEF Sound
  <2>. QED BY <1>0, <1>7, <2>1, <2>2, OnEndFields DEF BodyInv, Sound
<1>8. CASE OnTrailers
  <2>1. UNCHANGED <<kind, stream>> /\ pc # "stream" /\ net.event
    BY <1>8 DEF OnTrailers, Turn
  <2>2. body.ctl # "none"
    BY <1>0, <2>1 DEF Sound, NoData
  <2>. QED
    BY <1>0, <1>8, <2>1, <2>2, OnTrailersFields DEF BodyInv, Sound, SameCount, Settled
<1>9. CASE Fallback
  <2>1. UNCHANGED <<kind, stream, net>> /\ pc # "stream" /\ body.fallback /\ ~net.event
    BY <1>9 DEF Fallback, Turn
  <2>2. body.ctl # "none"
    BY <1>0, <2>1, NoBodyKept DEF Sound
  <2>3. net.eof \in {"no", "bare", "trailers"}
    BY TypeParts DEF Nets
  <2>. QED
    BY <1>0, <1>9, <2>1, <2>2, <2>3, FallbackFields DEF BodyInv, Sound, Settled
<1>10. CASE OnTimeout
  <2>0. UNCHANGED <<kind, net>> /\ pc # "stream"
    BY <1>10 DEF OnTimeout, Turn
  <2>1. CASE UNCHANGED <<stream, body>>
    BY <1>0, <2>0, <2>1, BodyKept
  <2>2. CASE stream' = Expired(stream) /\ stream.head = "none" /\ body' = body
    BY <1>0, <2>0, <2>2, LifeKept, BodyKept
  <2>3. CASE /\ stream' = Expired(stream) /\ stream.head # "none"
             /\ body' = AfterClose(stream, body)
    BY <1>0, <2>0, <2>3, LifeKept, ClosedSound, BodyKept
  <2>. QED BY <1>10, <2>1, <2>2, <2>3 DEF OnTimeout
<1>11. CASE StreamCloses
  BY <1>3, <1>11 DEF StreamCloses, Turn
<1>. QED
  BY <1>1, <1>2, <1>4, <1>5, <1>6, <1>7, <1>8, <1>9, <1>10, <1>11 DEF Client, Node

-----------------------------------------------------------------------------
(* The answer.                                                             *)

\* Where the answer stands at each step of handleStream and handleConnect: the
\* head is the handler's, and its end not yet sent, exactly while its body is
\* being written.
AnswerInv ==
  /\ pc \in {"stream", "fetch", "connect"} => resp = "none"
  /\ pc \in {"stream", "fetch", "drainBody", "commit", "connect"} =>
       src = "none" /\ stream.head \in {"none", "408", "413"}
  /\ pc \in {"pump", "drain", "stuck"} => src = "open"
  /\ pc \in {"end", "endTrailers"} => src = "finished"
  /\ pc \in {"pump", "drain", "stuck", "end", "endTrailers"} =>
       stream.head = "handler" /\ stream.fin = "no"
  /\ pc = "connect" => stream.head = "none"
  /\ pc = "tunnel" => stream.head = "200" /\ stream.fin = "no"
  /\ stream.head = "none" => stream.fin = "no"
  /\ stream.head \notin {"none", "200", "handler"} => stream.fin = "end"
  /\ NoFalseCompletion

\* A stream that is closed without an answer was refused by its handler.
RefusalInv ==
  /\ stream.life = "closed" /\ stream.head = "none" => denied \/ resp = "null"
  /\ FaultOnlyAfterRefusal

\* A handler is told of the end of its request only when the stream is over.
ToldInv ==
  /\ aborted /\ kind # "connect" => stream.fin = "end" \/ stream.life # "open"
  /\ ToldWhenGone

FlowInv == RequestInv /\ AnswerInv /\ RefusalInv /\ ToldInv

IInv == TypeInv /\ BodyInv /\ FlowInv

\* What each function does to the fields of the stream.
LEMMA RespondFields ==
  ASSUME NEW s \in Streams, NEW h
  PROVE  /\ Respond(s, h, TRUE).head = h /\ Respond(s, h, FALSE).head = h
         /\ Respond(s, h, TRUE).fin = "end" /\ Respond(s, h, FALSE).fin = "no"
         /\ Respond(s, h, TRUE).life = s.life /\ Respond(s, h, FALSE).life = s.life
  BY DEF Streams, Respond

LEMMA StreamFields ==
  ASSUME NEW s \in Streams
  PROVE  /\ Closed(s).head = s.head /\ Closed(s).fin = s.fin
         /\ Closed(s).life = IF s.life = "open" THEN "closed" ELSE s.life
         /\ \A t \in BOOLEAN :
              /\ Ended(s, t).head = s.head /\ Ended(s, t).life = s.life
              /\ Ended(s, t).fin = IF s.life # "open" THEN s.fin
                                   ELSE IF t THEN "trailing" ELSE "end"
         /\ s.head = "none" => /\ Exceeded(s) = Respond(s, "413", TRUE)
                               /\ Expired(s) = Respond(s, "408", TRUE)
         /\ s.head # "none" => Exceeded(s) = Closed(s) /\ Expired(s) = Closed(s)
  BY DEF Streams, Respond, Closed, Ended, Exceeded, Expired

\* The end of a stream leaves its head and its end as they were, and tells the
\* handler of a request that was not answered whole.
LEMMA CloseFields ==
  ASSUME TypeInv, NEW b, Close(b)
  PROVE  /\ stream'.life = "destroyed" /\ stream'.head = stream.head /\ stream'.fin = stream.fin
         /\ aborted' = (aborted \/ (kind \in Streamed \cup {"connect"} /\ ~responded))
<1>1. stream \in Streams /\ stream' = [stream EXCEPT !.life = "destroyed"]
  BY TypeParts DEF Close
<1>2. stream'.life = "destroyed" /\ stream'.head = stream.head /\ stream'.fin = stream.fin
  BY <1>1 DEF Streams
<1>. QED BY <1>2 DEF Close

\* The end of a stream is consistent with any answer that had not been cut.
LEMMA CloseFlow ==
  ASSUME TypeInv, FlowInv, NEW b, Close(b), UNCHANGED <<kind, denied, responded, fault>>,
         \/ UNCHANGED <<pc, src, resp>>
         \/ /\ pc' = "done" /\ (stream.head # "handler" \/ stream.fin = "no")
            /\ resp' \in {resp, "body"}
            /\ resp' # resp => ~fault
  PROVE  FlowInv'
<1>1. RequestInv'
  BY CloseFields DEF FlowInv, RequestInv
<1>2. AnswerInv'
  BY CloseFields DEF FlowInv, AnswerInv, NoFalseCompletion
<1>3. RefusalInv'
  BY CloseFields DEF FlowInv, RefusalInv, FaultOnlyAfterRefusal
<1>4. ToldInv'
  BY CloseFields DEF FlowInv, ToldInv, ToldWhenGone
<1>. QED BY <1>1, <1>2, <1>3, <1>4 DEF FlowInv

\* What the invariant speaks of, besides the stream.
LEMMA FlowKept ==
  ASSUME FlowInv, UNCHANGED <<kind, pc, resp, src, denied, aborted, responded, fault>>,
         stream'.head = stream.head, stream'.fin = stream.fin,
         \/ stream'.life = stream.life
         \/ /\ kind # "connect" /\ stream.life = "open" /\ stream'.life = "closed"
            /\ denied \/ resp = "null" \/ stream.head # "none"
  PROVE  FlowInv'
<1>1. RequestInv'
  BY DEF FlowInv, RequestInv
<1>2. AnswerInv'
  BY DEF FlowInv, AnswerInv, NoFalseCompletion
<1>3. RefusalInv'
  BY DEF FlowInv, RefusalInv, FaultOnlyAfterRefusal
<1>4. ToldInv'
  BY DEF FlowInv, ToldInv, ToldWhenGone
<1>. QED BY <1>1, <1>2, <1>3, <1>4 DEF FlowInv

LEMMA FlowCode == TypeInv /\ FlowInv /\ Code => FlowInv'
<1>. SUFFICES ASSUME TypeInv, FlowInv, Code PROVE FlowInv'
  OBVIOUS
<1>0. stream \in Streams /\ kind \in AllKinds
  BY TypeParts, KindsAssumption DEF Scalars
<1>. USE DEF FlowInv
<1>1. CASE OnStream
  <2>0. /\ UNCHANGED <<kind, handlerVars, aborted, flagVars>> /\ pc = "stream"
        /\ \/ pc' = "done" /\ kind \in {"big", "declared"}
              /\ \/ stream' = Respond(stream, "431", TRUE)
                 \/ stream' = Respond(stream, "413", TRUE)
           \/ pc' = "connect" /\ kind = "connect" /\ stream' = stream
           \/ pc' = "fetch" /\ kind \in Streamed /\ stream' = stream
    BY <1>1, Zenon DEF OnStream
  <2>1. /\ stream.head = "none" /\ stream.fin = "no" /\ stream.life = "open"
        /\ aborted = FALSE /\ responded = FALSE /\ src = "none"
    BY <2>0 DEF TypeInv, Unbegun, AnswerInv
  <2>2. ASSUME NEW h \in {"413", "431"}, pc' = "done", stream' = Respond(stream, h, TRUE)
        PROVE  FlowInv'
    <3>1. stream'.head = h /\ stream'.fin = "end" /\ stream'.life = "open"
      BY <1>0, <2>1, <2>2, RespondFields
    <3>. QED
      BY <2>0, <2>1, <2>2, <3>1
      DEF RequestInv, AnswerInv, RefusalInv, ToldInv, handlerVars, flagVars,
          NoFalseCompletion, FaultOnlyAfterRefusal, ToldWhenGone, Streamed
  <2>3. CASE stream' = stream /\ pc' \in {"connect", "fetch"}
    BY <2>0, <2>1, <2>3
    DEF RequestInv, AnswerInv, RefusalInv, ToldInv, handlerVars, flagVars,
        NoFalseCompletion, FaultOnlyAfterRefusal, ToldWhenGone, Streamed
  <2>. QED BY <2>0, <2>2, <2>3
<1>2. CASE Drained
  BY <1>2 DEF Drained, handlerVars, flagVars, RequestInv, AnswerInv, RefusalInv, ToldInv,
              NoFalseCompletion, FaultOnlyAfterRefusal, ToldWhenGone
<1>3. CASE NoAnswer
  <2>0. /\ UNCHANGED <<kind, stream, resp, denied, aborted, responded, fault>>
        /\ pc = "commit" /\ pc' = "done"
    BY <1>3 DEF NoAnswer, flagVars
  <2>. QED
    BY <2>0 DEF RequestInv, AnswerInv, RefusalInv, ToldInv,
              NoFalseCompletion, FaultOnlyAfterRefusal, ToldWhenGone
<1>4. CASE Commit
  <2>0. /\ UNCHANGED <<kind, resp, denied, fault>> /\ pc = "commit"
        /\ stream.head = "none" /\ stream.life # "destroyed" /\ resp # "null"
    BY <1>4 DEF Commit, TooLate
  <2>1. CASE stream.life = "closed"
    <3>1. Close(body) /\ pc' = "done" /\ UNCHANGED responded
      BY <1>4, <2>1 DEF Commit
    <3>. QED BY <2>0, <3>1, CloseFlow
  <2>2. CASE stream.life # "closed" /\ resp \in {"empty", "omit"}
    <3>1. /\ stream' = Respond(stream, "handler", TRUE) /\ pc' = "done"
          /\ responded' = TRUE /\ UNCHANGED aborted
          /\ src' \in {"none", "cancelled"}
      BY <1>4, <2>2 DEF Commit
    <3>2. stream'.head = "handler" /\ stream'.fin = "end" /\ stream'.life = stream.life
      BY <1>0, <3>1, RespondFields
    <3>. QED
      BY <2>0, <3>1, <3>2 DEF RequestInv, AnswerInv, RefusalInv, ToldInv,
              NoFalseCompletion, FaultOnlyAfterRefusal, ToldWhenGone, Streamed
  <2>3. CASE stream.life # "closed" /\ resp \in {"body", "trailed", "echo"}
    <3>1. /\ stream' = Respond(stream, "handler", FALSE) /\ pc' = "pump"
          /\ src' = "open" /\ UNCHANGED <<responded, aborted>>
      BY <1>4, <2>3 DEF Commit
    <3>2. stream'.head = "handler" /\ stream'.fin = "no" /\ stream'.life = stream.life
      BY <1>0, <3>1, RespondFields
    <3>. QED
      BY <2>0, <3>1, <3>2 DEF RequestInv, AnswerInv, RefusalInv, ToldInv,
              NoFalseCompletion, FaultOnlyAfterRefusal, ToldWhenGone, Streamed
  <2>. QED BY <1>4, <2>1, <2>2, <2>3 DEF Commit
<1>5. CASE EndResponse
  <2>0. /\ UNCHANGED <<kind, resp, src, denied, aborted, fault>> /\ pc' = "done"
        /\ pc \in {"end", "endTrailers"} /\ responded' = (kind # "connect")
        /\ stream' = Ended(stream, resp = "trailed")
    BY <1>5 DEF EndResponse, handlerVars
  <2>1. /\ stream'.head = stream.head /\ stream'.life = stream.life
        /\ stream.fin = "no" /\ src = "finished"
    BY <1>0, <2>0, StreamFields DEF AnswerInv
  <2>. QED
    BY <2>0, <2>1 DEF RequestInv, AnswerInv, RefusalInv, ToldInv,
              NoFalseCompletion, FaultOnlyAfterRefusal, ToldWhenGone, Streamed
<1>. QED BY <1>1, <1>2, <1>3, <1>4, <1>5 DEF Code

LEMMA FlowHandler == TypeInv /\ FlowInv /\ Handler => FlowInv'
<1>. SUFFICES ASSUME TypeInv, FlowInv, Handler PROVE FlowInv'
  OBVIOUS
<1>0. stream \in Streams /\ kind \in AllKinds
  BY TypeParts, KindsAssumption DEF Scalars
<1>. USE DEF FlowInv
<1>1. ASSUME NEW o \in Outcomes, Return(o) PROVE FlowInv'
  <2>1. /\ pc = "fetch" /\ pc' \in {"drainBody", "commit"}
        /\ UNCHANGED <<kind, src, denied, aborted, responded, fault>>
        /\ stream' = IF Refuses(denied, o) THEN Closed(stream) ELSE stream
        /\ resp' = Dispatched(denied, o) /\ (o = "echo" => kind = "post")
    BY <1>1 DEF Return, flagVars
  <2>2. /\ stream'.head = stream.head /\ stream'.fin = stream.fin
        /\ \/ stream'.life = stream.life
           \/ stream.life = "open" /\ stream'.life = "closed" /\ resp' = "null"
    BY <1>0, <2>1, StreamFields DEF Refuses, Dispatched
  <2>3. (resp' = "echo" => kind = "post") /\ resp = "none"
    BY <2>1 DEF Dispatched, AnswerInv
  <2>. QED
    BY <2>1, <2>2, <2>3
    DEF RequestInv, AnswerInv, RefusalInv, ToldInv,
          NoFalseCompletion, FaultOnlyAfterRefusal, ToldWhenGone, Streamed
<1>2. ASSUME NEW r \in Tunnels, OnConnect(r) PROVE FlowInv'
  <2>0. /\ resp' = "body" /\ UNCHANGED <<kind, denied, responded, fault>>
        /\ pc = "connect" /\ ~fault
    BY <1>2 DEF OnConnect, flagVars, Turn
  <2>1. CASE r = "broken"
    <3>1. Close(body) /\ pc' = "done" BY <1>2, <2>1 DEF OnConnect
    <3>2. stream.head = "none" /\ stream.fin = "no" BY <2>0 DEF AnswerInv
    <3>. QED BY <2>0, <3>1, <3>2, CloseFlow
  <2>2. CASE r # "broken"
    <3>0. /\ UNCHANGED aborted /\ src = "none" /\ stream.head = "none" /\ stream.fin = "no"
          /\ stream.life # "closed" /\ kind = "connect"
      BY <1>2, <2>0, <2>2 DEF OnConnect, AnswerInv, RequestInv
    <3>1. CASE stream.life = "destroyed"
      <4>1. UNCHANGED <<stream, src>> /\ pc' = "done"
        BY <1>2, <2>2, <3>1 DEF OnConnect
      <4>. QED
        BY <2>0, <3>0, <4>1
        DEF RequestInv, AnswerInv, RefusalInv, ToldInv,
            NoFalseCompletion, FaultOnlyAfterRefusal, ToldWhenGone, Streamed
    <3>2. CASE stream.life # "destroyed" /\ r \in {"nothing", "invalid", "empty"}
      <4>. DEFINE h == CASE r = "nothing" -> "501" [] r = "invalid" -> "502" [] OTHER -> "handler"
      <4>1. stream' = Respond(stream, h, TRUE) /\ pc' = "done" /\ UNCHANGED src
        BY <1>2, <3>2 DEF OnConnect
      <4>2. h \in {"501", "502", "handler"} OBVIOUS
      <4>. HIDE DEF h
      <4>3. stream'.head = h /\ stream'.fin = "end" /\ stream'.life = stream.life
        BY <1>0, <4>1, RespondFields
      <4>. QED
        BY <2>0, <3>0, <4>1, <4>2, <4>3
        DEF RequestInv, AnswerInv, RefusalInv, ToldInv,
            NoFalseCompletion, FaultOnlyAfterRefusal, ToldWhenGone, Streamed
    <3>3. CASE stream.life # "destroyed" /\ r = "body"
      <4>1. stream' = Respond(stream, "handler", FALSE) /\ pc' = "pump" /\ src' = "open"
        BY <1>2, <3>3 DEF OnConnect
      <4>2. stream'.head = "handler" /\ stream'.fin = "no" /\ stream'.life = stream.life
        BY <1>0, <4>1, RespondFields
      <4>. QED
        BY <2>0, <3>0, <4>1, <4>2
        DEF RequestInv, AnswerInv, RefusalInv, ToldInv,
            NoFalseCompletion, FaultOnlyAfterRefusal, ToldWhenGone, Streamed
    <3>4. CASE stream.life # "destroyed" /\ r = "duplex"
      <4>1. stream' = Respond(stream, "200", FALSE) /\ pc' = "tunnel" /\ UNCHANGED src
        BY <1>2, <3>4 DEF OnConnect
      <4>2. stream'.head = "200" /\ stream'.fin = "no" /\ stream'.life = stream.life
        BY <1>0, <4>1, RespondFields
      <4>. QED
        BY <2>0, <3>0, <4>1, <4>2
        DEF RequestInv, AnswerInv, RefusalInv, ToldInv,
            NoFalseCompletion, FaultOnlyAfterRefusal, ToldWhenGone, Streamed
    <3>. QED BY <2>2, <3>1, <3>2, <3>3, <3>4 DEF Tunnels
  <2>. QED BY <2>1, <2>2
<1>3. CASE Write
  <2>1. /\ pc = "pump" /\ pc' \in {"pump", "drain", "stuck"}
        /\ UNCHANGED <<kind, stream, resp, src, denied, aborted, responded, fault>>
    BY <1>0, <1>3 DEF Write, Streams, handlerVars, flagVars
  <2>. QED
    BY <2>1
    DEF RequestInv, AnswerInv, RefusalInv, ToldInv,
          NoFalseCompletion, FaultOnlyAfterRefusal, ToldWhenGone, Streamed
<1>4. CASE SourceEnds
  <2>1. /\ pc = "pump" /\ pc' \in {"end", "endTrailers"} /\ src' = "finished"
        /\ UNCHANGED <<kind, stream, resp, denied, aborted, responded, fault>>
    BY <1>4 DEF SourceEnds, flagVars
  <2>. QED
    BY <2>1
    DEF RequestInv, AnswerInv, RefusalInv, ToldInv,
          NoFalseCompletion, FaultOnlyAfterRefusal, ToldWhenGone, Streamed
<1>5. CASE SourceFails
  <2>1. /\ pc = "pump" /\ pc' = "done" /\ Close(Unlocked(body))
        /\ UNCHANGED <<kind, resp, denied, responded, fault>>
    BY <1>5 DEF SourceFails, flagVars
  <2>2. stream.fin = "no"
    BY <2>1 DEF AnswerInv
  <2>. QED BY <2>1, <2>2, CloseFlow
<1>6. CASE SendTrailers
  <2>0. /\ UNCHANGED <<kind, pc, resp, src, denied, responded, fault>>
        /\ stream.fin = "trailing" /\ stream.life = "open"
    BY <1>6 DEF SendTrailers, handlerVars, flagVars
  <2>1. CASE Close(body)
    BY <2>0, <2>1, CloseFlow
  <2>2. CASE stream' = [stream EXCEPT !.fin = "end"] /\ UNCHANGED aborted
    <3>1. stream'.head = stream.head /\ stream'.fin = "end" /\ stream'.life = stream.life
      BY <1>0, <2>2 DEF Streams
    <3>. QED
      BY <2>0, <2>2, <3>1
      DEF RequestInv, AnswerInv, RefusalInv, ToldInv,
          NoFalseCompletion, FaultOnlyAfterRefusal, ToldWhenGone, Streamed
  <2>. QED BY <1>6, <2>1, <2>2 DEF SendTrailers
<1>7. CASE Deny
  <2>1. /\ kind \in Streamed /\ denied' = TRUE /\ stream' = Closed(stream)
        /\ UNCHANGED <<kind, pc, resp, src, aborted, responded, fault>>
    BY <1>7 DEF Deny, Handling, flagVars
  <2>2. /\ stream'.head = stream.head /\ stream'.fin = stream.fin
        /\ stream'.life = IF stream.life = "open" THEN "closed" ELSE stream.life
    BY <1>0, <2>1, StreamFields
  <2>. QED
    BY <2>1, <2>2
    DEF RequestInv, AnswerInv, RefusalInv, ToldInv,
          NoFalseCompletion, FaultOnlyAfterRefusal, ToldWhenGone, Streamed
<1>8. CASE Lock
  BY <1>8, FlowKept DEF Lock, handlerVars, flagVars
<1>9. CASE Read
  BY <1>9, FlowKept DEF Read, handlerVars, flagVars
<1>10. CASE LetGo
  BY <1>10, FlowKept DEF LetGo, handlerVars, flagVars
<1>11. CASE TunnelEnds
  <2>1. /\ pc = "tunnel" /\ pc' = "done" /\ stream' = Ended(stream, FALSE)
        /\ UNCHANGED <<kind, resp, src, denied, aborted, responded, fault>>
    BY <1>11 DEF TunnelEnds, flagVars
  <2>2. stream'.head = stream.head /\ stream'.life = stream.life
        /\ stream.head = "200"
    BY <1>0, <2>1, StreamFields DEF AnswerInv
  <2>. QED
    BY <2>1, <2>2
    DEF RequestInv, AnswerInv, RefusalInv, ToldInv,
          NoFalseCompletion, FaultOnlyAfterRefusal, ToldWhenGone, Streamed
<1>12. CASE DuplexFails
  <2>1. /\ pc = "tunnel" /\ pc' = "done" /\ Close(body)
        /\ UNCHANGED <<kind, resp, denied, responded, fault>>
    BY <1>12 DEF DuplexFails, flagVars
  <2>2. stream.fin = "no" BY <2>1 DEF AnswerInv
  <2>. QED BY <2>1, <2>2, CloseFlow
<1>. QED
  BY <1>1, <1>2, <1>3, <1>4, <1>5, <1>6, <1>7, <1>8, <1>9, <1>10, <1>11, <1>12 DEF Handler

LEMMA FlowEvents == TypeInv /\ BodyInv /\ FlowInv /\ (Client \/ Node) => FlowInv'
<1>. SUFFICES ASSUME TypeInv, BodyInv, FlowInv, Client \/ Node PROVE FlowInv'
  OBVIOUS
<1>0. stream \in Streams /\ kind \in AllKinds
  BY TypeParts, KindsAssumption DEF Scalars
<1>1. CASE ClientData
  BY <1>1, FlowKept DEF ClientData, handlerVars, flagVars
<1>2. CASE ClientEnd
  BY <1>2, FlowKept DEF ClientEnd, handlerVars, flagVars
<1>3. ASSUME NEW quiet, Destroyed(quiet) PROVE FlowInv'
  <2>1. /\ Close(body) /\ UNCHANGED <<kind, resp, denied, responded, fault>>
        /\ IF pc = "drain" THEN pc' = "done" ELSE UNCHANGED <<pc, src>>
    BY <1>3 DEF Destroyed, Rejected, flagVars
  <2>2. pc = "drain" => stream.fin = "no"
    BY DEF FlowInv, AnswerInv
  <2>. QED BY <2>1, <2>2, CloseFlow
<1>4. CASE Reset
  BY <1>3, <1>4 DEF Reset
<1>5. CASE Drain
  <2>1. /\ pc = "drain" /\ pc' = "pump"
        /\ UNCHANGED <<kind, stream, resp, src, denied, aborted, responded, fault>>
    BY <1>5 DEF Drain, handlerVars, flagVars
  <2>. QED
    BY <2>1
    DEF FlowInv, RequestInv, AnswerInv, RefusalInv, ToldInv,
          NoFalseCompletion, FaultOnlyAfterRefusal, ToldWhenGone
<1>6. CASE OnData
  <2>0. /\ UNCHANGED <<kind, pc, resp, src, denied, responded, fault>>
        /\ net.inbox > 0 /\ stream.life = "open"
    BY <1>6 DEF OnData, handlerVars
  <2>1. kind \in {"get", "post"}
    BY <2>0 DEF BodyInv, Sound, NoData
  <2>2. CASE Received
    BY <2>0, <2>2, FlowKept DEF Received
  <2>3. CASE TooMuch /\ stream.head = "none"
    <3>1. stream' = Respond(stream, "413", TRUE)
      BY <1>0, <2>3, StreamFields DEF TooMuch
    <3>2. stream'.head = "413" /\ stream'.fin = "end" /\ stream'.life = "open"
      BY <1>0, <2>0, <3>1, RespondFields, ZenonT(60)
    <3>. QED
      BY <2>0, <2>1, <2>3, <3>2
      DEF FlowInv, RequestInv, AnswerInv, RefusalInv, ToldInv,
          NoFalseCompletion, FaultOnlyAfterRefusal, ToldWhenGone, Streamed, TooMuch
  <2>4. CASE TooMuch /\ stream.head # "none"
    <3>1. stream' = Closed(stream)
      BY <1>0, <2>4, StreamFields DEF TooMuch
    <3>2. stream'.head = stream.head /\ stream'.fin = stream.fin /\ stream'.life = "closed"
      BY <1>0, <2>0, <3>1, StreamFields
    <3>. QED
      BY <2>0, <2>1, <2>4, <3>2
      DEF FlowInv, RequestInv, AnswerInv, RefusalInv, ToldInv,
          NoFalseCompletion, FaultOnlyAfterRefusal, ToldWhenGone, Streamed, TooMuch
  <2>. QED BY <1>6, <2>2, <2>3, <2>4, OnDataFields
<1>7. CASE OnEnd
  BY <1>7, FlowKept DEF OnEnd, handlerVars, flagVars
<1>8. CASE OnTrailers
  BY <1>8, FlowKept DEF OnTrailers, handlerVars, flagVars
<1>9. CASE Fallback
  BY <1>9, FlowKept DEF Fallback, handlerVars, flagVars
<1>10. CASE OnTimeout
  <2>0. UNCHANGED <<kind, pc, resp, src, denied, responded>> /\ aborted' = TRUE
    BY <1>10 DEF OnTimeout, handlerVars
  <2>1. CASE (kind = "connect" \/ stream.life = "destroyed") /\ UNCHANGED <<stream, fault>>
    BY <2>0, <2>1
    DEF FlowInv, RequestInv, AnswerInv, RefusalInv, ToldInv,
        NoFalseCompletion, FaultOnlyAfterRefusal, ToldWhenGone
  <2>2. CASE /\ kind # "connect" /\ stream.life = "open" /\ stream.head = "none"
             /\ stream' = Expired(stream) /\ UNCHANGED fault
    <3>1. stream' = Respond(stream, "408", TRUE) /\ stream.life = "open"
      BY <1>0, <2>2, StreamFields
    <3>2. stream'.head = "408" /\ stream'.fin = "end" /\ stream'.life = "open"
      BY <1>0, <3>1, RespondFields, ZenonT(60)
    <3>. QED
      BY <2>0, <2>2, <3>2
      DEF FlowInv, RequestInv, AnswerInv, RefusalInv, ToldInv,
          NoFalseCompletion, FaultOnlyAfterRefusal, ToldWhenGone
  <2>3. CASE /\ kind # "connect" /\ stream.life \in {"open", "closed"} /\ stream.head # "none"
             /\ stream' = Expired(stream) /\ UNCHANGED fault
    <3>1. stream' = Closed(stream)
      BY <1>0, <2>3, StreamFields
    <3>2. stream'.head = stream.head /\ stream'.fin = stream.fin /\ stream'.life = "closed"
      BY <1>0, <2>3, <3>1, StreamFields, ZenonT(60)
    <3>. QED
      BY <2>0, <2>3, <3>2
      DEF FlowInv, RequestInv, AnswerInv, RefusalInv, ToldInv,
          NoFalseCompletion, FaultOnlyAfterRefusal, ToldWhenGone
  <2>4. CASE stream.life = "closed" /\ stream.head = "none" /\ UNCHANGED stream
    BY <2>0, <2>4
    DEF FlowInv, RequestInv, AnswerInv, RefusalInv, ToldInv,
        NoFalseCompletion, FaultOnlyAfterRefusal, ToldWhenGone
  <2>. QED BY <1>10, <2>1, <2>2, <2>3, <2>4 DEF OnTimeout
<1>11. CASE StreamCloses
  BY <1>3, <1>11 DEF StreamCloses
<1>. QED
  BY <1>1, <1>2, <1>4, <1>5, <1>6, <1>7, <1>8, <1>9, <1>10, <1>11 DEF Client, Node

\* Types, body and answer are invariant together: what is known of the body
\* rests on which requests have one, and the answer on which bodies get data.
LEMMA IInvCorrect == Spec => []IInv
<1>1. Init => IInv
  <2>. SUFFICES ASSUME Init PROVE BodyInv /\ FlowInv
    BY TypeInit DEF IInv
  <2>1. BodyInv
    BY NoBodyKept DEF Init, BodyInv, Sound, NoData
  <2>2. FlowInv
    BY DEF Init, FlowInv, RequestInv, AnswerInv, RefusalInv, ToldInv,
           NoFalseCompletion, FaultOnlyAfterRefusal, ToldWhenGone
  <2>. QED BY <2>1, <2>2
<1>2. IInv /\ UNCHANGED vars => IInv'
  BY DEF vars, IInv, TypeInv, TypeOK, Unbegun, Counted, BodyInv, Sound,
         FlowInv, RequestInv, AnswerInv, RefusalInv, ToldInv,
         NoFalseCompletion, FaultOnlyAfterRefusal, ToldWhenGone
<1>3. IInv /\ Next => IInv'
  <2>. SUFFICES ASSUME TypeInv, BodyInv, FlowInv, RequestInv, Next PROVE IInv'
    BY DEF IInv, FlowInv
  <2>1. TypeInv'
    BY TypeCode, TypeHandler, TypeEvents DEF Next
  <2>2. BodyInv'
    BY BodyCode, BodyHandler, BodyEvents DEF Next
  <2>3. FlowInv'
    BY FlowCode, FlowHandler, FlowEvents DEF Next
  <2>. QED BY <2>1, <2>2, <2>3 DEF IInv
<1>. QED BY <1>1, <1>2, <1>3, PTL DEF Spec

\* The handler's signal is aborted whenever the stream of its request is gone
\* and the response was not whole.
THEOREM SignalAborts == Spec => []ToldWhenGone
<1>1. IInv => ToldWhenGone
  BY DEF IInv, FlowInv, ToldInv
<1>. QED BY <1>1, IInvCorrect, PTL

\* No reader of a request body waits on a stream that is gone, and a body that
\* reads as complete is the whole of what the client sent.
THEOREM ReaderSettles == Spec => []BodyReaderSettles
<1>1. IInv => BodyReaderSettles
  <2>. SUFFICES ASSUME IInv PROVE BodyReaderSettles
    OBVIOUS
  <2>1. body.bytes + net.inbox = net.sent /\ body \in Bodies
    BY TypeParts DEF IInv, Fits
  <2>2. net.inbox = 0 => body.bytes = net.sent
    BY <2>1 DEF Bodies
  <2>. QED BY <2>2 DEF IInv, BodyInv, Sound, BodyReaderSettles
<1>. QED BY <1>1, IInvCorrect, PTL

\* A body that nobody will read never holds the flow-control window.
THEOREM IgnoredBodyFlows == Spec => []DiscardedBodyFlows
<1>1. IInv => DiscardedBodyFlows
  BY DEF IInv, BodyInv, Sound, DiscardedBodyFlows
<1>. QED BY <1>1, IInvCorrect, PTL

\* Trailers that arrive in the turn of the end are never replaced by none.
THEOREM TrailersWin == Spec => []ClientTrailersWin
<1>1. IInv => ClientTrailersWin
  BY DEF IInv, BodyInv, Sound, ClientTrailersWin
<1>. QED BY <1>1, IInvCorrect, PTL

\* A response that was cut short is never ended as if it were whole.
THEOREM TruncatedIsVisible == Spec => []NoFalseCompletion
<1>1. IInv => NoFalseCompletion
  BY DEF IInv, FlowInv, AnswerInv
<1>. QED BY <1>1, IInvCorrect, PTL

\* The timer throws only where the handler had refused its request.
THEOREM FaultIsBounded == Spec => []FaultOnlyAfterRefusal
<1>1. IInv => FaultOnlyAfterRefusal
  BY DEF IInv, FlowInv, RefusalInv
<1>. QED BY <1>1, IInvCorrect, PTL

-----------------------------------------------------------------------------
(* The stream implements the abstract exchange.                            *)

\* The mapping by the fields of the stream.
StageOf(s) ==
  IF s.fin = "end" THEN "complete"
  ELSE IF s.life # "open" THEN "reset"
  ELSE IF s.head = "none" THEN "waiting" ELSE "answering"

AnswerOf(s) ==
  IF s.head = "none" THEN "none"
  ELSE IF s.head \in {"handler", "200"} THEN "response" ELSE "refusal"

LEMMA Mapped ==
  /\ Stage = StageOf(stream) /\ Stage' = StageOf(stream')
  /\ Answered = AnswerOf(stream) /\ Answered' = AnswerOf(stream')
<1>1. Stage = StageOf(stream)
  BY DEF Stage, StageOf
<1>2. Stage' = StageOf(stream')
  BY DEF Stage, StageOf
<1>3. Answered = AnswerOf(stream)
  BY DEF Answered, AnswerOf
<1>4. Answered' = AnswerOf(stream')
  BY DEF Answered, AnswerOf
<1>. QED BY <1>1, <1>2, <1>3, <1>4

\* A step that leaves the stream and the signal alone is a stutter.
LEMMA Stutters ==
  ASSUME UNCHANGED <<kind, stream, aborted>>
  PROVE  UNCHANGED X!vars
  BY DEF X!vars, Stage, Answered

\* A head that the server sends in the handler's place.
LEMMA RefusesX ==
  ASSUME UNCHANGED kind, aborted' \in {aborted, TRUE},
         stream.head = "none", stream.fin = "no", stream.life = "open",
         stream'.head \notin {"none", "handler", "200"}, stream'.fin = "end"
  PROVE  X!Next
<1>1. X!Refuse
  BY Mapped DEF X!Refuse, X!MayTell, StageOf, AnswerOf
<1>. QED BY <1>1 DEF X!Next

\* The handler's head, with the whole of the answer or before its body.
LEMMA RespondsX ==
  ASSUME UNCHANGED <<kind, aborted>>, kind # "connect" => ~aborted,
         stream.head = "none", stream.fin = "no", stream.life = "open",
         stream'.head \in {"handler", "200"}, stream'.life = "open"
  PROVE  X!Next
<1>1. X!Respond
  BY Mapped DEF X!Respond, StageOf, AnswerOf
<1>. QED BY <1>1 DEF X!Next

\* The end of a response that was begun.
LEMMA FinishesX ==
  ASSUME UNCHANGED <<kind, aborted>>, kind # "connect" => ~aborted,
         stream.head # "none", stream.fin # "end", stream.life = "open",
         stream'.head = stream.head, stream'.fin = "end"
  PROVE  X!Next
<1>1. X!Finish
  BY Mapped DEF X!Finish, StageOf, AnswerOf
<1>. QED BY <1>1 DEF X!Next

\* A stream that ends, if it was not over, or stays as it was, while the
\* handler is told what it has to know.
LEMMA EndsX ==
  ASSUME UNCHANGED kind, aborted \in BOOLEAN, aborted' \in {aborted, TRUE},
         stream'.head = stream.head,
         stream'.fin = stream.fin \/ {stream.fin, stream'.fin} \subseteq {"no", "trailing"},
         stream'.life = stream.life \/ stream'.life # "open",
         aborted' # aborted /\ kind # "connect" =>
           stream'.fin = "end" \/ stream'.life # "open"
  PROVE  [X!Next]_(X!vars)
<1>1. CASE Stage' = Stage /\ aborted' = aborted
  BY <1>1, Mapped DEF X!vars, AnswerOf
<1>2. CASE Stage' = Stage /\ aborted' # aborted
  <2>1. X!Tell
    BY <1>2, Mapped DEF X!Tell, StageOf, AnswerOf
  <2>. QED BY <2>1 DEF X!Next
<1>3. CASE Stage' # Stage
  <2>1. X!Reset
    BY <1>3, Mapped DEF X!Reset, X!MayTell, StageOf, AnswerOf
  <2>. QED BY <2>1 DEF X!Next
<1>. QED BY <1>1, <1>2, <1>3

LEMMA ClosesX ==
  ASSUME TypeInv, NEW b, Close(b), UNCHANGED kind
  PROVE  [X!Next]_(X!vars)
<1>1. aborted \in BOOLEAN BY TypeParts DEF Scalars
<1>. QED BY <1>1, CloseFields, EndsX

LEMMA ExchangeInit == Init => X!Init
<1>. SUFFICES ASSUME Init PROVE X!Init
  OBVIOUS
<1>1. stream.head = "none" /\ stream.fin = "no" /\ stream.life = "open" /\ aborted = FALSE
  BY DEF Init
<1>. QED BY <1>1, Mapped DEF X!Init, StageOf, AnswerOf

LEMMA ExchangeCode == IInv /\ Code => [X!Next]_(X!vars)
<1>. SUFFICES ASSUME IInv, Code PROVE [X!Next]_(X!vars)
  OBVIOUS
<1>0. TypeInv /\ AnswerInv /\ ToldInv /\ RequestInv /\ stream \in Streams /\ aborted \in BOOLEAN
  BY TypeParts DEF IInv, FlowInv, Scalars
<1>1. CASE OnStream
  <2>1. /\ UNCHANGED <<kind, aborted>> /\ pc = "stream"
        /\ \/ stream' = Respond(stream, "431", TRUE)
           \/ stream' = Respond(stream, "413", TRUE)
           \/ stream' = stream
    BY <1>1, Zenon DEF OnStream
  <2>2. stream.head = "none" /\ stream.fin = "no" /\ stream.life = "open"
    BY <1>0, <2>1 DEF TypeInv, Unbegun
  <2>3. ASSUME NEW h \in {"413", "431"}, stream' = Respond(stream, h, TRUE) PROVE X!Next
    <3>1. stream'.head = h /\ stream'.fin = "end"
      BY <1>0, <2>3, RespondFields
    <3>. QED BY <2>1, <2>2, <3>1, RefusesX
  <2>. QED BY <2>1, <2>3, Stutters
<1>2. CASE Drained
  BY <1>2, Stutters DEF Drained
<1>3. CASE NoAnswer
  BY <1>3, Stutters DEF NoAnswer
<1>4. CASE Commit
  <2>0. UNCHANGED kind /\ pc = "commit" /\ stream.head = "none" /\ stream.life # "destroyed"
    BY <1>4 DEF Commit, TooLate
  <2>1. CASE stream.life = "closed"
    <3>1. Close(body) BY <1>4, <2>1 DEF Commit
    <3>. QED BY <1>0, <2>0, <3>1, ClosesX
  <2>2. CASE stream.life # "closed"
    <3>1. UNCHANGED aborted /\ \/ stream' = Respond(stream, "handler", TRUE)
                               \/ stream' = Respond(stream, "handler", FALSE)
      BY <1>4, <2>2 DEF Commit
    <3>2. stream'.head = "handler" /\ stream'.life = stream.life
      <4>1. CASE stream' = Respond(stream, "handler", TRUE)
        BY <1>0, <4>1, RespondFields
      <4>2. CASE stream' = Respond(stream, "handler", FALSE)
        BY <1>0, <4>2, RespondFields
      <4>. QED BY <3>1, <4>1, <4>2
    <3>3. stream.life = "open" /\ stream.fin = "no" /\ (kind # "connect" => ~aborted)
      BY <1>0, <2>0, <2>2 DEF AnswerInv, ToldInv, Streams
    <3>. QED BY <2>0, <3>1, <3>2, <3>3, RespondsX
  <2>. QED BY <2>1, <2>2
<1>5. CASE EndResponse
  <2>1. UNCHANGED <<kind, aborted>> /\ stream' = Ended(stream, resp = "trailed")
        /\ pc \in {"end", "endTrailers"}
    BY <1>5 DEF EndResponse
  <2>2. stream.head = "handler" /\ stream.fin = "no"
    BY <1>0, <2>1 DEF AnswerInv
  <2>3. /\ stream'.head = stream.head /\ stream'.life = stream.life
        /\ stream'.fin = IF stream.life # "open" THEN stream.fin
                         ELSE IF resp = "trailed" THEN "trailing" ELSE "end"
    BY <1>0, <2>1, StreamFields
  <2>4. CASE stream.life = "open" /\ resp # "trailed"
    BY <1>0, <2>1, <2>2, <2>3, <2>4, FinishesX DEF ToldInv
  <2>5. CASE stream.life # "open" \/ resp = "trailed"
    BY <1>0, <2>1, <2>2, <2>3, <2>5, EndsX
  <2>. QED BY <2>4, <2>5
<1>. QED BY <1>1, <1>2, <1>3, <1>4, <1>5 DEF Code

LEMMA ExchangeHandler == IInv /\ Handler => [X!Next]_(X!vars)
<1>. SUFFICES ASSUME IInv, Handler PROVE [X!Next]_(X!vars)
  OBVIOUS
<1>0. TypeInv /\ AnswerInv /\ ToldInv /\ RequestInv /\ stream \in Streams /\ aborted \in BOOLEAN
  BY TypeParts DEF IInv, FlowInv, Scalars
<1>1. ASSUME UNCHANGED <<kind, aborted>>, stream' \in {stream, Closed(stream)}
      PROVE  [X!Next]_(X!vars)
  <2>1. /\ stream'.head = stream.head /\ stream'.fin = stream.fin
        /\ stream'.life = stream.life \/ stream'.life # "open"
    BY <1>0, <1>1, StreamFields, ZenonT(60)
  <2>. QED BY <1>0, <1>1, <2>1, EndsX
<1>2. ASSUME NEW o \in Outcomes, Return(o) PROVE [X!Next]_(X!vars)
  <2>1. UNCHANGED <<kind, aborted>> /\ stream' \in {stream, Closed(stream)}
    BY <1>2 DEF Return
  <2>. QED BY <1>1, <2>1
<1>3. ASSUME NEW r \in Tunnels, OnConnect(r) PROVE [X!Next]_(X!vars)
  <2>0. UNCHANGED kind /\ pc = "connect"
    BY <1>3 DEF OnConnect
  <2>1. CASE r = "broken"
    <3>1. Close(body) BY <1>3, <2>1 DEF OnConnect
    <3>. QED BY <1>0, <2>0, <3>1, ClosesX
  <2>2. CASE r # "broken" /\ stream.life = "destroyed"
    <3>1. UNCHANGED <<stream, aborted>> BY <1>3, <2>2 DEF OnConnect
    <3>. QED BY <1>1, <2>0, <3>1
  <2>3. CASE r # "broken" /\ stream.life # "destroyed"
    <3>1. UNCHANGED aborted /\ kind = "connect" /\ stream.head = "none" /\ stream.fin = "no"
          /\ stream.life = "open"
      BY <1>0, <1>3, <2>0, <2>3 DEF OnConnect, AnswerInv, RequestInv, Streams
    <3>2. CASE r \in {"nothing", "invalid", "empty"}
      <4>. DEFINE h == CASE r = "nothing" -> "501" [] r = "invalid" -> "502" [] OTHER -> "handler"
      <4>1. stream' = Respond(stream, h, TRUE)
        BY <1>3, <2>3, <3>2 DEF OnConnect
      <4>2. h \in {"501", "502", "handler"} OBVIOUS
      <4>. HIDE DEF h
      <4>3. stream'.head = h /\ stream'.fin = "end" /\ stream'.life = stream.life
        BY <1>0, <4>1, RespondFields
      <4>4. CASE h = "handler"
        BY <2>0, <3>1, <4>3, <4>4, RespondsX
      <4>5. CASE h # "handler"
        BY <2>0, <3>1, <4>2, <4>3, <4>5, RefusesX
      <4>. QED BY <4>4, <4>5
    <3>3. CASE r \in {"body", "duplex"}
      <4>1. \/ stream' = Respond(stream, "handler", FALSE)
            \/ stream' = Respond(stream, "200", FALSE)
        BY <1>3, <2>3, <3>3 DEF OnConnect
      <4>2. stream'.head \in {"handler", "200"} /\ stream'.life = "open"
        <5>1. CASE stream' = Respond(stream, "handler", FALSE)
          BY <1>0, <3>1, <5>1, RespondFields
        <5>2. CASE stream' = Respond(stream, "200", FALSE)
          BY <1>0, <3>1, <5>2, RespondFields
        <5>. QED BY <4>1, <5>1, <5>2
      <4>. QED BY <2>0, <3>1, <4>2, RespondsX
    <3>. QED BY <2>3, <3>2, <3>3 DEF Tunnels
  <2>. QED BY <2>1, <2>2, <2>3
<1>4. CASE Write
  BY <1>4, Stutters DEF Write
<1>5. CASE SourceEnds
  BY <1>5, Stutters DEF SourceEnds
<1>6. CASE SourceFails
  <2>1. Close(Unlocked(body)) /\ UNCHANGED kind
    BY <1>6 DEF SourceFails
  <2>. QED BY <1>0, <2>1, ClosesX
<1>7. CASE SendTrailers
  <2>0. UNCHANGED kind /\ stream.fin = "trailing" /\ stream.life = "open"
    BY <1>7 DEF SendTrailers
  <2>1. CASE Close(body)
    BY <1>0, <2>0, <2>1, ClosesX
  <2>2. CASE stream' = [stream EXCEPT !.fin = "end"] /\ UNCHANGED aborted
    <3>1. stream'.head = stream.head /\ stream'.fin = "end"
      BY <1>0, <2>2 DEF Streams
    <3>2. stream.head # "none" /\ (kind # "connect" => ~aborted)
      BY <1>0, <2>0 DEF AnswerInv, ToldInv
    <3>. QED BY <2>0, <2>2, <3>1, <3>2, FinishesX
  <2>. QED BY <1>7, <2>1, <2>2 DEF SendTrailers
<1>8. CASE Deny
  BY <1>1, <1>8 DEF Deny
<1>9. CASE Lock \/ Read \/ LetGo
  BY <1>9, Stutters DEF Lock, Read, LetGo
<1>10. CASE TunnelEnds
  <2>1. /\ UNCHANGED <<kind, aborted>> /\ stream' = Ended(stream, FALSE)
        /\ pc = "tunnel" /\ stream.life = "open"
    BY <1>10 DEF TunnelEnds
  <2>2. stream.head = "200" /\ stream.fin = "no" /\ kind = "connect"
    BY <1>0, <2>1 DEF AnswerInv, RequestInv
  <2>3. stream'.head = stream.head /\ stream'.fin = "end"
    BY <1>0, <2>1, StreamFields
  <2>. QED BY <2>1, <2>2, <2>3, FinishesX
<1>11. CASE DuplexFails
  <2>1. Close(body) /\ UNCHANGED kind
    BY <1>11 DEF DuplexFails
  <2>. QED BY <1>0, <2>1, ClosesX
<1>. QED
  BY <1>2, <1>3, <1>4, <1>5, <1>6, <1>7, <1>8, <1>9, <1>10, <1>11 DEF Handler

LEMMA ExchangeEvents == IInv /\ (Client \/ Node) => [X!Next]_(X!vars)
<1>. SUFFICES ASSUME IInv, Client \/ Node PROVE [X!Next]_(X!vars)
  OBVIOUS
<1>0. TypeInv /\ AnswerInv /\ stream \in Streams /\ aborted \in BOOLEAN
  BY TypeParts DEF IInv, FlowInv, Scalars
<1>1. CASE ClientData \/ ClientEnd
  BY <1>1, Stutters DEF ClientData, ClientEnd
<1>2. ASSUME NEW quiet, Destroyed(quiet) PROVE [X!Next]_(X!vars)
  BY <1>0, <1>2, ClosesX DEF Destroyed
<1>3. CASE Reset \/ StreamCloses
  BY <1>2, <1>3 DEF Reset, StreamCloses
<1>4. CASE Drain \/ OnEnd \/ OnTrailers \/ Fallback
  BY <1>4, Stutters DEF Drain, OnEnd, OnTrailers, Fallback
\* The head is not sent: the server refuses.
<1>5. ASSUME UNCHANGED kind, aborted' = TRUE, stream.head = "none", stream.life = "open",
             NEW h \in {"408", "413"}, stream' = Respond(stream, h, TRUE)
      PROVE  X!Next
  <2>1. stream'.head = h /\ stream'.fin = "end" /\ stream.fin = "no"
    BY <1>0, <1>5, RespondFields DEF AnswerInv
  <2>. QED BY <1>5, <2>1, RefusesX
\* The head was sent: the stream is reset.
<1>6. ASSUME UNCHANGED kind, aborted' = TRUE, stream' = Closed(stream)
      PROVE  [X!Next]_(X!vars)
  <2>1. /\ stream'.head = stream.head /\ stream'.fin = stream.fin /\ stream'.life # "open"
    BY <1>0, <1>6, StreamFields
  <2>. QED BY <1>0, <1>6, <2>1, EndsX
<1>7. CASE OnData
  <2>1. UNCHANGED kind /\ stream.life = "open"
    BY <1>7 DEF OnData
  <2>2. CASE Received
    BY <2>1, <2>2, Stutters DEF Received
  <2>3. CASE TooMuch
    BY <1>0, <1>5, <1>6, <2>1, <2>3, StreamFields DEF TooMuch
  <2>. QED BY <1>0, <1>7, <2>2, <2>3, OnDataFields
<1>8. CASE OnTimeout
  <2>1. UNCHANGED kind /\ aborted' = TRUE
    BY <1>8 DEF OnTimeout
  <2>2. CASE UNCHANGED stream /\ (kind = "connect" \/ stream.life # "open")
    BY <1>0, <2>1, <2>2, EndsX
  <2>3. CASE stream' = Expired(stream) /\ (stream.life = "open" \/ stream.head # "none")
    BY <1>0, <1>5, <1>6, <2>1, <2>3, StreamFields
  <2>. QED BY <1>8, <2>2, <2>3 DEF OnTimeout
<1>. QED BY <1>1, <1>3, <1>4, <1>7, <1>8 DEF Client, Node

\* Every step of the stream is a step of the exchange or changes nothing of it:
\* one answer at most, none begun once the handler was told, and none that
\* reads as whole after it was cut.
THEOREM Implements == Spec => ImplementsExchange
<1>1. IInv /\ [Next]_vars => [X!Next]_(X!vars)
  <2>. SUFFICES ASSUME IInv, [Next]_vars PROVE [X!Next]_(X!vars)
    OBVIOUS
  <2>1. CASE UNCHANGED vars
    BY <2>1, Stutters DEF vars
  <2>2. CASE Next
    BY <2>2, ExchangeCode, ExchangeHandler, ExchangeEvents DEF Next
  <2>. QED BY <2>1, <2>2
<1>. QED
  BY <1>1, ExchangeInit, IInvCorrect, PTL DEF Spec, ImplementsExchange, X!Spec

=============================================================================
