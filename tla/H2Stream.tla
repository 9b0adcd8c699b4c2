------------------------------ MODULE H2Stream ------------------------------
(***************************************************************************)
(* One HTTP/2 stream (lib/h2/index.js): handleStream with the listeners it *)
(* installs, the request body it builds on the stream's events, the write  *)
(* loop of the response, and handleConnect.                                *)
(*                                                                         *)
(* handleStream is one process with a program counter; between its awaits, *)
(* and when a promise it awaits has settled, it runs before any event.     *)
(* Node's http2 stream is external: it delivers data while it flows, emits *)
(* 'aborted' when a stream is closed whose writable side was not ended and *)
(* 'close' when it is destroyed.  A reset by the client carries an error   *)
(* code; the session's end looks the same to a stream.                     *)
(***************************************************************************)
EXTENDS Naturals, Dispatch

CONSTANTS
  Kinds,      \* the kinds of request that arrive
  Timers,     \* requestTimeout: "armed", or "unset" when it is 0
  MaxBody,    \* limits.maxRequestBodySize, in chunks; 0 is no limit
  MaxChunks   \* bound: DATA frames of a request

\* "plain" has no body; "get" is a GET or HEAD that has one and "post" another
\* method that has one; "big" has headers over the limit; "declared" a
\* content-length over the limit; "connect" asks for a tunnel.
Streamed == {"plain", "get", "post"}
AllKinds == Streamed \cup {"big", "declared", "connect"}

ASSUME KindsAssumption == Kinds \subseteq AllKinds
ASSUME TimersAssumption == Timers \subseteq {"armed", "unset"}
ASSUME MaxBodyAssumption == MaxBody \in Nat
ASSUME MaxChunksAssumption == MaxChunks \in Nat

VARIABLES
  kind,       \* the request
  stream,     \* the Http2Stream, as node shows it to the server
  net,        \* what the client has sent
  body,       \* requestBody, its ReadableStream and the trailers promise
  pc,         \* where handleStream or handleConnect is
  resp,       \* what dispatch or connect() returned
  src,        \* the body of that Response
  denied,     \* ctx.denied
  aborted,    \* the request's AbortSignal
  tooLarge,   \* bodyTooLarge
  responded,  \* responded
  timer,      \* timer
  duplex,     \* the Duplex connect() returned
  fault       \* an event listener threw: the process has an uncaught exception

vars == <<kind, stream, net, body, pc, resp, src, denied, aborted, tooLarge,
          responded, timer, duplex, fault>>
handlerVars == <<resp, src, denied, duplex>>
flagVars    == <<tooLarge, responded, fault>>

\* stream.life: "open", "closed" by stream.close(), "destroyed" once 'close' was
\* emitted.  stream.head is the status sent.  stream.fin: END_STREAM is queued
\* ("end"), or waits for the trailers ("trailing").
Statuses == {"none", "408", "413", "431", "501", "502", "200", "handler"}

\* A body that is not read by requestBody: the trailers are known to be empty.
NoBody ==
  [ctl |-> "none", queued |-> 0, bytes |-> 0, flowing |-> FALSE,
   discarded |-> FALSE, ended |-> TRUE, locked |-> FALSE,
   trailers |-> "empty", fallback |-> FALSE]

Init ==
  /\ kind \in Kinds
  /\ stream = [life |-> "open", head |-> "none", fin |-> "no"]
  /\ net = [sent |-> 0, inbox |-> 0, eof |-> "no", event |-> FALSE]
  /\ body = NoBody /\ pc = "stream" /\ resp = "none" /\ src = "none"
  /\ denied = FALSE /\ aborted = FALSE /\ tooLarge = FALSE
  /\ responded = FALSE /\ timer = "unset" /\ duplex = "none" /\ fault = FALSE

\* The await of handleStream that a settled trailers promise ends.
Resumes == pc \in {"drainBody", "endTrailers"} /\ body.trailers # "pending"
\* An event is handled when the code has run as far as it can.
Turn == ~fault /\ pc \notin {"stream", "commit", "end"} /\ ~Resumes

-----------------------------------------------------------------------------
(* The Http2Stream and the request body, as functions of their state.      *)

\* stream.respond(), with endStream when the answer has no body.
Respond(s, status, endStream) ==
  [s EXCEPT !.head = status, !.fin = IF endStream THEN "end" ELSE "no"]

\* stream.close(code)
Closed(s) == IF s.life = "open" THEN [s EXCEPT !.life = "closed"] ELSE s

\* stream.end(): with waitForTrailers the end is held back.
Ended(s, trailing) ==
  IF s.life # "open" THEN s
  ELSE [s EXCEPT !.fin = IF trailing THEN "trailing" ELSE "end"]

\* The trailers promise settles once.
Settled(t, value) == IF t = "pending" THEN value ELSE t

\* Mutant: the reader of an aborted body is told nothing.
OnAborted_Silent(b) ==
  IF b.ended \/ b.discarded THEN b
  ELSE [b EXCEPT !.discarded = TRUE, !.trailers = Settled(@, "empty")]

\* onAborted: a body that is discarded is left as it is, its trailers too.
OnAborted(b) ==
  IF b.ended \/ b.discarded THEN b
  ELSE [b EXCEPT !.discarded = TRUE, !.ctl = "errored", !.queued = 0,
                 !.trailers = Settled(@, "empty")]

\* What stream.close() does to the body: 'aborted' is emitted unless the
\* writable side was ended.
AfterClose(s, b) == IF s.life = "open" /\ s.fin = "no" THEN OnAborted(b) ELSE b

\* Mutant: cancelling a body leaves the stream paused.
Cancelled_StaysPaused(b) ==
  IF b.ctl = "open" \/ b.queued > 0
  THEN [b EXCEPT !.ctl = "cancelled", !.queued = 0, !.discarded = TRUE]
  ELSE b

\* ReadableStream.cancel()
Cancelled(b) ==
  IF b.ctl = "open" \/ b.queued > 0
  THEN [b EXCEPT !.ctl = "cancelled", !.queued = 0, !.discarded = TRUE, !.flowing = TRUE]
  ELSE b

\* A reader takes a chunk, and pull() resumes the stream.
Taken(b) == [b EXCEPT !.queued = @ - 1, !.flowing = @ \/ b.ctl = "open"]

\* The body of the request is cancelled unless somebody reads it.
Released(b) == IF kind = "post" /\ ~b.locked THEN Cancelled(b) ELSE b

\* requestBody(): its first pull() resumes the stream; the body of a GET or
\* HEAD is cancelled at once.
RequestBody ==
  LET b == [NoBody EXCEPT !.ctl = "open", !.flowing = TRUE, !.ended = FALSE,
                          !.trailers = "pending"]
  IN CASE kind = "post" -> b
       [] kind = "get"  -> Cancelled(b)
       [] OTHER         -> NoBody

\* clearTimeout
Disarmed == IF timer = "armed" THEN "cleared" ELSE timer

\* Mutant: the end of the stream is not reported to the handler.
Close_KeepsSignal(b) ==
  /\ stream' = [stream EXCEPT !.life = "destroyed"]
  /\ body' = OnAborted(b)
  /\ timer' = IF kind # "connect" THEN Disarmed ELSE timer
  /\ UNCHANGED aborted

\* The 'close' listeners of handleStream and handleConnect, and onAborted.
Close(b) ==
  /\ stream' = [stream EXCEPT !.life = "destroyed"]
  /\ body' = OnAborted(b)
  /\ timer' = IF kind # "connect" THEN Disarmed ELSE timer
  /\ aborted' = (aborted \/ (kind \in Streamed \cup {"connect"} /\ ~responded))

-----------------------------------------------------------------------------
(* handleStream.                                                           *)

\* The 'stream' event: refusals first, then the listeners and the timer.
OnStream ==
  /\ pc = "stream"
  /\ \/ /\ kind = "big"
        /\ stream' = Respond(stream, "431", TRUE) /\ pc' = "done"
        /\ UNCHANGED <<body, timer>>
     \/ /\ kind = "declared"
        /\ stream' = Respond(stream, "413", TRUE) /\ pc' = "done"
        /\ UNCHANGED <<body, timer>>
     \/ /\ kind = "connect"
        /\ timer' \in Timers /\ pc' = "connect"
        /\ UNCHANGED <<stream, body>>
     \/ /\ kind \in Streamed
        /\ body' = RequestBody /\ timer' \in Timers /\ pc' = "fetch"
        /\ UNCHANGED stream
  /\ UNCHANGED <<kind, net, handlerVars, aborted, flagVars>>

\* A body a Response can be built with: no chunk of it was read.
Untouched(b) ==
  /\ ~b.locked /\ b.ctl # "cancelled"
  /\ (b.ctl # "errored" => b.bytes = b.queued)

\* dispatch settles.  A body nobody reads is cancelled and its end awaited
\* before the response is committed.
Return(outcome) ==
  /\ Turn /\ pc = "fetch"
  /\ (outcome = "echo" => kind = "post" /\ Untouched(body))
  /\ LET refuses == Refuses(denied, outcome)
         b == IF refuses THEN AfterClose(stream, body) ELSE body
         r == Dispatched(denied, outcome)
         drain == kind = "post" /\ r # "echo" /\ ~b.locked
     IN /\ stream' = IF refuses THEN Closed(stream) ELSE stream
        /\ body' = IF drain THEN Cancelled(b) ELSE b
        /\ resp' = r
        /\ pc' = IF drain THEN "drainBody" ELSE "commit"
  /\ UNCHANGED <<kind, net, src, denied, duplex, aborted, timer, flagVars>>

\* await getTrailers() after the body was cancelled.
Drained ==
  /\ ~fault /\ pc = "drainBody" /\ Resumes
  /\ pc' = "commit"
  /\ UNCHANGED <<kind, stream, net, body, handlerVars, aborted, timer, flagVars>>

\* Mutant: only a stream that is gone is looked for.
TooLate_Destroyed == stream.life = "destroyed"

TooLate == stream.life = "destroyed" \/ stream.head # "none" \/ tooLarge

\* There is nothing to answer, or it is too late to.
NoAnswer ==
  /\ pc = "commit" /\ (resp = "null" \/ TooLate)
  /\ body' = IF resp = "null" THEN Released(body) ELSE body
  /\ src' = IF resp \in {"null", "empty"} THEN "none" ELSE "open"
  /\ pc' = "done"
  /\ UNCHANGED <<kind, stream, net, resp, denied, duplex, aborted, timer, flagVars>>

\* The response is begun.  respond() throws when a deny() during the awaits
\* closed the stream; the catch in the 'stream' listener destroys it.
Commit ==
  /\ pc = "commit" /\ resp # "null" /\ ~TooLate
  /\ \/ /\ stream.life = "closed"
        /\ Close(body) /\ pc' = "done"
        /\ src' = IF resp = "empty" THEN "none" ELSE "open"
        /\ UNCHANGED responded
     \/ /\ stream.life # "closed" /\ resp \in {"empty", "omit"}
        /\ stream' = Respond(stream, "handler", TRUE) /\ pc' = "done"
        /\ responded' = TRUE /\ timer' = Disarmed
        /\ src' = IF resp = "empty" THEN "none" ELSE "cancelled"
        /\ UNCHANGED <<body, aborted>>
     \/ /\ stream.life # "closed" /\ resp \in {"body", "trailed", "echo"}
        /\ stream' = Respond(stream, "handler", FALSE) /\ pc' = "pump"
        /\ body' = IF resp = "echo" THEN [body EXCEPT !.locked = TRUE] ELSE body
        /\ src' = "open"
        /\ UNCHANGED <<responded, timer, aborted>>
  /\ UNCHANGED <<kind, net, resp, denied, duplex, tooLarge, fault>>

-----------------------------------------------------------------------------
(* The body of the response: the write loop of handleStream, and that of a *)
(* Response returned by connect().                                         *)

EchoBody == resp = "echo"

\* reader.read() yields a chunk.  write() answers false when its buffer is
\* full, and always on a stream that was closed or destroyed.  drained() then
\* waits for an event; a destroyed stream has emitted its last one ("stuck").
Write ==
  /\ Turn /\ pc = "pump" /\ src = "open" /\ (EchoBody => body.queued > 0)
  /\ pc' \in CASE stream.life = "open"      -> {"pump", "drain"}
              [] stream.life = "closed"    -> {"drain"}
              [] stream.life = "destroyed" -> {"stuck"}
  /\ body' = IF EchoBody THEN Taken(body) ELSE body
  /\ UNCHANGED <<kind, stream, net, handlerVars, aborted, timer, flagVars>>

\* 'drain'
Drain ==
  /\ Turn /\ pc = "drain" /\ stream.life = "open"
  /\ pc' = "pump"
  /\ UNCHANGED <<kind, stream, net, body, handlerVars, aborted, timer, flagVars>>

\* Releasing the reader's lock, which for an echo is that of the request body.
Unlocked(b) == IF EchoBody THEN [b EXCEPT !.locked = FALSE] ELSE b

\* The source is read to its end.
SourceEnds ==
  /\ Turn /\ pc = "pump" /\ src = "open"
  /\ (EchoBody => body.ctl = "closed" /\ body.queued = 0)
  /\ src' = "finished" /\ body' = Unlocked(body)
  /\ pc' = IF kind = "post" THEN "endTrailers" ELSE "end"
  /\ UNCHANGED <<kind, stream, net, resp, denied, duplex, aborted, timer, flagVars>>

\* Mutant: a source that fails ends the response as one that was read whole.
SourceFails_Ends ==
  /\ Turn /\ pc = "pump" /\ src = "open"
  /\ (EchoBody => body.ctl = "errored")
  /\ src' = "errored" /\ body' = Unlocked(body)
  /\ pc' = IF kind = "post" THEN "endTrailers" ELSE "end"
  /\ UNCHANGED <<kind, stream, net, resp, denied, duplex, aborted, timer, flagVars>>

\* The source throws: the error reaches the 'stream' listener, which destroys
\* the stream.
SourceFails ==
  /\ Turn /\ pc = "pump" /\ src = "open"
  /\ (EchoBody => body.ctl = "errored")
  /\ src' = "errored" /\ pc' = "done"
  /\ Close(Unlocked(body))
  /\ UNCHANGED <<kind, net, resp, denied, duplex, flagVars>>

\* stream.end(), after the trailers of the request.
EndResponse ==
  /\ ~fault /\ (pc = "end" \/ (pc = "endTrailers" /\ Resumes))
  /\ stream' = Ended(stream, resp = "trailed")
  /\ body' = Released(body)
  /\ responded' = (kind # "connect")
  /\ timer' = IF kind # "connect" THEN Disarmed ELSE timer
  /\ pc' = "done"
  /\ UNCHANGED <<kind, net, handlerVars, aborted, tooLarge, fault>>

\* 'wantTrailers': the values arrive and are sent, or the stream is destroyed.
SendTrailers ==
  /\ Turn /\ stream.fin = "trailing" /\ stream.life = "open"
  /\ \/ /\ stream' = [stream EXCEPT !.fin = "end"]
        /\ UNCHANGED <<body, timer, aborted>>
     \/ Close(body)
  /\ UNCHANGED <<kind, net, pc, handlerVars, flagVars>>

-----------------------------------------------------------------------------
(* What the handler does with its context, also after it returned.         *)

Handling == Turn /\ kind \in Streamed

\* ctx.deny(): no respond() follows.
Deny ==
  /\ Handling /\ ~denied
  /\ denied' = TRUE
  /\ stream' = Closed(stream) /\ body' = AfterClose(stream, body)
  /\ UNCHANGED <<kind, net, pc, resp, src, duplex, aborted, timer, flagVars>>

\* A reader on ctx.request.body: it locks the stream, reads, lets go or cancels.
Lock ==
  /\ Handling /\ kind = "post" /\ pc = "fetch" /\ ~body.locked
  /\ body' = [body EXCEPT !.locked = TRUE]
  /\ UNCHANGED <<kind, stream, net, pc, handlerVars, aborted, timer, flagVars>>

Reading == Handling /\ kind = "post" /\ body.locked /\ ~(EchoBody /\ pc \in {"pump", "drain"})

Read ==
  /\ Reading /\ body.queued > 0
  /\ body' = Taken(body)
  /\ UNCHANGED <<kind, stream, net, pc, handlerVars, aborted, timer, flagVars>>

LetGo ==
  /\ Reading
  /\ body' \in {[body EXCEPT !.locked = FALSE], Cancelled(body)}
  /\ UNCHANGED <<kind, stream, net, pc, handlerVars, aborted, timer, flagVars>>

-----------------------------------------------------------------------------
(* Events of the stream.                                                   *)

\* The client sends a DATA frame, or the end of its half with or without
\* trailers.
ClientData ==
  /\ Turn /\ kind \in {"get", "post"} /\ stream.life = "open"
  /\ net.eof = "no" /\ net.sent < MaxChunks
  /\ net' = [net EXCEPT !.sent = @ + 1, !.inbox = @ + 1]
  /\ UNCHANGED <<kind, stream, body, pc, handlerVars, aborted, timer, flagVars>>

ClientEnd ==
  /\ Turn /\ kind \in {"get", "post"} /\ stream.life = "open" /\ net.eof = "no"
  /\ \E t \in {"bare", "trailers"} :
       net' = [net EXCEPT !.eof = t, !.event = (t = "trailers")]
  /\ UNCHANGED <<kind, stream, body, pc, handlerVars, aborted, timer, flagVars>>

\* Mutant: a request over the limit is always reset.
Exceeded_Resets(s) == Closed(s)

\* onExceeded: 413, or a reset where the head was already sent.
Exceeded(s) ==
  IF s.head = "none" THEN Respond(s, "413", TRUE) ELSE Closed(s)

\* The rest of a body over the limit is read and dropped.
Oversized(b) ==
  [b EXCEPT !.discarded = TRUE, !.flowing = TRUE,
            !.ctl = IF @ = "open" THEN "errored" ELSE @, !.queued = 0]

\* Mutant: a full queue does not pause the stream.
Enqueued_KeepsFlowing(b) ==
  IF b.discarded THEN b ELSE [b EXCEPT !.queued = @ + 1]

\* controller.enqueue(): one chunk fills the queue and pauses the stream.
Enqueued(b) ==
  IF b.discarded THEN b ELSE [b EXCEPT !.queued = @ + 1, !.flowing = FALSE]

\* onData: chunks are counted whoever reads them.
OnData ==
  /\ Turn /\ net.inbox > 0 /\ body.flowing /\ stream.life = "open"
  /\ net' = [net EXCEPT !.inbox = @ - 1]
  /\ LET b == [body EXCEPT !.bytes = @ + 1]
         over == MaxBody > 0 /\ b.bytes > MaxBody
     IN \/ /\ over
           /\ stream' = Exceeded(stream)
           /\ body' = Oversized(IF stream.head = "none" THEN b ELSE AfterClose(stream, b))
           /\ tooLarge' = TRUE /\ aborted' = TRUE
        \/ /\ ~over
           /\ body' = Enqueued(b)
           /\ UNCHANGED <<stream, tooLarge, aborted>>
  /\ UNCHANGED <<kind, pc, handlerVars, responded, timer, fault>>

\* onEnd: the fallback for the trailers is left to a later turn.  Node may emit
\* 'end' on a paused stream that has no data left.
OnEnd ==
  /\ Turn /\ net.eof # "no" /\ net.inbox = 0 /\ ~body.ended
  /\ stream.life = "open"
  /\ body' = [body EXCEPT !.ended = TRUE, !.fallback = TRUE,
                          !.ctl = IF body.discarded THEN @ ELSE "closed"]
  /\ UNCHANGED <<kind, stream, net, pc, handlerVars, aborted, timer, flagVars>>

\* 'trailers', emitted in the turn in which they arrive.
OnTrailers ==
  /\ Turn /\ net.event
  /\ net' = [net EXCEPT !.event = FALSE]
  /\ body' = [body EXCEPT !.trailers = Settled(@, "client")]
  /\ UNCHANGED <<kind, stream, pc, handlerVars, aborted, timer, flagVars>>

\* Mutant: the fallback does not leave the turn of the end.
Fallback_Eager ==
  /\ Turn /\ body.fallback
  /\ body' = [body EXCEPT !.fallback = FALSE, !.trailers = Settled(@, "empty")]
  /\ UNCHANGED <<kind, stream, net, pc, handlerVars, aborted, timer, flagVars>>

\* setImmediate of onEnd: what was emitted in its turn has been handled.
Fallback ==
  /\ Turn /\ body.fallback /\ ~net.event
  /\ body' = [body EXCEPT !.fallback = FALSE, !.trailers = Settled(@, "empty")]
  /\ UNCHANGED <<kind, stream, net, pc, handlerVars, aborted, timer, flagVars>>

\* Mutant: a response that has begun is left to its handler.
Expired_Patient(s) ==
  IF s.head = "none" THEN Respond(s, "408", TRUE) ELSE s

\* The deadline: 408, or a reset where the head was already sent.
Expired(s) ==
  IF s.head = "none" THEN Respond(s, "408", TRUE) ELSE Closed(s)

\* requestTimeout.  For CONNECT it only aborts the signal.  respond() throws on
\* a stream that is closed and not yet destroyed, and nobody catches it here.
OnTimeout ==
  /\ Turn /\ timer = "armed"
  /\ timer' = "fired" /\ aborted' = TRUE
  /\ \/ /\ kind = "connect" \/ stream.life = "destroyed"
        /\ UNCHANGED <<stream, body, fault>>
     \/ /\ kind # "connect" /\ (stream.life = "open" \/ (stream.life = "closed" /\ stream.head # "none"))
        /\ stream' = Expired(stream)
        /\ body' = IF stream.head = "none" THEN body ELSE AfterClose(stream, body)
        /\ UNCHANGED fault
     \/ /\ kind # "connect" /\ stream.life = "closed" /\ stream.head = "none"
        /\ fault' = TRUE
        /\ UNCHANGED <<stream, body>>
  /\ UNCHANGED <<kind, net, pc, handlerVars, tooLarge, responded>>

\* Mutant: drained() does not listen for 'close'.
Rejected_Never == FALSE

\* 'close' rejects the promise of drained().
Rejected == pc = "drain"

\* 'close', and with it the end of the wait for 'drain': the source is
\* cancelled.  An 'error', which a reset with CANCEL does not emit, tears a
\* tunnel down.
Destroyed(quiet) ==
  /\ Close(body)
  /\ pc' = IF Rejected THEN "done" ELSE pc
  /\ src' = IF Rejected THEN "cancelled" ELSE src
  /\ duplex' = IF duplex = "open" /\ ~quiet THEN "destroyed" ELSE duplex
  /\ UNCHANGED <<kind, net, resp, denied, flagVars>>

\* The client resets the stream, or the session ends.
Reset ==
  /\ Turn /\ stream.life = "open"
  /\ \E quiet \in BOOLEAN : Destroyed(quiet)

\* Node destroys a stream that was closed, or whose halves have both ended.
StreamCloses ==
  /\ Turn
  /\ \/ stream.life = "closed"
     \/ stream.life = "open" /\ stream.fin = "end" /\ body.ended
  /\ Destroyed(TRUE)

-----------------------------------------------------------------------------
(* handleConnect.                                                          *)

\* What connect() may do.
Tunnels == {"nothing", "broken", "invalid", "empty", "body", "duplex"}

\* A Duplex that comes too late is destroyed.
Late(result) == IF result = "duplex" THEN "destroyed" ELSE duplex

\* connect() settles.
OnConnect(result) ==
  /\ Turn /\ pc = "connect"
  /\ \/ /\ result = "broken"
        /\ Close(body) /\ pc' = "done"
        /\ UNCHANGED <<src, duplex>>
     \/ /\ result # "broken"
        /\ timer' = Disarmed
        /\ \/ /\ stream.life = "destroyed"
              /\ duplex' = Late(result) /\ pc' = "done"
              /\ UNCHANGED <<stream, src>>
           \/ /\ stream.life # "destroyed" /\ result \in {"nothing", "invalid", "empty"}
              /\ stream' = Respond(stream, CASE result = "nothing" -> "501"
                                             [] result = "invalid" -> "502"
                                             [] OTHER -> "handler", TRUE)
              /\ pc' = "done" /\ UNCHANGED <<src, duplex>>
           \/ /\ stream.life # "destroyed" /\ result = "body"
              /\ stream' = Respond(stream, "handler", FALSE)
              /\ src' = "open" /\ pc' = "pump" /\ UNCHANGED duplex
           \/ /\ stream.life # "destroyed" /\ result = "duplex"
              /\ stream' = Respond(stream, "200", FALSE)
              /\ duplex' = "open" /\ pc' = "tunnel" /\ UNCHANGED src
        /\ UNCHANGED <<body, aborted>>
  /\ resp' = "body"
  /\ UNCHANGED <<kind, net, denied, flagVars>>

\* Both directions of the pipe end.
TunnelEnds ==
  /\ Turn /\ pc = "tunnel" /\ duplex = "open" /\ stream.life = "open"
  /\ duplex' = "ended" /\ stream' = Ended(stream, FALSE) /\ pc' = "done"
  /\ UNCHANGED <<kind, net, body, resp, src, denied, aborted, timer, flagVars>>

\* The Duplex fails: teardown() destroys the stream.
DuplexFails ==
  /\ Turn /\ pc = "tunnel" /\ duplex = "open"
  /\ Close(body) /\ duplex' = "destroyed" /\ pc' = "done"
  /\ UNCHANGED <<kind, net, resp, src, denied, flagVars>>

-----------------------------------------------------------------------------
Code ==
  \/ OnStream \/ Drained \/ NoAnswer \/ Commit \/ EndResponse

Handler ==
  \/ \E o \in Outcomes : Return(o)
  \/ \E r \in Tunnels : OnConnect(r)
  \/ Write \/ SourceEnds \/ SourceFails \/ SendTrailers
  \/ Deny \/ Lock \/ Read \/ LetGo \/ TunnelEnds \/ DuplexFails

Client == ClientData \/ ClientEnd \/ Reset

Node == Drain \/ OnData \/ OnEnd \/ OnTrailers \/ Fallback \/ OnTimeout \/ StreamCloses

Next == Code \/ Handler \/ Client \/ Node

Spec == Init /\ [][Next]_vars

(* Fairness: the event loop runs the code, and node's stream emits what it *)
(* has while it flows; handlers, clients and the network owe nothing.      *)
NodeFairness ==
  /\ WF_vars(Code) /\ WF_vars(OnTimeout)
  /\ WF_vars(OnData) /\ WF_vars(body.flowing /\ OnEnd) /\ WF_vars(OnTrailers) /\ WF_vars(Fallback)

FairSpec == Spec /\ NodeFairness

-----------------------------------------------------------------------------
(* Properties.                                                             *)

Bodies ==
  [ctl : {"none", "open", "closed", "errored", "cancelled"}, queued : 0 .. 1,
   bytes : 0 .. MaxChunks, flowing : BOOLEAN, discarded : BOOLEAN,
   ended : BOOLEAN, locked : BOOLEAN, trailers : {"pending", "client", "empty"},
   fallback : BOOLEAN]

TypeOK ==
  /\ kind \in Kinds
  /\ stream \in [life : {"open", "closed", "destroyed"}, head : Statuses,
                 fin : {"no", "trailing", "end"}]
  /\ net \in [sent : 0 .. MaxChunks, inbox : 0 .. MaxChunks,
              eof : {"no", "bare", "trailers"}, event : BOOLEAN]
  /\ body \in Bodies
  /\ pc \in {"stream", "fetch", "drainBody", "commit", "pump", "drain",
             "stuck", "endTrailers", "end", "connect", "tunnel", "done"}
  /\ resp \in Responses \cup {"none", "null"}
  /\ src \in {"none", "open", "finished", "errored", "cancelled"}
  /\ duplex \in {"none", "open", "ended", "destroyed"}
  /\ timer \in {"unset", "armed", "fired", "cleared"}
  /\ denied \in BOOLEAN /\ aborted \in BOOLEAN /\ tooLarge \in BOOLEAN
  /\ responded \in BOOLEAN /\ fault \in BOOLEAN

\* README, "signal: Aborts if the client goes away before you reply": the
\* signal is aborted once the stream is gone, unless the response was whole.
ToldWhenGone ==
  stream.life = "destroyed" /\ kind \in Streamed \cup {"connect"} =>
    aborted \/ responded

\* README, "A client that disconnects mid-body errors the handler's
\* request.body stream": no reader is left waiting on a stream that is gone,
\* and a body reads as complete only when all of it was received.
BodyReaderSettles ==
  /\ stream.life = "destroyed" => body.ctl # "open"
  /\ body.ctl = "closed" => net.eof # "no" /\ body.bytes = net.sent

\* A body nobody will read keeps flowing, or it would hold the flow-control
\* window of the whole session (comment in handleStream).
DiscardedBodyFlows ==
  body.discarded /\ ~body.ended /\ stream.life = "open" => body.flowing

\* onEnd: trailers that arrive in the turn of the end win over the fallback.
ClientTrailersWin ==
  body.ctl # "none" /\ body.ended /\ body.trailers = "empty" => net.eof = "bare"

\* README, "the client sees truncated framing rather than a falsely complete
\* response": END_STREAM follows the handler's head only when the source of
\* the body was read to its end, or nothing of it was to be sent.
NoFalseCompletion ==
  stream.head = "handler" /\ stream.fin # "no" =>
    src = "finished" \/ (pc = "done" /\ src \in {"none", "cancelled"})

\* An exception leaves an event listener, which ends the process, only where
\* the handler refused its request.
FaultOnlyAfterRefusal == fault => denied \/ resp = "null"

\* With a request deadline every exchange gets its whole answer or a reset,
\* unless it waits for the response's trailers.
ExchangeEnds ==
  kind # "connect" /\ timer = "armed" ~> stream.fin # "no" \/ stream.life # "open"

\* When the stream is gone handleStream comes to its end and a Duplex of
\* connect() is let go of, if handlers and sources do their part.  What stays
\* behind waits for the trailers of a body that was being discarded, for the
\* 'drain' of a stream that was already destroyed, or is the Duplex of a tunnel
\* whose stream ended without an error, as by a reset with CANCEL.
Abandoned ==
  \/ pc = "stuck" \/ (body.discarded /\ body.trailers = "pending")
  \/ pc = "tunnel"
HandlerFairness ==
  /\ WF_vars(Write) /\ WF_vars(SourceEnds \/ SourceFails)
  /\ WF_vars(\E o \in Outcomes : Return(o)) /\ WF_vars(\E r \in Tunnels : OnConnect(r))
GoneIsFinished ==
  HandlerFairness =>
    (stream.life = "destroyed" ~> (pc = "done" /\ duplex # "open") \/ Abandoned \/ fault)

\* The exchange as a client and a handler see it.
Answered ==
  CASE stream.head = "none" -> "none"
    [] stream.head \in {"handler", "200"} -> "response"
    [] OTHER -> "refusal"

Stage ==
  CASE stream.fin = "end" -> "complete"
    [] stream.fin # "end" /\ stream.life # "open" -> "reset"
    [] stream.fin # "end" /\ stream.life = "open" ->
         IF stream.head = "none" THEN "waiting" ELSE "answering"

X == INSTANCE Exchange
  WITH answer <- Answered, stage <- Stage, told <- aborted, firm <- (kind # "connect")

\* The stream implements the abstract exchange: in particular no response is
\* begun once the handler was told that its request is over or has refused it,
\* whatever the stream went through during the awaits.
ImplementsExchange == X!Spec

\* What the documentation says and the code does not do.

\* README: requestTimeout is the "Deadline for one exchange to complete".
DeadlineCompletes ==
  kind # "connect" /\ timer = "armed" ~> stream.fin = "end" \/ stream.life # "open"

=============================================================================
