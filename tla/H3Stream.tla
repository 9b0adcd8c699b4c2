------------------------------ MODULE H3Stream ------------------------------
(***************************************************************************)
(* One HTTP/3 stream (lib/h3/index.js): onstream with its callbacks, the   *)
(* generator bodyChunks that the request body is read through, handleStream*)
(* and handleConnect.                                                      *)
(*                                                                         *)
(* handleStream is one process with a program counter, as in H2Stream.  The*)
(* QUIC stream is external.  sendHeaders() answers false once headers were *)
(* sent; the stream's iterator ends or throws when the stream is destroyed *)
(* or the peer resets its half; a body given to setBody() is sent by the   *)
(* runtime, which resets the stream when its source fails.                 *)
(***************************************************************************)
EXTENDS Naturals, Dispatch

CONSTANTS
  Kinds,      \* the kinds of request that arrive
  Timers,     \* requestTimeout: "armed", or "unset" when it is 0
  MaxBody,    \* limits.maxRequestBodySize, in chunks; 0 is no limit
  MaxChunks   \* bound: chunks of a request's body

\* "get" is a GET or HEAD and "post" another method, each with or without data;
\* "big" has headers over the limit, "declared" a content-length over the limit;
\* "connect" asks for a tunnel.
Streamed == {"get", "post"}
AllKinds == Streamed \cup {"big", "declared", "connect"}

ASSUME KindsAssumption == Kinds \subseteq AllKinds
ASSUME TimersAssumption == Timers \subseteq {"armed", "unset"}
ASSUME MaxBodyAssumption == MaxBody \in Nat
ASSUME MaxChunksAssumption == MaxChunks \in Nat

VARIABLES
  kind,      \* the request
  stream,    \* the QUIC stream as the server sees it
  net,       \* what the client has sent
  body,      \* inboundBody, its reader, and the trailers promise
  pc,        \* where handleStream or handleConnect is
  resp,      \* what dispatch or connect() returned
  src,       \* the body of that Response, or the readable side of a tunnel's Duplex
  denied,    \* ctx.denied
  aborted,   \* abort.signal
  tooLarge,  \* bodyState.tooLarge
  timer,     \* timer
  duplex     \* the Duplex connect() returned; "ended": its writable side has ended

vars == <<kind, stream, net, body, pc, resp, src, denied, aborted, tooLarge,
          timer, duplex>>
handlerVars == <<resp, src, denied, duplex>>

\* stream.fin: the answer is whole ("end"), or its body was handed to the
\* runtime ("body").  body.reader: who reads the generator.
Statuses == {"none", "408", "413", "431", "501", "502", "200", "handler"}

Init ==
  /\ kind \in Kinds
  /\ stream = [life |-> "open", head |-> "none", fin |-> "no"]
  /\ net = [sent |-> 0, inbox |-> 0, eof |-> "no", event |-> FALSE]
  /\ body = [ctl |-> "open", reader |-> "none", bytes |-> 0,
             trailers |-> "pending", fallback |-> FALSE]
  /\ pc = "stream" /\ resp = "none" /\ src = "none" /\ denied = FALSE
  /\ aborted = FALSE /\ tooLarge = FALSE /\ timer = "unset" /\ duplex = "none"

\* An event is handled when the code has run as far as it can.
Turn == pc \notin {"stream", "check", "commit", "handOver"}

-----------------------------------------------------------------------------
(* The QUIC stream, as functions of its state.                             *)

\* stream.sendHeaders(), which does nothing once headers were sent.
SendHeaders(s, status, terminal) ==
  IF s.head # "none" THEN s
  ELSE [s EXCEPT !.head = status, !.fin = IF terminal THEN "end" ELSE "no"]

\* stream.destroy()
Destroy(s) == [s EXCEPT !.life = "destroyed"]

\* stream.closed settles when the stream is destroyed: clearTimeout.
Disarmed == IF timer = "armed" THEN "cleared" ELSE timer
Gone == stream' = Destroy(stream) /\ timer' = IF kind = "connect" THEN timer ELSE Disarmed

\* The trailers promise settles once.
Settled(t, value) == IF t = "pending" THEN value ELSE t

-----------------------------------------------------------------------------
(* handleStream.                                                           *)

\* onstream and the headers: refusals, the generator, the timer.
OnStream ==
  /\ pc = "stream"
  /\ \/ /\ kind = "big"
        /\ stream' = SendHeaders(stream, "431", TRUE) /\ pc' = "done" /\ UNCHANGED timer
     \/ /\ kind = "declared"
        /\ stream' = SendHeaders(stream, "413", TRUE) /\ pc' = "done" /\ UNCHANGED timer
     \/ /\ kind = "connect"  \* the application handles no CONNECT
        /\ stream' = SendHeaders(stream, "501", TRUE) /\ pc' = "done" /\ UNCHANGED timer
     \/ /\ kind = "connect"
        /\ timer' \in Timers /\ pc' = "connect" /\ UNCHANGED stream
     \/ /\ kind \in Streamed
        /\ timer' \in Timers /\ pc' = "fetch" /\ UNCHANGED stream
  /\ UNCHANGED <<kind, net, body, handlerVars, aborted, tooLarge>>

\* A body a Response can be built with: the handler has read none of it.
Untouched(b) == b.reader = "none" /\ b.ctl = "open" /\ b.bytes = 0

\* dispatch settles.  The data of a GET or HEAD is read to its end first.
Return(outcome) ==
  /\ Turn /\ pc = "fetch"
  /\ (outcome = "echo" => kind = "post" /\ Untouched(body))
  /\ IF Refuses(denied, outcome) THEN Gone ELSE UNCHANGED <<stream, timer>>
  /\ resp' = Dispatched(denied, outcome)
  /\ IF kind = "get" /\ body.ctl = "open"
     THEN pc' = "drainGet" /\ body' = [body EXCEPT !.reader = "server"]
     ELSE pc' = "check" /\ UNCHANGED body
  /\ UNCHANGED <<kind, net, src, denied, duplex, aborted, tooLarge>>

TooLate == stream.life = "destroyed" \/ tooLarge

\* There is nothing to answer, or it is too late to.  The body of a Response
\* is left as it is.
NoAnswer ==
  /\ pc \in {"check", "commit"} /\ (resp = "null" \/ TooLate)
  /\ src' = IF resp \in {"null", "empty"} THEN "none" ELSE "open"
  /\ pc' = "done"
  /\ UNCHANGED <<kind, stream, net, body, resp, denied, duplex, aborted, tooLarge, timer>>

\* Mutant: an ignored body is not read before the response.
Ignored_Never == FALSE

\* A body that nobody reads.
Ignored == kind = "post" /\ resp # "echo" /\ body.reader = "none"

\* An ignored body is read to its end before the response is committed.
Check ==
  /\ pc = "check" /\ resp # "null" /\ ~TooLate
  /\ IF Ignored /\ body.ctl = "open"
     THEN pc' = "drainPost" /\ body' = [body EXCEPT !.reader = "server"]
     ELSE pc' = "commit" /\ UNCHANGED body
  /\ UNCHANGED <<kind, stream, net, handlerVars, aborted, tooLarge, timer>>

\* Mutant: headers that could not be sent are not noticed.
Refused_Ignored == FALSE

\* sendHeaders() answers false: a 408 was sent meanwhile.
Refused == stream.head # "none"

\* The response is begun; committed is stream.head = "handler".
Commit ==
  /\ pc = "commit" /\ resp # "null" /\ ~TooLate
  /\ \/ /\ Refused
        /\ Gone /\ pc' = "done"
        /\ src' = IF resp = "empty" THEN "none" ELSE "open"
     \/ /\ ~Refused /\ resp \in {"empty", "omit"}
        /\ stream' = SendHeaders(stream, "handler", TRUE)
        /\ timer' = Disarmed /\ pc' = "done"
        /\ src' = IF resp = "empty" THEN "none" ELSE "cancelled"
     \/ /\ ~Refused /\ resp \in {"body", "trailed", "echo"}
        /\ stream' = SendHeaders(stream, "handler", FALSE)
        /\ src' = "open" /\ pc' = IF resp = "trailed" THEN "values" ELSE "handOver"
        /\ UNCHANGED timer
  /\ UNCHANGED <<kind, net, body, resp, denied, duplex, aborted, tooLarge>>

\* await trailerMeta.getValues()
Values ==
  /\ Turn /\ pc = "values"
  /\ \/ pc' = "handOver" /\ UNCHANGED <<stream, timer>>
     \/ Gone /\ pc' = "done"
  /\ UNCHANGED <<kind, net, body, handlerVars, aborted, tooLarge>>

\* setBody(), which throws on a stream that was destroyed meanwhile.
HandOver ==
  /\ pc = "handOver"
  /\ stream' = IF stream.life = "open" THEN [stream EXCEPT !.fin = "body"] ELSE stream
  /\ body' = IF stream.life = "open" /\ resp = "echo"
             THEN [body EXCEPT !.reader = "server"] ELSE body
  /\ pc' = "done"
  /\ UNCHANGED <<kind, net, handlerVars, aborted, tooLarge, timer>>

\* The runtime sends the body to its end, or resets the stream when the source
\* fails.
BodySent ==
  /\ Turn /\ stream.fin = "body" /\ stream.life = "open"
  /\ \/ /\ (resp = "echo" => body.ctl = "closed")
        /\ stream' = [stream EXCEPT !.fin = "end"] /\ src' = "finished"
        /\ UNCHANGED <<timer, aborted>>
     \/ /\ (resp = "echo" => body.ctl = "errored")
        /\ Gone /\ src' = "errored" /\ aborted' \in {aborted, TRUE}
  /\ UNCHANGED <<kind, net, body, pc, resp, denied, duplex, tooLarge>>

\* Mutant: a response that has begun is left to the runtime.
Expired_Patient(s) == SendHeaders(s, "408", TRUE)

\* Mutant: the deadline only aborts the signal, as that of CONNECT does.
Expired_Aborts(s) == s

\* The deadline: 408, or the end of a stream that was already answered.
Expired(s) ==
  IF s.head = "none" THEN SendHeaders(s, "408", TRUE) ELSE Destroy(s)

\* requestTimeout.  For CONNECT it only aborts the signal.
OnTimeout ==
  /\ Turn /\ timer = "armed"
  /\ timer' = "fired" /\ aborted' = TRUE
  /\ stream' = IF kind = "connect" \/ stream.life = "destroyed" THEN stream ELSE Expired(stream)
  /\ UNCHANGED <<kind, net, body, pc, handlerVars, tooLarge>>

-----------------------------------------------------------------------------
(* bodyChunks: the generator advances when somebody reads it.              *)

Reading == Turn /\ body.reader # "none" /\ body.ctl = "open"

\* The end of the generator, by any way out: its finally schedules the
\* fallback for the trailers, and the loops of handleStream go on.
Finished(ctl) ==
  /\ body' = [body EXCEPT !.ctl = ctl, !.fallback = TRUE]
  /\ pc' = CASE pc = "drainGet"  -> "check"
             [] pc = "drainPost" -> "commit"
             [] OTHER            -> pc

\* Mutant: one chunk too many is let through.
Fits_OffByOne == MaxBody = 0 \/ body.bytes <= MaxBody

Fits == MaxBody = 0 \/ body.bytes < MaxBody

\* A chunk within the limit.
Chunk ==
  /\ Reading /\ net.inbox > 0 /\ stream.life = "open"
  /\ Fits
  /\ net' = [net EXCEPT !.inbox = @ - 1]
  /\ body' = [body EXCEPT !.bytes = @ + 1]
  /\ UNCHANGED <<kind, stream, pc, handlerVars, aborted, tooLarge, timer>>

\* A chunk over the limit: onExceeded answers 413, unless headers were sent.
Exceeded ==
  /\ Reading /\ net.inbox > 0 /\ stream.life = "open"
  /\ ~Fits
  /\ net' = [net EXCEPT !.inbox = @ - 1]
  /\ tooLarge' = TRUE /\ aborted' = TRUE
  /\ stream' = SendHeaders(stream, "413", TRUE)
  /\ Finished("errored")
  /\ UNCHANGED <<kind, handlerVars, timer>>

\* The stream's iterator ends with the client's half, throws when that half was
\* reset, and does either when the stream was destroyed.
BodyEnds ==
  /\ Reading
  /\ \/ net.eof \in {"bare", "trailers"} /\ net.inbox = 0 /\ stream.life = "open" /\ Finished("closed")
     \/ net.eof = "reset" /\ stream.life = "open" /\ Finished("errored")
     \/ stream.life = "destroyed" /\ \E ctl \in {"closed", "errored"} : Finished(ctl)
  /\ UNCHANGED <<kind, stream, net, handlerVars, aborted, tooLarge, timer>>

\* setImmediate of bodyChunks: trailers that came with the last data were seen.
Fallback ==
  /\ Turn /\ body.fallback /\ ~net.event
  /\ body' = [body EXCEPT !.fallback = FALSE, !.trailers = Settled(@, "empty")]
  /\ UNCHANGED <<kind, stream, net, pc, handlerVars, aborted, tooLarge, timer>>

\* ontrailers
OnTrailers ==
  /\ Turn /\ net.event
  /\ net' = [net EXCEPT !.event = FALSE]
  /\ body' = [body EXCEPT !.trailers = Settled(@, "client")]
  /\ UNCHANGED <<kind, stream, pc, handlerVars, aborted, tooLarge, timer>>

-----------------------------------------------------------------------------
(* The handler.                                                            *)

Handling == Turn /\ kind \in Streamed

\* ctx.deny() destroys the stream.
Deny ==
  /\ Handling /\ ~denied
  /\ denied' = TRUE /\ Gone
  /\ UNCHANGED <<kind, net, body, pc, resp, src, duplex, aborted, tooLarge>>

\* A reader on ctx.request.body: it locks the stream, lets go of it or cancels.
\* A generator that never ran has no finally to run.
Lock ==
  /\ Handling /\ kind = "post" /\ pc = "fetch" /\ body.reader = "none"
  /\ body' = [body EXCEPT !.reader = "handler"]
  /\ UNCHANGED <<kind, stream, net, pc, handlerVars, aborted, tooLarge, timer>>

LetGo ==
  /\ Handling /\ body.reader = "handler"
  /\ \/ body' = [body EXCEPT !.reader = "none"]
     \/ /\ body.ctl = "open"
        /\ \E ran \in {body.bytes > 0, TRUE} :
             body' = [body EXCEPT !.ctl = "cancelled", !.fallback = ran]
  /\ UNCHANGED <<kind, stream, net, pc, handlerVars, aborted, tooLarge, timer>>

-----------------------------------------------------------------------------
(* The client and the runtime.                                             *)

ClientData ==
  /\ Turn /\ kind \in Streamed /\ stream.life = "open"
  /\ net.eof = "no" /\ net.sent < MaxChunks
  /\ net' = [net EXCEPT !.sent = @ + 1, !.inbox = @ + 1]
  /\ UNCHANGED <<kind, stream, body, pc, handlerVars, aborted, tooLarge, timer>>

ClientEnd ==
  /\ Turn /\ kind \in Streamed \cup {"connect"} /\ stream.life = "open" /\ net.eof = "no"
  /\ \E t \in {"bare", "trailers"} :
       net' = [net EXCEPT !.eof = t, !.event = (t = "trailers")]
  /\ UNCHANGED <<kind, stream, body, pc, handlerVars, aborted, tooLarge, timer>>

\* onreset: the client gives up its own half.
OnReset ==
  /\ Turn /\ stream.life = "open" /\ net.eof = "no"
  /\ net' = [net EXCEPT !.eof = "reset"]
  /\ aborted' = TRUE /\ body' = [body EXCEPT !.trailers = Settled(@, "empty")]
  /\ UNCHANGED <<kind, stream, pc, handlerVars, tooLarge, timer>>

\* onerror: the stream or its session fails.
OnError ==
  /\ Turn /\ stream.life = "open"
  /\ Gone /\ aborted' = TRUE
  /\ body' = [body EXCEPT !.trailers = Settled(@, "empty")]
  /\ UNCHANGED <<kind, net, pc, handlerVars, tooLarge>>

\* Both halves have ended.
StreamCloses ==
  /\ Turn /\ stream.life = "open" /\ stream.fin = "end" /\ net.eof # "no"
  /\ Gone
  /\ UNCHANGED <<kind, net, body, pc, handlerVars, aborted, tooLarge>>

-----------------------------------------------------------------------------
(* handleConnect.                                                          *)

Tunnels == {"nothing", "broken", "invalid", "empty", "body", "duplex"}

\* A Duplex that comes too late is destroyed.
Late(result) == IF result = "duplex" THEN "destroyed" ELSE duplex

\* connect() settles.
OnConnect(result) ==
  /\ Turn /\ pc = "connect"
  /\ timer' = IF result = "broken" THEN timer ELSE Disarmed
  /\ \/ /\ result = "broken"
        /\ stream' = Destroy(stream) /\ pc' = "done" /\ UNCHANGED <<src, duplex>>
     \/ /\ result # "broken" /\ stream.life = "destroyed"
        /\ duplex' = Late(result) /\ pc' = "done" /\ UNCHANGED <<stream, src>>
     \/ /\ stream.life = "open" /\ result \in {"nothing", "invalid", "empty"}
        /\ stream' = SendHeaders(stream, CASE result = "nothing" -> "501"
                                           [] result = "invalid" -> "502"
                                           [] OTHER -> "handler", TRUE)
        /\ pc' = "done" /\ UNCHANGED <<src, duplex>>
     \/ /\ stream.life = "open" /\ result = "body"
        /\ stream' = [SendHeaders(stream, "handler", FALSE) EXCEPT !.fin = "body"]
        /\ src' = "open" /\ pc' = "done" /\ UNCHANGED duplex
     \/ /\ stream.life = "open" /\ result = "duplex"
        /\ stream' = [SendHeaders(stream, "200", FALSE) EXCEPT !.fin = "body"]
        /\ src' = "open" /\ duplex' = "open" /\ pc' = "tunnel"
  /\ resp' = "body"
  /\ UNCHANGED <<kind, net, body, denied, aborted, tooLarge>>

\* A chunk of the client's is written to the Duplex, or waits for its 'drain'.
Upstream ==
  /\ Turn
  /\ \/ pc = "tunnel" /\ stream.life = "open" /\ net.eof = "no" /\ pc' = "tunnelDrain"
     \/ pc = "tunnelDrain" /\ pc' = "tunnel"
  /\ UNCHANGED <<kind, stream, net, body, handlerVars, aborted, tooLarge, timer>>

\* Mutant: a tunnel that fails leaves its Duplex to itself.
TunnelFails_KeepsDuplex ==
  /\ Gone /\ UNCHANGED duplex

\* The catch of handleConnect, and that of onstream.
TunnelFails ==
  /\ Gone /\ duplex' = "destroyed"

\* The stream's iterator ends or throws.  result.end() ends the writable side of
\* the Duplex; its readable side was handed to the runtime with setBody and goes
\* on until BodySent.
UpstreamEnds ==
  /\ Turn /\ pc = "tunnel"
  /\ net.eof # "no" \/ stream.life = "destroyed"
  /\ \/ net.eof # "reset" /\ duplex' = "ended" /\ UNCHANGED <<stream, timer>>
     \/ (net.eof = "reset" \/ stream.life = "destroyed") /\ TunnelFails
  /\ pc' = "done"
  /\ UNCHANGED <<kind, net, body, resp, src, denied, aborted, tooLarge>>

\* The Duplex fails: the wait for 'drain' rejects.
DuplexFails ==
  /\ Turn /\ pc = "tunnelDrain"
  /\ TunnelFails /\ pc' = "done"
  /\ UNCHANGED <<kind, net, body, resp, src, denied, aborted, tooLarge>>

-----------------------------------------------------------------------------
Code == OnStream \/ NoAnswer \/ Check \/ Commit \/ HandOver

Handler ==
  \/ \E o \in Outcomes : Return(o)
  \/ \E r \in Tunnels : OnConnect(r)
  \/ Values \/ Deny \/ Lock \/ LetGo \/ Upstream \/ DuplexFails

Client == ClientData \/ ClientEnd \/ OnReset \/ OnError

Runtime ==
  \/ Chunk \/ Exceeded \/ BodyEnds \/ Fallback \/ OnTrailers \/ OnTimeout
  \/ BodySent \/ StreamCloses \/ UpstreamEnds

Next == Code \/ Handler \/ Client \/ Runtime

Spec == Init /\ [][Next]_vars

(* Fairness: the event loop runs the code and fires the timer, and what    *)
(* reads a stream is told of its end.                                      *)
RuntimeFairness ==
  /\ WF_vars(Code) /\ WF_vars(OnTimeout) /\ WF_vars(UpstreamEnds)

FairSpec == Spec /\ RuntimeFairness

-----------------------------------------------------------------------------
(* Properties.                                                             *)

TypeOK ==
  /\ kind \in Kinds
  /\ stream \in [life : {"open", "destroyed"}, head : Statuses,
                 fin : {"no", "body", "end"}]
  /\ net \in [sent : 0 .. MaxChunks, inbox : 0 .. MaxChunks,
              eof : {"no", "bare", "trailers", "reset"}, event : BOOLEAN]
  /\ body \in [ctl : {"open", "closed", "errored", "cancelled"},
               reader : {"none", "handler", "server"},
               bytes : 0 .. IF MaxBody = 0 THEN MaxChunks ELSE MaxBody,
               trailers : {"pending", "client", "empty"}, fallback : BOOLEAN]
  /\ pc \in {"stream", "fetch", "drainGet", "check", "drainPost", "commit",
             "values", "handOver", "connect", "tunnel", "tunnelDrain", "done"}
  /\ resp \in Responses \cup {"none", "null"}
  /\ src \in {"none", "open", "finished", "errored", "cancelled"}
  /\ duplex \in {"none", "open", "ended", "destroyed"}
  /\ timer \in {"unset", "armed", "fired", "cleared"}
  /\ denied \in BOOLEAN /\ aborted \in BOOLEAN /\ tooLarge \in BOOLEAN

Begins == stream.head # "handler" /\ stream'.head = "handler" /\ kind # "connect"

\* No response is begun for a request that was timed out, refused by its
\* handler or over the limit, whatever happened during the awaits.
NoResponseAfterRefusal ==
  [][Begins => timer # "fired" /\ ~denied /\ ~tooLarge /\ stream.life = "open"]_vars

\* "Ignored unlocked request bodies are drained through the size-accounting
\* iterator before committing the response" (REVIEW_REPORT, HTTP/3), and so are
\* those of GET and HEAD: a response begins when the body was counted to its
\* end, was touched by the handler, or is itself the response.
IgnoredBodyCounted ==
  [][Begins => body.ctl # "open" \/ body.reader = "handler" \/ resp = "echo"]_vars

\* README: requestTimeout is the "Deadline for one exchange to complete".  With
\* it every answer becomes whole or the stream is destroyed.
DeadlineEnds ==
  kind # "connect" /\ timer = "armed" ~> stream.fin = "end" \/ stream.life = "destroyed"

\* A tunnel does not go on writing to its Duplex when its stream has gone: the
\* Duplex is destroyed, or its writable side was ended with what the client sent,
\* except where a write to it waits for a 'drain'.  Its readable side is then left
\* to the runtime that the stream's body was handed to.
TunnelFollowsStream ==
  stream.life = "destroyed" ~> duplex # "open" \/ pc = "tunnelDrain"

\* The exchange as a client and a handler see it.
Answered ==
  CASE stream.head = "none" -> "none"
    [] stream.head \in {"handler", "200"} -> "response"
    [] OTHER -> "refusal"

Stage ==
  CASE stream.fin = "end" -> "complete"
    [] stream.fin # "end" /\ stream.life = "destroyed" -> "reset"
    [] stream.fin # "end" /\ stream.life = "open" ->
         IF stream.head = "none" THEN "waiting" ELSE "answering"

X == INSTANCE Exchange
  WITH answer <- Answered, stage <- Stage, told <- aborted, firm <- FALSE

\* The stream implements the abstract exchange, in which an aborted request may
\* still be answered: a reset of the client's half leaves the server's alone.
ImplementsExchange == X!Spec

=============================================================================
