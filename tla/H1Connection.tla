---------------------------- MODULE H1Connection ----------------------------
(***************************************************************************)
(* One HTTP/1.1 connection (lib/h1/connection.js): the parser's callbacks  *)
(* queue messages, the pump dispatches them one after the other and writes *)
(* the responses, one timer covers the state the connection is in, and     *)
(* #teardown ends everything once.                                         *)
(*                                                                         *)
(* A data event parses a whole chunk synchronously.  The parser's          *)
(* callbacks are the actions enabled while `parsing' holds, and nothing    *)
(* else runs until FeedEnd.  All three timeouts are taken to be enabled.   *)
(***************************************************************************)
EXTENDS Naturals, Sequences

CONSTANTS
  MaxMsg,       \* bound: messages a client sends on the connection
  MaxPipeline,  \* MAX_PIPELINE
  Kinds,        \* the kinds of message clients send
  HasConnect,   \* whether the application handles CONNECT
  Informs       \* whether its handlers call ctx.sendInformational()

\* "plain" has no body, "body" has one, "expect" has one and asks for 100
\* Continue, "close" and "closeBody" ask to end the connection, "refused" is
\* answered with a status (413, 417, 431) and "malformed" with 400, "connect"
\* asks for a tunnel.
AllKinds == {"plain", "body", "expect", "close", "closeBody", "refused",
             "malformed", "connect"}

ASSUME MaxMsgAssumption == MaxMsg \in Nat \ {0}
ASSUME MaxPipelineAssumption == MaxPipeline \in Nat \ {0}
ASSUME KindsAssumption == Kinds \subseteq AllKinds
ASSUME HasConnectAssumption == HasConnect \in BOOLEAN
ASSUME InformsAssumption == Informs \in BOOLEAN

Msg == 1 .. MaxMsg

VARIABLES
  phase,       \* what the parser expects: a "head", the rest of a "body"; or
               \* it was handed over to a "tunnel" or has "failed"
  partial,     \* the parser holds the first bytes of a message head
  parsing,     \* #parsing
  deferred,    \* #deferredFailure: "none", a "status" to send, "parse" for 400
  count,       \* messages queued so far
  queue,       \* #queue
  msg,         \* the entry of each queued message
  running,     \* #running
  pumpPc,      \* what #pump awaits: the "handler", the "writing", the "body"
  current,     \* the entry #pump works on
  wantTunnel,  \* #pendingConnect
  tunnel,      \* #tunnel
  closed,      \* #closed
  closing,     \* #closing
  timerState,  \* #timerState
  since,       \* auxiliary: the request #pump worked on when #timer was set
  armed,       \* #timer is set
  sock,        \* the socket: "ended" is writableEnded, "destroyed" awaits close
  paused,      \* the socket is paused
  wire         \* auxiliary: what was written to the socket

parserVars == <<phase, partial, parsing, deferred, count, wantTunnel>>
pumpVars   == <<running, pumpPc, current>>
timerVars  == <<timerState, since, armed>>
vars == <<parserVars, queue, msg, pumpVars, tunnel, closed, closing, timerVars,
          sock, paused, wire>>

WithBody == {"body", "expect", "closeBody"}

\* An entry.  `body' is the request body the handler reads, seen through its
\* stream controller; `announced' is auxiliary: the head of the response said
\* connection: close.
Entry(kind) ==
  [keepAlive |-> kind \notin {"close", "closeBody"},
   hasBody   |-> kind \in WithBody,
   body      |-> IF kind \in WithBody THEN "open" ELSE "none",
   discard   |-> FALSE, complete |-> FALSE, responded |-> FALSE,
   committed |-> FALSE, announced |-> FALSE, aborted |-> FALSE]

Init ==
  /\ phase = "head" /\ partial = FALSE /\ parsing = FALSE /\ deferred = "none"
  /\ count = 0 /\ queue = <<>> /\ msg = [i \in Msg |-> Entry("plain")]
  /\ running = FALSE /\ pumpPc = "idle" /\ current = 0
  /\ wantTunnel = FALSE /\ tunnel = "none"
  /\ closed = FALSE /\ closing = FALSE
  /\ timerState = "IDLE" /\ since = 0 /\ armed = TRUE
  /\ sock = "open" /\ paused = FALSE /\ wire = <<>>

\* Writes reach the peer while the socket is writable.
Written(w, what, id) ==
  IF sock = "open" THEN Append(w, [what |-> what, id |-> id]) ELSE w

Ended == IF sock = "open" THEN "ended" ELSE sock
\* A teardown with an error destroys a socket that was not ended.
Dropped == IF sock = "open" THEN "destroyed" ELSE sock

\* #setTimer: nothing changes when the state is the same.
SetTimer(s) ==
  \/ timerState = s /\ UNCHANGED timerVars
  \/ timerState # s /\ timerState' = s /\ since' = current /\ armed' = TRUE

\* Mutant: a response that has begun is not looked for.
HeadCommitted_Never == FALSE

HeadCommitted == queue # <<>> /\ msg[Head(queue)].committed

-----------------------------------------------------------------------------
(* #teardown, and the replies that end the connection.                     *)

\* Mutant: the reader of the body is told nothing.
Abandon_KeepsBody(e) == [e EXCEPT !.aborted = @ \/ ~e.responded]

\* Mutant: requests that wait in the pipeline are not aborted.
Abandon_KeepsSignal(e) ==
  [e EXCEPT !.body = IF @ = "open" /\ ~e.complete /\ ~e.discard THEN "errored" ELSE @]

\* Mutant: the body stream is left in a state its readers do not know.
Abandon_BadState(e) ==
  [e EXCEPT !.aborted = @ \/ ~e.responded,
            !.body = IF @ = "open" /\ ~e.complete /\ ~e.discard THEN "aborted" ELSE @]

\* What #teardown does to an entry it finds in the queue.
Abandon(e) ==
  [e EXCEPT !.aborted = @ \/ ~e.responded,
            !.body = IF @ = "open" /\ ~e.complete /\ ~e.discard THEN "errored" ELSE @]

\* #teardown of queue q and entries m.  It runs once.
TeardownQueue(q, m) ==
  \/ closed /\ msg' = m /\ UNCHANGED <<closed, queue, armed>>
  \/ /\ ~closed /\ closed' = TRUE
     /\ queue' = <<>>
     /\ armed' = FALSE
     /\ msg' = [i \in Msg |-> IF \E k \in 1 .. Len(q) : q[k] = i
                              THEN Abandon(m[i]) ELSE m[i]]

\* Mutant: the teardown forgets the tunnel.
Teardown_KeepsTunnel(q, m) == TeardownQueue(q, m) /\ UNCHANGED tunnel

\* The upstream of an open tunnel is destroyed with the connection.
Teardown(q, m) ==
  /\ TeardownQueue(q, m)
  /\ tunnel' = IF tunnel = "open" THEN "done" ELSE tunnel

\* #reject and #onParseError outside the parser: once the head of the queue
\* has started its response only a teardown is left.
Reject ==
  /\ \/ HeadCommitted /\ sock' = Dropped /\ UNCHANGED wire
     \/ ~HeadCommitted /\ sock' = Ended /\ wire' = Written(wire, "reject", 0)
  /\ TeardownQueue(queue, msg)

-----------------------------------------------------------------------------
(* #pump.                                                                  *)

\* The head of the response to entry e is committed; it says connection: close
\* unless the connection is to go on.
Commit(e) == [e EXCEPT !.committed = TRUE, !.announced = ~e.keepAlive \/ closing]

\* writeResponse() commits and writes the head of response id; m and w are
\* the entries and the wire before it.
StartWriting(id, m, w) ==
  /\ pumpPc' = "writing"
  /\ msg' = [m EXCEPT ![id] = Commit(@)]
  /\ wire' = Written(w, "head", id)

\* Mutant: the pump does not mark itself running.
Dispatch_NotRunning(id, m, w) ==
  /\ current' = id /\ timerState' = "ACTIVE" /\ since' = id /\ armed' = TRUE
  /\ UNCHANGED running
  /\ \/ pumpPc' = "handler" /\ msg' = m /\ wire' = w
     \/ StartWriting(id, m, w)

\* Mutant: a deadline that is already ACTIVE is left as it is.
Dispatch_KeepsTimer(id, m, w) ==
  /\ running' = TRUE /\ current' = id /\ SetTimer("ACTIVE")
  /\ \/ pumpPc' = "handler" /\ msg' = m /\ wire' = w
     \/ StartWriting(id, m, w)

\* Mutant: the old timer is cleared and no new one is set.
Dispatch_NoTimer(id, m, w) ==
  /\ running' = TRUE /\ current' = id
  /\ timerState' = "ACTIVE" /\ since' = id /\ armed' = FALSE
  /\ \/ pumpPc' = "handler" /\ msg' = m /\ wire' = w
     \/ StartWriting(id, m, w)

\* One turn of the loop up to its await: a fresh deadline, the dispatch, and
\* with a handler that is synchronous the head of its response.
Dispatch(id, m, w) ==
  /\ running' = TRUE /\ current' = id
  /\ timerState' = "ACTIVE" /\ since' = id /\ armed' = TRUE
  /\ \/ pumpPc' = "handler" /\ msg' = m /\ wire' = w
     \/ StartWriting(id, m, w)

\* Mutant: the pump forgets that the server is closing.
StaysOpen_IgnoresClosing(e) == e.keepAlive

\* Whether the connection goes on after entry e.
StaysOpen(e) == e.keepAlive /\ ~closing

\* The pump is due to go on: entry.promise has resolved, and its continuation
\* runs before any event of the socket, any timer and what connect() promised
\* later.
Woken == pumpPc = "body" /\ (msg[current].complete \/ closed)

PumpStops == running' = FALSE /\ pumpPc' = "idle" /\ UNCHANGED current

\* The end of a turn: the entry leaves the queue; the connection ends, or the
\* next entry is dispatched, or the connection is idle.
EndTurn(m, w) ==
  LET q == IF queue = <<>> THEN <<>> ELSE Tail(queue)
      keep == StaysOpen(m[current])
      stays == paused /\ Len(q) >= MaxPipeline
  IN \/ /\ ~keep
        /\ sock' = Ended /\ Teardown(q, m)
        /\ PumpStops /\ wire' = w /\ UNCHANGED <<timerState, since, paused>>
     \/ /\ keep /\ q # <<>> /\ ~closed
        /\ Dispatch(Head(q), m, w)
        /\ queue' = q /\ paused' = stays /\ UNCHANGED <<closed, tunnel, sock>>
     \/ /\ keep /\ (q = <<>> \/ closed)
        /\ IF closed THEN UNCHANGED timerVars ELSE SetTimer("IDLE")
        /\ PumpStops /\ wire' = w /\ msg' = m
        /\ queue' = q /\ paused' = stays /\ UNCHANGED <<closed, tunnel, sock>>

\* The handler's response arrives.  null, or a response that cannot be
\* serialized, drops the connection.
HandlerReturns ==
  /\ ~parsing /\ pumpPc = "handler"
  /\ \/ /\ StartWriting(current, msg, wire)
        /\ UNCHANGED <<queue, running, current, tunnel, closed, timerVars, sock>>
     \/ /\ Teardown(queue, msg) /\ sock' = Dropped /\ PumpStops
        /\ UNCHANGED <<wire, timerState, since>>
  /\ UNCHANGED <<parserVars, closing, paused>>

\* Mutant: the rest of the body is awaited on a socket that may be paused.
DiscardRest_StaysPaused(m, w) ==
  /\ msg' = [m EXCEPT ![current].discard = TRUE] /\ wire' = w
  /\ pumpPc' = "body" /\ UNCHANGED paused

\* The request is not complete: the rest of its body is discarded and awaited.
DiscardRest(m, w) ==
  /\ msg' = [m EXCEPT ![current].discard = TRUE] /\ wire' = w
  /\ pumpPc' = "body" /\ paused' = FALSE

\* The response is written.
WriteDone ==
  LET m == [msg EXCEPT ![current].responded = TRUE]
      w == Written(wire, "end", current)
  IN /\ ~parsing /\ pumpPc = "writing"
     /\ \/ /\ m[current].complete
           /\ EndTurn(m, w)
        \/ /\ ~m[current].complete
           /\ DiscardRest(m, w)
           /\ UNCHANGED <<queue, running, current, tunnel, closed, timerVars, sock>>
     /\ UNCHANGED <<parserVars, closing>>

\* ctx.sendInformational() while the response has not begun.  Bound: one for
\* each request.
SendInformational ==
  /\ Informs /\ ~parsing /\ pumpPc = "handler" /\ ~closed /\ sock = "open"
  /\ ~msg[current].committed
  /\ [what |-> "interim", id |-> current] \notin {wire[k] : k \in 1 .. Len(wire)}
  /\ wire' = Written(wire, "interim", current)
  /\ UNCHANGED <<parserVars, queue, msg, pumpVars, tunnel, closed, closing,
                 timerVars, sock, paused>>

\* The body stream of the response throws, or the socket is gone.
WriteFails ==
  /\ ~parsing /\ pumpPc = "writing"
  /\ Teardown(queue, msg) /\ sock' = Dropped /\ PumpStops
  /\ UNCHANGED <<parserVars, closing, timerState, since, paused, wire>>

\* entry.promise has resolved: the message is complete or the connection closed.
BodyDone ==
  /\ ~parsing /\ Woken
  /\ EndTurn(msg, wire)
  /\ UNCHANGED <<parserVars, closing>>

-----------------------------------------------------------------------------
(* A data event: OnSocketData, the parser's callbacks, FeedEnd.            *)

OnSocketData ==
  /\ ~parsing /\ ~closed /\ sock = "open" /\ ~paused /\ ~Woken
  /\ \/ phase = "head" /\ count < MaxMsg
     \/ phase = "body"
  /\ parsing' = TRUE /\ partial' = FALSE
  /\ IF timerState = "IDLE" THEN SetTimer("HEADERS") ELSE UNCHANGED timerVars
  /\ UNCHANGED <<phase, deferred, count, wantTunnel, queue, msg, pumpVars,
                 tunnel, closed, closing, sock, paused, wire>>

\* Mutant: a deferred failure does not stop the callbacks.
Accepting_DespiteFailure == ~closed

\* Callbacks after a failure was deferred return early.
Accepting == deferred = "none" /\ ~closed

\* onHeaders of a message that is turned down, or that asks for a tunnel.
OnRefusedHeaders(kind) ==
  /\ parsing /\ phase = "head" /\ count < MaxMsg /\ Accepting
  /\ SetTimer("ACTIVE")
  /\ \/ kind = "refused" /\ deferred' = "status" /\ UNCHANGED <<phase, wantTunnel, paused>>
     \/ kind = "malformed" /\ deferred' = "parse" /\ UNCHANGED <<phase, wantTunnel, paused>>
     \/ /\ kind = "connect"
        /\ wantTunnel' = TRUE /\ paused' = TRUE /\ phase' = "tunnel"
        /\ UNCHANGED deferred
  /\ UNCHANGED <<partial, parsing, count, queue, msg, pumpVars, tunnel, closed,
                 closing, sock, wire>>

\* onHeaders of a message that is queued, and the pump it may start.
OnHeaders(kind) ==
  LET id == count + 1
      m  == [msg EXCEPT ![id] = Entry(kind)]
      w  == IF kind = "expect" THEN Written(wire, "interim", id) ELSE wire
  IN /\ parsing /\ phase = "head" /\ count < MaxMsg /\ Accepting
     /\ kind \notin {"refused", "malformed", "connect"}
     /\ count' = id /\ phase' = "body"
     /\ queue' = Append(queue, id)
     /\ paused' = (paused \/ Len(queue) + 1 >= MaxPipeline)
     /\ \/ ~running /\ Dispatch(id, m, w)
        \/ /\ running /\ SetTimer("ACTIVE")
           /\ msg' = m /\ wire' = w /\ UNCHANGED pumpVars
     /\ UNCHANGED <<partial, parsing, deferred, wantTunnel, tunnel, closed,
                    closing, sock>>

\* Body and trailers belong to the newest message.  A chunk may pass
\* maxRequestBodySize, or fill the stream the handler reads from.
OnData ==
  /\ parsing /\ phase = "body" /\ msg[count].hasBody /\ Accepting
  /\ \/ /\ msg' = [msg EXCEPT ![count].aborted = TRUE]
        /\ deferred' = "status" /\ UNCHANGED paused
     \/ /\ ~msg[count].discard
        /\ paused' = TRUE /\ UNCHANGED <<msg, deferred>>
  /\ UNCHANGED <<phase, partial, parsing, count, wantTunnel, queue, pumpVars,
                 tunnel, closed, closing, timerVars, sock, wire>>

\* Trailers naming a framing or routing field.
OnTrailers ==
  /\ parsing /\ phase = "body" /\ msg[count].hasBody /\ Accepting
  /\ deferred' = "parse"
  /\ UNCHANGED <<phase, partial, parsing, count, wantTunnel, queue, msg,
                 pumpVars, tunnel, closed, closing, timerVars, sock, paused, wire>>

OnMessageComplete ==
  /\ parsing /\ phase = "body" /\ Accepting
  /\ phase' = "head"
  /\ msg' = [msg EXCEPT ![count].complete = TRUE,
                        ![count].body = IF @ = "open" /\ ~msg[count].discard
                                        THEN "closed" ELSE @]
  /\ UNCHANGED <<partial, parsing, deferred, count, wantTunnel, queue, pumpVars,
                 tunnel, closed, closing, timerVars, sock, paused, wire>>

\* The chunk does not parse: the last callback of its feed, never refused.
OnError ==
  /\ parsing /\ phase \in {"head", "body"}
  /\ phase' = "failed" /\ deferred' = "parse"
  /\ UNCHANGED <<partial, parsing, count, wantTunnel, queue, msg, pumpVars,
                 tunnel, closed, closing, timerVars, sock, paused, wire>>

\* beginConnect() up to its await.
BeginConnect ==
  \/ ~HasConnect /\ Reject /\ UNCHANGED <<paused, tunnel>>
  \/ /\ HasConnect /\ tunnel' = "connecting" /\ paused' = TRUE
     /\ UNCHANGED <<closed, queue, armed, msg, sock, wire>>

\* The chunk is parsed: a deferred failure is answered, a tunnel is begun.  A
\* message without a body is complete with its head.
FeedEnd ==
  /\ parsing /\ (phase = "body" => msg[count].hasBody \/ deferred # "none")
  /\ parsing' = FALSE /\ deferred' = "none" /\ wantTunnel' = FALSE
  /\ partial' \in (IF phase = "head" THEN BOOLEAN ELSE {FALSE})
  /\ \/ deferred # "none" /\ Reject /\ UNCHANGED <<paused, tunnel>>
     \/ deferred = "none" /\ wantTunnel /\ BeginConnect
     \/ /\ deferred = "none" /\ ~wantTunnel
        /\ UNCHANGED <<closed, queue, armed, msg, tunnel, sock, wire, paused>>
  /\ UNCHANGED <<phase, count, pumpVars, closing, timerState, since>>

-----------------------------------------------------------------------------
(* CONNECT.                                                                *)

TunnelId == count + 1

\* The application's connect() settles.
ConnectReturns ==
  /\ ~parsing /\ tunnel = "connecting" /\ (closed \/ ~Woken)
  /\ \/ /\ closed /\ tunnel' = "done"
        /\ UNCHANGED <<closed, queue, msg, running, armed, sock, paused, wire>>
     \/ /\ ~closed /\ Reject /\ tunnel' = "done"    \* neither of the two below
        /\ UNCHANGED <<running, paused>>
     \/ /\ ~closed /\ tunnel' = "responding"    \* a Response
        /\ wire' = Written(wire, "connect", TunnelId)
        /\ UNCHANGED <<closed, queue, msg, running, armed, sock, paused>>
     \/ /\ ~closed /\ tunnel' = "open"    \* a duplex
        /\ armed' = FALSE /\ running' = TRUE /\ paused' = FALSE
        /\ wire' = Written(wire, "connect", TunnelId)
        /\ UNCHANGED <<closed, queue, msg, sock>>
  /\ UNCHANGED <<parserVars, pumpPc, current, closing, timerState, since>>

\* The Response of connect() is written, or its body or the socket fails.
ConnectWritten ==
  /\ ~parsing /\ tunnel = "responding"
  /\ \/ sock' = Ended /\ wire' = Written(wire, "end", TunnelId)
     \/ sock' = Dropped /\ UNCHANGED wire
  /\ TeardownQueue(queue, msg) /\ tunnel' = "done"
  /\ UNCHANGED <<parserVars, pumpVars, closing, timerState, since, paused>>

\* The upstream ends or fails.
TunnelEnds ==
  /\ ~parsing /\ tunnel = "open" /\ ~closed
  /\ sock' \in {Ended, Dropped}
  /\ Teardown(queue, msg)
  /\ UNCHANGED <<parserVars, pumpVars, closing, timerState, since, paused, wire>>

-----------------------------------------------------------------------------
(* Timers, shutdown, the socket and the reader of the request body.        *)

OnTimeout ==
  /\ ~parsing /\ armed /\ ~closed /\ ~Woken
  /\ \/ timerState # "IDLE" /\ ~HeadCommitted /\ wire' = Written(wire, "reject", 0)
     \/ (timerState = "IDLE" \/ HeadCommitted) /\ UNCHANGED wire
  /\ sock' = IF HeadCommitted THEN Dropped ELSE Ended
  /\ Teardown(queue, msg)
  /\ UNCHANGED <<parserVars, pumpVars, closing, timerState, since, paused>>

\* Server.close() asks the connection to finish.
InitiateClose ==
  /\ ~parsing /\ ~closed /\ ~closing
  /\ closing' = TRUE
  /\ \/ queue = <<>> /\ ~running /\ sock' = Ended /\ Teardown(queue, msg)
     \/ (queue # <<>> \/ running) /\ UNCHANGED <<sock, closed, queue, msg, armed, tunnel>>
  /\ UNCHANGED <<parserVars, pumpVars, timerState, since, paused, wire>>

\* Server.#forceClose() destroys the socket.
ServerDestroys ==
  /\ ~parsing /\ sock \in {"open", "ended"}
  /\ sock' = "destroyed"
  /\ UNCHANGED <<parserVars, queue, msg, pumpVars, tunnel, closed, closing,
                 timerVars, paused, wire>>

\* The peer ends its side; without allowHalfOpen the socket ends ours too.
PeerEnds ==
  /\ ~parsing /\ sock = "open" /\ ~Woken
  /\ sock' = "ended"
  /\ UNCHANGED <<parserVars, queue, msg, pumpVars, tunnel, closed, closing,
                 timerVars, paused, wire>>

\* The socket's close event, whoever closed it.
SocketClosed ==
  /\ ~parsing /\ sock # "closed" /\ ~Woken
  /\ sock' = "closed"
  /\ Teardown(queue, msg)
  /\ UNCHANGED <<parserVars, pumpVars, closing, timerState, since, paused, wire>>

\* The body stream of message i has room again, or the handler cancels it.
BodyRead(i) ==
  /\ ~parsing /\ i <= count /\ msg[i].body = "open"
  /\ \/ i <= current /\ msg' = [msg EXCEPT ![i].body = "cancelled", ![i].discard = TRUE]
     \/ UNCHANGED msg
  /\ paused' = FALSE
  /\ UNCHANGED <<parserVars, queue, pumpVars, tunnel, closed, closing,
                 timerVars, sock, wire>>

-----------------------------------------------------------------------------

Parse == \/ OnSocketData \/ OnData \/ OnTrailers \/ OnMessageComplete \/ OnError
         \/ FeedEnd
         \/ \E kind \in Kinds : OnRefusedHeaders(kind) \/ OnHeaders(kind)

Pump == HandlerReturns \/ SendInformational \/ WriteDone \/ WriteFails \/ BodyDone

Tunnel == ConnectReturns \/ ConnectWritten \/ TunnelEnds

Events == \/ OnTimeout \/ InitiateClose \/ ServerDestroys \/ PeerEnds \/ SocketClosed
          \/ \E i \in Msg : BodyRead(i)

Next == Parse \/ Pump \/ Tunnel \/ Events

Spec == Init /\ [][Next]_vars

-----------------------------------------------------------------------------
(* Fairness.  A parse that began ends; the timer fires.  A parse is atomic   *)
(* in the code, so what it interrupts here is still ready afterwards: the    *)
(* steps it may interrupt are strongly fair.                                 *)

ParseFairness == WF_vars(FeedEnd) /\ WF_vars(OnMessageComplete)

TimerFairness == ParseFairness /\ SF_vars(OnTimeout) /\ SF_vars(BodyDone)

\* Handlers return, responses are written, clients finish what they began, and
\* an ended or destroyed socket reports its close.
AppFairness ==
  /\ ParseFairness /\ WF_vars(sock # "open" /\ SocketClosed)
  /\ SF_vars(HandlerReturns) /\ SF_vars(WriteDone \/ WriteFails) /\ SF_vars(BodyDone)
  /\ WF_vars(OnSocketData) /\ SF_vars(OnMessageComplete)

-----------------------------------------------------------------------------
(* Properties.                                                             *)

Entries ==
  [keepAlive : BOOLEAN, hasBody : BOOLEAN,
   body : {"none", "open", "closed", "cancelled", "errored"},
   discard : BOOLEAN, complete : BOOLEAN, responded : BOOLEAN,
   committed : BOOLEAN, announced : BOOLEAN, aborted : BOOLEAN]

Output == [what : {"interim", "head", "end", "reject", "connect"}, id : 0 .. MaxMsg + 1]

\* The fields of the connection and its entries hold values the code gives them.
TypeOK ==
  /\ phase \in {"head", "body", "tunnel", "failed"}
  /\ partial \in BOOLEAN /\ parsing \in BOOLEAN /\ wantTunnel \in BOOLEAN
  /\ deferred \in {"none", "status", "parse"}
  /\ count \in 0 .. MaxMsg
  /\ queue \in Seq(1 .. count)
  /\ msg \in [Msg -> Entries]
  /\ running \in BOOLEAN /\ pumpPc \in {"idle", "handler", "writing", "body"}
  /\ current \in 0 .. count
  /\ tunnel \in {"none", "connecting", "responding", "open", "done"}
  /\ closed \in BOOLEAN /\ closing \in BOOLEAN
  /\ timerState \in {"IDLE", "HEADERS", "ACTIVE"} /\ since \in 0 .. count
  /\ armed \in BOOLEAN
  /\ sock \in {"open", "ended", "destroyed", "closed"} /\ paused \in BOOLEAN
  /\ wire \in Seq(Output)

At(what, i) == wire[i].what = what
Before(i, what, id) == \E j \in 1 .. i - 1 : wire[j] = [what |-> what, id |-> id]

\* Responses leave in the order the requests came: no head without the whole
\* response to the request before it, and none twice.
ResponsesInOrder ==
  \A i \in 1 .. Len(wire) :
    /\ At("head", i) => /\ ~Before(i, "head", wire[i].id)
                        /\ wire[i].id > 1 => Before(i, "end", wire[i].id - 1)
    /\ At("end", i) => Before(i, "head", wire[i].id) \/ Before(i, "connect", wire[i].id)

\* A 400, 408, 413, 417 or 431 never lands inside a response to a queued request:
\* once the head is committed a timeout or a later bad message only drops the
\* connection.
RejectOutsideResponse ==
  \A i \in 1 .. Len(wire) : At("reject", i) =>
    \A j \in 1 .. i - 1 : At("head", j) => Before(i, "end", wire[j].id)

\* A line that tells the client that the connection ends: a rejection, the end
\* of a response to CONNECT, or of one whose head said connection: close.
SaysEnd(i) ==
  \/ At("reject", i)
  \/ At("end", i) /\ (wire[i].id > count \/ msg[wire[i].id].announced)

\* No response, rejection or informational line follows the response that
\* announced the end of the connection, whether the request or a shutdown asked
\* for it, although the pump may then wait for the rest of the request's body.
\* Only the 100 Continue of a later request that the same chunk brings does.
LastWordIsLast ==
  \A i \in 1 .. Len(wire) : SaysEnd(i) =>
    \A j \in i + 1 .. Len(wire) :
      At("end", i) /\ wire[i].id <= count /\ At("interim", j) /\ wire[j].id > wire[i].id

\* README: "Once a message is rejected, all later parser callbacks from the
\* same input buffer are ignored."  No request is dispatched once a failure is
\* deferred or the connection is torn down.
NoDispatchAfterFailure ==
  [][current' # current => deferred = "none" /\ ~closed]_vars

\* When the connection ends, the signal of every request that has no response
\* is aborted, the ones still waiting in the pipeline included.
AbortedOrAnswered ==
  closed => \A i \in 1 .. count : msg[i].responded \/ msg[i].aborted

\* When the connection ends no reader of a request body is left waiting,
\* except where the server had begun to discard the body.
BodySettled ==
  closed => \A i \in 1 .. count : msg[i].body = "open" => msg[i].discard

\* A connection without a tunnel always has a deadline running; when a request
\* is queued it is a request deadline that was set anew for the one #pump works
\* on, however many were pipelined before it.
DeadlineRuns ==
  ~closed /\ tunnel = "none" =>
    armed /\ (queue # <<>> => timerState = "ACTIVE" /\ since = Head(queue))

\* The duplex a CONNECT handler returned is destroyed with the connection,
\* even when it arrives after the client has gone.
TunnelReleased == closed => tunnel # "open"

\* What AbortedOrAnswered and BodySettled rest on: the pump works
\* on the head of the queue, and an entry leaves the queue only when there is
\* nobody left to tell, or through the teardown, which tells them.
Queued(i) == \E k \in 1 .. Len(queue) : queue[k] = i
BodyOver(e) == e.body = "open" => e.discard
QueueInv ==
  /\ pumpPc # "idle" => running /\ current \in 1 .. count
  /\ running => pumpPc # "idle" \/ phase = "tunnel"
  /\ pumpPc = "body" => msg[current].responded /\ msg[current].discard
  /\ \A i \in 1 .. count : msg[i].complete => BodyOver(msg[i])
  /\ ~closed => /\ pumpPc = "idle" <=> queue = <<>>
                /\ queue # <<>> => Head(queue) = current
                /\ \A i \in 1 .. count :
                     Queued(i) \/ (msg[i].responded /\ BodyOver(msg[i]))
  /\ closed => /\ queue = <<>>
               /\ \A i \in 1 .. count :
                    (msg[i].responded \/ msg[i].aborted) /\ BodyOver(msg[i])

\* What TunnelReleased rests on: a tunnel is begun only when the
\* parser was handed over, and never while a chunk is parsed.
TunnelInv ==
  /\ wantTunnel => phase = "tunnel" /\ parsing
  /\ phase = "tunnel" => deferred = "none"
  /\ tunnel # "none" => phase = "tunnel" /\ ~parsing
  /\ closed => tunnel # "open"

\* By its own timers alone, with no tunnel, every queued request leaves the queue,
\* whatever handlers and clients do.
QueueDrains == TimerFairness => (queue # <<>> ~> queue = <<>>)

\* Without any timer firing: a connection the server asked to finish ends once
\* its current exchange is over, whatever is still queued.
ClosingCompletes == AppFairness => (closing ~> closed)

\* Without any timer firing: pausing the socket for a full pipeline or a full
\* body stream never keeps the pump from answering what is queued.
PipelineProgress == AppFairness => (queue # <<>> ~> queue = <<>> \/ closed)

\* What the documentation says and the code does not do.

\* "answered strictly in order": nothing but its own end follows a response
\* that has begun.
InterimOutsideResponse ==
  \A i \in 1 .. Len(wire) : At("interim", i) =>
    \A j \in 1 .. i - 1 : At("head", j) => Before(i, "end", wire[j].id)

=============================================================================
