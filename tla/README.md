# Formal model of blockhaus

TLA+ specifications of the HTTP server in `lib/`, model-checked with TLC. Every
safety property that a passing run checks, and that both stream bridges implement
their abstract specification, is also proved with TLAPS. References are to files of the
repository (`lib/server.js:662` is a line).

## The system

`serve(handler, options)` or `new Server(handler)` makes a **Server**. One TCP
port serves HTTP/1.1 and HTTP/2, the same UDP port serves HTTP/3, and every
request ends in one call of `handler.fetch(ctx)`. The parts:

| part | state it keeps | operations | what makes it correct |
| --- | --- | --- | --- |
| Server lifecycle, `lib/server.js` | `#state`, the `#listening` and `#closePromise` promises, `#binding`, `#destroyed`, the abort listener, the TCP server, the h3 endpoint | `listen`, `close`, `destroy`, an AbortSignal; `#bind`, `#close`, `#drainBackends`, `#forceClose` | `closed` resolves, once, when everything is gone; a graceful close cuts nothing it knows of; a forced one always ends |
| Socket tracking and routing | `#sockets`, `#connections`, `#sessions` | `#track`, preface sniff, ALPN, `replayStream` | every socket is tracked from accept to close, no byte is lost to the sniff |
| waitUntil tracking | `#pending` | `ctx.waitUntil`, settling | graceful close waits for the promises |
| Dispatch and `Context` | `#denied`, request ids, `#busy` | `#dispatch`, `deny`, `sendInformational`, `waitUntil` | one outcome for each request |
| HTTP/1.1 connection, `lib/h1/connection.js` | `#queue`, `#running`, timer state, `#closing`, `#closed`, `#tunnel`, the deferred failure | parser callbacks, `#pump`, `#reject`, `#onTimeout`, `#beginConnect`, `initiateClose`, `#teardown` | responses in request order, no status line inside a response, a deadline always armed, everything settled at the end |
| HTTP/1.1 parser wrapper, `lib/h1/parser.js` | the remainder of the input, facts of the current message | `feed`, `takePending`, `destroy` | framing facts belong to the right message |
| HTTP/1.1 serializer, `lib/h1/serializer.js` | none | `writeResponse` | bytes written agree with the declared framing |
| HTTP/2 bridge, `lib/h2/index.js` | per stream: `responded`, `aborted`, `bodyTooLarge`, the timer, the request body and the promise of its trailers | stream handler, `requestBody`, deadline, body limit, write loop, CONNECT | one answer for each stream, whole or visibly cut; every stream ends; nobody waits for one that is gone |
| HTTP/3 endpoint, `lib/h3/index.js` | sessions; per stream: `committed`, body count, timer, trailers | the same for QUIC, `close`, `destroy` | the same |
| Trailers, diagnostics, options | a WeakMap; nothing; nothing | validation, publishing | - |

**How they interact.** The server creates an `H1Connection` for each HTTP/1.1
socket and hands HTTP/2 sockets to node's session. Both call back `#dispatch`.
`#close` calls `initiateClose()` on connections and `close()` on sessions, then
polls the two sets, which empty themselves through callbacks, every 10 ms.
`#forceClose` destroys sockets; their close events come later.

**What is hard.** All code runs on one thread, so the hazards are between
awaits: `close()` during a bind, several closers with different arguments, a
deadline racing the drain, handlers that outlive their connection, a parse that
starts the pump synchronously, timeouts and bad input during a response, pausing
one socket for two reasons; on a stream of its own, a response that is committed
after awaits during which the client, the deadline, the body limit or `deny()` may
have ended the exchange. `PROJECT.json` lists each at its line.

## Modules

| module | what it is |
| --- | --- |
| `Server` | lifecycle of one server: bind, connections as sockets with exchanges, promises, close and destroy |
| `MCServer` | small instances of `Server` for TLC |
| `Server_proofs` | TLAPS proofs about `Server` |
| `H1Connection` | one HTTP/1.1 connection: parse, queue, pump, timers, CONNECT, teardown |
| `MCH1Connection` | small instances of `H1Connection` for TLC |
| `H1Connection_proofs`, `H1Wire_proofs` | TLAPS proofs about `H1Connection`: how requests settle; what is written |
| `Exchange` | abstract: what one request on a stream of its own is promised |
| `Dispatch` | what the server makes of what a handler does, for both stream bridges |
| `H2Stream`, `MCH2Stream` | one HTTP/2 stream: request body, handler, write loop, deadline, CONNECT |
| `H3Stream`, `MCH3Stream` | one HTTP/3 stream |
| `H2Stream_proofs`, `H3Stream_proofs` | TLAPS proofs about the streams, with the refinement of `Exchange` |
| `Ingress` | the bytes of a plain socket up to the backend: sniff, `replayStream`, the parser's remainder, a tunnel |
| `H1Framing` | where HTTP/1.1 messages end: facts of header lines and refusals, and `writeResponse` |
| `Ingress_proofs`, `H1Framing_proofs` | TLAPS proofs about `Ingress` and `H1Framing` |
| `MCSocket` | `Ingress` and `H1Framing` as one instance for TLC, one of them moving |

### Server

An action is everything the code does between two awaits. `bindPc` and
`closePc` say at which await `#bind` and `#close` are suspended, `drain` where
`#drainBackends` is. `Close`, `Destroy`, `Abort` and `Listen` are calls of the
application; `TcpListening`, `H3Listening`, `Deadline`, `DrainPoll`,
`SocketClosed` and the like are callbacks. Actions with the guard `Macrotask`
are timers and I/O events, which cannot run before the continuations of
promises that have settled. `FirstClose` is a call that starts `#close`,
`JoinClose` one that finds `#closePromise` set.

`sock` is the socket, `backend` who owns it: `"none"` until the sniff or the
handshake has decided, `"h1"` or `"h2"` while it is in `#connections` or
`#sessions`, then `"done"`. At most one exchange at a time is in flight on a
connection, and at most one HTTP/3 stream. `told` are the connections that may take no
further request, `known` those of them that `#close` found. `handlers` are the
handlers still running, which may outlive their exchange and still call `ctx.waitUntil()`.

A socket that the code `destroy()`s is `"destroyed"` until its close event
(`"gone"`), which is when the sets forget it and the TCP server counts it out.
Node, from version 26 on which this package requires, drops a listen whose server
was closed meanwhile: `TcpListening` asks for `tcp = "pending"`.

`#bind` may await a `close()` (rollback, abort) that is itself written to await the
promise of `listen()`. `FirstClose` takes that wait only when no bind is in progress, as the
code does (`#binding`), and `CloseResumes` goes on only when that promise has
settled, so that `ListenSettles` would see the two wait for each other.

### H1Connection

A data event parses a chunk synchronously: `OnSocketData` sets `parsing`, the
callbacks are actions enabled while it holds, `FeedEnd` ends it. `#pump` is
suspended in `"handler"` (the promise of a handler), `"writing"`
(`writeResponse`) or `"body"` (the promise of an entry). `Dispatch` includes
both kinds of handler: a synchronous one has the head of its response written
in the same step, inside the parse that queued the message. `wire` is auxiliary:
the sequence of what reached the socket (`interim`, `head`, `end`, `reject`,
`connect`), with the message it is for.

Messages are one of eight kinds (`AllKinds`): what the checks of `#onHeaders`
distinguish, not how they do; a request may ask to end the connection with a body
or without. `announced` is auxiliary: the head of the response said `connection: close`,
which is decided when it is written, by the request or by a shutdown, while `StaysOpen`
decides again when the request's body is over. `Woken` is a resolved promise the pump
awaits: its continuation comes before any event of the socket. `since` is auxiliary
too: the request the pump worked on when the timer was set, which tells a deadline set
anew from one left running. The three timeouts are taken to be enabled, as their
defaults are.

### H2Stream

`handleStream` is a process; `pc` says at which await it is (`fetch`: the
handler; `drainBody`: the trailers of a body it has cancelled; `pump`, `drain`:
the write loop; `endTrailers`; `values` in HTTP/3). What it does between two awaits
comes before any event (`Turn`). `body` is everything `requestBody` keeps:
`ctl` the controller as its reader sees it, `flowing` whether the stream is
resumed, `discarded`, `ended`, the trailers promise, and `fallback`, the pending
`setImmediate` of `onEnd`. Its queue holds one chunk, the default high-water mark.
`src` is the body of the handler's Response, `fault` an exception that leaves
an event listener. `stream.fin = "trailing"` is the time between `stream.end()`
and the trailers. A handler may call `deny()`, read, let go of or cancel the
body at any time, and may return the request's body as its response (`echo`).

Node's http2 stream is external and was modelled from how the code uses it:
data is emitted only while it flows and is open, and `end`
at the latest then; `close()` emits `aborted`
unless the writable side was ended, and `close` follows; a reset by the client
carries an error code, and one with CANCEL emits no `error`; `respond()` throws
on a stream that was closed; `write()` on one that is gone answers false.

### H3Stream

The same for QUIC. The request body is the generator `bodyChunks`, which
advances only when someone reads it (`body.reader`), so the server itself is a
reader while it drains an ignored body (`drainGet`, `drainPost`). External:
`sendHeaders()` answers false once headers were sent; the stream's iterator ends
or throws when the stream is destroyed or the peer resets its half; the runtime
sends the body given to `setBody()` and resets the stream if its source fails. The
readable side of a tunnel's Duplex is such a body (`src`); `duplex = "ended"` is its
writable side only, which `result.end()` ends, so `TunnelFollowsStream` says that a
tunnel stops writing, not that the runtime stops reading.

### Exchange and the refinement

`Exchange` is what either bridge owes: an exchange is waiting, answering,
complete or reset; it is answered by a response of the handler or by a refusal
of the server, never both; a response that was begun ends or is reset. `H2Stream`
and `H3Stream` implement it under the mappings at their ends (`X`), which read
the head that was sent (`Answered`) and how the stream ended (`Stage`).
`firm` is the one difference between them. On HTTP/2 (but for CONNECT) a request
whose signal was aborted gets nothing from its handler any more: the answer is
whole or the stream is gone before the handler is told. On HTTP/3 the client may
reset its half alone, which aborts the signal, and is still answered.

### Ingress

A byte is its position in what the client sends, so `got`, the bytes a backend
has, should count up. `owner` is who listens to the socket. A data event
delivers any first part of what has arrived. External: a paused socket emits
nothing; the replaying Duplex calls its `read()` once after each push when there
is room; the parser consumes whole tokens and stops after the head of a CONNECT.
`Preface` is 2 bytes of the 24, `Window` is the Duplex's high-water mark.

### H1Framing

One connection, exchange after exchange: header lines in any order and number
(`WithLine` is one call of `on_header_value`), a parser that fails
(`OnParseError`) or the refusals of `onHeaders` in their order, then `writeResponse` with a Response of any status class, with or
without body, declared length and trailers. A content-length is a sequence of
digits, leading zeros and other characters included, because the code compares
text and computes with numbers. External: the vendored parser does not pass on a
content-length that repeats an earlier one, which the repository's tests have answered with
400; whether it also refuses one that differs is left open. Requests have no target here and no CONNECT:
those checks refuse more, never less.

## Runs

| run | bounds | what it shows |
| --- | --- | --- |
| `server_safety` | 2 connections, 2 promises (both symmetric), h1, h2 | `ClosedIsQuiet`, `ClosedIsOwed`, `OwedWorkAwaited`, `GracefulKeepsExchanges` |
| `server_live` | 1 connection, 1 promise, h1, h2, h3, fairness | type; `ForcedCloseCompletes`, `TimedCloseCompletes`, `ListenSettles`, beside every close, with the HTTP/3 rollback |
| `server_h3_leak` | 1 connection, 1 promise | finding: the h3 endpoint outlives `closed` |
| `server_destroy` | 1 connection, 1 promise, fairness | finding: `destroy()` waits for promises |
| `server_wait_until` | 1 connection, 2 promises | finding: late promises are not awaited |
| `h1_safety` | 3 messages, pipeline of 2, all kinds, CONNECT handled | type; order and separation of responses, settling of everything at the end, deadlines |
| `h1_live` | 3 messages, pipeline of 2, CONNECT not handled | `QueueDrains` by the timer alone; `PipelineProgress`, `ClosingCompletes` without it |
| `h1_interim` | 2 messages | finding: 100 Continue inside a response |
| `h2_stream` | 4 DATA frames, limit of 2, every kind, deadline set or not, fairness | type; nobody waits for a stream that is gone, discarded bodies flow, trailers win, nothing looks complete that is not, every exchange ends, `ImplementsExchange` |
| `h2_deadline` | 1 chunk, fairness | finding: the deadline does not cover the response's trailers |
| `h3_stream` | 3 chunks, limit of 2, every kind, deadline set or not, fairness | type; nothing is answered after a refusal, ignored bodies are counted, every exchange and tunnel ends, `ImplementsExchange` |
| `socket` | 6 bytes; 4 header lines of 16, 8 lengths, 4 bytes of response, largest safe number 12 | `BytesInOrder`, `BytesArrive`; `AcceptedIsUnambiguous`, `ResponseFramed` |

**Why the bounds are enough.** Connections interact only through the server's
sets, so two are needed for one that is drained while another is not, and one
for liveness, where the other could only delay. HTTP/3 adds a bind step, its
rollback and handlers outside any connection, which need no second connection.
One promise suffices for one that is owed, two for one registered behind the
snapshot. Three messages against a
pipeline limit of two (`MAX_PIPELINE` is 32 in the code) fill the pipeline,
pause the socket, and leave one more request to be answered or dropped after it.
`Conn`, `Task`, `MaxMsg` and `MaxPipeline` are the bounds of the state spaces, with
one interim response from each handler (`SendInformational`).

One stream is enough for the bridges, whose streams share nothing but the
session. `MaxChunks` exceeds `MaxBody`, so the limit is met exactly, passed, and
passed again while the rest is dropped. Six bytes against a preface of two, a
head of three and a window of two leave bytes before, in and behind every change
of owner. Four header lines allow a host with any two framing headers and a
repeated one; lengths of 2, written as `2` and `02`, and of 3 meet the limit of 2; 12 as the largest safe number is met by `12`, passed by `13` in the
last digit and by `20` in the first. The two halves of `MCSocket` share no state,
so only one moves (`part`). Deadlock is not checked: every system here stops, a
closed server, connection, stream or socket.

**Excused cases.** `ListenSettles` lets `listen()` hang only where one of the three cases of
`BindHeldUp` holds for ever: the TCP server was closed before it was bound; the close
that `#bind` awaits waits for promises; or it was a graceful one without a timeout,
under way before an abort, which waits for handlers and clients. `LastWordIsLast` lets
a 100 Continue of a later request follow the response that announced the end, as the
code does.

**Fairness.** `ServerFairness` is weak fairness of what the event loop runs by
itself: completions of listen and close, the poll, the deadline, continuations
of settled promises, close events of destroyed sockets. Handlers, clients and
promises have none, so they may hang forever. On a connection no fairness is
part of the specification; the liveness properties name what they rest on.
`TimerFairness` says only that a parse ends and the timer fires. A parse is atomic
in the code and several steps here, so it may disable another step for a while:
steps it can interrupt are strongly fair. `AppFairness` leaves the timer unfair
and assumes instead that handlers return, responses get written, and clients
finish the messages they began, to show that nothing but them is waited for.
`NodeFairness` (HTTP/2) and `RuntimeFairness` (HTTP/3): the code runs, the timer
fires, the stream emits what it has while it flows, or its reader hears of its
end. `GoneIsFinished` adds `HandlerFairness`, that handlers and sources settle;
`ExchangeEnds` and `DeadlineEnds` hold without. `IngressFairness` is data events and
the detection timer; `BytesArrive` adds that sessions read, connections resume
what they paused (`PipelineProgress` shows they do) and tunnels drain.

**Deliberate violations.** Five runs check what the documentation says and TLC
refutes; `PROJECT.json` quotes the lines under "findings".

## Proofs

`Server_proofs` proves, for every set of connections and promises, with or
without HTTP/3, all the safety properties that the server's passing runs check:

- `TypeCorrect`: `Spec => []TypeOK`.
- `ClosedQuiet`, `ClosedOwed`: neither is inductive alone. `LifecycleInv`
  strengthens them: how far bind and close can be in each state, that a TCP
  server that never served has only free sockets and one that has closed only
  free or gone ones. With it `closed` resolving (through `#close` or through
  the catch block of `#doListen`) implies that no socket is left.
- `OwedAwaited`, `GracefulShutdown`: `DrainInv` says that an exchange is always on a
  routed connection, that past the polling no connection that `#close` asked to
  finish (`known`) has an exchange, and therefore that what is owed was already in the snapshot.
  The last step is that only the drain's end, a force, routing to nothing and
  a closed session destroy sockets, none of them under such an exchange.

A call of `close()` may be one of six disjuncts at five call sites, so each
invariant first has lemmas about `StartClosing`, `FirstClose`, `JoinClose` and
`DoClose`, and one case for each action that uses them. Assumptions: the three
named ASSUMEs of `Server`. TLC has checked `LifecycleInv` and `DrainInv` as
invariants with two connections and two promises.

`H1Connection_proofs` proves, for any number of messages, any pipeline limit and
any mix of kinds:

- `TypeCorrect`: `Spec => []TypeOK`.
- `NobodyForgotten` (`AbortedOrAnswered`) and `NoReaderWaits` (`BodySettled`): what
  a teardown owes is stated of all messages, but the teardown only visits the
  queue. `QueueInv` closes the gap: the pump works on the head of the queue, a message
  outside it is answered and nobody reads its body, and the body of a complete
  message is over. Every assignment to an entry only adds to it (`Grows`), so the
  actions fall into four groups with a lemma each: those that only add to entries
  (`QueueKept`), those that tear down (`QueueTorn`), the end of a turn of the pump
  (`QueueTurned`) and a message that joins (`QueueJoined`).
- `TunnelIsReleased` (`TunnelReleased`) from `TunnelInv`: a tunnel is begun only
  once the parser was handed over, so no parse can be under way beside it.
- `DeadlineAlwaysRuns` (`DeadlineRuns`): the kind of the timer (`KindRuns`) and whose it is
  (`OwnDeadline`) are each inductive, and by `QueueInv` the pump's request is the head of
  the queue; and the
  action property `NoLateDispatch` (`NoDispatchAfterFailure`) from `DeferredInv`.

TLC has checked `QueueInv` and `TunnelInv` as invariants of the instance
`h1_safety` runs.

`H1Wire_proofs` extends it with what the connection writes:

- `AnsweredInOrder`, `RejectsOutside` and `NothingAfterLastWord` speak of the whole
  wire. The code keeps no record of it: that a response may begin is read off the
  queue and the pump. `WireInv` joins the two: while the socket is open the
  wire holds the ends of all responses before the one the pump works on, and that
  one's too when the pump waits for the next (`EndedUpTo`), and every head is of a
  request that is marked committed. No last word has been said (`Unsaid`) but that of
  the response whose request's body the pump still waits for (`Awaited`), behind which
  only messages queued later can put a line.
- It rests on `Ground`: the queue's numbers follow each other up to `count`
  (`NumberInv`), responses begin in that order and not before their handler
  returned (`CommitInv`), a response that announced the end is one after which the
  connection does end, since a shutdown is not taken back (`AnnounceInv`), only the
  newest message can be incomplete (`PhaseInv`), and nothing is parsed on a socket that is
  not open (`OpenInv`). Every step changes entries only forward and commits at
  most the one that begins (`Marks`). The actions fall into those that write
  nothing, one line, or two; `NextWire` gives the invariant of each.

TLC has checked all of these as invariants with three messages.

`H2Stream_proofs` proves, for any body limit and number of DATA frames, with or
without a deadline, all six safety properties and the refinement. `IInv` is

- `TypeInv`: each byte of the client is counted once (`Counted`), without which the
  counters have no bound;
- `BodyInv`, which says of the body, the stream and what the client sent that they fit
  (`Sound`): a body that ended had its whole input, one that is discarded flows, an
  empty set of trailers is given only when the client sent none;
- `FlowInv`: which steps belong to which kind of request, that the head is the handler's and
  its end not sent exactly while its body is written (`AnswerInv`), that a stream closed
  without an answer was refused by its handler (`RefusalInv`), and that the signal
  is aborted only when the stream is over (`ToldInv`).

`H3Stream_proofs` does the same for HTTP/3, with `ReaderInv` in place of the body's
flow: a response is committed only when the body has ended or somebody else
reads it, which is what keeps an ignored body under its limit.
`Implements` maps each step of either stream to a step of `Exchange` or a stutter:
one lemma for each abstract action says what the concrete change of head and end
must be, and each concrete action is one of them. The refinement covers the safety of
`Exchange`, which states no liveness.

`Ingress_proofs` proves `BytesArriveInOrder` for any preface, window, head and number of
bytes. Four buffers may hold a byte. `Where` says that each owner of the
socket uses one of them (`Middle`) and the others are empty, so that `got`, `Middle` and
the socket's buffer together are what the client sent (`Carried`). A step then moves a
part from one of the three to the one before it, and appends are all that is left
to prove. `HeadFirst` keeps the parser from running past the head of a CONNECT.

`H1Framing_proofs` is about numbers and lines:

- `ParseMeans`: what `parseContentLength` accepts is a number in digits, a safe one, and the
  one its digits mean, although it compares with `MaxSafe \div 10` and its last
  digit before each step so that nothing overflows. The functions are
  recursive over the digits. The library states induction with an operator as a
  parameter, so the module derives it for sets of numbers (`Induction`,
  `InductionUpTo`) from the least element that `WFMin` gives of a set, and from it
  that such a recursion has a solution (`Solved`).
- `RequestsUnambiguous`: `onHeaders` sees a few counters and flags, the property all
  lines. The lines that reach it give no length twice (`New`), so that a conflict
  is a second length; a message the parser refused has two (`Refused`). `FactsInv` says of each fact what it says of the lines, for any lines
  in any order (`FactsStep`, one line more), and `MalformedIsAmbiguous` that the
  first refusal of `onHeaders` is exactly the negation of `Unambiguous`. The number of
  tokens of all `transfer-encoding` lines is one just when there is one line with one token
  because no value splits into none, an assumption on `Lines`.
- `ResponsesFramed` from `ResponseInv`: a head is written only for a Response that
  agrees with itself (`SentOf`), and `AtStep` says how much of it may have been sent at
  each await of `writeResponse`.

TLC has checked `FactsInv` and `ResponseInv` with three lines.

All proofs assume the named ASSUMEs of the modules they are about, which TLC
evaluates in the runs, and nothing else. `IngressSpec` and `FramingSpec` are the two
halves of the `Spec` of `MCSocket`, without its fairness.

Only model-checked: all liveness (`ForcedCloseCompletes`, `TimedCloseCompletes`,
`ListenSettles`, `QueueDrains`, `PipelineProgress`, `ClosingCompletes`, `GoneIsFinished`,
`ExchangeEnds`, `DeadlineEnds`, `TunnelFollowsStream`, `BytesArrive`), which the
prover cannot treat, nor ENABLED, which fairness rests on.

## Seen while modelling, without a run of its own

- `destroy()` on a closed server sets `#state` back to `"closing"`
  (`lib/server.js:652`); `REVIEW_REPORT.md` has `closed` as the last state.
- A connection routed after `#close` has told the others to finish
  (`lib/server.js:679`) is never told. It keeps the drain polling until its
  keep-alive timeout, or is cut with its exchange if the drain is past polling.
- `close()` between the TCP listen and its completion leaves the promise of
  `listen()` pending (`lib/server.js:502`): a closed server emits no error.
- A failed startup followed by `close()` publishes `serverClose` twice.
- A CONNECT behind unanswered requests is answered before them, and its
  Response is not marked committed, so a 408 may be written into it and a
  graceful close does not wait for it (`lib/h1/connection.js:132`, `:415`).
- When a response ends before its request body has arrived, a reader of that
  body hears nothing if the connection then dies (`lib/h1/connection.js:599`, `:628`).
- A 400 found later in the same buffer replaces a deferred 413, 417 or 431
  (`lib/h1/connection.js:531`).
- After a response the timer is IDLE even if part of the next head has arrived.
- The first `pull()` of a body resumes a socket paused for a full pipeline, and the
  pump resumes one paused for a full body, so both limits are soft.
- HTTP/2: `requestBody` ignores an abort once its body is discarded, so trailers
  may stay pending (`lib/h2/index.js:392`), and with them a handler or the end of
  `handleStream`; `drained()` on a stream that is already destroyed waits forever
  (`:530`). `GoneIsFinished` excuses both (`Abandoned`).
- HTTP/2: a deadline that fires between `deny()` and the stream's close calls
  `respond()` on a closed stream in a timer callback, where nothing catches what
  it throws (`:210`). `FaultOnlyAfterRefusal` bounds the case.
- HTTP/2: the Duplex of a tunnel stays open when its stream is reset with CANCEL,
  which emits no `error` (`:526`). HTTP/3: a tunnel that waits for the Duplex's
  `drain` does not hear of the stream's end (`lib/h3/index.js:445`).
- HTTP/3: a handler that returns after the 408 of the deadline was sent finds
  `sendHeaders()` refused and destroys the stream with its 408 (`:322`).
- The body of a Response is not cancelled where a bridge gives up before it reads
  it (`lib/h2/index.js:286`, `lib/h3/index.js:304`), nor where `writeResponse` throws
  before its head (`lib/h1/serializer.js:155`).
- HTTP/1.1: a Response without a body that has trailers announces them in a
  `trailer` field and never sends them (`lib/h1/serializer.js:169`).
- `README.md` has a duplicate Content-Length refused. The wrapper refuses values
  that differ (`lib/h1/parser.js:80`) and would take equal ones; these are refused by the
  vendored parser before that (`test/e2e-h1-security.test.js:160`), on which
  `AcceptedIsUnambiguous` rests.
- A response that announces `connection: close` because the server is shutting down is
  written while the pump may still have to wait for its request's body
  (`lib/h1/connection.js:588`). A pipelined request that comes with the rest of that body
  is queued, gets its 100 Continue (`:329`), and is then dropped unanswered.
- `REVIEW_REPORT.md` says that the absence of trailers is resolved from stream
  closure; the code resolves it a turn after the end of the body
  (`lib/h2/index.js:389`, `lib/h3/index.js:149`).

## Not modelled

Header values, request targets and the text of heads; the WASM memory of the
parser wrapper and the vendored parser; node's net, tls, http2 and quic below
the behaviour named above; `maxConnections`, which node enforces; interim
responses on HTTP/2, which change nothing; GOAWAY; the write side of
`replayStream`, which passes everything on; diagnostics and the audit outcome of
a request; options validation; the WeakMap and name checks of trailers;
benchmarks and tests. `Server` and the modules of one connection or stream are not
composed: `Server` keeps of an exchange only that it begins, ends, outlives its
handler or is cut, and `initiateClose()` is in both `Server` and `H1Connection`.

## Plan

Done: all modules; every safety invariant, action property and refinement that a
passing run checks is proved. Next, in this order:

1. `Exchange_proofs`: what the abstract exchange promises by itself (an answer is never
   changed, a reset is final), which both bridges inherit through `Implements`.
2. The invariants that the liveness properties rest on, for every value of the
   constants: on a stream whose handler is awaited with a deadline set, the timer is
   armed (as `DeadlineRuns` says of HTTP/1.1); in `Server`, a close that is under
   way always has a next step that the event loop takes or waits for something named.
3. In `Ingress`: a paused socket always has a reader that owes it a resume.

None of these modules declares a RECURSIVE operator: numbers of digits are folded by
recursive functions.

Runs are merged where one instance answers several questions.
