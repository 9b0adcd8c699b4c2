----------------------------- MODULE H1Framing ------------------------------
(***************************************************************************)
(* Where an HTTP/1.1 message ends.  For a request: the facts the parser's  *)
(* callbacks derive from its header lines (lib/h1/parser.js) and what      *)
(* onHeaders makes of them (lib/h1/connection.js).  For a response:        *)
(* writeResponse (lib/h1/serializer.js), which announces a length or chunks*)
(* and must then send just that.                                           *)
(*                                                                         *)
(* Exchanges follow each other on one connection.  A body is a number of   *)
(* bytes.  Node's socket is external: a write may have to wait for 'drain'.*)
(***************************************************************************)
EXTENDS Integers, Sequences, FiniteSets

CONSTANTS
  Lines,      \* the header lines that requests have
  Lengths,    \* content-length values of responses: sequences of digits
  MaxSafe,    \* Number.MAX_SAFE_INTEGER
  MaxBody,    \* limits.maxRequestBodySize; 0 is no limit
  Chunks,     \* sizes of the chunks of a response body
  MaxLines,   \* bound: header lines of a request
  MaxSent     \* bound: bytes a response body has

\* A header line: the value of a host or content-length, the tokens of another.
NotADigit == 10
Names == {"host", "content-length", "transfer-encoding", "trailer", "connection", "expect"}
FramingNames == {"content-length", "host", "transfer-encoding"}
FORBIDDEN_TRAILER_FIELDS == FramingNames \cup
  {"connection", "keep-alive", "proxy-authenticate", "proxy-authorization", "te",
   "trailer", "upgrade"}

\* Splitting a value at its commas gives at least one token.
ASSUME LinesAssumption ==
  \A l \in Lines :
    /\ l.name \in Names
    /\ l.name = "content-length" => l.value \in Seq(0 .. NotADigit)
    /\ l.name \notin {"host", "content-length"} => l.value \in Seq(STRING) \ {<<>>}
ASSUME LengthsAssumption == \A v \in Lengths : v \in Seq(0 .. NotADigit)
ASSUME MaxSafeAssumption == MaxSafe \in Nat
ASSUME MaxBodyAssumption == MaxBody \in Nat
ASSUME ChunksAssumption == Chunks \subseteq Nat
ASSUME BoundsAssumption == MaxLines \in Nat /\ MaxSent \in Nat

VARIABLES
  facts,    \* the parser's message
  lines,    \* auxiliary: the header lines of the message
  verdict,  \* what onHeaders decided
  method,   \* of the request: "GET", "HEAD" or "POST", which stands for the others
  closes,   \* the connection ends after this response
  resp,     \* the Response
  out,      \* what was sent of it
  source,   \* its body
  step,     \* where the connection is in the exchange
  alive     \* the socket is not destroyed

framingVars ==
  <<facts, lines, verdict, method, closes, resp, out, source, step, alive>>
requestVars  == <<facts, lines, verdict, method, closes>>
responseVars == <<resp, out, source>>

\* emptyMessage()
EmptyMessage ==
  [hosts |-> 0, host |-> "", lengths |-> 0, first |-> <<>>, badLength |-> FALSE,
   conflict |-> FALSE, length |-> 0, encodings |-> 0, badEncoding |-> FALSE,
   chunked |-> FALSE, badTrailer |-> FALSE, nominates |-> FALSE,
   close |-> FALSE, expect |-> <<>>]

NoResponse ==
  [status |-> "none", body |-> FALSE, declares |-> FALSE, length |-> <<>>, trailers |-> FALSE]
NothingSent == [head |-> "none", sent |-> 0, terminal |-> FALSE]

FramingInit ==
  /\ facts = EmptyMessage /\ lines = <<>> /\ verdict = "none"
  /\ method = "GET" /\ closes = FALSE
  /\ resp = NoResponse /\ out = NothingSent /\ source = "none"
  /\ step = "headers" /\ alive = TRUE

\* The value of a sequence of digits, and whether it is one.
AllDigits(v) == v # <<>> /\ \A i \in 1 .. Len(v) : v[i] # NotADigit
Value(v) ==
  LET upTo[i \in 0 .. Len(v)] == IF i = 0 THEN 0 ELSE upTo[i - 1] * 10 + v[i]
  IN upTo[Len(v)]

-----------------------------------------------------------------------------
(* The request.                                                            *)

TokensOf(line) == {line.value[i] : i \in 1 .. Len(line.value)}

\* Mutant: a later value is compared with the number before it, not the text.
WithLength_ComparesNumbers(m, v) ==
  [m EXCEPT !.lengths = @ + 1,
            !.badLength = @ \/ ~AllDigits(v),
            !.conflict = @ \/ (m.lengths > 0 /\ AllDigits(v) /\ Value(v) # m.length),
            !.first = IF m.lengths = 0 THEN v ELSE @,
            !.length = IF AllDigits(v) THEN Value(v) ELSE 0]

\* A content-length line.  Values are compared as they are written; the number
\* is that of the last.
WithLength(m, v) ==
  [m EXCEPT !.lengths = @ + 1,
            !.badLength = @ \/ ~AllDigits(v),
            !.conflict = @ \/ (m.lengths > 0 /\ v # m.first),
            !.first = IF m.lengths = 0 THEN v ELSE @,
            !.length = IF AllDigits(v) THEN Value(v) ELSE 0]

\* on_header_value: the facts of message m with one more line.
WithLine(m, line) ==
  CASE line.name = "host" ->
         [m EXCEPT !.hosts = @ + 1, !.host = IF m.hosts = 0 THEN line.value ELSE @]
    [] line.name = "content-length" -> WithLength(m, line.value)
    [] line.name = "transfer-encoding" ->
         [m EXCEPT !.encodings = @ + Len(line.value),
                   !.badEncoding = @ \/ TokensOf(line) # {"chunked"},
                   !.chunked = @ \/ "chunked" \in TokensOf(line)]
    [] line.name = "trailer" ->
         [m EXCEPT !.badTrailer = @ \/ TokensOf(line) \cap FORBIDDEN_TRAILER_FIELDS # {}]
    [] line.name = "connection" ->
         [m EXCEPT !.close = @ \/ TokensOf(line) \cap {"close", "upgrade"} # {},
                   !.nominates = @ \/ TokensOf(line) \cap FramingNames # {}]
    [] line.name = "expect" ->
         [m EXCEPT !.expect = IF @ = <<"">> THEN line.value ELSE @ \o line.value]

Named(name) == {i \in 1 .. Len(lines) : lines[i].name = name}
Declared == {lines[i].value : i \in Named("content-length")}

\* A content-length line that says what an earlier one says.
Repeats(line) == line.name = "content-length" /\ line.value \in Declared

\* The vendored parser reads one more line; it does not pass on a length that
\* is given twice.
OnHeaderValue(line) ==
  /\ step = "headers" /\ alive /\ Len(lines) < MaxLines
  /\ ~Repeats(line)
  /\ facts' = WithLine(facts, line) /\ lines' = Append(lines, line)
  /\ UNCHANGED <<verdict, method, closes, responseVars, step, alive>>

\* feed finds that the parser has failed: it refuses a length given twice, and
\* may refuse another second one before the facts of it are asked for.
OnParseError(line) ==
  /\ step = "headers" /\ alive /\ Len(lines) < MaxLines
  /\ line.name = "content-length" /\ Declared # {}
  /\ lines' = Append(lines, line)
  /\ verdict' = "400" /\ step' = "over"
  /\ UNCHANGED <<facts, method, closes, responseVars, alive>>

HasBody(m) == m.chunked \/ m.length > 0

\* The refusals of onHeaders, in their order.
Verdict(m, bodyless) ==
  IF \/ m.hosts # 1 \/ m.host = "" \/ m.badLength \/ m.conflict
     \/ m.lengths > 0 /\ m.encodings > 0
     \/ m.encodings > 0 /\ (m.encodings # 1 \/ m.badEncoding)
     \/ m.badTrailer \/ m.nominates
  THEN "400"
  ELSE IF MaxBody > 0 /\ m.length > MaxBody THEN "413"
  ELSE IF m.expect \notin {<<>>, <<"">>, <<"100-continue">>} THEN "417"
  ELSE IF bodyless /\ HasBody(m) THEN "400"
  ELSE "accepted"

\* A method whose requests have no body.
Bodyless(m) == m \in {"GET", "HEAD"}

\* on_headers, for a request of method m.
OnHeaders(m) ==
  /\ step = "headers" /\ alive
  /\ verdict' = Verdict(facts, Bodyless(m))
  /\ method' = m /\ closes' = facts.close
  /\ step' = IF verdict' = "accepted" THEN "message" ELSE "over"
  /\ UNCHANGED <<facts, lines, responseVars, alive>>

\* on_message_complete
OnMessageComplete ==
  /\ step = "message"
  /\ facts' = EmptyMessage /\ lines' = <<>> /\ verdict' = "none"
  /\ step' = "respond"
  /\ UNCHANGED <<method, closes, responseVars, alive>>

-----------------------------------------------------------------------------
(* The response.                                                           *)

\* What a handler returns: its status is 204 or 304 ("bare"), 205 ("reset") or
\* another.  The Fetch standard gives the first three no body.
Responses ==
  {r \in [status : {"ok", "bare", "reset"}, body : BOOLEAN, declares : BOOLEAN,
          length : Lengths \cup {<<>>}, trailers : BOOLEAN] :
     /\ r.status # "ok" => ~r.body
     /\ ~r.declares => r.length = <<>>}

TooLarge == -1

\* One more digit: what parseContentLength makes of the number read so far.
Appended(n, digit) ==
  IF \/ n = TooLarge \/ digit = NotADigit
     \/ n > MaxSafe \div 10 \/ (n = MaxSafe \div 10 /\ digit > MaxSafe % 10)
  THEN TooLarge
  ELSE n * 10 + digit

\* parseContentLength: TooLarge stands for both of its errors.
ParseContentLength(v) ==
  LET upTo[i \in 0 .. Len(v)] == IF i = 0 THEN 0 ELSE Appended(upTo[i - 1], v[i])
  IN IF v = <<>> \/ (Len(v) > 1 /\ v[1] = 0) THEN TooLarge ELSE upTo[Len(v)]

Expected(r) == ParseContentLength(r.length)
OmitsBody(r) == method = "HEAD" \/ r.status # "ok"

\* writeResponse throws before its head: a length that is none, that a missing
\* body does not have, or that leaves no room for trailers.
Unserializable(r) ==
  \/ r.declares /\ Expected(r) = TooLarge
  \/ r.status # "bare" /\ ~r.body /\ method # "HEAD" /\ r.declares /\ Expected(r) # 0
  \/ r.body /\ r.declares /\ r.trailers

\* How the head frames the body.
Framing(r) ==
  CASE r.status = "bare" -> "bare"
    [] r.status # "bare" /\ r.body /\ ~r.declares -> "chunked"
    [] OTHER -> "length"

\* The connection is torn down under a response that failed.
Fail == step' = "over" /\ alive' = FALSE

\* A write was accepted; it may have to wait for 'drain'.
Goes(next, wait) == step' \in {next, wait} /\ UNCHANGED alive
Waits == {"headWait", "pumpWait", "doneWait"}

\* writeResponse up to its head.
WriteHead(r) ==
  /\ step = "respond" /\ alive
  /\ resp' = r
  /\ source' = IF r.body THEN "open" ELSE "none"
  /\ \/ Unserializable(r) /\ Fail /\ UNCHANGED out
     \/ /\ ~Unserializable(r)
        /\ out' = [NothingSent EXCEPT !.head = Framing(r)]
        /\ Goes("head", "headWait")
  /\ UNCHANGED requestVars

\* After the head: nothing more, or the body is cancelled, or it is read.
BodyBegins ==
  /\ step = "head"
  /\ \/ ~resp.body /\ step' = "done" /\ UNCHANGED source
     \/ resp.body /\ OmitsBody(resp) /\ step' = "done" /\ source' = "cancelled"
     \/ resp.body /\ ~OmitsBody(resp) /\ step' = "pump" /\ UNCHANGED source
  /\ UNCHANGED <<requestVars, resp, out, alive>>

TooLong(n) == resp.declares /\ n > Expected(resp)

\* A chunk that is not empty.  More than was declared is not sent.
WriteChunk(n) ==
  /\ step = "pump" /\ n > 0 /\ out.sent + n <= MaxSent
  /\ \/ /\ TooLong(out.sent + n) \/ ~alive
        /\ Fail /\ source' = "cancelled" /\ UNCHANGED out
     \/ /\ ~TooLong(out.sent + n) /\ alive
        /\ out' = [out EXCEPT !.sent = @ + n] /\ Goes("pump", "pumpWait")
        /\ UNCHANGED source
  /\ UNCHANGED <<requestVars, resp>>

\* Mutant: a body that is too short goes unnoticed.
TooShort_Never == FALSE

TooShort == resp.declares /\ out.sent # Expected(resp)

\* The source is read to its end; a chunked body ends with its trailers, whose
\* values may never come or not be those that were declared.
SourceEnds ==
  /\ step = "pump"
  /\ source' = "finished"
  /\ \/ TooShort /\ Fail /\ UNCHANGED out
     \/ ~TooShort /\ out.head = "length" /\ step' = "done" /\ UNCHANGED <<out, alive>>
     \/ /\ ~TooShort /\ out.head = "chunked" /\ alive
        /\ out' = [out EXCEPT !.terminal = TRUE] /\ Goes("done", "doneWait")
     \/ /\ ~TooShort /\ out.head = "chunked" /\ (~alive \/ resp.trailers)
        /\ Fail /\ UNCHANGED out
  /\ UNCHANGED <<requestVars, resp>>

SourceFails ==
  /\ step = "pump"
  /\ source' = "errored" /\ Fail
  /\ UNCHANGED <<requestVars, resp, out>>

\* 'drain'
Drain ==
  /\ step \in Waits /\ alive
  /\ step' = CASE step = "headWait" -> "head" [] step = "pumpWait" -> "pump"
               [] step = "doneWait" -> "done"
  /\ UNCHANGED <<requestVars, responseVars, alive>>

\* 'error' or 'close' while a write waits: the source is cancelled if it is
\* being read.
DrainFails ==
  /\ step \in Waits /\ ~alive
  /\ source' = IF step = "pumpWait" THEN "cancelled" ELSE source
  /\ Fail
  /\ UNCHANGED <<requestVars, resp, out>>

\* The end of the exchange, on a connection that goes on or not.
NextExchange ==
  /\ step = "done" /\ alive
  /\ \/ ~closes /\ step' = "headers" /\ out' = NothingSent
        /\ resp' = NoResponse /\ source' = "none"
     \/ closes /\ step' = "over" /\ UNCHANGED responseVars
  /\ UNCHANGED <<requestVars, alive>>

\* The socket is destroyed: by the client, a timeout, or the server.
SocketGone ==
  /\ alive /\ alive' = FALSE
  /\ UNCHANGED <<requestVars, responseVars, step>>

FramingNext ==
  \/ \E line \in Lines : OnHeaderValue(line) \/ OnParseError(line)
  \/ \E m \in {"GET", "HEAD", "POST"} : OnHeaders(m)
  \/ OnMessageComplete
  \/ \E r \in Responses : WriteHead(r)
  \/ BodyBegins \/ \E n \in Chunks : WriteChunk(n)
  \/ SourceEnds \/ SourceFails \/ Drain \/ DrainFails \/ NextExchange \/ SocketGone

-----------------------------------------------------------------------------
(* Properties.                                                             *)

\* The message's lines, read together, name one host and one end of the body,
\* and no line withdraws another.
Unambiguous ==
  /\ Cardinality(Named("host")) = 1 /\ \A i \in Named("host") : lines[i].value # ""
  /\ Cardinality(Named("content-length")) <= 1 /\ \A v \in Declared : AllDigits(v)
  /\ Declared # {} => Named("transfer-encoding") = {}
  /\ Cardinality(Named("transfer-encoding")) <= 1
  /\ \A i \in Named("transfer-encoding") : lines[i].value = <<"chunked">>
  /\ \A i \in Named("connection") : TokensOf(lines[i]) \cap FramingNames = {}
  /\ \A i \in Named("trailer") : TokensOf(lines[i]) \cap FORBIDDEN_TRAILER_FIELDS = {}

\* The lines give the message a body.
NamesBody ==
  Named("transfer-encoding") # {} \/ \E v \in Declared : Value(v) > 0

Asks == {lines[i].value : i \in Named("expect")}

\* README, "malformed framing is rejected rather than guessed" and "duplicate or
\* non-decimal Content-Length: 400", and the comment in on_headers: the facts are
\* those of this message and of all of its lines.  A request is refused with 400
\* when its lines are ambiguous - two lengths are, the same one twice too - and
\* else only a GET or a HEAD whose lines give it a body.  One that is accepted
\* has the length its lines give it.  Nothing of an earlier message counts.
AcceptedIsUnambiguous ==
  verdict # "none" =>
    /\ verdict \in {"accepted", "413", "417"} => Unambiguous
    /\ verdict = "accepted" =>
         /\ \A v \in Declared : facts.length = Value(v) /\ (MaxBody > 0 => Value(v) <= MaxBody)
         /\ facts.chunked <=> Named("transfer-encoding") # {}
         /\ Bodyless(method) => ~NamesBody
    /\ Unambiguous /\ verdict = "400" =>
         Bodyless(method) /\ NamesBody /\ Asks \subseteq {<<"">>, <<"100-continue">>}

\* What was sent is the body the head announces: never more than a declared
\* length, and when writeResponse resolves all of it.  A chunked body that was
\* cut short has no last chunk (README, "truncated framing rather than a falsely
\* complete response").
ResponseFramed ==
  /\ out.head = "length" /\ resp.declares =>
       /\ AllDigits(resp.length) /\ Value(resp.length) <= MaxSafe
       /\ out.sent <= Value(resp.length)
  /\ OmitsBody(resp) => out.sent = 0 /\ ~out.terminal
  /\ out.terminal => source = "finished"
  /\ step = "done" /\ ~OmitsBody(resp) =>
       CASE out.head = "length"  -> out.sent = (IF resp.declares THEN Value(resp.length) ELSE 0)
         [] out.head = "chunked" -> out.terminal
         [] out.head = "bare"    -> FALSE

=============================================================================
