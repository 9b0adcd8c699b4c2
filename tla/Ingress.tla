------------------------------ MODULE Ingress -------------------------------
(***************************************************************************)
(* What a client sends on a plain socket of the server, from the socket to *)
(* the backend that serves it: the sniff of the HTTP/2 preface and         *)
(* replayStream in lib/server.js, the remainder H1Parser.feed keeps in     *)
(* lib/h1/parser.js, and the bytes an HTTP/1.1 connection forwards to a    *)
(* tunnel in lib/h1/connection.js.                                         *)
(*                                                                         *)
(* A byte is its position in what the client sends.  A data event delivers *)
(* a first part of what has arrived, as TCP does.  Node's streams are      *)
(* external: a paused socket emits no data, and a Duplex asks for more by  *)
(* calling its read() once after each push().                              *)
(***************************************************************************)
EXTENDS Naturals, Sequences

CONSTANTS
  Preface,   \* bytes of H2_PREFACE
  HeadEnd,   \* bytes of the head of a CONNECT
  Window,    \* highWaterMark of the replaying Duplex, in bytes
  Detects,   \* headersTimeout: "armed", or "unset" when it is 0
  MaxBytes   \* bound: bytes a client sends

ASSUME PrefaceAssumption == Preface \in Nat \ {0}
ASSUME HeadEndAssumption == HeadEnd \in Nat /\ HeadEnd >= Preface
ASSUME WindowAssumption == Window \in Nat \ {0}
ASSUME DetectsAssumption == Detects \subseteq {"armed", "unset"}
ASSUME MaxBytesAssumption == MaxBytes \in Nat

VARIABLES
  serves,   \* the protocols of the server
  client,   \* how many bytes match the preface, whether it asks for a tunnel,
            \* the bytes it has sent, whether it has ended
  sock,     \* the socket: bytes that arrived, flowing, life
  owner,    \* who listens to it
  detect,   \* detectionTimer
  buf,      \* the bytes the sniff has consumed
  wrap,     \* replayStream: its readable buffer, and whether it was read
  pending,  \* what the parser has not consumed
  tunnel,   \* #tunnel: its state, its pending bytes, upstream waits for 'drain'
  got       \* the bytes the backend has, in the order it got them

ingressVars ==
  <<serves, client, sock, owner, detect, buf, wrap, pending, tunnel, got>>
given == <<serves, client>>
backendVars == <<wrap, pending, tunnel, got>>

IngressInit ==
  /\ serves \in SUBSET {"h1", "h2"} \ {{}}
  /\ client \in [match : 0 .. Preface, tunnels : BOOLEAN, sent : {0}, ended : {FALSE}]
  /\ client.tunnels => client.match < Preface
  /\ sock = [buffer |-> <<>>, flowing |-> TRUE, life |-> "open"]
  /\ owner = "none" /\ detect = "unset" /\ buf = <<>>
  /\ wrap = [queue |-> <<>>, reading |-> FALSE]
  /\ pending = <<>> /\ tunnel = [state |-> "none", queue |-> <<>>, full |-> FALSE]
  /\ got = <<>>

First(s, n) == SubSeq(s, 1, n)
From(s, n)  == SubSeq(s, n + 1, Len(s))

\* The socket after a data event of n bytes, after which it flows or is paused.
Emitted(n, flows) == [sock EXCEPT !.buffer = From(@, n), !.flowing = flows]

Gone(s) == [s EXCEPT !.life = "destroyed"]

-----------------------------------------------------------------------------
(* The client.                                                             *)

ClientSends ==
  /\ ~client.ended /\ client.sent < MaxBytes /\ sock.life = "open"
  /\ client' = [client EXCEPT !.sent = @ + 1]
  /\ sock' = [sock EXCEPT !.buffer = Append(@, client.sent + 1)]
  /\ UNCHANGED <<serves, owner, detect, buf, backendVars>>

ClientEnds ==
  /\ ~client.ended /\ sock.life = "open"
  /\ client' = [client EXCEPT !.ended = TRUE]
  /\ UNCHANGED <<serves, sock, owner, detect, buf, backendVars>>

-----------------------------------------------------------------------------
(* #onPlainSocket and its sniff.                                           *)

\* #onPlainSocket: without HTTP/2 there is nothing to detect.
OnPlainSocket ==
  /\ owner = "none" /\ sock.life = "open"
  /\ \/ "h2" \notin serves /\ owner' = "h1" /\ UNCHANGED detect
     \/ "h2" \in serves /\ owner' = "sniff" /\ detect' \in Detects
  /\ UNCHANGED <<given, sock, buf, backendVars>>

\* Mutant: what the sniff has consumed is put behind what follows it.
Unshifted_Pushes(s, bytes) == [s EXCEPT !.buffer = @ \o bytes]

\* socket.unshift()
Unshifted(s, bytes) == [s EXCEPT !.buffer = bytes \o @]

\* onData of the sniff, and route() once the bytes are decisive.
Sniff(n) ==
  LET b == buf \o First(sock.buffer, n)
      compared == IF Len(b) < Preface THEN Len(b) ELSE Preface
      s == Emitted(n, TRUE)
  IN /\ owner = "sniff"
     /\ \/ /\ compared <= client.match /\ Len(b) < Preface
           /\ buf' = b /\ sock' = s
           /\ UNCHANGED <<owner, detect, wrap>>
        \/ /\ compared <= client.match /\ Len(b) >= Preface
           /\ owner' = "h2" /\ wrap' = [queue |-> b, reading |-> FALSE]
           /\ detect' = "unset" /\ buf' = <<>> /\ sock' = s
        \/ /\ compared > client.match /\ "h1" \in serves
           /\ owner' = "h1" /\ sock' = Unshifted(s, b)
           /\ detect' = "unset" /\ buf' = <<>> /\ UNCHANGED wrap
        \/ /\ compared > client.match /\ "h1" \notin serves
           /\ sock' = Gone(s) /\ detect' = "unset" /\ buf' = b
           /\ UNCHANGED <<owner, wrap>>
     /\ UNCHANGED <<given, pending, tunnel, got>>

\* The preface does not come in time.
DetectionTimeout ==
  /\ detect = "armed" /\ sock.life = "open"
  /\ detect' = "unset" /\ sock' = Gone(sock)
  /\ UNCHANGED <<given, owner, buf, backendVars>>

-----------------------------------------------------------------------------
(* replayStream.                                                           *)

\* The socket's data are pushed; a full buffer pauses the socket.
Relay(n) ==
  LET q == wrap.queue \o First(sock.buffer, n)
  IN /\ owner = "h2"
     /\ wrap' = [queue |-> q, reading |-> FALSE]
     /\ sock' = Emitted(n, Len(q) < Window)
     /\ UNCHANGED <<given, owner, detect, buf, pending, tunnel, got>>

\* Mutant: the Duplex is not told that there is room again.
ReadsOn_Never(q) == FALSE

\* Node calls read() when there is room and no read() is under way.
ReadsOn(q) == ~wrap.reading /\ Len(q) < Window

\* The HTTP/2 session takes bytes; read() resumes the socket.
Take(n) ==
  LET q == From(wrap.queue, n)
  IN /\ owner = "h2" /\ n <= Len(wrap.queue) /\ sock.life # "destroyed"
     /\ got' = got \o First(wrap.queue, n)
     /\ wrap' = [queue |-> q, reading |-> wrap.reading \/ ReadsOn(q)]
     /\ sock' = [sock EXCEPT !.flowing = @ \/ ReadsOn(q)]
     /\ UNCHANGED <<given, owner, detect, buf, pending, tunnel>>

\* The session ends: the Duplex is destroyed, and the socket with it.
SessionEnds ==
  /\ owner = "h2" /\ sock.life # "destroyed"
  /\ sock' = Gone(sock)
  /\ UNCHANGED <<given, owner, detect, buf, backendVars>>

-----------------------------------------------------------------------------
(* The HTTP/1.1 connection: H1Parser.feed and the tunnel.                  *)

\* What feed() gives to the parser.
Fed(chunk) == pending \o chunk

\* Bytes of data the parser may consume: whole tokens, and none after the head
\* of a CONNECT.
Consumed(data) ==
  IF client.tunnels /\ Len(got) + Len(data) >= HeadEnd
  THEN {HeadEnd - Len(got)} ELSE 0 .. Len(data)

\* onSocketData up to the end of feed(), and for a CONNECT takePending() and
\* beginConnect() up to its await.
\* The connection may pause the socket for its own reasons; input that does not
\* parse, and a CONNECT that nobody handles, end it.
Feed(n) ==
  LET data == Fed(First(sock.buffer, n))
  IN /\ owner = "h1" /\ tunnel.state = "none"
     /\ \E c \in Consumed(data) :
          LET rest == From(data, c)
              connects == client.tunnels /\ Len(got) + c = HeadEnd
          IN /\ got' = got \o First(data, c)
             /\ \/ ~connects /\ pending' = rest /\ UNCHANGED tunnel
                   /\ \E flows \in BOOLEAN : sock' = Emitted(n, flows)
                \/ connects /\ pending' = <<>>
                   /\ tunnel' = [state |-> "connecting", queue |-> rest, full |-> FALSE]
                   /\ sock' = Emitted(n, FALSE)
                \/ pending' = rest /\ UNCHANGED tunnel
                   /\ sock' = [Emitted(n, TRUE) EXCEPT !.life = "ended"]
     /\ UNCHANGED <<given, owner, detect, buf, wrap>>

\* The pump or the reader of an earlier request's body resumes the socket.
Resume ==
  /\ owner = "h1" /\ ~sock.flowing /\ sock.life = "open"
  /\ sock' = [sock EXCEPT !.flowing = TRUE]
  /\ UNCHANGED <<given, owner, detect, buf, backendVars>>

\* connect() settles with a Duplex, which gets what is pending first, or with
\* anything else, which ends the connection.
ConnectReturns ==
  /\ tunnel.state = "connecting" /\ sock.life = "open"
  /\ \/ /\ got' = got \o tunnel.queue
        /\ tunnel' = [state |-> "open", queue |-> <<>>, full |-> FALSE]
        /\ sock' = [sock EXCEPT !.flowing = TRUE]
     \/ /\ tunnel' = [tunnel EXCEPT !.state = "refused"]
        /\ sock' = [sock EXCEPT !.life = "ended"] /\ UNCHANGED got
  /\ UNCHANGED <<given, owner, detect, buf, wrap, pending>>

\* #forwardTunnelData; upstream.write() may answer false.
Forward(n) ==
  LET chunk == First(sock.buffer, n)
  IN /\ owner = "h1" /\ tunnel.state \in {"connecting", "open"}
     /\ \/ /\ tunnel.state = "connecting"
           /\ tunnel' = [tunnel EXCEPT !.queue = @ \o chunk]
           /\ sock' = Emitted(n, TRUE) /\ UNCHANGED got
        \/ /\ tunnel.state = "open"
           /\ got' = got \o chunk
           /\ \E full \in BOOLEAN :
                /\ tunnel' = [tunnel EXCEPT !.full = @ \/ full]
                /\ sock' = Emitted(n, ~full)
     /\ UNCHANGED <<given, owner, detect, buf, wrap, pending>>

\* 'drain' of the upstream.
UpstreamDrain ==
  /\ tunnel.full /\ sock.life = "open"
  /\ tunnel' = [tunnel EXCEPT !.full = FALSE]
  /\ sock' = [sock EXCEPT !.flowing = TRUE]
  /\ UNCHANGED <<given, owner, detect, buf, wrap, pending, got>>

-----------------------------------------------------------------------------
(* The socket.                                                             *)

\* 'data'
Data ==
  /\ sock.flowing /\ sock.life = "open"
  /\ \E n \in 1 .. Len(sock.buffer) : Sniff(n) \/ Relay(n) \/ Feed(n) \/ Forward(n)

\* 'end', when all data were read: the sniff gives up, a backend ends its side.
End ==
  /\ client.ended /\ sock.buffer = <<>> /\ sock.life = "open"
  /\ \/ owner = "sniff" /\ sock' = Gone(sock)
     \/ owner \in {"h1", "h2"} /\ sock' = [sock EXCEPT !.life = "ended"]
  /\ UNCHANGED <<given, owner, detect, buf, backendVars>>

\* 'close', after both sides have ended or at any time; it destroys the Duplex.
Close ==
  /\ sock.life # "destroyed"
  /\ sock' = Gone(sock)
  /\ UNCHANGED <<given, owner, detect, buf, backendVars>>

Backend ==
  \/ \E n \in 1 .. MaxBytes : Take(n)
  \/ SessionEnds \/ Resume \/ ConnectReturns \/ UpstreamDrain

IngressNext ==
  \/ ClientSends \/ ClientEnds
  \/ OnPlainSocket \/ DetectionTimeout \/ Data \/ End \/ Close
  \/ Backend

(* Fairness: node emits what a flowing socket has, timers fire.            *)
IngressFairness ==
  /\ WF_ingressVars(OnPlainSocket) /\ WF_ingressVars(Data)
  /\ WF_ingressVars(DetectionTimeout)

-----------------------------------------------------------------------------
(* Properties.                                                             *)

UpTo(n) == [i \in 1 .. n |-> i]

\* Every byte is somewhere, once and in its place: with the backend, or on the
\* way to it, also across the change of owner and the opening of a tunnel.
BytesInOrder ==
  /\ got = UpTo(Len(got))
  /\ sock.life = "open" =>
       got \o pending \o tunnel.queue \o wrap.queue \o buf \o sock.buffer
         = UpTo(client.sent)

\* Whenever the client is silent for long enough the backend has all it sent, if
\* backends do their part: no socket stays paused.  The parser may keep the first
\* part of a token, and without headersTimeout the sniff waits for the rest of
\* the preface.
BackendFairness ==
  /\ WF_ingressVars(\E n \in 1 .. MaxBytes : Take(n)) /\ WF_ingressVars(ConnectReturns)
  /\ WF_ingressVars(UpstreamDrain) /\ WF_ingressVars(tunnel.state = "none" /\ Resume)
CaughtUp ==
  \/ Len(got) + Len(pending) = client.sent
  \/ owner = "sniff" /\ detect = "unset" /\ Len(buf) = client.sent
BytesArrive == BackendFairness => []<>(CaughtUp \/ sock.life # "open")

=============================================================================
