--------------------------- MODULE Ingress_proofs ---------------------------
(***************************************************************************)
(* No byte of a client is lost, doubled or reordered on its way to the     *)
(* backend: for any preface, window and head, and any number of bytes.     *)
(***************************************************************************)
EXTENDS Ingress, TLAPS

S == INSTANCE SequenceTheorems

IngressSpec == IngressInit /\ [][IngressNext]_ingressVars

Bytes == Seq(Nat)

Socks == [buffer : Bytes, flowing : BOOLEAN, life : {"open", "ended", "destroyed"}]
Wraps == [queue : Bytes, reading : BOOLEAN]
Tunnels ==
  [state : {"none", "connecting", "open", "refused"}, queue : Bytes, full : BOOLEAN]
Clients == [match : 0 .. Preface, tunnels : BOOLEAN, sent : Nat, ended : BOOLEAN]

-----------------------------------------------------------------------------
(* Sequences of bytes.                                                     *)

\* A sequence is its first part followed by the rest.
LEMMA Split ==
  ASSUME NEW s \in Bytes, NEW n \in 0 .. Len(s)
  PROVE  /\ First(s, n) \in Bytes /\ From(s, n) \in Bytes
         /\ First(s, n) \o From(s, n) = s
         /\ Len(First(s, n)) = n
<1>1. Len(s) \in Nat /\ \A i \in 1 .. Len(s) : s[i] \in Nat
  BY S!LenProperties, S!ElementOfSeq DEF Bytes
<1>2. First(s, n) \in Bytes /\ Len(First(s, n)) = n
  BY <1>1, S!SubSeqProperties DEF First, Bytes
<1>3. From(s, n) \in Bytes
  BY <1>1, S!SubSeqProperties DEF From, Bytes
<1>4. First(s, n) \o From(s, n) = s
  <2>0. /\ s \in Seq(Nat) /\ 1 \in 1 .. Len(s) + 1 /\ n \in 1 - 1 .. Len(s)
        /\ Len(s) \in n .. Len(s)
    BY <1>1 DEF Bytes
  <2>1. SubSeq(s, 1, n) \o SubSeq(s, n + 1, Len(s)) = SubSeq(s, 1, Len(s))
    BY <2>0, S!ConcatAdjacentSubSeq, Zenon
  <2>2. SubSeq(s, 1, Len(s)) = s
    BY S!SubSeqFull DEF Bytes
  <2>. QED BY <2>1, <2>2 DEF First, From
<1>. QED BY <1>2, <1>3, <1>4

LEMMA Concat ==
  ASSUME NEW s \in Bytes, NEW t \in Bytes
  PROVE  s \o t \in Bytes /\ Len(s \o t) = Len(s) + Len(t)
  BY S!ConcatProperties DEF Bytes

LEMMA Assoc ==
  ASSUME NEW s \in Bytes, NEW t \in Bytes, NEW u \in Bytes
  PROVE  (s \o t) \o u = s \o (t \o u)
  BY S!ConcatAssociative, SMTT(30) DEF Bytes

LEMMA Empty ==
  /\ <<>> \in Bytes /\ Len(<<>>) = 0
  /\ \A s \in Bytes : s \o <<>> = s /\ <<>> \o s = s /\ Len(s) \in Nat
  BY S!EmptySeq, S!ConcatEmptySeq, S!LenProperties DEF Bytes

LEMMA Snoc ==
  ASSUME NEW s \in Bytes, NEW e \in Nat
  PROVE  <<e>> \in Bytes /\ Append(s, e) = s \o <<e>>
<1>1. s \in Seq(Nat) /\ \A i \in {e} : i \in Nat
  BY DEF Bytes
<1>2. Append(s, e) = s \o <<e>>
  BY <1>1, S!AppendIsConcat, Zenon
<1>. QED BY <1>2 DEF Bytes

\* The bytes of a client, and what they grow by.
LEMMA UpToGrows ==
  ASSUME NEW n \in Nat
  PROVE  /\ UpTo(n) \in Bytes /\ Len(UpTo(n)) = n
         /\ Append(UpTo(n), n + 1) = UpTo(n + 1)
<1>1. UpTo(n) \in Bytes /\ Len(UpTo(n)) = n /\ UpTo(n + 1) \in Bytes /\ Len(UpTo(n + 1)) = n + 1
  BY DEF UpTo, Bytes
<1>2. /\ Append(UpTo(n), n + 1) \in Bytes /\ Len(Append(UpTo(n), n + 1)) = n + 1
      /\ \A i \in 1 .. n : Append(UpTo(n), n + 1)[i] = UpTo(n)[i]
      /\ Append(UpTo(n), n + 1)[n + 1] = n + 1
  BY <1>1, S!AppendProperties DEF Bytes
<1>3. \A i \in 1 .. n + 1 : Append(UpTo(n), n + 1)[i] = UpTo(n + 1)[i]
  BY <1>2 DEF UpTo
<1>. QED BY <1>1, <1>2, <1>3, S!SeqEqual DEF Bytes

\* A first part of a client's bytes is in order too.
LEMMA UpToPrefix ==
  ASSUME NEW g \in Bytes, NEW r \in Bytes, NEW n \in Nat, g \o r = UpTo(n)
  PROVE  g = UpTo(Len(g))
<1>0. Len(g) \in Nat /\ Len(r) \in Nat
  BY Empty
<1>1. Len(g) + Len(r) = n
  BY Concat, UpToGrows, ZenonT(60)
<1>2. \A i \in 1 .. Len(g) : g[i] = UpTo(n)[i]
  <2>1. \A i \in 1 .. Len(g) + Len(r) :
          (g \o r)[i] = IF i <= Len(g) THEN g[i] ELSE r[i - Len(g)]
    BY S!ConcatProperties DEF Bytes
  <2>. QED BY <1>0, <2>1
<1>3. \A i \in 1 .. Len(g) : g[i] = UpTo(Len(g))[i]
  <2>1. \A i \in 1 .. n : UpTo(n)[i] = i
    BY DEF UpTo
  <2>2. \A i \in 1 .. Len(g) : UpTo(Len(g))[i] = i
    BY DEF UpTo
  <2>. QED BY <1>0, <1>1, <1>2, <2>1, <2>2
<1>4. UpTo(Len(g)) \in Bytes /\ Len(UpTo(Len(g))) = Len(g)
  BY <1>0, UpToGrows
<1>. QED BY <1>3, <1>4, S!SeqEqual DEF Bytes

\* A data event moves the first bytes of the socket to the end of a queue.
LEMMA InPlace ==
  ASSUME NEW g \in Bytes, NEW m \in Bytes, NEW s \in Bytes, NEW n \in 0 .. Len(s)
  PROVE  (g \o (m \o First(s, n))) \o From(s, n) = (g \o m) \o s
<1>. DEFINE a == First(s, n)
            b == From(s, n)
<1>1. a \in Bytes /\ b \in Bytes /\ a \o b = s
  BY Split
<1>. HIDE DEF a, b
<1>2. m \o a \in Bytes /\ g \o m \in Bytes
  BY <1>1, Concat
<1>3. g \o (m \o a) = (g \o m) \o a
  BY <1>1, Assoc, SMTT(30)
<1>4. ((g \o m) \o a) \o b = (g \o m) \o (a \o b)
  <2>1. ASSUME NEW x \in Bytes PROVE (x \o a) \o b = x \o (a \o b)
    BY <1>1, Assoc, ZenonT(60)
  <2>. QED BY <1>2, <2>1
<1>5. (g \o (m \o a)) \o b = (g \o m) \o s
  BY <1>1, <1>3, <1>4
<1>. QED BY <1>5 DEF a, b

LEMMA Moves ==
  ASSUME NEW m \in Bytes, NEW s \in Bytes, NEW n \in 0 .. Len(s)
  PROVE  m \o First(s, n) \in Bytes /\ From(s, n) \in Bytes
<1>1. First(s, n) \in Bytes /\ From(s, n) \in Bytes
  BY Split
<1>. QED BY <1>1, Concat

\* A backend takes the first bytes of a queue.
LEMMA Eats ==
  ASSUME NEW g \in Bytes, NEW q \in Bytes, NEW n \in 0 .. Len(q)
  PROVE  /\ g \o First(q, n) \in Bytes /\ From(q, n) \in Bytes
         /\ (g \o First(q, n)) \o From(q, n) = g \o q
         /\ Len(g \o First(q, n)) = Len(g) + n
<1>1. /\ First(q, n) \in Bytes /\ From(q, n) \in Bytes /\ First(q, n) \o From(q, n) = q
      /\ Len(First(q, n)) = n
  BY Split
<1>2. (g \o First(q, n)) \o From(q, n) = g \o (First(q, n) \o From(q, n))
  BY <1>1, Assoc
<1>. QED BY <1>1, <1>2, Concat


-----------------------------------------------------------------------------
(* The invariant.                                                          *)

Types ==
  /\ client \in Clients /\ sock \in Socks /\ wrap \in Wraps /\ tunnel \in Tunnels
  /\ owner \in {"none", "sniff", "h1", "h2"}
  /\ buf \in Bytes /\ pending \in Bytes /\ got \in Bytes

\* Each owner has one place for the bytes it took from the socket and did not
\* hand on; the others are empty.
Where ==
  /\ owner # "sniff" => buf = <<>>
  /\ owner # "h2" => wrap.queue = <<>>
  /\ owner # "h1" => pending = <<>> /\ tunnel.state = "none"
  /\ owner \in {"none", "sniff"} => got = <<>>
  /\ tunnel.state \in {"none", "open"} => tunnel.queue = <<>>
  /\ tunnel.state # "none" => pending = <<>>

\* The parser hands on no byte past the head of a CONNECT.
HeadFirst ==
  client.tunnels /\ owner # "h2" /\ tunnel.state = "none" => Len(got) <= HeadEnd

\* That place.
Middle ==
  IF owner = "h2" THEN wrap.queue
  ELSE IF owner = "sniff" THEN buf
  ELSE IF tunnel.state = "none" THEN pending ELSE tunnel.queue

\* With it, nothing is missing and everything is in order until the socket is
\* destroyed; what the backend has stays in order after that.
Carried ==
  /\ sock.life # "destroyed" => (got \o Middle) \o sock.buffer = UpTo(client.sent)
  /\ got = UpTo(Len(got))

IInv == Types /\ Where /\ HeadFirst /\ Carried

\* Where all places but one are empty the whole is what is in that one.
LEMMA Gathered ==
  ASSUME NEW g \in Bytes, NEW p \in Bytes, NEW t \in Bytes, NEW w \in Bytes,
         NEW b \in Bytes, NEW s \in Bytes
  PROVE  /\ t = <<>> /\ w = <<>> /\ b = <<>> => g \o p \o t \o w \o b \o s = (g \o p) \o s
         /\ p = <<>> /\ w = <<>> /\ b = <<>> => g \o p \o t \o w \o b \o s = (g \o t) \o s
         /\ p = <<>> /\ t = <<>> /\ b = <<>> => g \o p \o t \o w \o b \o s = (g \o w) \o s
         /\ p = <<>> /\ t = <<>> /\ w = <<>> => g \o p \o t \o w \o b \o s = (g \o b) \o s
<1>1. /\ g \o p \in Bytes /\ g \o t \in Bytes /\ g \o w \in Bytes /\ g \o b \in Bytes
      /\ g \o <<>> = g /\ (g \o p) \o <<>> = g \o p /\ (g \o t) \o <<>> = g \o t
      /\ (g \o w) \o <<>> = g \o w
  BY Concat, Empty
<1>. QED BY <1>1

LEMMA MiddleType == Types => Middle \in Bytes
  BY DEF Types, Middle, Wraps, Tunnels

\* The invariant is what the run checks, and more.
LEMMA IInvImplies == IInv => BytesInOrder
<1>. SUFFICES ASSUME IInv PROVE BytesInOrder
  OBVIOUS
<1>1. got = UpTo(Len(got))
  BY DEF IInv, Carried
<1>2. ASSUME sock.life = "open"
      PROVE  got \o pending \o tunnel.queue \o wrap.queue \o buf \o sock.buffer
               = UpTo(client.sent)
  <2>1. /\ got \in Bytes /\ pending \in Bytes /\ tunnel.queue \in Bytes
        /\ wrap.queue \in Bytes /\ buf \in Bytes /\ sock.buffer \in Bytes
    BY DEF IInv, Types, Tunnels, Wraps, Socks
  <2>2. (got \o Middle) \o sock.buffer = UpTo(client.sent)
    BY <1>2 DEF IInv, Carried
  <2>3. CASE owner = "h2"
    <3>1. pending = <<>> /\ tunnel.queue = <<>> /\ buf = <<>>
          /\ Middle = wrap.queue
      BY <2>3 DEF IInv, Where, Middle
    <3>2. got \o pending \o tunnel.queue \o wrap.queue \o buf \o sock.buffer
            = (got \o wrap.queue) \o sock.buffer
      BY <2>1, <3>1, Gathered
    <3>. QED BY <2>2, <3>1, <3>2
  <2>4. CASE owner = "sniff"
    <3>1. pending = <<>> /\ tunnel.queue = <<>> /\ wrap.queue = <<>>
          /\ Middle = buf
      BY <2>4 DEF IInv, Where, Middle
    <3>2. got \o pending \o tunnel.queue \o wrap.queue \o buf \o sock.buffer
            = (got \o buf) \o sock.buffer
      BY <2>1, <3>1, Gathered
    <3>. QED BY <2>2, <3>1, <3>2
  <2>5. CASE owner \in {"none", "h1"} /\ tunnel.state = "none"
    <3>1. tunnel.queue = <<>> /\ wrap.queue = <<>> /\ buf = <<>>
          /\ Middle = pending
      BY <2>5 DEF IInv, Where, Middle
    <3>2. got \o pending \o tunnel.queue \o wrap.queue \o buf \o sock.buffer
            = (got \o pending) \o sock.buffer
      BY <2>1, <3>1, Gathered
    <3>. QED BY <2>2, <3>1, <3>2
  <2>6. CASE owner \in {"none", "h1"} /\ tunnel.state # "none"
    <3>1. pending = <<>> /\ wrap.queue = <<>> /\ buf = <<>>
          /\ Middle = tunnel.queue
      BY <2>6 DEF IInv, Where, Middle
    <3>2. got \o pending \o tunnel.queue \o wrap.queue \o buf \o sock.buffer
            = (got \o tunnel.queue) \o sock.buffer
      BY <2>1, <3>1, Gathered
    <3>. QED BY <2>2, <3>1, <3>2
  <2>. QED BY <2>3, <2>4, <2>5, <2>6 DEF IInv, Types
<1>. QED BY <1>1, <1>2 DEF BytesInOrder

-----------------------------------------------------------------------------
(* What a step does to the fields of the socket.                           *)

LEMMA EmittedFields ==
  ASSUME sock \in Socks, NEW n \in 0 .. Len(sock.buffer), NEW flows \in BOOLEAN
  PROVE  /\ Emitted(n, flows) \in Socks /\ Emitted(n, flows).life = sock.life
         /\ Emitted(n, flows).buffer = From(sock.buffer, n)
<1>1. From(sock.buffer, n) \in Bytes
  BY Split DEF Socks
<1>. QED BY <1>1 DEF Emitted, Socks

LEMMA GoneFields ==
  ASSUME NEW s \in Socks
  PROVE  Gone(s) \in Socks /\ Gone(s).life = "destroyed" /\ Gone(s).buffer = s.buffer
  BY DEF Gone, Socks

LEMMA UnshiftedFields ==
  ASSUME NEW s \in Socks, NEW b \in Bytes
  PROVE  /\ Unshifted(s, b) \in Socks /\ Unshifted(s, b).life = s.life
         /\ Unshifted(s, b).buffer = b \o s.buffer
<1>1. b \o s.buffer \in Bytes
  BY Concat DEF Socks
<1>. QED BY <1>1 DEF Unshifted, Socks

LEMMA LifeFields ==
  ASSUME NEW s \in Socks
  PROVE  /\ [s EXCEPT !.life = "ended"] \in Socks
         /\ [s EXCEPT !.life = "ended"].life = "ended"
         /\ [s EXCEPT !.life = "ended"].buffer = s.buffer
  BY DEF Socks

LEMMA FlowingFields ==
  ASSUME NEW s \in Socks, NEW f \in BOOLEAN, NEW t, t = [s EXCEPT !.flowing = f]
  PROVE  t \in Socks /\ t.life = s.life /\ t.buffer = s.buffer
  BY DEF Socks

\* A step that moves no bytes, and brings no socket back to life.
LEMMA Kept ==
  ASSUME IInv, UNCHANGED <<buf, wrap, pending, tunnel, got>>, client' \in Clients,
         client'.sent = client.sent, client'.tunnels = client.tunnels,
         \/ UNCHANGED owner
         \/ owner = "none" /\ owner' \in {"sniff", "h1"},
         sock' \in Socks, sock'.buffer = sock.buffer,
         sock'.life # "destroyed" => sock.life # "destroyed"
  PROVE  IInv'
<1>1. Types' /\ Where' /\ HeadFirst'
  BY DEF IInv, Types, Where, HeadFirst
<1>2. Middle' = Middle
  BY DEF IInv, Middle, Where
<1>. QED BY <1>1, <1>2 DEF IInv, Carried

\* A step that moves bytes on their way keeps their order.
LEMMA CarriedOn ==
  ASSUME Types, Carried, Types', UNCHANGED client, sock.life # "destroyed",
         (got' \o Middle') \o sock'.buffer = (got \o Middle) \o sock.buffer
  PROVE  Carried'
<1>1. (got' \o Middle') \o sock'.buffer = UpTo(client.sent) /\ client.sent \in Nat
  BY DEF Carried, Types, Clients
<1>2. got' \in Bytes /\ Middle' \in Bytes /\ sock'.buffer \in Bytes
  BY DEF Types, Middle, Wraps, Tunnels, Socks
<1>3. Middle' \o sock'.buffer \in Bytes
      /\ got' \o (Middle' \o sock'.buffer) = UpTo(client.sent)
  BY <1>1, <1>2, Concat, Assoc, ZenonT(60)
<1>4. got' = UpTo(Len(got'))
  BY <1>1, <1>2, <1>3, UpToPrefix
<1>. QED BY <1>1, <1>4 DEF Carried

-----------------------------------------------------------------------------
(* The steps.                                                              *)

LEMMA InitCarries == IngressInit => IInv
<1>. SUFFICES ASSUME IngressInit PROVE IInv
  OBVIOUS
<1>1. Types
  BY Empty DEF IngressInit, Types, Clients, Socks, Wraps, Tunnels
<1>2. Where /\ HeadFirst
  BY Empty, HeadEndAssumption DEF IngressInit, Where, HeadFirst
<1>3. UpTo(0) = <<>>
  BY DEF UpTo
<1>4. Carried
  BY <1>3, Empty DEF IngressInit, Carried, Middle
<1>. QED BY <1>1, <1>2, <1>4 DEF IInv

\* The client adds the next byte at the end.
LEMMA ClientSendsCarries == IInv /\ ClientSends => IInv'
<1>. SUFFICES ASSUME IInv, ClientSends PROVE IInv'
  OBVIOUS
<1>0. /\ client \in Clients /\ sock \in Socks /\ client.sent \in Nat
      /\ sock.buffer \in Bytes /\ got \in Bytes /\ Middle \in Bytes
  BY MiddleType DEF IInv, Types, Clients, Socks
<1>1. /\ client' = [client EXCEPT !.sent = @ + 1]
      /\ sock' = [sock EXCEPT !.buffer = Append(@, client.sent + 1)]
      /\ UNCHANGED <<owner, buf, wrap, pending, tunnel, got>> /\ sock.life = "open"
  BY DEF ClientSends, backendVars
<1>2. Append(sock.buffer, client.sent + 1) \in Bytes
  BY <1>0, S!AppendProperties DEF Bytes
<1>3. /\ client' \in Clients /\ client'.sent = client.sent + 1
      /\ client'.tunnels = client.tunnels
  BY <1>0, <1>1 DEF Clients
<1>4. /\ sock' \in Socks /\ sock'.life = "open"
      /\ sock'.buffer = Append(sock.buffer, client.sent + 1)
  BY <1>0, <1>1, <1>2 DEF Socks
<1>5. Types' /\ Where' /\ HeadFirst' /\ Middle' = Middle
  BY <1>1, <1>3, <1>4 DEF IInv, Types, Where, HeadFirst, Middle
<1>6. (got \o Middle) \o sock'.buffer = UpTo(client'.sent)
  <2>. DEFINE e == <<client.sent + 1>>
              x == got \o Middle
  <2>1. x \in Bytes /\ e \in Bytes
    BY <1>0, Concat, Snoc
  <2>2. x \o sock.buffer = UpTo(client.sent) /\ x \o sock.buffer \in Bytes
    BY <1>0, <1>1, <2>1, Concat DEF IInv, Carried
  <2>3. sock'.buffer = sock.buffer \o e
    <3>1. client.sent + 1 \in Nat
      BY <1>0
    <3>. QED BY <1>0, <1>4, <3>1, Snoc
  <2>4. UpTo(client.sent + 1) = UpTo(client.sent) \o e
    <3>1. ASSUME NEW k \in Nat PROVE UpTo(k + 1) = UpTo(k) \o <<k + 1>>
      <4>1. UpTo(k) \in Bytes /\ Append(UpTo(k), k + 1) = UpTo(k + 1)
        BY UpToGrows, Zenon
      <4>2. k + 1 \in Nat
        OBVIOUS
      <4>. QED BY <4>1, <4>2, Snoc, Zenon
    <3>. QED BY <1>0, <3>1
  <2>. HIDE DEF e, x
  <2>5. x \o (sock.buffer \o e) = (x \o sock.buffer) \o e
    BY <1>0, <2>1, Assoc, ZenonT(60)
  <2>. QED BY <1>3, <2>2, <2>3, <2>4, <2>5 DEF x
<1>7. Carried'
  BY <1>1, <1>5, <1>6 DEF IInv, Carried
<1>. QED BY <1>5, <1>7 DEF IInv

\* A step that takes n bytes from the socket to the end of the one place.
LEMMA TakenIn ==
  ASSUME Types, Carried, Types', UNCHANGED <<client, got>>, sock.life # "destroyed",
         NEW n \in 0 .. Len(sock.buffer),
         Middle' = Middle \o First(sock.buffer, n),
         sock'.buffer = From(sock.buffer, n)
  PROVE  Carried'
<1>1. got \in Bytes /\ Middle \in Bytes /\ sock.buffer \in Bytes
  BY MiddleType DEF Types, Socks
<1>2. (got \o (Middle \o First(sock.buffer, n))) \o From(sock.buffer, n)
        = (got \o Middle) \o sock.buffer
  BY <1>1, InPlace, ZenonT(60)
<1>3. (got' \o Middle') \o sock'.buffer = (got \o Middle) \o sock.buffer
  BY <1>2
<1>. QED BY <1>3, CarriedOn

LEMMA ClientEndsCarries == IInv /\ ClientEnds => IInv'
<1>. SUFFICES ASSUME IInv, ClientEnds PROVE IInv'
  OBVIOUS
<1>1. client \in Clients /\ sock \in Socks
  BY DEF IInv, Types
<1>2. /\ client' = [client EXCEPT !.ended = TRUE]
      /\ UNCHANGED <<sock, owner, buf, wrap, pending, tunnel, got>>
  BY DEF ClientEnds, backendVars
<1>3. client' \in Clients /\ client'.sent = client.sent /\ client'.tunnels = client.tunnels
  BY <1>1, <1>2 DEF Clients
<1>. QED BY <1>1, <1>2, <1>3, Kept

\* The steps that leave the bytes where they are.
LEMMA StillCarries ==
  /\ IInv /\ OnPlainSocket => IInv'
  /\ IInv /\ DetectionTimeout => IInv'
  /\ IInv /\ SessionEnds => IInv'
  /\ IInv /\ Resume => IInv'
  /\ IInv /\ End => IInv'
  /\ IInv /\ Close => IInv'
<1>. SUFFICES ASSUME IInv,
                     \/ OnPlainSocket \/ DetectionTimeout \/ SessionEnds
                     \/ Resume \/ End \/ Close
              PROVE  IInv'
  OBVIOUS
<1>1. client \in Clients /\ sock \in Socks
  BY DEF IInv, Types
<1>2. UNCHANGED <<client, buf, wrap, pending, tunnel, got>>
  BY DEF OnPlainSocket, DetectionTimeout, SessionEnds, Resume, End, Close,
         given, backendVars
<1>3. owner' = owner \/ (owner = "none" /\ owner' \in {"sniff", "h1"})
  <2>1. CASE OnPlainSocket
    BY <2>1 DEF OnPlainSocket
  <2>2. CASE DetectionTimeout \/ SessionEnds \/ Resume \/ End \/ Close
    <3>1. owner' = owner
      BY <2>2 DEF DetectionTimeout, SessionEnds, Resume, End, Close
    <3>. QED BY <3>1
  <2>. QED BY <2>1, <2>2
<1>4. \/ UNCHANGED sock
      \/ sock' = Gone(sock)
      \/ sock' = [sock EXCEPT !.flowing = TRUE]
      \/ sock' = [sock EXCEPT !.life = "ended"] /\ sock.life = "open"
  BY DEF OnPlainSocket, DetectionTimeout, SessionEnds, Resume, End, Close
<1>5. /\ sock' \in Socks /\ sock'.buffer = sock.buffer
      /\ sock'.life # "destroyed" => sock.life # "destroyed"
  BY <1>1, <1>4, GoneFields, LifeFields, FlowingFields, ZenonT(60)
<1>6. client' \in Clients /\ client'.sent = client.sent /\ client'.tunnels = client.tunnels
  BY <1>1, <1>2
<1>. QED BY <1>2, <1>3, <1>5, <1>6, Kept

\* The sniff keeps what it reads, and hands it to the Duplex or puts it back.
LEMMA SniffCarries ==
  ASSUME IInv, sock.life = "open", NEW n \in 0 .. Len(sock.buffer), Sniff(n)
  PROVE  IInv'
<1>. DEFINE b == buf \o First(sock.buffer, n)
            s == Emitted(n, TRUE)
<1>1. /\ client \in Clients /\ sock \in Socks /\ wrap \in Wraps /\ tunnel \in Tunnels
      /\ buf \in Bytes /\ sock.buffer \in Bytes /\ Types /\ Carried /\ HeadFirst
  BY DEF IInv, Types, Socks
<1>2. /\ owner = "sniff" /\ got = <<>> /\ pending = <<>> /\ tunnel.state = "none"
      /\ wrap.queue = <<>> /\ tunnel.queue = <<>> /\ Middle = buf
  BY DEF Sniff, IInv, Where, Middle
<1>3. b \in Bytes /\ From(sock.buffer, n) \in Bytes
      /\ b \o From(sock.buffer, n) = buf \o sock.buffer
  <2>1. /\ buf \o First(sock.buffer, n) \in Bytes /\ From(sock.buffer, n) \in Bytes
        /\ (<<>> \o (buf \o First(sock.buffer, n))) \o From(sock.buffer, n)
             = (<<>> \o buf) \o sock.buffer
    BY <1>1, Empty, Moves, InPlace, ZenonT(60)
  <2>. QED BY <1>1, <2>1, Empty
<1>4. s \in Socks /\ s.life = "open" /\ s.buffer = From(sock.buffer, n)
  BY <1>1, EmittedFields
<1>5. UNCHANGED <<client, pending, tunnel, got>>
  BY DEF Sniff, given
<1>6. \/ buf' = b /\ sock' = s /\ UNCHANGED <<owner, wrap>>
      \/ /\ owner' = "h2" /\ wrap' = [queue |-> b, reading |-> FALSE]
         /\ buf' = <<>> /\ sock' = s
      \/ owner' = "h1" /\ sock' = Unshifted(s, b) /\ buf' = <<>> /\ UNCHANGED wrap
      \/ sock' = Gone(s) /\ buf' = b /\ UNCHANGED <<owner, wrap>>
  BY DEF Sniff
<1>b. Middle' = IF owner' = "h2" THEN wrap'.queue
                ELSE IF owner' = "sniff" THEN buf'
                ELSE IF tunnel'.state = "none" THEN pending' ELSE tunnel'.queue
  BY DEF Middle
<1>. HIDE DEF b, s
<1>7. CASE buf' = b /\ sock' = s /\ UNCHANGED <<owner, wrap>>
  <2>1. Types' /\ Where' /\ HeadFirst'
    BY <1>1, <1>2, <1>3, <1>4, <1>5, <1>7 DEF Types, Where, HeadFirst
  <2>2. Middle' = b
    BY <1>2, <1>7, <1>b
  <2>3. Carried'
    BY <1>1, <1>2, <1>4, <1>5, <1>7, <2>1, <2>2, TakenIn DEF b
  <2>. QED BY <2>1, <2>3 DEF IInv
<1>8. CASE /\ owner' = "h2" /\ wrap' = [queue |-> b, reading |-> FALSE]
           /\ buf' = <<>> /\ sock' = s
  <2>1. Types' /\ Where' /\ HeadFirst'
    BY <1>1, <1>2, <1>3, <1>4, <1>5, <1>8, Empty DEF Types, Where, HeadFirst, Wraps
  <2>2. Middle' = b
    BY <1>8, <1>b
  <2>3. Carried'
    BY <1>1, <1>2, <1>4, <1>5, <1>8, <2>1, <2>2, TakenIn DEF b
  <2>. QED BY <2>1, <2>3 DEF IInv
<1>9. CASE owner' = "h1" /\ sock' = Unshifted(s, b) /\ buf' = <<>> /\ UNCHANGED wrap
  <2>1. sock' \in Socks /\ sock'.life = "open" /\ sock'.buffer = b \o From(sock.buffer, n)
    BY <1>3, <1>4, <1>9, UnshiftedFields
  <2>2. Types' /\ Where'
    BY <1>1, <1>2, <1>5, <1>9, <2>1, Empty DEF Types, Where
  <2>3. HeadFirst'
    BY <1>2, <1>5, Empty, HeadEndAssumption DEF HeadFirst
  <2>4. Middle' = <<>> /\ got' = <<>>
    BY <1>2, <1>5, <1>9, <1>b
  <2>5. (<<>> \o <<>>) \o (buf \o sock.buffer) = (<<>> \o buf) \o sock.buffer
    BY <1>1, Empty, Assoc
  <2>6. (got' \o Middle') \o sock'.buffer = (got \o Middle) \o sock.buffer
    BY <1>2, <1>3, <2>1, <2>4, <2>5
  <2>7. Carried'
    BY <1>1, <1>5, <2>2, <2>6, CarriedOn
  <2>. QED BY <2>2, <2>3, <2>7 DEF IInv
<1>10. CASE sock' = Gone(s) /\ buf' = b /\ UNCHANGED <<owner, wrap>>
  <2>1. sock' \in Socks /\ sock'.life = "destroyed"
    BY <1>4, <1>10, GoneFields
  <2>2. Types' /\ Where' /\ HeadFirst'
    BY <1>1, <1>2, <1>3, <1>5, <1>10, <2>1 DEF Types, Where, HeadFirst
  <2>3. Carried'
    BY <1>1, <1>5, <2>1 DEF Carried
  <2>. QED BY <2>2, <2>3 DEF IInv
<1>. QED BY <1>6, <1>7, <1>8, <1>9, <1>10

\* replayStream takes what the socket emits.
LEMMA RelayCarries ==
  ASSUME IInv, sock.life = "open", NEW n \in 0 .. Len(sock.buffer), Relay(n)
  PROVE  IInv'
<1>. DEFINE q == wrap.queue \o First(sock.buffer, n)
            flows == Len(q) < Window
<1>1. /\ sock \in Socks /\ wrap.queue \in Bytes /\ sock.buffer \in Bytes
      /\ Types /\ Carried
  BY DEF IInv, Types, Socks, Wraps
<1>2. owner = "h2" /\ UNCHANGED <<client, owner, buf, pending, tunnel, got>>
      /\ wrap' = [queue |-> q, reading |-> FALSE] /\ sock' = Emitted(n, flows)
  BY DEF Relay, given
<1>3. q \in Bytes /\ Len(q) \in Nat
  <2>1. First(sock.buffer, n) \in Bytes
    BY <1>1, Split
  <2>2. q \in Bytes
    BY <1>1, <2>1, Concat
  <2>. QED BY <2>2, Empty
<1>4. flows \in BOOLEAN
  OBVIOUS
<1>. HIDE DEF flows
<1>5. sock' \in Socks /\ sock'.life = "open" /\ sock'.buffer = From(sock.buffer, n)
  BY <1>1, <1>2, <1>4, EmittedFields
<1>. HIDE DEF q
<1>6. Types' /\ Where' /\ HeadFirst'
  BY <1>1, <1>2, <1>3, <1>5 DEF IInv, Types, Where, HeadFirst, Wraps
<1>7. Middle = wrap.queue /\ Middle' = q
  BY <1>2 DEF Middle
<1>8. Carried'
  BY <1>1, <1>2, <1>5, <1>6, <1>7, TakenIn DEF q
<1>. QED BY <1>6, <1>8 DEF IInv

\* The session takes bytes from the Duplex.
LEMMA TakeCarries ==
  ASSUME IInv, NEW n \in Nat, Take(n)
  PROVE  IInv'
<1>. DEFINE q == From(wrap.queue, n)
            reads == ReadsOn(q)
<1>1. /\ sock \in Socks /\ wrap \in Wraps /\ wrap.queue \in Bytes /\ sock.buffer \in Bytes
      /\ Types /\ Carried /\ got \in Bytes /\ client \in Clients
  BY DEF IInv, Types, Socks, Wraps
<1>2. /\ owner = "h2" /\ UNCHANGED <<client, owner, buf, pending, tunnel>>
      /\ n \in 0 .. Len(wrap.queue) /\ sock.life # "destroyed"
      /\ got' = got \o First(wrap.queue, n)
      /\ wrap' = [queue |-> q, reading |-> wrap.reading \/ reads]
      /\ sock' = [sock EXCEPT !.flowing = @ \/ reads]
  BY <1>1, Empty DEF Take, given
<1>3. q \in Bytes /\ got' \in Bytes /\ got' \o q = got \o wrap.queue
  BY <1>1, <1>2, Eats
<1>. HIDE DEF q
<1>4. reads \in BOOLEAN
  BY DEF ReadsOn
<1>. HIDE DEF reads
<1>5. sock' \in Socks /\ sock'.life = sock.life /\ sock'.buffer = sock.buffer
  <2>1. (sock.flowing \/ reads) \in BOOLEAN
    BY Zenon
  <2>. QED BY <1>1, <1>2, <2>1, FlowingFields
<1>6. wrap' \in Wraps /\ wrap'.queue = q
  <2>1. (wrap.reading \/ reads) \in BOOLEAN
    BY Zenon
  <2>. QED BY <1>2, <1>3, <2>1 DEF Wraps
<1>7. Types' /\ Where' /\ HeadFirst'
  BY <1>1, <1>2, <1>3, <1>5, <1>6 DEF IInv, Types, Where, HeadFirst
<1>8. Middle = wrap.queue /\ Middle' = q
  BY <1>2, <1>6 DEF Middle
<1>9. Carried'
  BY <1>1, <1>2, <1>3, <1>5, <1>7, <1>8, CarriedOn
<1>. QED BY <1>7, <1>9 DEF IInv

\* The parser takes some of what it kept and of what has come.
LEMMA FeedCarries ==
  ASSUME IInv, sock.life = "open", NEW n \in 0 .. Len(sock.buffer), Feed(n)
  PROVE  IInv'
<1>. DEFINE data == pending \o First(sock.buffer, n)
<1>1. /\ client \in Clients /\ sock \in Socks /\ wrap \in Wraps /\ tunnel \in Tunnels
      /\ sock.buffer \in Bytes /\ got \in Bytes /\ pending \in Bytes
      /\ buf \in Bytes /\ Types /\ Carried /\ HeadFirst
  BY DEF IInv, Types, Socks
<1>2. /\ owner = "h1" /\ tunnel.state = "none" /\ UNCHANGED <<client, owner, buf, wrap>>
      /\ tunnel.queue = <<>> /\ wrap.queue = <<>> /\ buf = <<>> /\ Middle = pending
  BY DEF Feed, given, IInv, Where, Middle
<1>3. PICK c \in Consumed(data) :
        /\ got' = got \o First(data, c)
        /\ \/ /\ ~(client.tunnels /\ Len(got) + c = HeadEnd)
              /\ pending' = From(data, c) /\ UNCHANGED tunnel
              /\ \E flows \in BOOLEAN : sock' = Emitted(n, flows)
           \/ /\ pending' = <<>> /\ sock' = Emitted(n, FALSE)
              /\ tunnel' = [state |-> "connecting", queue |-> From(data, c), full |-> FALSE]
           \/ /\ pending' = From(data, c) /\ UNCHANGED tunnel
              /\ sock' = [Emitted(n, TRUE) EXCEPT !.life = "ended"]
  BY DEF Feed, Fed
<1>4. /\ data \in Bytes /\ Len(data) \in Nat /\ From(sock.buffer, n) \in Bytes
      /\ (got \o data) \o From(sock.buffer, n) = (got \o pending) \o sock.buffer
  <2>1. /\ data \in Bytes /\ From(sock.buffer, n) \in Bytes
    BY <1>1, Moves
  <2>2. (got \o data) \o From(sock.buffer, n) = (got \o pending) \o sock.buffer
    BY <1>1, InPlace, ZenonT(60)
  <2>. HIDE DEF data
  <2>. QED BY <2>1, <2>2, Empty
<1>. HIDE DEF data
<1>5. c \in 0 .. Len(data) /\ (client.tunnels => Len(got) + c <= HeadEnd)
  <2>1. Len(got) \in Nat
    BY <1>1, Empty
  <2>2. client.tunnels => Len(got) <= HeadEnd
    BY <1>1, <1>2 DEF HeadFirst
  <2>3. CASE client.tunnels /\ Len(got) + Len(data) >= HeadEnd
    <3>1. c = HeadEnd - Len(got)
      BY <1>3, <2>3 DEF Consumed
    <3>. QED BY <1>4, <2>1, <2>2, <2>3, <3>1, HeadEndAssumption
  <2>4. CASE ~(client.tunnels /\ Len(got) + Len(data) >= HeadEnd)
    <3>1. c \in 0 .. Len(data)
      BY <1>3, <2>4 DEF Consumed
    <3>. QED BY <1>4, <2>1, <2>4, <3>1, HeadEndAssumption
  <2>. QED BY <2>3, <2>4
<1>. DEFINE rest == From(data, c)
<1>6. /\ got' \in Bytes /\ rest \in Bytes /\ got' \o rest = got \o data
      /\ Len(got') = Len(got) + c
  BY <1>1, <1>3, <1>4, <1>5, Eats
<1>7. sock' \in Socks /\ sock'.life # "destroyed" /\ sock'.buffer = From(sock.buffer, n)
  <2>1. CASE \E flows \in BOOLEAN : sock' = Emitted(n, flows)
    BY <1>1, <2>1, EmittedFields
  <2>2. CASE sock' = [Emitted(n, TRUE) EXCEPT !.life = "ended"]
    <3>1. Emitted(n, TRUE) \in Socks /\ Emitted(n, TRUE).buffer = From(sock.buffer, n)
      BY <1>1, EmittedFields
    <3>. QED BY <2>2, <3>1, LifeFields
  <2>. QED BY <1>3, <2>1, <2>2
<1>8. (pending' = rest /\ UNCHANGED tunnel)
      \/ /\ pending' = <<>>
         /\ tunnel' = [state |-> "connecting", queue |-> rest, full |-> FALSE]
  BY <1>3
<1>. HIDE DEF rest
<1>9. Types'
  <2>1. pending' \in Bytes
    BY <1>6, <1>8, Empty
  <2>2. tunnel' \in Tunnels
    <3>1. tunnel \in Tunnels /\ rest \in Bytes
      BY <1>1, <1>6
    <3>2. [state |-> "connecting", queue |-> rest, full |-> FALSE] \in Tunnels
      BY <3>1 DEF Tunnels
    <3>. QED BY <1>8, <3>1, <3>2
  <2>. QED BY <1>1, <1>2, <1>6, <1>7, <2>1, <2>2 DEF Types
<1>10. Where'
  BY <1>2, <1>8 DEF Where
<1>11. HeadFirst'
  BY <1>2, <1>5, <1>6 DEF HeadFirst
<1>12. Middle' = rest
  BY <1>2, <1>8 DEF Middle
<1>13. Carried'
  BY <1>1, <1>2, <1>4, <1>6, <1>7, <1>9, <1>12, CarriedOn
<1>. QED BY <1>9, <1>10, <1>11, <1>13 DEF IInv

\* The upstream of a tunnel gets what waited for it first.
LEMMA ConnectReturnsCarries == IInv /\ ConnectReturns => IInv'
<1>. SUFFICES ASSUME IInv, ConnectReturns PROVE IInv'
  OBVIOUS
<1>1. /\ client \in Clients /\ sock \in Socks /\ wrap \in Wraps /\ tunnel \in Tunnels
      /\ sock.buffer \in Bytes /\ got \in Bytes /\ tunnel.queue \in Bytes
      /\ Types /\ Carried
  BY DEF IInv, Types, Socks, Tunnels
<1>2. /\ tunnel.state = "connecting" /\ owner = "h1" /\ pending = <<>>
      /\ UNCHANGED <<client, owner, buf, wrap, pending>> /\ sock.life = "open"
  BY DEF ConnectReturns, given, IInv, Types, Where
<1>3. Middle = tunnel.queue
  BY <1>2 DEF Middle
<1>4. CASE /\ got' = got \o tunnel.queue
           /\ tunnel' = [state |-> "open", queue |-> <<>>, full |-> FALSE]
           /\ sock' = [sock EXCEPT !.flowing = TRUE]
  <2>1. sock' \in Socks /\ sock'.life = "open" /\ sock'.buffer = sock.buffer
    BY <1>1, <1>2, <1>4, FlowingFields
  <2>2. got' \in Bytes /\ got' \o <<>> = got'
    BY <1>1, <1>4, Concat, Empty
  <2>3. Types' /\ Where' /\ HeadFirst'
    BY <1>1, <1>2, <1>4, <2>1, <2>2, Empty DEF IInv, Types, Where, HeadFirst, Tunnels
  <2>4. Middle' = <<>>
    BY <1>2, <1>4 DEF Middle
  <2>5. (got' \o Middle') \o sock'.buffer = (got \o Middle) \o sock.buffer
    BY <1>3, <1>4, <2>1, <2>2, <2>4
  <2>6. Carried'
    BY <1>1, <1>2, <2>3, <2>5, CarriedOn
  <2>. QED BY <2>3, <2>6 DEF IInv
<1>5. CASE /\ tunnel' = [tunnel EXCEPT !.state = "refused"]
           /\ sock' = [sock EXCEPT !.life = "ended"] /\ UNCHANGED got
  <2>1. sock' \in Socks /\ sock'.life = "ended" /\ sock'.buffer = sock.buffer
    BY <1>1, <1>5, LifeFields
  <2>2. tunnel' \in Tunnels /\ tunnel'.state = "refused" /\ tunnel'.queue = tunnel.queue
    BY <1>1, <1>5 DEF Tunnels
  <2>3. Types' /\ Where' /\ HeadFirst'
    BY <1>1, <1>2, <1>5, <2>1, <2>2 DEF IInv, Types, Where, HeadFirst
  <2>4. Middle' = Middle
    BY <1>2, <1>3, <2>2 DEF Middle
  <2>5. Carried'
    BY <1>1, <1>2, <1>5, <2>1, <2>4 DEF Carried
  <2>. QED BY <2>3, <2>5 DEF IInv
<1>. QED BY <1>4, <1>5 DEF ConnectReturns

\* The tunnel keeps what comes before its upstream, and hands on what comes later.
LEMMA ForwardCarries ==
  ASSUME IInv, sock.life = "open", NEW n \in 0 .. Len(sock.buffer), Forward(n)
  PROVE  IInv'
<1>. DEFINE chunk == First(sock.buffer, n)
<1>1. /\ client \in Clients /\ sock \in Socks /\ wrap \in Wraps /\ tunnel \in Tunnels
      /\ sock.buffer \in Bytes /\ got \in Bytes /\ tunnel.queue \in Bytes
      /\ Types /\ Carried
  BY DEF IInv, Types, Socks, Tunnels
<1>2. /\ owner = "h1" /\ pending = <<>> /\ tunnel.state \in {"connecting", "open"}
      /\ UNCHANGED <<client, owner, buf, wrap, pending>>
  BY DEF Forward, given, IInv, Where
<1>3. Middle = tunnel.queue
  BY <1>2 DEF Middle
<1>4. CASE /\ tunnel.state = "connecting"
           /\ tunnel' = [tunnel EXCEPT !.queue = @ \o chunk]
           /\ sock' = Emitted(n, TRUE) /\ UNCHANGED got
  <2>1. sock' \in Socks /\ sock'.life = "open" /\ sock'.buffer = From(sock.buffer, n)
    BY <1>1, <1>4, EmittedFields
  <2>2. tunnel.queue \o chunk \in Bytes
    BY <1>1, Moves
  <2>. HIDE DEF chunk
  <2>3. /\ tunnel' \in Tunnels /\ tunnel'.state = "connecting"
        /\ tunnel'.queue = tunnel.queue \o chunk
    BY <1>1, <1>4, <2>2 DEF Tunnels
  <2>4. Types' /\ Where' /\ HeadFirst'
    BY <1>1, <1>2, <1>4, <2>1, <2>3 DEF IInv, Types, Where, HeadFirst
  <2>5. Middle' = tunnel.queue \o chunk
    BY <1>2, <2>3 DEF Middle
  <2>6. Carried'
    BY <1>1, <1>2, <1>3, <1>4, <2>1, <2>4, <2>5, TakenIn DEF chunk
  <2>. QED BY <2>4, <2>6 DEF IInv
<1>5. CASE /\ tunnel.state = "open"
           /\ got' = got \o chunk
           /\ \E full \in BOOLEAN :
                /\ tunnel' = [tunnel EXCEPT !.full = @ \/ full]
                /\ sock' = Emitted(n, ~full)
  <2>1. PICK full \in BOOLEAN : /\ tunnel' = [tunnel EXCEPT !.full = @ \/ full]
                                /\ sock' = Emitted(n, ~full)
    BY <1>5
  <2>2. sock' \in Socks /\ sock'.life = "open" /\ sock'.buffer = From(sock.buffer, n)
    BY <1>1, <2>1, EmittedFields
  <2>3. (tunnel.full \/ full) \in BOOLEAN
    BY Zenon
  <2>4. tunnel' \in Tunnels /\ tunnel'.state = "open" /\ tunnel'.queue = tunnel.queue
    BY <1>1, <1>5, <2>1, <2>3 DEF Tunnels
  <2>5. /\ tunnel.queue = <<>> /\ got' \in Bytes /\ From(sock.buffer, n) \in Bytes
        /\ got' \o From(sock.buffer, n) = got \o sock.buffer
        /\ got' \o <<>> = got' /\ got \o <<>> = got
    BY <1>1, <1>5, Eats, Empty DEF IInv, Where
  <2>. HIDE DEF chunk
  <2>6. Types' /\ Where' /\ HeadFirst'
    BY <1>1, <1>2, <1>5, <2>2, <2>4, <2>5 DEF IInv, Types, Where, HeadFirst
  <2>7. Middle' = <<>> /\ Middle = <<>>
    BY <1>2, <1>3, <2>4, <2>5 DEF Middle
  <2>8. (got' \o Middle') \o sock'.buffer = (got \o Middle) \o sock.buffer
    BY <2>2, <2>5, <2>7
  <2>9. Carried'
    BY <1>1, <1>2, <2>6, <2>8, CarriedOn
  <2>. QED BY <2>6, <2>9 DEF IInv
<1>. QED BY <1>4, <1>5 DEF Forward

LEMMA UpstreamDrainCarries == IInv /\ UpstreamDrain => IInv'
<1>. SUFFICES ASSUME IInv, UpstreamDrain PROVE IInv'
  OBVIOUS
<1>1. /\ sock \in Socks /\ tunnel \in Tunnels /\ Types /\ Carried
  BY DEF IInv, Types
<1>2. /\ UNCHANGED <<client, owner, buf, wrap, pending, got>>
      /\ tunnel' = [tunnel EXCEPT !.full = FALSE]
      /\ sock' = [sock EXCEPT !.flowing = TRUE] /\ sock.life = "open"
  BY DEF UpstreamDrain, given
<1>3. sock' \in Socks /\ sock'.life = sock.life /\ sock'.buffer = sock.buffer
  BY <1>1, <1>2, FlowingFields
<1>4. tunnel' \in Tunnels /\ tunnel'.state = tunnel.state /\ tunnel'.queue = tunnel.queue
  BY <1>1, <1>2 DEF Tunnels
<1>5. Types' /\ Where' /\ HeadFirst'
  BY <1>2, <1>3, <1>4 DEF IInv, Types, Where, HeadFirst
<1>6. Middle' = Middle
  BY <1>2, <1>4 DEF Middle
<1>7. Carried'
  BY <1>1, <1>2, <1>3, <1>6 DEF Carried
<1>. QED BY <1>5, <1>7 DEF IInv

-----------------------------------------------------------------------------
(* The theorem.                                                            *)

LEMMA NextCarries == IInv /\ [IngressNext]_ingressVars => IInv'
<1>. SUFFICES ASSUME IInv, [IngressNext]_ingressVars PROVE IInv'
  OBVIOUS
<1>1. CASE ClientSends
  BY <1>1, ClientSendsCarries
<1>2. CASE ClientEnds
  BY <1>2, ClientEndsCarries
<1>3. CASE OnPlainSocket \/ DetectionTimeout \/ End \/ Close \/ SessionEnds \/ Resume
  BY <1>3, StillCarries
<1>4. CASE Data
  <2>1. sock.life = "open"
    BY <1>4 DEF Data
  <2>2. PICK n \in 1 .. Len(sock.buffer) : Sniff(n) \/ Relay(n) \/ Feed(n) \/ Forward(n)
    BY <1>4 DEF Data
  <2>3. n \in 0 .. Len(sock.buffer)
    BY <2>2
  <2>4. CASE Sniff(n)
    BY <2>1, <2>3, <2>4, SniffCarries
  <2>5. CASE Relay(n)
    BY <2>1, <2>3, <2>5, RelayCarries
  <2>6. CASE Feed(n)
    BY <2>1, <2>3, <2>6, FeedCarries
  <2>7. CASE Forward(n)
    BY <2>1, <2>3, <2>7, ForwardCarries
  <2>. QED BY <2>2, <2>4, <2>5, <2>6, <2>7
<1>5. CASE \E n \in 1 .. MaxBytes : Take(n)
  <2>1. PICK n \in 1 .. MaxBytes : Take(n)
    BY <1>5
  <2>2. n \in Nat
    BY <2>1, MaxBytesAssumption
  <2>. QED BY <2>1, <2>2, TakeCarries
<1>6. CASE ConnectReturns
  BY <1>6, ConnectReturnsCarries
<1>7. CASE UpstreamDrain
  BY <1>7, UpstreamDrainCarries
<1>8. CASE UNCHANGED ingressVars
  BY <1>8 DEF ingressVars, IInv, Types, Where, HeadFirst, Carried, Middle
<1>. QED BY <1>1, <1>2, <1>3, <1>4, <1>5, <1>6, <1>7, <1>8 DEF IngressNext, Backend

\* What the backend has is a first part of what the client sent, in its order,
\* and until the socket has ended the rest is on its way behind it: over the
\* sniff's unshift, the replaying Duplex, the parser's remainder and the opening
\* of a tunnel, for any length of the preface and of the head, any window and
\* any cutting of the bytes into data events.
THEOREM BytesArriveInOrder == IngressSpec => []BytesInOrder
<1>1. IngressInit => IInv
  BY InitCarries
<1>2. IInv /\ [IngressNext]_ingressVars => IInv'
  BY NextCarries
<1>3. IInv => BytesInOrder
  BY IInvImplies
<1>. QED BY <1>1, <1>2, <1>3, PTL DEF IngressSpec
=============================================================================
