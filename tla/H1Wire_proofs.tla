--------------------------- MODULE H1Wire_proofs ---------------------------
(***************************************************************************)
(* What one HTTP/1.1 connection writes: responses in the order of the      *)
(* requests, no rejection inside a response, and what may follow a line    *)
(* that ends the connection; for any pipeline limit and any number of      *)
(* messages.                                                               *)
(***************************************************************************)
EXTENDS H1Connection_proofs

-----------------------------------------------------------------------------
(* What a wire holds.                                                      *)

Line(what, id) == [what |-> what, id |-> id]
Has(w, what, id) == \E j \in 1 .. Len(w) : w[j] = Line(what, id)
HasBefore(w, i, what, id) == \E j \in 1 .. i - 1 : w[j] = Line(what, id)

\* ResponsesInOrder and RejectOutsideResponse, of any wire.
InOrder(w) ==
  \A i \in 1 .. Len(w) :
    /\ w[i].what = "head" =>
         /\ ~HasBefore(w, i, "head", w[i].id)
         /\ w[i].id > 1 => HasBefore(w, i, "end", w[i].id - 1)
    /\ w[i].what = "end" =>
         HasBefore(w, i, "head", w[i].id) \/ HasBefore(w, i, "connect", w[i].id)
    /\ w[i].what = "reject" =>
         \A j \in 1 .. i - 1 : w[j].what = "head" => HasBefore(w, i, "end", w[j].id)

\* LastWordIsLast, of any wire, entries and number of messages.
Final(l, m, n) == l.what = "reject" \/ (l.what = "end" /\ (l.id > n \/ m[l.id].announced))
Tolerated(l, k, n) == l.what = "end" /\ l.id <= n /\ k.what = "interim" /\ k.id > l.id
LastWord(w, m, n) ==
  \A i \in 1 .. Len(w) : Final(w[i], m, n) =>
    \A j \in i + 1 .. Len(w) : Tolerated(w[i], w[j], n)

\* No last word was said, unless it is the end of response c; and whatever ended
\* was a response to a queued request.
Unsaid(w, m, n, c) ==
  /\ \A id : ~Has(w, "reject", id)
  /\ \A id : Has(w, "end", id) => id \in 1 .. n /\ (m[id].announced => id = c)

LEMMA OrderMeans == InOrder(wire) => ResponsesInOrder /\ RejectOutsideResponse
  BY DEF InOrder, ResponsesInOrder, RejectOutsideResponse, At, Before, HasBefore, Line

LEMMA LastMeans == LastWord(wire, msg, count) => LastWordIsLast
  BY DEF LastWord, Final, Tolerated, LastWordIsLast, SaysEnd, At

\* What a wire has with one more line.
LEMMA Appended ==
  ASSUME NEW w \in Seq(Output), NEW l \in Output, NEW v, v = Append(w, l)
  PROVE  /\ v \in Seq(Output) /\ Len(v) = Len(w) + 1 /\ Len(w) \in Nat
         /\ v[Len(w) + 1] = l /\ \A i \in 1 .. Len(w) : v[i] = w[i]
         /\ \A what, id : Has(v, what, id) <=> Has(w, what, id) \/ l = Line(what, id)
         /\ \A i \in 1 .. Len(w) : \A what, id :
              HasBefore(v, i, what, id) <=> HasBefore(w, i, what, id)
         /\ \A what, id : HasBefore(v, Len(w) + 1, what, id) <=> Has(w, what, id)
<1>1. /\ v \in Seq(Output) /\ Len(v) = Len(w) + 1 /\ Len(w) \in Nat
      /\ v[Len(w) + 1] = l /\ \A i \in 1 .. Len(w) : v[i] = w[i]
  BY AppendProperties, LenProperties
<1>2. 1 .. Len(v) = 1 .. Len(w) \cup {Len(w) + 1}
  BY <1>1
<1>3. \A what, id : Has(v, what, id) <=> Has(w, what, id) \/ l = Line(what, id)
  BY <1>1, <1>2 DEF Has
<1>4. ASSUME NEW i \in 1 .. Len(w), NEW what, NEW id
      PROVE  HasBefore(v, i, what, id) <=> HasBefore(w, i, what, id)
  <2>1. \A j \in 1 .. i - 1 : v[j] = w[j]
    BY <1>1
  <2>. QED BY <2>1 DEF HasBefore
<1>5. ASSUME NEW what, NEW id
      PROVE  HasBefore(v, Len(w) + 1, what, id) <=> Has(w, what, id)
  <2>1. Len(w) + 1 - 1 = Len(w)
    BY <1>1
  <2>. QED BY <1>1, <2>1 DEF HasBefore, Has
<1>. QED BY <1>1, <1>3, <1>4, <1>5

\* When a line may follow.
MayFollow(w, what, id) ==
  /\ what = "head" => ~Has(w, "head", id) /\ (id > 1 => Has(w, "end", id - 1))
  /\ what = "end" => Has(w, "head", id) \/ Has(w, "connect", id)
  /\ what = "reject" => \A i : Has(w, "head", i) => Has(w, "end", i)

LEMMA OrderKept ==
  ASSUME NEW w \in Seq(Output), InOrder(w), NEW id \in 0 .. MaxMsg + 1,
         NEW what \in {"interim", "head", "end", "reject", "connect"},
         MayFollow(w, what, id), NEW v, v = Append(w, Line(what, id))
  PROVE  InOrder(v)
<1>. DEFINE l == Line(what, id)
<1>1. l \in Output /\ l.what = what /\ l.id = id /\ v = Append(w, l)
  BY DEF Line, Output
<1>. HIDE DEF l
<1>2. /\ Len(v) = Len(w) + 1 /\ Len(w) \in Nat
      /\ v[Len(w) + 1] = l /\ \A i \in 1 .. Len(w) : v[i] = w[i]
      /\ \A i \in 1 .. Len(w) : \A t, x : HasBefore(v, i, t, x) <=> HasBefore(w, i, t, x)
      /\ \A t, x : HasBefore(v, Len(w) + 1, t, x) <=> Has(w, t, x)
  <2>1. /\ Len(v) = Len(w) + 1 /\ Len(w) \in Nat
        /\ v[Len(w) + 1] = l /\ \A i \in 1 .. Len(w) : v[i] = w[i]
    BY <1>1, Appended
  <2>2. \A i \in 1 .. Len(w) : \A t, x : HasBefore(v, i, t, x) <=> HasBefore(w, i, t, x)
    BY <1>1, Appended, Zenon
  <2>3. \A t, x : HasBefore(v, Len(w) + 1, t, x) <=> Has(w, t, x)
    BY <1>1, Appended, Zenon
  <2>. QED BY <2>1, <2>2, <2>3
<1>3. ASSUME NEW i \in 1 .. Len(w)
      PROVE  /\ v[i].what = "head" =>
                  /\ ~HasBefore(v, i, "head", v[i].id)
                  /\ v[i].id > 1 => HasBefore(v, i, "end", v[i].id - 1)
             /\ v[i].what = "end" =>
                  HasBefore(v, i, "head", v[i].id) \/ HasBefore(v, i, "connect", v[i].id)
             /\ v[i].what = "reject" =>
                  \A j \in 1 .. i - 1 : v[j].what = "head" => HasBefore(v, i, "end", v[j].id)
  <2>1. v[i] = w[i] /\ \A j \in 1 .. i - 1 : v[j] = w[j]
    BY <1>2
  <2>. QED BY <1>2, <2>1 DEF InOrder
<1>4. ASSUME NEW j \in 1 .. Len(w), w[j].what = "head"
      PROVE  Has(w, "head", w[j].id)
  <2>1. w[j] \in Output
    BY ElementOfSeq
  <2>2. w[j] = Line("head", w[j].id)
    BY <1>4, <2>1 DEF Output, Line
  <2>. QED BY <2>2 DEF Has
<1>5. /\ v[Len(w) + 1].what = "head" =>
           /\ ~HasBefore(v, Len(w) + 1, "head", v[Len(w) + 1].id)
           /\ v[Len(w) + 1].id > 1 => HasBefore(v, Len(w) + 1, "end", v[Len(w) + 1].id - 1)
      /\ v[Len(w) + 1].what = "end" =>
           \/ HasBefore(v, Len(w) + 1, "head", v[Len(w) + 1].id)
           \/ HasBefore(v, Len(w) + 1, "connect", v[Len(w) + 1].id)
  BY <1>1, <1>2 DEF MayFollow
<1>6. v[Len(w) + 1].what = "reject" =>
        \A j \in 1 .. Len(w) : v[j].what = "head" => HasBefore(v, Len(w) + 1, "end", v[j].id)
  BY <1>1, <1>2, <1>4 DEF MayFollow
<1>7. 1 .. Len(v) = 1 .. Len(w) \cup {Len(w) + 1} /\ 1 .. (Len(w) + 1) - 1 = 1 .. Len(w)
  BY <1>2
<1>. QED BY <1>3, <1>5, <1>6, <1>7 DEF InOrder

\* One more line is tolerated after the end of response c, if that was said.
LEMMA LastKept ==
  ASSUME NEW w \in Seq(Output), NEW l \in Output, NEW v, v = Append(w, l),
         NEW m, NEW n \in Nat, NEW c \in Nat, Unsaid(w, m, n, c), LastWord(w, m, n),
         c # 0 => l.what = "interim" /\ l.id > c
  PROVE  LastWord(v, m, n)
<1>1. ASSUME NEW i \in 1 .. Len(w), Final(w[i], m, n) PROVE Tolerated(w[i], l, n)
  <2>1. w[i] \in Output
    BY ElementOfSeq
  <2>2. w[i] = Line(w[i].what, w[i].id)
    BY <2>1 DEF Output, Line
  <2>3. Has(w, w[i].what, w[i].id)
    BY <2>2 DEF Has
  <2>4. w[i].what = "end" /\ w[i].id \in 1 .. n /\ w[i].id = c
    BY <1>1, <2>3 DEF Final, Unsaid
  <2>. QED BY <2>4 DEF Tolerated
<1>2. /\ Len(v) = Len(w) + 1 /\ Len(w) \in Nat
      /\ v[Len(w) + 1] = l /\ \A i \in 1 .. Len(w) : v[i] = w[i]
  BY Appended
<1>3. ASSUME NEW i \in 1 .. Len(v), Final(v[i], m, n), NEW j \in i + 1 .. Len(v)
      PROVE  Tolerated(v[i], v[j], n)
  <2>1. i \in 1 .. Len(w) /\ v[i] = w[i]
    BY <1>2
  <2>2. CASE j = Len(w) + 1
    BY <1>1, <1>2, <1>3, <2>1, <2>2
  <2>3. CASE j # Len(w) + 1
    <3>1. j \in i + 1 .. Len(w) /\ v[j] = w[j]
      BY <1>2, <2>1, <2>3
    <3>. QED BY <1>3, <2>1, <3>1 DEF LastWord
  <2>. QED BY <2>2, <2>3
<1>. QED BY <1>3 DEF LastWord


-----------------------------------------------------------------------------
(* The socket and the numbers of the messages.                             *)

\* A chunk is parsed while the socket is open, and a teardown leaves it shut.
OpenInv == (parsing => sock = "open") /\ (closed => sock # "open")

LEMMA OpenInvCorrect == Spec => []OpenInv
<1>1. Init => OpenInv
  BY DEF Init, OpenInv
<1>2. OpenInv /\ [Next]_vars => OpenInv'
  <2> SUFFICES ASSUME OpenInv, [Next]_vars PROVE OpenInv'
    OBVIOUS
  <2>1. ASSUME ~parsing, UNCHANGED parsing, sock' = sock \/ sock' # "open",
               (closed' => closed) \/ sock' # "open"
        PROVE  OpenInv'
    BY <2>1 DEF OpenInv
  <2>2. Ended # "open" /\ Dropped # "open"
    BY DEF Ended, Dropped
  <2>3. ASSUME NEW m, NEW w, ~parsing, UNCHANGED parsing, EndTurn(m, w) PROVE OpenInv'
    BY <2>1, <2>2, <2>3 DEF EndTurn
  <2>4. CASE HandlerReturns
    BY <2>1, <2>2, <2>4 DEF HandlerReturns, parserVars
  <2>5. CASE SendInformational
    BY <2>1, <2>5 DEF SendInformational, parserVars
  <2>6. CASE WriteDone
    BY <2>1, <2>3, <2>6 DEF WriteDone, parserVars
  <2>7. CASE WriteFails
    BY <2>1, <2>2, <2>7 DEF WriteFails, parserVars
  <2>8. CASE BodyDone
    BY <2>3, <2>8 DEF BodyDone, parserVars
  <2>9. CASE OnSocketData
    BY <2>9 DEF OpenInv, OnSocketData
  <2>10. ASSUME NEW kind \in Kinds, OnRefusedHeaders(kind) \/ OnHeaders(kind)
         PROVE  OpenInv'
    BY <2>10 DEF OpenInv, OnRefusedHeaders, OnHeaders
  <2>11. CASE OnData \/ OnTrailers \/ OnMessageComplete \/ OnError
    BY <2>11 DEF OpenInv, OnData, OnTrailers, OnMessageComplete, OnError
  <2>12. CASE FeedEnd
    BY <2>2, <2>12 DEF OpenInv, FeedEnd, BeginConnect, Reject
  <2>13. CASE ConnectReturns
    BY <2>1, <2>2, <2>13 DEF ConnectReturns, Reject, parserVars
  <2>14. CASE ConnectWritten \/ TunnelEnds
    BY <2>1, <2>2, <2>14 DEF ConnectWritten, TunnelEnds, parserVars
  <2>15. CASE OnTimeout \/ SocketClosed
    BY <2>1, <2>2, <2>15 DEF OnTimeout, SocketClosed, parserVars
  <2>16. CASE InitiateClose
    BY <2>1, <2>2, <2>16 DEF InitiateClose, parserVars
  <2>17. CASE ServerDestroys \/ PeerEnds
    BY <2>1, <2>17 DEF ServerDestroys, PeerEnds, parserVars
  <2>18. ASSUME NEW i \in Msg, BodyRead(i) PROVE OpenInv'
    BY <2>1, <2>18 DEF BodyRead, parserVars
  <2>19. CASE UNCHANGED vars
    BY <2>19 DEF OpenInv, vars, parserVars
  <2>. QED
    BY <2>4, <2>5, <2>6, <2>7, <2>8, <2>9, <2>10, <2>11, <2>12, <2>13,
       <2>14, <2>15, <2>16, <2>17, <2>18, <2>19
    DEF Next, Parse, Pump, Tunnel, Events
<1>. QED BY <1>1, <1>2, PTL DEF Spec

\* The queue holds the newest messages, from the one the pump works on.
Numbered(q, c, n) ==
  /\ q = <<>> => c = n
  /\ q # <<>> => n = c + Len(q) - 1 /\ \A k \in 1 .. Len(q) : q[k] = c + k - 1
NumberInv == ~closed => Numbered(queue, current, count)

\* The pump goes on with the next one.
LEMMA NumberedTail ==
  ASSUME NEW q \in Seq(Nat), NEW c \in Nat, NEW n \in Nat, q # <<>>, Numbered(q, c, n)
  PROVE  /\ Tail(q) = <<>> => c = n
         /\ Tail(q) # <<>> => Head(Tail(q)) = c + 1 /\ Numbered(Tail(q), c + 1, n)
<1>1. /\ Len(q) \in Nat /\ Len(q) # 0 /\ Len(Tail(q)) = Len(q) - 1
      /\ \A k \in 1 .. Len(Tail(q)) : Tail(q)[k] = q[k + 1]
      /\ Tail(q) \in Seq(Nat)
  BY HeadTailProperties, LenProperties, EmptySeq
<1>2. n = c + Len(q) - 1 /\ \A k \in 1 .. Len(q) : q[k] = c + k - 1
  BY DEF Numbered
<1>3. Tail(q) = <<>> => Len(Tail(q)) = 0
  BY EmptySeq
<1>4. ASSUME Tail(q) # <<>> PROVE Head(Tail(q)) = Tail(q)[1] /\ 1 \in 1 .. Len(Tail(q))
  BY <1>1, <1>4, HeadTailProperties, EmptySeq, LenProperties
<1>5. \A k \in 1 .. Len(Tail(q)) : Tail(q)[k] = (c + 1) + k - 1
  <2>1. ASSUME NEW k \in 1 .. Len(Tail(q)) PROVE Tail(q)[k] = (c + 1) + k - 1
    <3>1. k + 1 \in 1 .. Len(q) /\ Tail(q)[k] = q[k + 1]
      BY <1>1
    <3>. QED BY <1>2, <3>1
  <2>. QED BY <2>1
<1>6. Tail(q) # <<>> => Head(Tail(q)) = c + 1
  BY <1>4, <1>5
<1>7. n = (c + 1) + Len(Tail(q)) - 1
  BY <1>1, <1>2
<1>8. Tail(q) = <<>> => c = n
  BY <1>1, <1>2, <1>3
<1>9. Tail(q) # <<>> => Numbered(Tail(q), c + 1, n)
  BY <1>5, <1>7 DEF Numbered
<1>. QED BY <1>6, <1>8, <1>9

\* A message joins at the end.
LEMMA NumberedAppend ==
  ASSUME NEW q \in Seq(Nat), NEW c \in Nat, NEW n \in Nat, Numbered(q, c, n)
  PROVE  /\ q # <<>> => Numbered(Append(q, n + 1), c, n + 1)
         /\ q = <<>> => Numbered(Append(q, n + 1), n + 1, n + 1)
<1>. DEFINE x == n + 1
            a == Append(q, x)
<1>0. x \in Nat /\ x = n + 1
  OBVIOUS
<1>. HIDE DEF x
<1>1. /\ Len(q) \in Nat /\ Len(a) = Len(q) + 1 /\ a # <<>>
      /\ \A k \in 1 .. Len(q) : a[k] = q[k]
      /\ a[Len(q) + 1] = x
  BY <1>0, AppendProperties, LenProperties
<1>2. q = <<>> => Len(q) = 0
  BY EmptySeq
<1>. HIDE DEF a
<1>3. ASSUME q # <<>> PROVE Numbered(a, c, x)
  <2>1. n = c + Len(q) - 1 /\ \A k \in 1 .. Len(q) : q[k] = c + k - 1
    BY <1>3 DEF Numbered
  <2>2. \A k \in 1 .. Len(a) : a[k] = c + k - 1
    BY <1>0, <1>1, <2>1
  <2>. QED BY <1>0, <1>1, <2>1, <2>2 DEF Numbered
<1>4. ASSUME q = <<>> PROVE Numbered(a, x, x)
  BY <1>0, <1>1, <1>2, <1>4 DEF Numbered
<1>. QED BY <1>3, <1>4 DEF a, x

LEMMA NumberInvCorrect == Spec => []NumberInv
<1>1. Init => NumberInv
  BY DEF Init, NumberInv, Numbered
<1>2. TypeOK /\ QueueInv /\ NumberInv /\ [Next]_vars => NumberInv'
  <2> SUFFICES ASSUME TypeOK, QueueInv, NumberInv, [Next]_vars PROVE NumberInv'
    OBVIOUS
  <2>0. queue \in Seq(Nat) /\ current \in Nat /\ count \in Nat
    BY DEF TypeOK
  <2>1. ASSUME UNCHANGED <<closed, queue, current, count>> PROVE NumberInv'
    BY <2>1 DEF NumberInv
  <2>2. ASSUME closed' PROVE NumberInv'
    BY <2>2 DEF NumberInv
  <2>3. ASSUME NEW q, NEW m, TeardownQueue(q, m) PROVE NumberInv'
    BY <2>2, <2>3 DEF TeardownQueue
  <2>4. ASSUME NEW m, NEW w, EndTurn(m, w), pumpPc # "idle", UNCHANGED count
        PROVE  NumberInv'
    <3>. DEFINE q == IF queue = <<>> THEN <<>> ELSE Tail(queue)
    <3>1. \/ Teardown(q, m)
          \/ q # <<>> /\ ~closed /\ Dispatch(Head(q), m, w) /\ queue' = q
          \/ q = <<>> /\ ~closed /\ queue' = q /\ UNCHANGED current
          \/ closed /\ UNCHANGED closed
      BY <2>4 DEF EndTurn, PumpStops
    <3>2. ASSUME ~closed
          PROVE  /\ q = <<>> => current = count
                 /\ q # <<>> => Head(q) = current + 1 /\ Numbered(q, current + 1, count)
      <4>1. queue # <<>> /\ Numbered(queue, current, count)
        BY <2>4, <3>2, QueueInvFacts DEF NumberInv
      <4>. QED BY <2>0, <4>1, NumberedTail
    <3>. HIDE DEF q
    <3>3. CASE Teardown(q, m)
      BY <2>3, <3>3 DEF Teardown
    <3>4. CASE q # <<>> /\ ~closed /\ Dispatch(Head(q), m, w) /\ queue' = q
      <4>1. current' = Head(q)
        BY <3>4 DEF Dispatch
      <4>. QED BY <2>4, <3>2, <3>4, <4>1 DEF NumberInv
    <3>5. CASE q = <<>> /\ ~closed /\ queue' = q /\ UNCHANGED current
      BY <2>4, <3>2, <3>5 DEF NumberInv, Numbered
    <3>6. CASE closed /\ UNCHANGED closed
      BY <2>2, <3>6
    <3>. QED BY <3>1, <3>3, <3>4, <3>5, <3>6
  <2>5. CASE HandlerReturns
    BY <2>1, <2>3, <2>5 DEF HandlerReturns, Teardown, parserVars
  <2>6. CASE SendInformational
    BY <2>1, <2>6 DEF SendInformational, parserVars, pumpVars
  <2>7. CASE WriteDone
    BY <2>1, <2>4, <2>7 DEF WriteDone, parserVars
  <2>8. CASE WriteFails
    BY <2>3, <2>8 DEF WriteFails, Teardown
  <2>9. CASE BodyDone
    BY <2>4, <2>9 DEF BodyDone, Woken, parserVars
  <2>10. CASE OnSocketData \/ OnData \/ OnTrailers \/ OnMessageComplete \/ OnError
    BY <2>1, <2>10
    DEF OnSocketData, OnData, OnTrailers, OnMessageComplete, OnError, pumpVars
  <2>11. ASSUME NEW kind \in Kinds, OnRefusedHeaders(kind) PROVE NumberInv'
    BY <2>1, <2>11 DEF OnRefusedHeaders, pumpVars
  <2>12. ASSUME NEW kind \in Kinds, OnHeaders(kind) PROVE NumberInv'
    <3>1. /\ ~closed /\ count' = count + 1 /\ queue' = Append(queue, count + 1)
          /\ \/ ~running /\ current' = count + 1
             \/ running /\ current' = current
      BY <2>12 DEF OnHeaders, Accepting, Dispatch, pumpVars
    <3>2. running <=> queue # <<>>
      <4>1. phase = "head"
        BY <2>12 DEF OnHeaders
      <4>. QED BY <3>1, <4>1, QueueInvFacts
    <3>. QED BY <2>0, <3>1, <3>2, NumberedAppend DEF NumberInv
  <2>13. CASE FeedEnd
    BY <2>1, <2>3, <2>13 DEF FeedEnd, BeginConnect, Reject, pumpVars
  <2>14. CASE ConnectReturns
    BY <2>1, <2>3, <2>14 DEF ConnectReturns, Reject, parserVars
  <2>15. CASE ConnectWritten \/ TunnelEnds \/ OnTimeout \/ SocketClosed
    BY <2>3, <2>15 DEF ConnectWritten, TunnelEnds, OnTimeout, SocketClosed, Teardown
  <2>16. CASE InitiateClose
    BY <2>1, <2>3, <2>16 DEF InitiateClose, Teardown, parserVars, pumpVars
  <2>17. CASE ServerDestroys \/ PeerEnds
    BY <2>1, <2>17 DEF ServerDestroys, PeerEnds, parserVars, pumpVars
  <2>18. ASSUME NEW i \in Msg, BodyRead(i) PROVE NumberInv'
    BY <2>1, <2>18 DEF BodyRead, parserVars, pumpVars
  <2>19. CASE UNCHANGED vars
    BY <2>1, <2>19 DEF vars, parserVars, pumpVars
  <2>. QED
    BY <2>5, <2>6, <2>7, <2>8, <2>9, <2>10, <2>11, <2>12, <2>13, <2>14,
       <2>15, <2>16, <2>17, <2>18, <2>19
    DEF Next, Parse, Pump, Tunnel, Events
<1>. QED BY <1>1, <1>2, TypeCorrect, QueueInvCorrect, PTL DEF Spec

\* The end of a turn: the pump stops, or goes on with the next one.
LEMMA TurnGoesOn ==
  ASSUME TypeOK, QueueInv, NumberInv, NEW m, NEW w, EndTurn(m, w), pumpPc # "idle"
  PROVE  \/ current' = current /\ pumpPc' = "idle"
         \/ current' = current + 1 /\ pumpPc' # "idle"
<1>. DEFINE q == IF queue = <<>> THEN <<>> ELSE Tail(queue)
<1>1. \/ PumpStops
      \/ q # <<>> /\ ~closed /\ Dispatch(Head(q), m, w)
  BY DEF EndTurn
<1>2. CASE PumpStops
  BY <1>2 DEF PumpStops
<1>3. CASE q # <<>> /\ ~closed /\ Dispatch(Head(q), m, w)
  <2>1. queue # <<>> /\ Numbered(queue, current, count)
    BY <1>3, QueueInvFacts DEF NumberInv
  <2>2. Head(q) = current + 1
    <3>1. queue \in Seq(Nat) /\ current \in Nat /\ count \in Nat
      BY DEF TypeOK
    <3>. QED BY <1>3, <2>1, <3>1, NumberedTail
  <2>. QED BY <1>3, <2>2 DEF Dispatch, StartWriting
<1>. QED BY <1>1, <1>2, <1>3

\* The pump only goes forward, and writes what its handler returned.
LEMMA PumpGoesOn ==
  TypeOK /\ QueueInv /\ NumberInv /\ [Next]_vars =>
    \/ /\ current' = current /\ (pumpPc' = "handler" => pumpPc = "handler")
       /\ pumpPc' = "writing" => pumpPc \in {"handler", "writing"}
    \/ current' = current + 1 /\ pumpPc' # "idle"
    \/ current' = count + 1 /\ count' = count + 1
<1> SUFFICES ASSUME TypeOK, QueueInv, NumberInv, [Next]_vars
             PROVE  \/ /\ current' = current /\ (pumpPc' = "handler" => pumpPc = "handler")
                       /\ pumpPc' = "writing" => pumpPc \in {"handler", "writing"}
                    \/ current' = current + 1 /\ pumpPc' # "idle"
                    \/ current' = count + 1 /\ count' = count + 1
  OBVIOUS
<1>2. CASE WriteDone
  BY <1>2, TurnGoesOn DEF WriteDone, DiscardRest
<1>3. CASE BodyDone
  BY <1>3, TurnGoesOn DEF BodyDone, Woken
<1>4. ASSUME NEW kind \in Kinds, OnHeaders(kind)
      PROVE  UNCHANGED <<current, pumpPc>> \/ (current' = count + 1 /\ count' = count + 1)
  BY <1>4 DEF OnHeaders, Dispatch, pumpVars
<1>5. CASE HandlerReturns \/ WriteFails
  BY <1>5 DEF HandlerReturns, WriteFails, StartWriting, PumpStops
<1>6. CASE SendInformational \/ OnSocketData \/ OnData \/ OnTrailers \/ OnMessageComplete
           \/ OnError \/ FeedEnd
  BY <1>6 DEF SendInformational, OnSocketData, OnData, OnTrailers, OnMessageComplete,
     OnError, FeedEnd, pumpVars
<1>7. ASSUME NEW kind \in Kinds, OnRefusedHeaders(kind)
      PROVE  UNCHANGED <<current, pumpPc>>
  BY <1>7 DEF OnRefusedHeaders, pumpVars
<1>8. CASE Tunnel \/ Events \/ UNCHANGED vars
  BY <1>8 DEF Tunnel, Events, ConnectReturns, ConnectWritten, TunnelEnds, OnTimeout,
     InitiateClose, ServerDestroys, PeerEnds, SocketClosed, BodyRead, vars, pumpVars
<1>. QED BY <1>2, <1>3, <1>4, <1>5, <1>6, <1>7, <1>8 DEF Next, Parse, Pump

LEMMA CountGrows == TypeOK /\ [Next]_vars => count' = count \/ \E kind \in Kinds : OnHeaders(kind)
<1>1. Pump \/ Tunnel \/ Events \/ UNCHANGED vars => UNCHANGED count
  BY DEF Pump, HandlerReturns, SendInformational, WriteDone, WriteFails, BodyDone,
     Tunnel, ConnectReturns, ConnectWritten, TunnelEnds, Events, OnTimeout,
     InitiateClose, ServerDestroys, PeerEnds, SocketClosed, BodyRead, vars, parserVars
<1>2. OnSocketData \/ OnData \/ OnTrailers \/ OnMessageComplete \/ OnError \/ FeedEnd
        => UNCHANGED count
  BY DEF OnSocketData, OnData, OnTrailers, OnMessageComplete, OnError, FeedEnd
<1>3. \A kind \in Kinds : OnRefusedHeaders(kind) => UNCHANGED count
  BY DEF OnRefusedHeaders
<1>. QED BY <1>1, <1>2, <1>3 DEF Next, Parse

\* A shutdown is not taken back.
LEMMA ClosingStays == [Next]_vars => (closing => closing')
<1>1. Pump => (closing => closing')
  BY DEF Pump, HandlerReturns, SendInformational, WriteDone, WriteFails, BodyDone
<1>2. Tunnel \/ Events \/ UNCHANGED vars => (closing => closing')
  BY DEF Tunnel, ConnectReturns, ConnectWritten, TunnelEnds, Events, OnTimeout,
     InitiateClose, ServerDestroys, PeerEnds, SocketClosed, BodyRead, vars
<1>3. Parse => (closing => closing')
  BY DEF Parse, OnSocketData, OnData, OnTrailers, OnMessageComplete, OnError, FeedEnd,
     OnRefusedHeaders, OnHeaders
<1>. QED BY <1>1, <1>2, <1>3 DEF Next

-----------------------------------------------------------------------------
(* The entries.                                                            *)

\* What no step takes back, and that it commits entry id at most.
Follows(e, f) ==
  /\ f.keepAlive = e.keepAlive
  /\ e.complete => f.complete
  /\ e.committed => f.committed
  /\ f.announced => e.announced \/ (f.committed /\ (~f.keepAlive \/ closing))
Quiet(e, f) == (f.committed => e.committed) /\ (f.announced => e.announced)
Marks(m, n, id) ==
  \A i \in 1 .. count :
    /\ Follows(m[i], n[i])
    /\ n[i].committed => m[i].committed \/ i = id
    /\ n[i].announced => m[i].announced \/ i = id

LEMMA FieldFollows ==
  ASSUME NEW e \in Entries
  PROVE  /\ Follows(e, e) /\ Follows(e, Commit(e))
         /\ \A f \in {Abandon(e), [e EXCEPT !.responded = TRUE], [e EXCEPT !.discard = TRUE],
                      [e EXCEPT !.aborted = TRUE],
                      [e EXCEPT !.body = "cancelled", !.discard = TRUE],
                      [e EXCEPT !.complete = TRUE,
                                !.body = IF @ = "open" /\ ~e.discard THEN "closed" ELSE @]} :
              Follows(e, f) /\ Quiet(e, f)
  BY DEF Entries, Follows, Quiet, Abandon, Commit

LEMMA MarksMore ==
  ASSUME NEW m, NEW n, Marks(m, n, 0)
  PROVE  /\ \A id : Marks(m, n, id)
         /\ \A p, id : Marks(n, p, id) => Marks(m, p, id)
  BY DEF Marks, Follows

\* The steps of the connection on its entries.
LEMMA FieldsMark ==
  ASSUME TypeOK, NEW m \in [Msg -> Entries], NEW i
  PROVE  /\ Marks(m, m, 0)
         /\ Marks(m, [m EXCEPT ![i] = Commit(@)], i)
         /\ Marks(m, [m EXCEPT ![i].responded = TRUE], 0)
         /\ Marks(m, [m EXCEPT ![i].discard = TRUE], 0)
         /\ Marks(m, [m EXCEPT ![i].aborted = TRUE], 0)
         /\ Marks(m, [m EXCEPT ![i].body = "cancelled", ![i].discard = TRUE], 0)
         /\ Marks(m, [m EXCEPT ![i].complete = TRUE,
                       ![i].body = IF @ = "open" /\ ~m[i].discard THEN "closed" ELSE @], 0)
<1>1. \A j \in 1 .. count : j \in Msg /\ m[j] \in Entries
  BY NumberType
<1>2. ASSUME NEW f, NEW k,
             i \in 1 .. count => Follows(m[i], f) /\ (Quiet(m[i], f) \/ i = k)
      PROVE  Marks(m, [m EXCEPT ![i] = f], k)
  BY <1>1, <1>2, FieldFollows DEF Marks, Quiet
<1>3. Marks(m, m, 0) BY <1>1, FieldFollows DEF Marks
<1>4. Marks(m, [m EXCEPT ![i] = Commit(@)], i)
  BY <1>1, <1>2, FieldFollows
<1>5. Marks(m, [m EXCEPT ![i].responded = TRUE], 0) BY <1>1, <1>2, FieldFollows
<1>6. Marks(m, [m EXCEPT ![i].discard = TRUE], 0) BY <1>1, <1>2, FieldFollows
<1>7. Marks(m, [m EXCEPT ![i].aborted = TRUE], 0) BY <1>1, <1>2, FieldFollows
<1>8. Marks(m, [m EXCEPT ![i].body = "cancelled", ![i].discard = TRUE], 0)
  <2>. DEFINE f == [m[i] EXCEPT !.body = "cancelled", !.discard = TRUE]
  <2>1. i \in 1 .. count => Follows(m[i], f) /\ Quiet(m[i], f)
    BY <1>1, FieldFollows
  <2>2. [m EXCEPT ![i].body = "cancelled", ![i].discard = TRUE] = [m EXCEPT ![i] = f]
    OBVIOUS
  <2>. HIDE DEF f
  <2>. QED BY <1>2, <2>1, <2>2
<1>9. Marks(m, [m EXCEPT ![i].complete = TRUE,
                 ![i].body = IF @ = "open" /\ ~m[i].discard THEN "closed" ELSE @], 0)
  <2>. DEFINE f == [m[i] EXCEPT !.complete = TRUE,
                                !.body = IF @ = "open" /\ ~m[i].discard THEN "closed" ELSE @]
  <2>1. i \in 1 .. count => Follows(m[i], f) /\ Quiet(m[i], f)
    BY <1>1, FieldFollows
  <2>2. [m EXCEPT ![i].complete = TRUE,
                  ![i].body = IF @ = "open" /\ ~m[i].discard THEN "closed" ELSE @]
          = [m EXCEPT ![i] = f]
    OBVIOUS
  <2>. HIDE DEF f
  <2>. QED BY <1>2, <2>1, <2>2
<1>. QED BY <1>3, <1>4, <1>5, <1>6, <1>7, <1>8, <1>9

LEMMA TeardownMarks ==
  ASSUME TypeOK, NEW q, NEW m \in [Msg -> Entries], TeardownQueue(q, m)
  PROVE  Marks(m, msg', 0)
<1>1. CASE closed
  BY <1>1, FieldsMark DEF TeardownQueue
<1>2. CASE ~closed
  <2>1. ASSUME NEW i \in 1 .. count
        PROVE  Follows(m[i], msg'[i]) /\ Quiet(m[i], msg'[i])
    <3>1. i \in Msg /\ m[i] \in Entries /\ msg'[i] \in {m[i], Abandon(m[i])}
      BY <1>2, NumberType DEF TeardownQueue
    <3>2. Follows(m[i], m[i]) /\ Quiet(m[i], m[i])
      BY <3>1, FieldFollows DEF Quiet
    <3>3. Follows(m[i], Abandon(m[i])) /\ Quiet(m[i], Abandon(m[i]))
      BY <3>1, FieldFollows
    <3>. QED BY <3>1, <3>2, <3>3
  <2>. QED BY <2>1 DEF Marks, Quiet
<1>. QED BY <1>1, <1>2

\* The entry whose response begins with a step.
Begun == IF pumpPc' = "writing" /\ ~UNCHANGED <<pumpPc, current>> THEN current' ELSE 0

LEMMA DispatchMarks ==
  ASSUME TypeOK, NEW m \in [Msg -> Entries], NEW id, NEW w, Dispatch(id, m, w)
  PROVE  Marks(m, msg', IF pumpPc' = "writing" THEN current' ELSE 0)
<1>1. CASE pumpPc' = "handler" /\ msg' = m
  BY <1>1, FieldsMark
<1>2. CASE StartWriting(id, m, w)
  BY <1>2, FieldsMark DEF StartWriting, Dispatch
<1>. QED BY <1>1, <1>2 DEF Dispatch

LEMMA TurnMarks ==
  ASSUME TypeOK, QueueInv, NumberInv, NEW m \in [Msg -> Entries], NEW w, EndTurn(m, w),
         pumpPc # "idle"
  PROVE  Marks(m, msg', Begun)
<1>1. \/ \E q : TeardownQueue(q, m)
      \/ \E id : Dispatch(id, m, w)
      \/ msg' = m
  BY DEF EndTurn, Teardown
<1>2. CASE \E q : TeardownQueue(q, m)
  BY <1>2, TeardownMarks, MarksMore
<1>3. CASE \E id : Dispatch(id, m, w)
  <2>1. pumpPc' # "idle"
    BY <1>3 DEF Dispatch, StartWriting
  <2>2. current' = current + 1 /\ current \in Nat
    BY <2>1, TurnGoesOn DEF TypeOK
  <2>3. Begun = IF pumpPc' = "writing" THEN current' ELSE 0
    BY <2>2 DEF Begun
  <2>. QED BY <1>3, <2>3, DispatchMarks
<1>4. CASE msg' = m
  BY <1>4, FieldsMark, MarksMore
<1>. QED BY <1>1, <1>2, <1>3, <1>4

LEMMA EntriesMarked == TypeOK /\ QueueInv /\ NumberInv /\ [Next]_vars => Marks(msg, msg', Begun)
<1> SUFFICES ASSUME TypeOK, QueueInv, NumberInv, [Next]_vars PROVE Marks(msg, msg', Begun)
  OBVIOUS
<1>0. msg \in [Msg -> Entries]
  BY DEF TypeOK
<1>1. ASSUME UNCHANGED msg PROVE Marks(msg, msg', Begun)
  BY <1>0, <1>1, FieldsMark, MarksMore
<1>2. ASSUME NEW q, TeardownQueue(q, msg) PROVE Marks(msg, msg', Begun)
  BY <1>0, <1>2, TeardownMarks, MarksMore
<1>3. CASE HandlerReturns
  <2>1. CASE StartWriting(current, msg, wire) /\ UNCHANGED current
    <3>1. Begun = current
      BY <1>3, <2>1 DEF HandlerReturns, StartWriting, Begun
    <3>. QED BY <1>0, <2>1, <3>1, FieldsMark DEF StartWriting
  <2>. QED BY <1>2, <1>3, <2>1 DEF HandlerReturns, Teardown
<1>4. CASE SendInformational
  BY <1>1, <1>4 DEF SendInformational
<1>5. CASE WriteDone
  <2>. DEFINE m == [msg EXCEPT ![current].responded = TRUE]
              w == Written(wire, "end", current)
  <2>1. m \in [Msg -> Entries] /\ Marks(msg, m, 0)
    BY <1>0, FieldsType, FieldsMark
  <2>2. Marks(m, [m EXCEPT ![current].discard = TRUE], 0)
    BY <2>1, FieldsMark
  <2>3. EndTurn(m, w) \/ msg' = [m EXCEPT ![current].discard = TRUE]
    BY <1>5 DEF WriteDone, DiscardRest
  <2>. HIDE DEF m, w
  <2>4. Marks(m, msg', Begun)
    BY <1>5, <2>1, <2>2, <2>3, TurnMarks, MarksMore DEF WriteDone
  <2>. QED BY <2>1, <2>4, MarksMore
<1>6. CASE WriteFails
  BY <1>2, <1>6 DEF WriteFails, Teardown
<1>7. CASE BodyDone
  BY <1>0, <1>7, TurnMarks DEF BodyDone, Woken
<1>8. CASE OnSocketData \/ OnTrailers \/ OnError
  BY <1>1, <1>8 DEF OnSocketData, OnTrailers, OnError
<1>9. ASSUME NEW kind \in Kinds, OnRefusedHeaders(kind) PROVE Marks(msg, msg', Begun)
  BY <1>1, <1>9 DEF OnRefusedHeaders
<1>10. ASSUME NEW kind \in Kinds, OnHeaders(kind) PROVE Marks(msg, msg', Begun)
  <2>. DEFINE m == [msg EXCEPT ![count + 1] = Entry(kind)]
  <2>1. m \in [Msg -> Entries]
    BY <1>0, EntryType
  <2>2. Marks(msg, m, 0)
    <3>1. \A i \in 1 .. count : i # count + 1 /\ m[i] = msg[i]
      BY <1>0, NumberType DEF TypeOK
    <3>2. Marks(msg, msg, 0)
      BY <1>0, FieldsMark
    <3>. QED BY <3>1, <3>2 DEF Marks
  <2>3. msg' = m \/ (~running /\ \E w : Dispatch(count + 1, m, w))
    BY <1>10 DEF OnHeaders
  <2>. HIDE DEF m
  <2>4. Marks(m, msg', Begun)
    <3>1. CASE msg' = m
      BY <2>1, <3>1, FieldsMark, MarksMore
    <3>2. CASE ~running /\ \E w : Dispatch(count + 1, m, w)
      <4>1. Begun = IF pumpPc' = "writing" THEN current' ELSE 0
        BY <3>2 DEF Begun, QueueInv
      <4>. QED BY <2>1, <3>2, <4>1, DispatchMarks
    <3>. QED BY <2>3, <3>1, <3>2
  <2>. QED BY <2>2, <2>4, MarksMore
<1>11. CASE OnData
  <2>1. UNCHANGED msg \/ msg' = [msg EXCEPT ![count].aborted = TRUE]
    BY <1>11 DEF OnData
  <2>. QED BY <1>0, <1>1, <2>1, FieldsMark, MarksMore, ZenonT(60)
<1>12. CASE OnMessageComplete
  BY <1>0, <1>12, FieldsMark, MarksMore DEF OnMessageComplete
<1>13. CASE FeedEnd
  BY <1>1, <1>2, <1>13 DEF FeedEnd, BeginConnect, Reject
<1>14. CASE ConnectReturns
  BY <1>1, <1>2, <1>14 DEF ConnectReturns, Reject
<1>15. CASE ConnectWritten \/ TunnelEnds \/ OnTimeout \/ SocketClosed
  BY <1>2, <1>15 DEF ConnectWritten, TunnelEnds, OnTimeout, SocketClosed, Teardown
<1>16. CASE InitiateClose
  BY <1>1, <1>2, <1>16 DEF InitiateClose, Teardown
<1>17. CASE ServerDestroys \/ PeerEnds
  BY <1>1, <1>17 DEF ServerDestroys, PeerEnds
<1>18. ASSUME NEW i \in Msg, BodyRead(i) PROVE Marks(msg, msg', Begun)
  <2>1. UNCHANGED msg \/ msg' = [msg EXCEPT ![i].body = "cancelled", ![i].discard = TRUE]
    BY <1>18 DEF BodyRead
  <2>. QED BY <1>0, <1>1, <2>1, FieldsMark, MarksMore
<1>19. CASE UNCHANGED vars
  BY <1>1, <1>19 DEF vars
<1>. QED
  BY <1>3, <1>4, <1>5, <1>6, <1>7, <1>8, <1>9, <1>10, <1>11, <1>12, <1>13,
     <1>14, <1>15, <1>16, <1>17, <1>18, <1>19
  DEF Next, Parse, Pump, Tunnel, Events

\* Only the newest message can be incomplete, and the parser goes on to the next
\* head, or hands over to a tunnel, when it is not.
PhaseInv ==
  \A i \in 1 .. count : msg[i].complete \/ (i = count /\ phase \in {"body", "failed"})

LEMMA PhaseInvCorrect == Spec => []PhaseInv
<1>1. Init => PhaseInv
  BY DEF Init, PhaseInv
<1>2. TypeOK /\ QueueInv /\ NumberInv /\ PhaseInv /\ [Next]_vars => PhaseInv'
  <2> SUFFICES ASSUME TypeOK, QueueInv, NumberInv, PhaseInv, [Next]_vars PROVE PhaseInv'
    OBVIOUS
  <2>0. /\ count \in Nat /\ msg \in [Msg -> Entries]
        /\ \A i \in 1 .. count : msg[i].complete => msg'[i].complete
    BY EntriesMarked DEF TypeOK, Marks, Follows
  <2>1. ASSUME UNCHANGED count,
               phase' = phase \/ phase = "head" \/ phase' \in {"body", "failed"}
        PROVE  PhaseInv'
    BY <2>0, <2>1 DEF PhaseInv
  <2>2. ASSUME NEW kind \in Kinds, OnHeaders(kind) PROVE PhaseInv'
    <3>1. count' = count + 1 /\ phase = "head" /\ phase' = "body"
      BY <2>2 DEF OnHeaders
    <3>2. 1 .. count' = 1 .. count \cup {count + 1}
      BY <2>0, <3>1
    <3>. QED BY <2>0, <3>1, <3>2 DEF PhaseInv
  <2>3. CASE OnMessageComplete
    <3>1. /\ UNCHANGED count
          /\ msg' = [msg EXCEPT ![count].complete = TRUE,
                                ![count].body = IF @ = "open" /\ ~msg[count].discard
                                                THEN "closed" ELSE @]
      BY <2>3 DEF OnMessageComplete
    <3>2. ASSUME count \in 1 .. count PROVE msg'[count].complete
      <4>1. count \in Msg /\ msg[count] \in Entries
        BY <2>0, <3>2, NumberType
      <4>. QED BY <2>0, <3>1, <4>1 DEF Entries
    <3>. QED BY <2>0, <3>1, <3>2 DEF PhaseInv
  <2>4. ASSUME NEW kind \in Kinds, OnRefusedHeaders(kind) PROVE PhaseInv'
    BY <2>1, <2>4 DEF OnRefusedHeaders
  <2>5. CASE OnSocketData \/ OnData \/ OnTrailers \/ OnError \/ FeedEnd
    BY <2>1, <2>5 DEF OnSocketData, OnData, OnTrailers, OnError, FeedEnd
  <2>6. CASE Pump
    BY <2>1, <2>6 DEF Pump, HandlerReturns, SendInformational, WriteDone, WriteFails,
       BodyDone, parserVars
  <2>7. CASE Tunnel \/ Events \/ UNCHANGED vars
    BY <2>1, <2>7 DEF Tunnel, ConnectReturns, ConnectWritten, TunnelEnds, Events, OnTimeout,
       InitiateClose, ServerDestroys, PeerEnds, SocketClosed, BodyRead, vars, parserVars
  <2>. QED BY <2>2, <2>3, <2>4, <2>5, <2>6, <2>7 DEF Next, Parse
<1>. QED BY <1>1, <1>2, TypeCorrect, QueueInvCorrect, NumberInvCorrect, PTL DEF Spec

\* Responses begin in the order of the queue, and not before their handler
\* returned.
CommitInv ==
  /\ \A i \in 1 .. count : msg[i].committed => i <= current
  /\ pumpPc = "handler" => ~msg[current].committed

LEMMA CommitInvCorrect == Spec => []CommitInv
<1>1. Init => CommitInv
  BY DEF Init, CommitInv
<1>2. TypeOK /\ QueueInv /\ QueueInv' /\ NumberInv /\ CommitInv /\ [Next]_vars => CommitInv'
  <2> SUFFICES ASSUME TypeOK, QueueInv, QueueInv', NumberInv, CommitInv, [Next]_vars
               PROVE  CommitInv'
    OBVIOUS
  <2>0. /\ count \in Nat /\ current \in Nat /\ current <= count
        /\ pumpPc # "idle" => current \in 1 .. count
        /\ pumpPc' # "idle" => current' \in 1 .. count'
    BY DEF QueueInv, TypeOK
  <2>1. \A i \in 1 .. count : msg'[i].committed => msg[i].committed \/ i = Begun
    BY EntriesMarked DEF Marks
  <2>2. \/ current' = current /\ (pumpPc' = "handler" => pumpPc = "handler")
        \/ current' = current + 1 /\ pumpPc' # "idle"
        \/ current' = count + 1 /\ count' = count + 1
    BY PumpGoesOn
  <2>3. ASSUME NEW i \in 1 .. count, msg'[i].committed PROVE i <= current'
    <3>1. CASE i = Begun
      BY <2>0, <3>1 DEF Begun
    <3>2. CASE msg[i].committed
      <4>1. i <= current
        BY <3>2 DEF CommitInv
      <4>. QED BY <2>0, <2>2, <4>1
    <3>. QED BY <2>1, <2>3, <3>1, <3>2
  <2>4. ASSUME pumpPc' = "handler", current' \in 1 .. count PROVE ~msg'[current'].committed
    <3>1. Begun = 0
      BY <2>4 DEF Begun
    <3>2. ~msg[current'].committed
      BY <2>0, <2>2, <2>4 DEF CommitInv
    <3>. QED BY <2>0, <2>1, <2>4, <3>1, <3>2
  <2>5. CASE count' = count
    BY <2>0, <2>3, <2>4, <2>5 DEF CommitInv
  <2>6. ASSUME NEW kind \in Kinds, OnHeaders(kind) PROVE CommitInv'
    <3>. DEFINE m == [msg EXCEPT ![count + 1] = Entry(kind)]
    <3>1. count' = count + 1 /\ count + 1 \in Msg
      BY <2>0, <2>6, MaxMsgAssumption DEF OnHeaders, Msg, TypeOK
    <3>2. ~m[count + 1].committed
      BY <3>1 DEF TypeOK, Entry
    <3>3. msg' = m \/ (pumpPc' = "writing" /\ current' = count + 1)
      BY <2>6 DEF OnHeaders, Dispatch, StartWriting
    <3>. HIDE DEF m
    <3>4. 1 .. count' = 1 .. count \cup {count + 1}
      BY <2>0, <3>1
    <3>5. msg'[count + 1].committed => pumpPc' = "writing" /\ current' = count + 1
      BY <3>2, <3>3
    <3>6. ASSUME NEW i \in 1 .. count', msg'[i].committed PROVE i <= current'
      BY <2>0, <2>3, <3>4, <3>5, <3>6
    <3>7. pumpPc' = "handler" => ~msg'[current'].committed
      BY <2>0, <2>4, <3>4, <3>5
    <3>. QED BY <3>6, <3>7 DEF CommitInv
  <2>. QED BY <2>5, <2>6, CountGrows
<1>. QED BY <1>1, <1>2, TypeCorrect, QueueInvCorrect, NumberInvCorrect, PTL DEF Spec

\* A response begins once.
LEMMA BegunIsNew ==
  ASSUME TypeOK, QueueInv, NumberInv, CommitInv, [Next]_vars, Begun \in 1 .. count
  PROVE  ~msg[Begun].committed
<1>1. /\ pumpPc' = "writing" /\ ~UNCHANGED <<pumpPc, current>> /\ Begun = current'
      /\ count \in Nat /\ current \in Nat
  BY DEF Begun, TypeOK
<1>2. \/ current' = current /\ pumpPc \in {"handler", "writing"}
      \/ current' = current + 1
  BY <1>1, PumpGoesOn
<1>3. CASE current' = current /\ pumpPc \in {"handler", "writing"}
  BY <1>1, <1>3 DEF CommitInv
<1>4. CASE current' = current + 1
  BY <1>1, <1>4 DEF CommitInv
<1>. QED BY <1>2, <1>3, <1>4

\* A response that announced the end is committed, and the connection does end.
AnnounceInv ==
  \A i \in 1 .. count :
    msg[i].announced => msg[i].committed /\ (~msg[i].keepAlive \/ closing)

LEMMA AnnounceInvCorrect == Spec => []AnnounceInv
<1>1. Init => AnnounceInv
  BY DEF Init, AnnounceInv
<1>2. TypeOK /\ QueueInv /\ NumberInv /\ AnnounceInv /\ [Next]_vars => AnnounceInv'
  <2> SUFFICES ASSUME TypeOK, QueueInv, NumberInv, AnnounceInv, [Next]_vars
               PROVE  AnnounceInv'
    OBVIOUS
  <2>0. count \in Nat /\ msg \in [Msg -> Entries] /\ (closing => closing')
    BY ClosingStays DEF TypeOK
  <2>1. ASSUME NEW i \in 1 .. count
        PROVE  msg'[i].announced => msg'[i].committed /\ (~msg'[i].keepAlive \/ closing')
    <3>1. Follows(msg[i], msg'[i])
      BY EntriesMarked DEF Marks
    <3>. QED BY <2>0, <3>1 DEF AnnounceInv, Follows
  <2>2. CASE count' = count
    BY <2>1, <2>2 DEF AnnounceInv
  <2>3. ASSUME NEW kind \in Kinds, OnHeaders(kind) PROVE AnnounceInv'
    <3>. DEFINE n == count + 1
                m == [msg EXCEPT ![count + 1] = Entry(kind)]
    <3>1. count' = n /\ n \in Msg
      BY <2>0, <2>3, MaxMsgAssumption DEF OnHeaders, Msg, TypeOK
    <3>2. m \in [Msg -> Entries] /\ m[n] = Entry(kind)
      BY <2>0, <3>1, EntryType
    <3>3. msg' = m \/ msg' = [m EXCEPT ![n] = Commit(@)]
      BY <2>3 DEF OnHeaders, Dispatch, StartWriting
    <3>. HIDE DEF m
    <3>4. msg'[n] = Entry(kind) \/ msg'[n] = Commit(Entry(kind))
      BY <3>1, <3>2, <3>3
    <3>5. 1 .. count' = 1 .. count \cup {n}
      BY <2>0, <3>1
    <3>. HIDE DEF n
    <3>6. msg'[n].announced => msg'[n].committed /\ (~msg'[n].keepAlive \/ closing')
      <4>. DEFINE e == Entry(kind)
      <4>1. e \in Entries /\ ~e.announced
        BY <3>1, <3>2 DEF Entry
      <4>2. msg'[n] = e \/ msg'[n] = Commit(e)
        BY <3>4
      <4>. HIDE DEF e
      <4>. QED BY <2>0, <4>1, <4>2 DEF Entries, Commit
    <3>. QED BY <2>1, <3>5, <3>6 DEF AnnounceInv
  <2>. QED BY <2>2, <2>3, CountGrows
<1>. QED BY <1>1, <1>2, TypeCorrect, QueueInvCorrect, NumberInvCorrect, PTL DEF Spec

-----------------------------------------------------------------------------
(* The wire.                                                               *)

\* Heads are of queued requests whose response has begun.
HeadsOf(w, m, n) == \A id : Has(w, "head", id) => id \in 1 .. n /\ m[id].committed

\* Ends are of responses that have begun, or of that to a CONNECT.
EndsOf(w, m, n) ==
  \A id : Has(w, "end", id) =>
    (id > n \/ id \in 1 .. n) /\ (id \in 1 .. n => m[id].committed)

\* The responses to the first n requests were written to their ends.
EndedUpTo(w, n) == \A i \in 1 .. n : Has(w, "end", i)

\* The response that is written although the pump waits for the request's body.
Awaited == IF pumpPc = "body" THEN current ELSE 0

\* What was written, and while more can be: no last word was said, unless the pump
\* still waits for a body, and all requests before the one the pump works on have
\* their whole response.
WireInv ==
  /\ InOrder(wire) /\ LastWord(wire, msg, count)
  /\ HeadsOf(wire, msg, count) /\ EndsOf(wire, msg, count)
  /\ sock = "open" =>
       /\ Unsaid(wire, msg, count, Awaited)
       /\ EndedUpTo(wire, current - 1)
       /\ pumpPc \in {"idle", "body"} => EndedUpTo(wire, current)
       /\ pumpPc = "writing" => Has(wire, "head", current)
       /\ tunnel = "responding" => pumpPc # "body" /\ Has(wire, "connect", count + 1)

\* All that WireInv rests on.
Ground ==
  /\ TypeOK /\ TunnelInv /\ QueueInv /\ OpenInv /\ NumberInv
  /\ PhaseInv /\ CommitInv /\ AnnounceInv

\* The invariant of the next state, of what the step writes.
LEMMA NextWire ==
  ASSUME NEW w, NEW m, NEW n, NEW c, wire' = w, msg' = m, count' = n,
         InOrder(w), LastWord(w, m, n), HeadsOf(w, m, n), EndsOf(w, m, n),
         sock' = "open" =>
           /\ Unsaid(w, m, n, c) /\ c = IF pumpPc' = "body" THEN current' ELSE 0
           /\ EndedUpTo(w, current' - 1)
           /\ pumpPc' \in {"idle", "body"} => EndedUpTo(w, current')
           /\ pumpPc' = "writing" => Has(w, "head", current')
           /\ tunnel' = "responding" => pumpPc' # "body" /\ Has(w, "connect", n + 1)
  PROVE  WireInv'
  BY DEF WireInv, InOrder, HasBefore, LastWord, Final, Tolerated, HeadsOf, EndsOf, Unsaid,
     EndedUpTo, Has, Awaited

\* What is true of the wire with some entries is true with those that follow.
LEMMA SameWire ==
  ASSUME NEW w \in Seq(Output), NEW m, NEW p, NEW n, EndsOf(w, m, n),
         \A i \in 1 .. n : m[i].committed =>
           p[i].committed /\ (p[i].announced => m[i].announced)
  PROVE  /\ LastWord(w, m, n) => LastWord(w, p, n)
         /\ HeadsOf(w, m, n) => HeadsOf(w, p, n)
         /\ EndsOf(w, p, n)
         /\ \A c : Unsaid(w, m, n, c) => Unsaid(w, p, n, c)
<1>1. ASSUME NEW i \in 1 .. Len(w), Final(w[i], p, n) PROVE Final(w[i], m, n)
  <2>1. w[i] \in Output
    BY ElementOfSeq
  <2>2. w[i] = Line(w[i].what, w[i].id)
    BY <2>1 DEF Output, Line
  <2>3. Has(w, w[i].what, w[i].id)
    BY <2>2 DEF Has
  <2>4. CASE w[i].what = "end"
    <3>1. w[i].id > n \/ (w[i].id \in 1 .. n /\ m[w[i].id].committed)
      BY <2>3, <2>4 DEF EndsOf
    <3>. QED BY <1>1, <2>4, <3>1 DEF Final
  <2>. QED BY <1>1, <2>4 DEF Final
<1>2. LastWord(w, m, n) => LastWord(w, p, n)
  BY <1>1 DEF LastWord
<1>3. HeadsOf(w, m, n) => HeadsOf(w, p, n)
  BY Zenon DEF HeadsOf
<1>4. EndsOf(w, p, n)
  BY Zenon DEF EndsOf
<1>5. ASSUME NEW c, Unsaid(w, m, n, c) PROVE Unsaid(w, p, n, c)
  <2>1. ASSUME NEW id, Has(w, "end", id)
        PROVE  id \in 1 .. n /\ (p[id].announced => id = c)
    <3>1. id \in 1 .. n /\ (m[id].announced => id = c)
      BY <1>5, <2>1 DEF Unsaid
    <3>2. m[id].committed
      BY <2>1, <3>1 DEF EndsOf
    <3>. QED BY <3>1, <3>2
  <2>. QED BY <1>5, <2>1 DEF Unsaid
<1>. QED BY <1>2, <1>3, <1>4, <1>5

LEMMA MarkedWire ==
  ASSUME NEW w \in Seq(Output), NEW m, NEW p, NEW id, Marks(m, p, id),
         EndsOf(w, m, count), id = 0 \/ (id \in 1 .. count => ~m[id].committed)
  PROVE  /\ LastWord(w, m, count) => LastWord(w, p, count)
         /\ HeadsOf(w, m, count) => HeadsOf(w, p, count)
         /\ EndsOf(w, p, count)
         /\ \A c : Unsaid(w, m, count, c) => Unsaid(w, p, count, c)
<1>1. ASSUME NEW i \in 1 .. count, m[i].committed
      PROVE  p[i].committed /\ (p[i].announced => m[i].announced)
  <2>1. i # id
    BY <1>1
  <2>. QED BY <1>1, <2>1 DEF Marks, Follows
<1>. QED BY <1>1, SameWire

\* What a step does to the entries keeps what is true of the wire.
LEMMA StepKeeps ==
  ASSUME Ground, [Next]_vars, NEW w \in Seq(Output), EndsOf(w, msg, count)
  PROVE  /\ LastWord(w, msg, count) => LastWord(w, msg', count)
         /\ HeadsOf(w, msg, count) => HeadsOf(w, msg', count)
         /\ EndsOf(w, msg', count)
         /\ \A c : Unsaid(w, msg, count, c) => Unsaid(w, msg', count, c)
<1>. DEFINE id == Begun
<1>1. Marks(msg, msg', id) /\ (id \in 1 .. count => ~msg[id].committed)
  BY EntriesMarked, BegunIsNew DEF Ground
<1>. HIDE DEF id
<1>. QED BY <1>1, MarkedWire

\* A step after which nothing can be written.
LEMMA Ends ==
  ASSUME Ground, [Next]_vars, UNCHANGED count, sock' # "open", wire' \in Seq(Output),
         InOrder(wire'), LastWord(wire', msg, count), HeadsOf(wire', msg, count),
         EndsOf(wire', msg, count)
  PROVE  WireInv'
<1>1. LastWord(wire', msg', count) /\ HeadsOf(wire', msg', count) /\ EndsOf(wire', msg', count)
  BY StepKeeps
<1>. QED BY <1>1, NextWire

\* A step that writes nothing.
LEMMA Silent ==
  ASSUME Ground, WireInv, [Next]_vars, UNCHANGED <<wire, count>>,
         sock' = "open" => /\ sock = "open" /\ UNCHANGED <<current, pumpPc>>
                           /\ tunnel' = "responding" => tunnel = "responding"
  PROVE  WireInv'
<1>0. wire \in Seq(Output) /\ InOrder(wire) /\ EndsOf(wire, msg, count)
  BY DEF Ground, TypeOK, WireInv
<1>1. /\ LastWord(wire, msg', count) /\ HeadsOf(wire, msg', count) /\ EndsOf(wire, msg', count)
      /\ sock' = "open" => Unsaid(wire, msg', count, Awaited)
  BY <1>0, StepKeeps DEF WireInv
<1>2. sock' = "open" =>
        /\ Awaited = IF pumpPc' = "body" THEN current' ELSE 0
        /\ EndedUpTo(wire, current' - 1)
        /\ pumpPc' \in {"idle", "body"} => EndedUpTo(wire, current')
        /\ pumpPc' = "writing" => Has(wire, "head", current')
        /\ tunnel' = "responding" => pumpPc' # "body" /\ Has(wire, "connect", count + 1)
  BY DEF WireInv, Awaited
<1>. QED BY <1>0, <1>1, <1>2, NextWire

\* A wire more can be written to; c is the response the pump has written already.
Wires(w, m, n, c) ==
  /\ w \in Seq(Output) /\ InOrder(w) /\ LastWord(w, m, n)
  /\ HeadsOf(w, m, n) /\ EndsOf(w, m, n) /\ Unsaid(w, m, n, c)

\* What a line more makes of it.
LEMMA LineAdded ==
  ASSUME NEW w \in Seq(Output), NEW id \in 0 .. MaxMsg + 1,
         NEW what \in {"interim", "head", "end", "reject", "connect"}, NEW t, NEW x
  PROVE  Has(Append(w, Line(what, id)), t, x) <=> Has(w, t, x) \/ (t = what /\ x = id)
<1>. DEFINE l == Line(what, id)
<1>1. l \in Output /\ (l = Line(t, x) <=> t = what /\ x = id)
  BY DEF Line, Output
<1>. HIDE DEF l
<1>2. Has(Append(w, l), t, x) <=> Has(w, t, x) \/ l = Line(t, x)
  BY <1>1, Appended, Zenon
<1>3. Has(Append(w, l), t, x) <=> Has(w, t, x) \/ (t = what /\ x = id)
  BY <1>1, <1>2
<1>. QED BY <1>3 DEF l

LEMMA Says ==
  ASSUME NEW w, NEW m, NEW n \in Nat, NEW c \in Nat, Wires(w, m, n, c),
         NEW id \in 0 .. MaxMsg + 1,
         NEW what \in {"interim", "head", "end", "reject", "connect"},
         MayFollow(w, what, id), NEW v, v = Append(w, Line(what, id)),
         c # 0 => what = "interim" /\ id > c
  PROVE  /\ v \in Seq(Output) /\ InOrder(v) /\ LastWord(v, m, n)
         /\ \A t, x : Has(v, t, x) <=> Has(w, t, x) \/ (t = what /\ x = id)
         /\ what # "head" => HeadsOf(v, m, n)
         /\ what # "end" \/ id > n \/ (id \in 1 .. n /\ m[id].committed) => EndsOf(v, m, n)
         /\ what \in {"interim", "head", "connect"} => Unsaid(v, m, n, c)
<1>0. w \in Seq(Output)
  BY DEF Wires
<1>1. Line(what, id) \in Output /\ Line(what, id).what = what /\ Line(what, id).id = id
  BY DEF Line, Output
<1>2. InOrder(v)
  BY OrderKept DEF Wires
<1>3. v \in Seq(Output)
  BY <1>0, <1>1, Appended
<1>4. LastWord(v, m, n)
  <2>. DEFINE l == Line(what, id)
  <2>1. l \in Output /\ v = Append(w, l) /\ (c # 0 => l.what = "interim" /\ l.id > c)
    BY <1>1
  <2>. HIDE DEF l
  <2>. QED BY <1>0, <2>1, LastKept DEF Wires
<1>5. ASSUME NEW t, NEW x
      PROVE  Has(v, t, x) <=> Has(w, t, x) \/ (t = what /\ x = id)
  <2>1. Has(Append(w, Line(what, id)), t, x) <=> Has(w, t, x) \/ (t = what /\ x = id)
    BY <1>0, LineAdded
  <2>. QED BY <2>1
<1>6. what # "head" => HeadsOf(v, m, n)
  BY <1>5 DEF HeadsOf, Wires
<1>7. what # "end" \/ id > n \/ (id \in 1 .. n /\ m[id].committed) => EndsOf(v, m, n)
  BY <1>5 DEF EndsOf, Wires
<1>8. what \in {"interim", "head", "connect"} => Unsaid(v, m, n, c)
  BY <1>5 DEF Unsaid, Wires
<1>. QED BY <1>2, <1>3, <1>4, <1>5, <1>6, <1>7, <1>8

\* Writing to an open socket.
LEMMA Writes ==
  ASSUME NEW w, NEW what, NEW id
  PROVE  /\ sock = "open" => Written(w, what, id) = Append(w, Line(what, id))
         /\ sock # "open" => Written(w, what, id) = w
  BY DEF Written, Line

\* Once nothing can be written nothing is, whatever happens.
LEMMA Shut ==
  ASSUME sock # "open", Pump \/ Tunnel \/ Events
  PROVE  UNCHANGED <<wire, count>> /\ sock' # "open"
<1>1. /\ \A w, what, id : Written(w, what, id) = w
      /\ Ended # "open" /\ Dropped # "open"
  BY DEF Written, Ended, Dropped
<1>2. Reject => UNCHANGED wire /\ sock' # "open"
  BY <1>1 DEF Reject
<1>3. \A m, w : EndTurn(m, w) => wire' = w /\ sock' # "open"
  BY <1>1 DEF EndTurn, Dispatch, StartWriting
<1>4. CASE HandlerReturns \/ SendInformational \/ WriteFails \/ BodyDone
  BY <1>1, <1>3, <1>4
  DEF HandlerReturns, SendInformational, WriteFails, BodyDone, StartWriting, parserVars
<1>5. CASE WriteDone
  BY <1>1, <1>3, <1>5 DEF WriteDone, DiscardRest, parserVars
<1>6. CASE ConnectReturns
  BY <1>1, <1>2, <1>6 DEF ConnectReturns, parserVars
<1>7. CASE ConnectWritten \/ TunnelEnds \/ OnTimeout \/ InitiateClose
  BY <1>1, <1>7 DEF ConnectWritten, TunnelEnds, OnTimeout, InitiateClose, parserVars
<1>8. CASE ServerDestroys \/ PeerEnds \/ SocketClosed \/ \E i \in Msg : BodyRead(i)
  BY <1>8 DEF ServerDestroys, PeerEnds, SocketClosed, BodyRead, parserVars
<1>. QED BY <1>4, <1>5, <1>6, <1>7, <1>8 DEF Pump, Tunnel, Events

\* What WireInv says of an open socket.
LEMMA WireOpen ==
  ASSUME TypeOK, WireInv, sock = "open"
  PROVE  Wires(wire, msg, count, Awaited) /\ count \in Nat /\ Awaited \in Nat
  BY DEF TypeOK, WireInv, Wires, Awaited

\* The head of a response is written.
LEMMA HeadWritten ==
  ASSUME sock = "open", NEW n \in 0 .. MaxMsg, NEW m \in [Msg -> Entries], NEW w,
         Wires(w, m, n, 0), NEW id \in 1 .. n, ~m[id].committed, EndedUpTo(w, id - 1),
         StartWriting(id, m, w)
  PROVE  /\ Wires(wire', msg', n, 0)
         /\ \A t, x : Has(wire', t, x) <=> Has(w, t, x) \/ (t = "head" /\ x = id)
<1>1. /\ id \in Msg /\ id \in 0 .. MaxMsg + 1 /\ n \in Nat
      /\ \A i \in 1 .. n : i \in Msg
  BY MaxMsgAssumption DEF Msg
<1>2. wire' = Append(w, Line("head", id)) /\ msg' = [m EXCEPT ![id] = Commit(@)]
  BY Writes DEF StartWriting
<1>3. MayFollow(w, "head", id)
  <2>1. ~Has(w, "head", id)
    BY DEF Wires, HeadsOf
  <2>2. id > 1 => Has(w, "end", id - 1)
    BY DEF EndedUpTo
  <2>. QED BY <2>1, <2>2 DEF MayFollow
<1>. DEFINE v == Append(w, Line("head", id))
<1>0. v = Append(w, Line("head", id)) /\ wire' = v
  BY <1>2
<1>. HIDE DEF v
<1>4. /\ v \in Seq(Output) /\ InOrder(v) /\ LastWord(v, m, n) /\ EndsOf(v, m, n)
      /\ Unsaid(v, m, n, 0)
  BY <1>0, <1>1, <1>3, Says
<1>5. ASSUME NEW t, NEW x PROVE Has(v, t, x) <=> Has(w, t, x) \/ (t = "head" /\ x = id)
  <2>1. w \in Seq(Output)
    BY DEF Wires
  <2>2. Has(Append(w, Line("head", id)), t, x) <=> Has(w, t, x) \/ (t = "head" /\ x = id)
    BY <1>1, <2>1, LineAdded
  <2>. QED BY <1>0, <2>2
<1>6. \A i \in 1 .. n : m[i].committed =>
        msg'[i].committed /\ (msg'[i].announced => m[i].announced)
  <2>1. ASSUME NEW i \in 1 .. n, m[i].committed PROVE msg'[i] = m[i]
    BY <1>1, <1>2, <2>1
  <2>. QED BY <2>1
<1>7. msg'[id].committed
  <2>1. m[id] \in Entries /\ msg'[id] = Commit(m[id])
    BY <1>1, <1>2
  <2>. QED BY <2>1 DEF Entries, Commit
<1>8. LastWord(v, msg', n) /\ EndsOf(v, msg', n) /\ Unsaid(v, msg', n, 0)
  BY <1>4, <1>6, SameWire
<1>9. HeadsOf(v, msg', n)
  <2>1. w \in Seq(Output) /\ EndsOf(w, m, n) /\ HeadsOf(w, m, n)
    BY DEF Wires
  <2>2. HeadsOf(w, msg', n)
    BY <1>6, <2>1, SameWire
  <2>. QED BY <1>5, <1>7, <2>2 DEF HeadsOf
<1>. QED BY <1>0, <1>4, <1>5, <1>8, <1>9 DEF Wires

\* The dispatch of a request whose forerunners have their responses.
LEMMA DispatchWire ==
  ASSUME sock = "open", NEW n \in 0 .. MaxMsg, NEW m \in [Msg -> Entries], NEW w,
         Wires(w, m, n, 0), NEW id \in 1 .. n, ~m[id].committed, EndedUpTo(w, id - 1),
         Dispatch(id, m, w), count' = n,
         tunnel' = "responding" => Has(w, "connect", n + 1)
  PROVE  WireInv'
<1>1. current' = id /\ pumpPc' # "body" /\ pumpPc' # "idle"
  BY DEF Dispatch, StartWriting
<1>2. CASE pumpPc' = "handler" /\ msg' = m /\ wire' = w
  BY <1>1, <1>2, NextWire DEF Wires
<1>3. CASE StartWriting(id, m, w)
  <2>1. /\ Wires(wire', msg', n, 0)
        /\ \A t, x : Has(wire', t, x) <=> Has(w, t, x) \/ (t = "head" /\ x = id)
    BY <1>3, HeadWritten
  <2>2. EndedUpTo(wire', id - 1) /\ Has(wire', "head", id)
        /\ (tunnel' = "responding" => Has(wire', "connect", n + 1))
    BY <2>1 DEF EndedUpTo
  <2>. QED BY <1>1, <2>1, <2>2, NextWire DEF Wires
<1>. QED BY <1>2, <1>3 DEF Dispatch

\* The end of a turn of the pump on a wire that has the whole response.
LEMMA TurnWire ==
  ASSUME Ground, [Next]_vars, sock = "open", pumpPc # "idle", UNCHANGED count,
         NEW m \in [Msg -> Entries], NEW w, Marks(msg, m, 0), Wires(w, m, count, current),
         EndedUpTo(w, current), tunnel = "responding" => Has(w, "connect", count + 1),
         EndTurn(m, w)
  PROVE  WireInv'
<1>. DEFINE q == IF queue = <<>> THEN <<>> ELSE Tail(queue)
<1>0. /\ TypeOK /\ QueueInv /\ NumberInv /\ CommitInv /\ AnnounceInv /\ ~closed
      /\ queue \in Seq(Nat) /\ count \in Nat /\ current \in 1 .. count
      /\ queue # <<>> /\ count \in 0 .. MaxMsg
  <2>1. TypeOK /\ QueueInv /\ NumberInv /\ CommitInv /\ AnnounceInv /\ ~closed
    BY DEF Ground, OpenInv
  <2>. QED BY <2>1, QueueInvFacts DEF TypeOK
<1>1. \/ Teardown(q, m) /\ sock' = Ended /\ wire' = w
      \/ /\ StaysOpen(m[current]) /\ q # <<>> /\ Dispatch(Head(q), m, w)
         /\ UNCHANGED <<tunnel, sock>>
      \/ /\ StaysOpen(m[current]) /\ PumpStops /\ wire' = w /\ msg' = m
         /\ UNCHANGED <<tunnel, sock>>
  BY DEF EndTurn
<1>2. q # <<>> => Head(q) = current + 1 /\ current + 1 \in 1 .. count
  <2>1. Numbered(queue, current, count) /\ current \in Nat
    BY <1>0 DEF NumberInv
  <2>2. Tail(queue) # <<>> =>
          Head(Tail(queue)) = current + 1 /\ Numbered(Tail(queue), current + 1, count)
    BY <1>0, <2>1, NumberedTail
  <2>3. ASSUME Tail(queue) # <<>> PROVE Len(Tail(queue)) \in Nat /\ Len(Tail(queue)) # 0
    BY <1>0, <2>3, HeadTailProperties, LenProperties, EmptySeq
  <2>. QED BY <1>0, <2>1, <2>2, <2>3 DEF Numbered
<1>. HIDE DEF q
<1>3. CASE Teardown(q, m) /\ sock' = Ended /\ wire' = w
  <2>1. Marks(m, msg', 0)
    BY <1>0, <1>3, TeardownMarks DEF Teardown
  <2>2. InOrder(w) /\ LastWord(w, msg', count) /\ HeadsOf(w, msg', count) /\ EndsOf(w, msg', count)
    BY <2>1, MarkedWire DEF Wires
  <2>3. sock' # "open"
    BY <1>3 DEF Ended
  <2>. QED BY <1>3, <2>2, <2>3, NextWire
<1>6. ASSUME StaysOpen(m[current]) PROVE Wires(w, m, count, 0)
  <2>1. ~m[current].announced
    <3>1. /\ m[current].announced => msg[current].announced
          /\ m[current].keepAlive = msg[current].keepAlive
      <4>1. current # 0
        BY <1>0
      <4>. QED BY <1>0, <4>1 DEF Marks, Follows
    <3>. QED BY <1>0, <1>6, <3>1 DEF StaysOpen, AnnounceInv
  <2>2. ASSUME NEW id, Has(w, "end", id) PROVE id \in 1 .. count /\ (m[id].announced => id = 0)
    BY <2>1, <2>2 DEF Wires, Unsaid
  <2>. QED BY <2>2 DEF Wires, Unsaid
<1>4. CASE /\ StaysOpen(m[current]) /\ q # <<>> /\ Dispatch(Head(q), m, w)
           /\ UNCHANGED <<tunnel, sock>>
  <2>1. Wires(w, m, count, 0)
    BY <1>4, <1>6
  <2>2. ~m[current + 1].committed
    <3>1. ~msg[current + 1].committed
      BY <1>0, <1>2, <1>4 DEF CommitInv
    <3>2. current + 1 # 0
      BY <1>0
    <3>. QED BY <1>2, <1>4, <3>1, <3>2 DEF Marks
  <2>3. EndedUpTo(w, (current + 1) - 1)
    <3>1. (current + 1) - 1 = current
      BY <1>0
    <3>. QED BY <3>1
  <2>4. Dispatch(current + 1, m, w)
    BY <1>2, <1>4
  <2>. QED BY <1>0, <1>2, <1>4, <2>1, <2>2, <2>3, <2>4, DispatchWire
<1>5. CASE /\ StaysOpen(m[current]) /\ PumpStops /\ wire' = w /\ msg' = m
           /\ UNCHANGED <<tunnel, sock>>
  <2>1. current' = current /\ pumpPc' = "idle" /\ EndedUpTo(w, current - 1)
    <3>1. \A i \in 1 .. current - 1 : i \in 1 .. current
      BY <1>0
    <3>. QED BY <1>5, <3>1 DEF PumpStops, EndedUpTo
  <2>2. Wires(w, m, count, 0)
    BY <1>5, <1>6
  <2>. QED BY <1>5, <2>1, <2>2, NextWire DEF Wires
<1>. QED BY <1>1, <1>3, <1>4, <1>5

\* Outside a response every response has its end.
LEMMA AllEnded ==
  ASSUME Ground, WireInv, sock = "open", ~HeadCommitted
  PROVE  MayFollow(wire, "reject", 0) /\ pumpPc # "body"
<1>1. /\ ~closed /\ count \in Nat /\ current \in Nat
      /\ pumpPc # "idle" => queue # <<>> /\ Head(queue) = current /\ current \in 1 .. count
  <2>1. ~closed /\ QueueInv /\ TypeOK
    BY DEF Ground, OpenInv
  <2>. QED BY <2>1, QueueInvFacts DEF TypeOK
<1>2. ASSUME NEW i, Has(wire, "head", i) PROVE Has(wire, "end", i)
  <2>1. i \in 1 .. count /\ msg[i].committed /\ i <= current
    BY <1>2 DEF WireInv, HeadsOf, Ground, CommitInv
  <2>2. CASE i = current
    <3>1. pumpPc = "idle"
      BY <1>1, <2>1, <2>2 DEF HeadCommitted
    <3>. QED BY <1>1, <2>1, <2>2, <3>1 DEF WireInv, EndedUpTo
  <2>3. CASE i # current
    <3>1. i \in 1 .. current - 1
      BY <1>1, <2>1, <2>3
    <3>. QED BY <3>1 DEF WireInv, EndedUpTo
  <2>. QED BY <2>2, <2>3
<1>3. ASSUME pumpPc = "body" PROVE FALSE
  <2>1. Has(wire, "end", current) /\ current \in 1 .. count
    BY <1>1, <1>3 DEF WireInv, EndedUpTo
  <2>2. msg[current].committed
    BY <2>1 DEF WireInv, EndsOf
  <2>. QED BY <1>1, <1>3, <2>2 DEF HeadCommitted
<1>. QED BY <1>2, <1>3 DEF MayFollow

\* A line that is the last.
LEMMA LastLine ==
  ASSUME Ground, WireInv, sock = "open", [Next]_vars, UNCHANGED count, sock' # "open",
         NEW what \in {"end", "reject"}, NEW id \in 0 .. MaxMsg + 1, what = "end" => id > count,
         MayFollow(wire, what, id), wire' = Written(wire, what, id), pumpPc # "body"
  PROVE  WireInv'
<1>1. Wires(wire, msg, count, 0) /\ count \in Nat
  BY WireOpen DEF Ground, Awaited
<1>2. wire' = Append(wire, Line(what, id))
  BY Writes
<1>. DEFINE v == Append(wire, Line(what, id))
<1>3. v \in Seq(Output) /\ InOrder(v) /\ LastWord(v, msg, count)
      /\ HeadsOf(v, msg, count) /\ EndsOf(v, msg, count)
  BY <1>1, Says
<1>. HIDE DEF v
<1>4. wire' = v
  BY <1>2 DEF v
<1>. QED BY <1>3, <1>4, Ends

LEMMA RejectWire ==
  ASSUME Ground, WireInv, sock = "open", [Next]_vars, UNCHANGED count, Reject
  PROVE  WireInv'
<1>1. sock' # "open"
  BY DEF Reject, Ended, Dropped
<1>2. 0 \in 0 .. MaxMsg + 1
  BY MaxMsgAssumption
<1>3. CASE UNCHANGED wire
  BY <1>1, <1>3, Silent
<1>4. CASE ~HeadCommitted /\ wire' = Written(wire, "reject", 0)
  BY <1>1, <1>2, <1>4, AllEnded, LastLine
<1>. QED BY <1>3, <1>4 DEF Reject

\* A message that is queued.
LEMMA HeadersWire ==
  ASSUME Ground, WireInv, NEW kind \in Kinds, OnHeaders(kind)
  PROVE  WireInv'
<1>. DEFINE n == count + 1
            m == [msg EXCEPT ![count + 1] = Entry(kind)]
            w == IF kind = "expect" THEN Written(wire, "interim", count + 1) ELSE wire
<1>0. TypeOK /\ TunnelInv /\ QueueInv /\ NumberInv /\ OpenInv
  BY DEF Ground
<1>1. /\ sock = "open" /\ ~closed /\ tunnel = "none" /\ UNCHANGED <<sock, tunnel>>
      /\ count' = n /\ n \in 0 .. MaxMsg /\ n \in Msg /\ count \in Nat /\ current \in Nat
  <2>1. parsing /\ count < MaxMsg /\ count' = n /\ UNCHANGED <<closed, sock, tunnel>>
    BY DEF OnHeaders
  <2>2. count \in Nat /\ current \in Nat /\ MaxMsg \in Nat
    BY <1>0, MaxMsgAssumption DEF TypeOK
  <2>3. sock = "open" /\ ~closed /\ tunnel = "none"
    BY <1>0, <2>1 DEF OpenInv, TunnelInv
  <2>. QED BY <2>1, <2>2, <2>3 DEF Msg
<1>2. \/ ~running /\ Dispatch(n, m, w)
      \/ running /\ msg' = m /\ wire' = w /\ UNCHANGED pumpVars
  BY DEF OnHeaders
<1>3. m \in [Msg -> Entries] /\ ~m[n].committed /\ \A i \in 1 .. count : m[i] = msg[i]
  <2>1. m \in [Msg -> Entries] /\ m[n] = Entry(kind)
    BY <1>0, <1>1, EntryType DEF TypeOK
  <2>2. \A i \in 1 .. count : i # n /\ i \in Msg
    BY <1>0, <1>1, NumberType
  <2>. QED BY <1>0, <2>1, <2>2 DEF TypeOK, Entry
<1>. HIDE DEF m
<1>. DEFINE c == Awaited
<1>c. c \in Nat /\ n > c /\ n \in Nat
  BY <1>0, <1>1 DEF TypeOK, Awaited
<1>4. Wires(wire, m, n, c)
  <2>1. \A i \in 1 .. count : i \in 1 .. n /\ m[i] = msg[i]
    BY <1>1, <1>3
  <2>2. Wires(wire, msg, count, c)
    BY <1>0, <1>1, WireOpen
  <2>. HIDE DEF n, c
  <2>3. HeadsOf(wire, m, n)
    BY <2>1, <2>2 DEF Wires, HeadsOf
  <2>4. Unsaid(wire, m, n, c)
    BY <2>1, <2>2 DEF Wires, Unsaid
  <2>5. EndsOf(wire, m, n)
    <3>1. ASSUME NEW id, Has(wire, "end", id) PROVE id \in 1 .. n /\ m[id].committed
      <4>1. id \in 1 .. count
        BY <2>2, <3>1 DEF Wires, Unsaid
      <4>2. msg[id].committed
        BY <2>2, <3>1, <4>1 DEF Wires, EndsOf
      <4>. QED BY <2>1, <4>1, <4>2
    <3>. QED BY <3>1 DEF EndsOf
  <2>6. LastWord(wire, m, n)
    <3>1. ASSUME NEW i \in 1 .. Len(wire), Final(wire[i], m, n), NEW j \in i + 1 .. Len(wire)
          PROVE  Tolerated(wire[i], wire[j], n)
      <4>1. wire[i] \in Output
        BY <2>2, ElementOfSeq DEF Wires
      <4>2. wire[i] = Line(wire[i].what, wire[i].id)
        BY <4>1 DEF Output, Line
      <4>3. Has(wire, wire[i].what, wire[i].id)
        BY <4>2 DEF Has
      <4>4. wire[i].what = "end" /\ wire[i].id \in 1 .. count
        BY <2>2, <3>1, <4>3 DEF Final, Wires, Unsaid
      <4>5. Final(wire[i], msg, count)
        BY <1>1, <2>1, <3>1, <4>4 DEF Final, n
      <4>6. Tolerated(wire[i], wire[j], count)
        BY <2>2, <3>1, <4>5 DEF Wires, LastWord
      <4>. QED BY <1>1, <4>4, <4>6 DEF Tolerated, n
    <3>. QED BY <3>1 DEF LastWord
  <2>. QED BY <2>2, <2>3, <2>4, <2>5, <2>6 DEF Wires
<1>5. Wires(w, m, n, c) /\ \A t, x : Has(wire, t, x) => Has(w, t, x)
  <2>1. CASE kind = "expect"
    <3>1. w = Append(wire, Line("interim", n))
      BY <1>1, <2>1, Writes
    <3>. HIDE DEF w
    <3>2. n \in 0 .. MaxMsg + 1 /\ MayFollow(wire, "interim", n)
      BY <1>1, MaxMsgAssumption DEF MayFollow
    <3>. HIDE DEF n, c
    <3>3. /\ w \in Seq(Output) /\ InOrder(w) /\ LastWord(w, m, n) /\ HeadsOf(w, m, n)
          /\ EndsOf(w, m, n) /\ Unsaid(w, m, n, c)
      BY <1>c, <1>4, <3>1, <3>2, Says
    <3>4. ASSUME NEW t, NEW x
          PROVE  Has(w, t, x) <=> Has(wire, t, x) \/ (t = "interim" /\ x = n)
      <4>1. /\ Has(Append(wire, Line("interim", n)), t, x)
                 <=> Has(wire, t, x) \/ (t = "interim" /\ x = n)
        BY <1>4, <3>2, LineAdded DEF Wires
      <4>. QED BY <3>1, <4>1
    <3>. QED BY <3>3, <3>4 DEF Wires
  <2>2. CASE kind # "expect"
    BY <1>4, <2>2
  <2>. QED BY <2>1, <2>2
<1>. HIDE DEF w
<1>6. CASE ~running /\ Dispatch(n, m, w)
  <2>1. current = count /\ pumpPc = "idle"
    <3>1. pumpPc = "idle" /\ queue = <<>>
      BY <1>0, <1>1, <1>6, QueueInvFacts
    <3>. QED BY <1>0, <1>1, <3>1 DEF NumberInv, Numbered
  <2>2. EndedUpTo(w, n - 1)
    <3>1. n - 1 = count /\ EndedUpTo(wire, count)
      BY <1>1, <2>1 DEF WireInv
    <3>. QED BY <1>5, <3>1 DEF EndedUpTo
  <2>3. n \in 1 .. n /\ tunnel' # "responding" /\ c = 0
    BY <1>1, <2>1 DEF Awaited
  <2>. HIDE DEF n, c
  <2>. QED BY <1>1, <1>3, <1>5, <1>6, <2>2, <2>3, DispatchWire
<1>7. CASE running /\ msg' = m /\ wire' = w /\ UNCHANGED pumpVars
  <2>1. /\ EndedUpTo(w, current - 1)
        /\ pumpPc \in {"idle", "body"} => EndedUpTo(w, current)
        /\ pumpPc = "writing" => Has(w, "head", current)
    BY <1>1, <1>5 DEF WireInv, EndedUpTo
  <2>2. c = (IF pumpPc' = "body" THEN current' ELSE 0) /\ UNCHANGED <<pumpPc, current>>
    BY <1>7 DEF pumpVars, Awaited
  <2>. HIDE DEF c, n
  <2>. QED BY <1>1, <1>5, <1>7, <2>1, <2>2, NextWire DEF Wires
<1>. QED BY <1>2, <1>6, <1>7

\* The response is written to its end.
LEMMA DoneWire ==
  ASSUME Ground, WireInv, [Next]_vars, sock = "open", WriteDone
  PROVE  WireInv'
<1>. DEFINE m == [msg EXCEPT ![current].responded = TRUE]
            w == Append(wire, Line("end", current))
<1>0. /\ TypeOK /\ QueueInv /\ PhaseInv /\ TunnelInv /\ Wires(wire, msg, count, 0)
      /\ ~parsing /\ pumpPc = "writing" /\ UNCHANGED count
  BY WireOpen DEF Ground, WriteDone, parserVars, Awaited
<1>1. /\ current \in 1 .. count /\ current \in Msg /\ current \in 0 .. MaxMsg + 1
      /\ count \in Nat /\ current # 0
  BY <1>0, QueueInvFacts, NumberType DEF TypeOK
<1>2. \/ EndTurn(m, w)
      \/ ~m[current].complete /\ DiscardRest(m, w) /\ UNCHANGED <<current, tunnel, sock>>
  <2>1. Written(wire, "end", current) = w
    BY Writes
  <2>. QED BY <2>1 DEF WriteDone
<1>3. /\ m \in [Msg -> Entries] /\ Marks(msg, m, 0)
      /\ m[current].complete = msg[current].complete
  <2>1. m \in [Msg -> Entries]
    BY <1>0, FieldsType DEF TypeOK
  <2>2. Marks(msg, m, 0)
    BY <1>0, FieldsMark DEF TypeOK
  <2>3. msg[current] \in Entries /\ m[current] = [msg[current] EXCEPT !.responded = TRUE]
    BY <1>0, <1>1 DEF TypeOK
  <2>4. m[current].complete = msg[current].complete
    BY <2>3 DEF Entries
  <2>. QED BY <2>1, <2>2, <2>4
<1>. HIDE DEF m
<1>4. /\ w \in Seq(Output) /\ InOrder(w) /\ LastWord(w, msg, count) /\ HeadsOf(w, msg, count)
      /\ EndsOf(w, msg, count)
      /\ \A t, x : Has(w, t, x) <=> Has(wire, t, x) \/ (t = "end" /\ x = current)
  <2>1. MayFollow(wire, "end", current)
    BY <1>0 DEF WireInv, MayFollow
  <2>2. msg[current].committed
    BY <1>0 DEF WireInv, HeadsOf
  <2>. HIDE DEF w
  <2>3. w = Append(wire, Line("end", current))
    BY DEF w
  <2>4. w \in Seq(Output) /\ InOrder(w) /\ LastWord(w, msg, count) /\ HeadsOf(w, msg, count)
        /\ EndsOf(w, msg, count)
    BY <1>0, <1>1, <2>1, <2>2, <2>3, Says
  <2>5. ASSUME NEW t, NEW x
        PROVE  Has(w, t, x) <=> Has(wire, t, x) \/ (t = "end" /\ x = current)
    <3>1. Has(Append(wire, Line("end", current)), t, x)
            <=> Has(wire, t, x) \/ (t = "end" /\ x = current)
      BY <1>0, <1>1, LineAdded DEF Wires
    <3>. QED BY <2>3, <3>1
  <2>. QED BY <2>4, <2>5
<1>. HIDE DEF w
<1>5. Unsaid(w, msg, count, current)
  <2>1. \A id : ~Has(w, "reject", id)
    BY <1>0, <1>4 DEF Wires, Unsaid
  <2>2. ASSUME NEW id, Has(w, "end", id)
        PROVE  id \in 1 .. count /\ (msg[id].announced => id = current)
    <3>1. CASE id = current
      BY <1>1, <3>1
    <3>2. CASE id # current
      <4>1. id \in 1 .. count /\ (msg[id].announced => id = 0)
        BY <1>0, <1>4, <2>2, <3>2 DEF Wires, Unsaid
      <4>. QED BY <1>1, <4>1
    <3>. QED BY <3>1, <3>2
  <2>. QED BY <2>1, <2>2 DEF Unsaid
<1>6. Wires(w, m, count, current)
  BY <1>3, <1>4, <1>5, MarkedWire DEF Wires
<1>7. EndedUpTo(w, current)
  <2>1. \A i \in 1 .. current : i \in 1 .. current - 1 \/ i = current
    BY <1>1
  <2>2. EndedUpTo(wire, current - 1)
    BY DEF WireInv
  <2>. QED BY <1>4, <2>1, <2>2 DEF EndedUpTo
<1>8. tunnel = "responding" => Has(w, "connect", count + 1)
  BY <1>4 DEF WireInv
<1>9. CASE EndTurn(m, w)
  BY <1>0, <1>3, <1>6, <1>7, <1>8, <1>9, TurnWire
<1>10. CASE ~m[current].complete /\ DiscardRest(m, w) /\ UNCHANGED <<current, tunnel, sock>>
  <2>1. tunnel # "responding"
    BY <1>0, <1>1, <1>3, <1>10 DEF PhaseInv, TunnelInv
  <2>2. /\ wire' = w /\ pumpPc' = "body" /\ UNCHANGED <<current, tunnel, sock, count>>
    BY <1>0, <1>10 DEF DiscardRest
  <2>3. EndedUpTo(w, current - 1)
    BY <1>1, <1>7 DEF EndedUpTo
  <2>4. Marks(m, msg', 0)
    <3>. DEFINE p == [m EXCEPT ![current].discard = TRUE]
    <3>1. msg' = p
      BY <1>10 DEF DiscardRest
    <3>2. Marks(m, p, 0)
      BY <1>0, <1>3, FieldsMark
    <3>. QED BY <3>1, <3>2
  <2>5. Wires(w, msg', count, current)
    BY <1>6, <2>4, MarkedWire DEF Wires
  <2>. QED BY <1>7, <2>1, <2>2, <2>3, <2>5, NextWire DEF Wires
<1>. QED BY <1>2, <1>9, <1>10

\* The response begins when its handler returns.
LEMMA ReturnsWire ==
  ASSUME Ground, WireInv, [Next]_vars, sock = "open", HandlerReturns
  PROVE  WireInv'
<1>0. /\ TypeOK /\ QueueInv /\ CommitInv /\ Wires(wire, msg, count, 0)
      /\ pumpPc = "handler" /\ UNCHANGED count
  BY WireOpen DEF Ground, HandlerReturns, parserVars, Awaited
<1>1. \/ StartWriting(current, msg, wire) /\ UNCHANGED <<current, tunnel, sock>>
      \/ sock' = Dropped /\ UNCHANGED wire
  BY DEF HandlerReturns
<1>2. CASE StartWriting(current, msg, wire) /\ UNCHANGED <<current, tunnel, sock>>
  <2>1. /\ current \in 1 .. count /\ count \in 0 .. MaxMsg /\ msg \in [Msg -> Entries]
        /\ ~msg[current].committed /\ EndedUpTo(wire, current - 1) /\ pumpPc' = "writing"
    BY <1>0, <1>2, QueueInvFacts DEF TypeOK, CommitInv, WireInv, StartWriting
  <2>2. /\ Wires(wire', msg', count, 0)
        /\ \A t, x : Has(wire', t, x) <=> Has(wire, t, x) \/ (t = "head" /\ x = current)
    BY <1>0, <1>2, <2>1, HeadWritten
  <2>3. /\ EndedUpTo(wire', current - 1) /\ Has(wire', "head", current)
        /\ tunnel = "responding" => Has(wire', "connect", count + 1)
    BY <2>1, <2>2 DEF EndedUpTo, WireInv
  <2>. QED BY <1>0, <1>2, <2>1, <2>2, <2>3, NextWire DEF Wires
<1>3. CASE sock' = Dropped /\ UNCHANGED wire
  BY <1>0, <1>3, Silent DEF Dropped
<1>. QED BY <1>1, <1>2, <1>3

\* A line that neither ends a response nor begins one of a queued request.
LEMMA LineWire ==
  ASSUME Ground, WireInv, sock = "open", NEW what \in {"interim", "connect"},
         NEW id \in 0 .. MaxMsg + 1, wire' = Written(wire, what, id), pumpPc # "body",
         UNCHANGED <<msg, count, current, pumpPc, sock>>,
         tunnel' = "responding" =>
           tunnel = "responding" \/ (what = "connect" /\ id = count + 1)
  PROVE  WireInv'
<1>. DEFINE w == Append(wire, Line(what, id))
<1>1. Wires(wire, msg, count, 0) /\ count \in Nat
  BY WireOpen DEF Ground, Awaited
<1>2. wire' = w
  BY Writes
<1>3. MayFollow(wire, what, id)
  BY DEF MayFollow
<1>4. ASSUME NEW t, NEW x
      PROVE  Has(w, t, x) <=> Has(wire, t, x) \/ (t = what /\ x = id)
  BY <1>1, LineAdded DEF Wires
<1>5. /\ InOrder(w) /\ LastWord(w, msg, count) /\ HeadsOf(w, msg, count)
      /\ EndsOf(w, msg, count) /\ Unsaid(w, msg, count, 0)
  BY <1>1, <1>3, Says
<1>. HIDE DEF w
<1>6. /\ EndedUpTo(w, current - 1)
      /\ pumpPc = "idle" => EndedUpTo(w, current)
      /\ pumpPc = "writing" => Has(w, "head", current)
      /\ tunnel' = "responding" => Has(w, "connect", count + 1)
  BY <1>4 DEF WireInv, EndedUpTo
<1>. QED BY <1>2, <1>5, <1>6, NextWire

\* What becomes of a CONNECT.
LEMMA ConnectWire ==
  ASSUME Ground, WireInv, [Next]_vars, sock = "open",
         ConnectReturns \/ ConnectWritten \/ TunnelEnds
  PROVE  WireInv'
<1>0. /\ ~closed /\ TunnelId = count + 1 /\ TunnelId \in 0 .. MaxMsg + 1
      /\ UNCHANGED <<count, pumpPc, current>>
  <2>1. ~closed /\ count \in 0 .. MaxMsg /\ MaxMsg \in Nat
    BY MaxMsgAssumption DEF Ground, OpenInv, TypeOK
  <2>2. UNCHANGED <<count, pumpPc, current>>
    BY DEF ConnectReturns, ConnectWritten, TunnelEnds, parserVars, pumpVars
  <2>. QED BY <2>1, <2>2 DEF TunnelId
<1>1. Ended # "open" /\ Dropped # "open"
  BY DEF Ended, Dropped
<1>2. CASE ConnectReturns
  <2>1. \/ Reject
        \/ wire' = Written(wire, "connect", TunnelId) /\ UNCHANGED <<msg, sock>>
    BY <1>0, <1>2 DEF ConnectReturns
  <2>4. pumpPc # "body"
    <3>1. ~Woken /\ phase = "tunnel"
      BY <1>0, <1>2 DEF ConnectReturns, Ground, TunnelInv
    <3>2. pumpPc = "body" => current \in 1 .. count
      BY QueueInvFacts DEF Ground
    <3>. QED BY <3>1, <3>2 DEF Ground, PhaseInv, Woken
  <2>2. CASE Reject
    BY <1>0, <2>2, RejectWire
  <2>3. CASE wire' = Written(wire, "connect", TunnelId) /\ UNCHANGED <<msg, sock>>
    BY <1>0, <2>3, <2>4, LineWire
  <2>. QED BY <2>1, <2>2, <2>3
<1>3. CASE ConnectWritten
  <2>1. \/ sock' = Ended /\ wire' = Written(wire, "end", TunnelId)
        \/ sock' = Dropped /\ UNCHANGED wire
    BY <1>3 DEF ConnectWritten
  <2>2. CASE sock' = Ended /\ wire' = Written(wire, "end", TunnelId)
    <3>1. MayFollow(wire, "end", TunnelId) /\ pumpPc # "body" /\ TunnelId > count
      <4>1. count \in Nat
        BY DEF Ground, TypeOK
      <4>. QED BY <1>0, <1>3, <4>1 DEF ConnectWritten, WireInv, MayFollow
    <3>. QED BY <1>0, <1>1, <2>2, <3>1, LastLine
  <2>3. CASE sock' = Dropped /\ UNCHANGED wire
    BY <1>0, <1>1, <2>3, Silent
  <2>. QED BY <2>1, <2>2, <2>3
<1>4. CASE TunnelEnds
  <2>1. sock' # "open" /\ UNCHANGED wire
    BY <1>1, <1>4 DEF TunnelEnds
  <2>. QED BY <1>0, <2>1, Silent
<1>. QED BY <1>2, <1>3, <1>4

\* A deadline, or the shutdown of the server.
LEMMA EventWire ==
  ASSUME Ground, WireInv, [Next]_vars, sock = "open", Events
  PROVE  WireInv'
<1>0. Ended # "open" /\ Dropped # "open" /\ UNCHANGED count /\ 0 \in 0 .. MaxMsg + 1
  <2>1. UNCHANGED count
    BY DEF Events, OnTimeout, InitiateClose, ServerDestroys, PeerEnds, SocketClosed,
       BodyRead, parserVars
  <2>. QED BY <2>1, MaxMsgAssumption DEF Ended, Dropped
<1>1. CASE OnTimeout
  <2>1. sock' # "open"
    BY <1>0, <1>1 DEF OnTimeout
  <2>2. \/ ~HeadCommitted /\ wire' = Written(wire, "reject", 0)
        \/ UNCHANGED wire
    BY <1>1 DEF OnTimeout
  <2>3. CASE ~HeadCommitted /\ wire' = Written(wire, "reject", 0)
    BY <1>0, <2>1, <2>3, AllEnded, LastLine
  <2>4. CASE UNCHANGED wire
    BY <1>0, <2>1, <2>4, Silent
  <2>. QED BY <2>2, <2>3, <2>4
<1>2. ASSUME InitiateClose \/ ServerDestroys \/ PeerEnds \/ SocketClosed
             \/ \E i \in Msg : BodyRead(i)
      PROVE  /\ UNCHANGED <<wire, current, pumpPc>>
             /\ sock' = "open" => UNCHANGED tunnel
  BY <1>0, <1>2 DEF InitiateClose, ServerDestroys, PeerEnds, SocketClosed, BodyRead, pumpVars
<1>3. CASE InitiateClose \/ ServerDestroys \/ PeerEnds \/ SocketClosed
           \/ \E i \in Msg : BodyRead(i)
  BY <1>0, <1>2, <1>3, Silent
<1>. QED BY <1>1, <1>3 DEF Events

\* What the parser does but queueing messages.
LEMMA ParseWire ==
  ASSUME Ground, WireInv, [Next]_vars,
         \/ OnSocketData \/ OnData \/ OnTrailers \/ OnMessageComplete \/ OnError \/ FeedEnd
         \/ \E kind \in Kinds : OnRefusedHeaders(kind)
  PROVE  WireInv'
<1>1. CASE FeedEnd
  <2>0. sock = "open" /\ UNCHANGED <<count, pumpPc, current>>
    BY <1>1 DEF FeedEnd, Ground, OpenInv, pumpVars
  <2>1. Reject \/ (UNCHANGED <<wire, sock>> /\ (tunnel' = "responding" => tunnel = "responding"))
    BY <1>1 DEF FeedEnd, BeginConnect
  <2>2. CASE Reject
    BY <2>0, <2>2, RejectWire
  <2>3. CASE UNCHANGED <<wire, sock>> /\ (tunnel' = "responding" => tunnel = "responding")
    BY <2>0, <2>3, Silent
  <2>. QED BY <2>1, <2>2, <2>3
<1>2. CASE OnSocketData \/ OnData \/ OnTrailers \/ OnMessageComplete \/ OnError
           \/ \E kind \in Kinds : OnRefusedHeaders(kind)
  <2>1. UNCHANGED <<wire, count, pumpPc, current, sock, tunnel>>
    BY <1>2 DEF OnSocketData, OnData, OnTrailers, OnMessageComplete, OnError,
       OnRefusedHeaders, pumpVars
  <2>2. sock' = "open" => /\ sock = "open" /\ UNCHANGED <<current, pumpPc>>
                          /\ tunnel' = "responding" => tunnel = "responding"
    BY <2>1
  <2>. QED BY <2>1, <2>2, Silent
<1>. QED BY <1>1, <1>2

\* The steps of the pump.
LEMMA PumpWire ==
  ASSUME Ground, WireInv, [Next]_vars, sock = "open", Pump
  PROVE  WireInv'
<1>0. /\ TypeOK /\ QueueInv /\ Wires(wire, msg, count, Awaited) /\ UNCHANGED count
      /\ msg \in [Msg -> Entries] /\ current \in 1 .. count /\ count \in 0 .. MaxMsg
  <2>1. TypeOK /\ QueueInv /\ Wires(wire, msg, count, Awaited)
    BY WireOpen DEF Ground
  <2>2. UNCHANGED count /\ pumpPc # "idle"
    BY DEF Pump, HandlerReturns, SendInformational, WriteDone, WriteFails, BodyDone,
       Woken, parserVars
  <2>. QED BY <2>1, <2>2, QueueInvFacts DEF TypeOK
<1>1. CASE HandlerReturns
  BY <1>1, ReturnsWire
<1>2. CASE WriteDone
  BY <1>2, DoneWire
<1>3. CASE SendInformational
  <2>1. current \in 0 .. MaxMsg + 1
    BY <1>0, NumberType
  <2>2. /\ wire' = Written(wire, "interim", current)
        /\ UNCHANGED <<msg, count, current, pumpPc, tunnel, sock>> /\ pumpPc = "handler"
    BY <1>3 DEF SendInformational, parserVars, pumpVars
  <2>. QED BY <2>1, <2>2, LineWire
<1>4. CASE WriteFails
  <2>1. sock' # "open" /\ UNCHANGED wire
    BY <1>4 DEF WriteFails, Dropped
  <2>. QED BY <1>0, <2>1, Silent
<1>5. CASE BodyDone
  <2>1. EndTurn(msg, wire) /\ pumpPc = "body"
    BY <1>5 DEF BodyDone, Woken
  <2>2. Marks(msg, msg, 0)
    BY <1>0, FieldsMark
  <2>3. /\ Wires(wire, msg, count, current) /\ EndedUpTo(wire, current)
        /\ tunnel = "responding" => Has(wire, "connect", count + 1)
    BY <1>0, <2>1 DEF WireInv, Awaited
  <2>. QED BY <1>0, <2>1, <2>2, <2>3, TurnWire
<1>. QED BY <1>1, <1>2, <1>3, <1>4, <1>5 DEF Pump

\* What the three properties rest on.
LEMMA WireInvCorrect == Spec => []WireInv
<1>1. Init => WireInv
  BY DEF Init, WireInv, InOrder, LastWord, HeadsOf, EndsOf, Unsaid, EndedUpTo, Has
<1>2. Ground /\ WireInv /\ [Next]_vars => WireInv'
  <2> SUFFICES ASSUME Ground, WireInv, [Next]_vars PROVE WireInv'
    OBVIOUS
  <2>1. CASE Parse
    BY <2>1, ParseWire, HeadersWire DEF Parse
  <2>2. CASE (Pump \/ Tunnel \/ Events) /\ sock # "open"
    <3>1. UNCHANGED <<wire, count>> /\ sock' # "open"
      BY <2>2, Shut
    <3>. QED BY <3>1, Silent
  <2>3. CASE (Pump \/ Tunnel \/ Events) /\ sock = "open"
    BY <2>3, PumpWire, ConnectWire, EventWire DEF Tunnel
  <2>4. CASE UNCHANGED vars
    <3>1. UNCHANGED <<wire, count, pumpPc, current, sock, tunnel>>
      BY <2>4 DEF vars, parserVars, pumpVars
    <3>2. sock' = "open" => /\ sock = "open" /\ UNCHANGED <<current, pumpPc>>
                            /\ tunnel' = "responding" => tunnel = "responding"
      BY <3>1
    <3>. QED BY <3>1, <3>2, Silent
  <2>. QED BY <2>1, <2>2, <2>3, <2>4 DEF Next
<1>3. TypeOK /\ TunnelInv /\ QueueInv /\ OpenInv /\ NumberInv /\ PhaseInv /\ CommitInv
        /\ AnnounceInv => Ground
  BY DEF Ground
<1>. QED
  BY <1>1, <1>2, <1>3, TypeCorrect, TunnelInvCorrect, QueueInvCorrect, OpenInvCorrect,
     NumberInvCorrect, PhaseInvCorrect, CommitInvCorrect, AnnounceInvCorrect, PTL DEF Spec

-----------------------------------------------------------------------------
(* The theorems.                                                           *)

\* No response begins before the one to the request before it was written whole,
\* none begins twice, and only what has begun ends: whatever the pipeline limit,
\* the order of parsing, handlers and timers, and wherever the connection breaks
\* (the queue and #pump).
THEOREM AnsweredInOrder == Spec => []ResponsesInOrder
<1>1. WireInv => ResponsesInOrder
  BY OrderMeans DEF WireInv
<1>. QED BY <1>1, WireInvCorrect, PTL

\* A rejection and the answer of a timeout find every response that has begun
\* also ended (#reject, #onParseError and #onTimeout look at the head of the queue).
THEOREM RejectsOutside == Spec => []RejectOutsideResponse
<1>1. WireInv => RejectOutsideResponse
  BY OrderMeans DEF WireInv
<1>. QED BY <1>1, WireInvCorrect, PTL

\* After a rejection, the response to a CONNECT or a response whose head said
\* connection: close, because the request asked for it or the server is shutting
\* down, the socket takes nothing but the 100 Continue of a later request
\* (#reject, #pump, #onTimeout, beginConnect and onHeaders).
THEOREM NothingAfterLastWord == Spec => []LastWordIsLast
<1>1. WireInv => LastWordIsLast
  BY LastMeans DEF WireInv
<1>. QED BY <1>1, WireInvCorrect, PTL
=============================================================================
