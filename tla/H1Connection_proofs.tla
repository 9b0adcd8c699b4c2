------------------------ MODULE H1Connection_proofs ------------------------
(***************************************************************************)
(* Safety of one HTTP/1.1 connection for any pipeline limit and any number *)
(* of messages: the type invariant, and on top of it what the teardown     *)
(* owes to the requests it finds in the queue and to an open tunnel.       *)
(***************************************************************************)
EXTENDS H1Connection, SequenceTheorems, TLAPS

-----------------------------------------------------------------------------
(* Types.                                                                  *)

\* An entry starts with values of its fields.
LEMMA EntryType == \A kind : Entry(kind) \in Entries
  BY DEF Entry, Entries

\* A teardown keeps the type of an entry.
LEMMA AbandonType == \A e \in Entries : Abandon(e) \in Entries
  BY DEF Abandon, Entries

\* Setting a field of an entry keeps its type.
LEMMA FieldType ==
  ASSUME NEW e \in Entries
  PROVE  /\ Commit(e) \in Entries
         /\ [e EXCEPT !.responded = TRUE] \in Entries
         /\ [e EXCEPT !.discard = TRUE] \in Entries
         /\ [e EXCEPT !.aborted = TRUE] \in Entries
         /\ [e EXCEPT !.body = "cancelled", !.discard = TRUE] \in Entries
  BY DEF Entries, Commit

\* Setting fields of one entry keeps the type of the entries.
LEMMA FieldsType ==
  ASSUME NEW m \in [Msg -> Entries], NEW i
  PROVE  /\ [m EXCEPT ![i] = Commit(@)] \in [Msg -> Entries]
         /\ [m EXCEPT ![i].responded = TRUE] \in [Msg -> Entries]
         /\ [m EXCEPT ![i].discard = TRUE] \in [Msg -> Entries]
         /\ [m EXCEPT ![i].aborted = TRUE] \in [Msg -> Entries]
         /\ [m EXCEPT ![i].body = "cancelled", ![i].discard = TRUE] \in [Msg -> Entries]
<1>1. ASSUME NEW e, i \in Msg => e \in Entries
      PROVE  [m EXCEPT ![i] = e] \in [Msg -> Entries]
  BY <1>1
<1>2. i \in Msg => m[i] \in Entries
  OBVIOUS
<1>3. [m EXCEPT ![i] = Commit(@)] \in [Msg -> Entries]
  BY <1>1, <1>2, FieldType
<1>4. [m EXCEPT ![i].responded = TRUE] \in [Msg -> Entries]
  BY <1>1, <1>2, FieldType
<1>5. [m EXCEPT ![i].discard = TRUE] \in [Msg -> Entries]
  BY <1>1, <1>2, FieldType
<1>6. [m EXCEPT ![i].aborted = TRUE] \in [Msg -> Entries]
  BY <1>1, <1>2, FieldType
<1>7. [m EXCEPT ![i].body = "cancelled", ![i].discard = TRUE] \in [Msg -> Entries]
  <2>. DEFINE e == [m[i] EXCEPT !.body = "cancelled", !.discard = TRUE]
  <2>1. i \in Msg => e \in Entries BY <1>2, FieldType
  <2>2. [m EXCEPT ![i].body = "cancelled", ![i].discard = TRUE] = [m EXCEPT ![i] = e]
    OBVIOUS
  <2>. QED BY <1>1, <2>1, <2>2
<1>. QED BY <1>3, <1>4, <1>5, <1>6, <1>7

\* So does completing a message.
LEMMA CompleteType ==
  ASSUME NEW m \in [Msg -> Entries], NEW i
  PROVE  [m EXCEPT ![i].complete = TRUE,
                   ![i].body = IF @ = "open" /\ ~m[i].discard THEN "closed" ELSE @]
           \in [Msg -> Entries]
<1>. DEFINE e == [m[i] EXCEPT !.complete = TRUE,
                              !.body = IF @ = "open" /\ ~m[i].discard THEN "closed" ELSE @]
<1>1. i \in Msg => e \in Entries BY DEF Entries
<1>2. [m EXCEPT ![i].complete = TRUE,
                ![i].body = IF @ = "open" /\ ~m[i].discard THEN "closed" ELSE @]
        = [m EXCEPT ![i] = e]
  OBVIOUS
<1>. HIDE DEF e
<1>. QED BY <1>1, <1>2

\* What is written has the type of the wire.
LEMMA WrittenType ==
  ASSUME NEW w \in Seq(Output), NEW id \in 0 .. MaxMsg + 1,
         NEW what \in {"interim", "head", "end", "reject", "connect"}
  PROVE  Written(w, what, id) \in Seq(Output)
<1>1. [what |-> what, id |-> id] \in Output BY DEF Output
<1>. QED BY <1>1 DEF Written

\* The number of a queued message is a message, and can be written.
LEMMA NumberType ==
  ASSUME TypeOK
  PROVE  \A i \in 1 .. count : i \in Msg /\ i \in 0 .. count /\ i \in 0 .. MaxMsg + 1
  BY MaxMsgAssumption DEF Msg, TypeOK

\* A teardown keeps the types, and the queue it leaves is empty or the old one.
LEMMA TeardownQueueType ==
  ASSUME TypeOK, NEW q, NEW m \in [Msg -> Entries], TeardownQueue(q, m)
  PROVE  /\ closed' \in BOOLEAN /\ armed' \in BOOLEAN
         /\ msg' \in [Msg -> Entries] /\ queue' \in Seq(1 .. count)
<1>1. CASE closed
  BY <1>1 DEF TeardownQueue, TypeOK
<1>2. CASE ~closed
  <2>1. msg' \in [Msg -> Entries]
    BY <1>2, AbandonType DEF TeardownQueue
  <2>2. closed' = TRUE /\ queue' = <<>> /\ armed' = FALSE
    BY <1>2 DEF TeardownQueue
  <2>. QED BY <2>1, <2>2, EmptySeq
<1>. QED BY <1>1, <1>2 DEF TypeOK

\* So does one that also ends the tunnel.
LEMMA TeardownType ==
  ASSUME TypeOK, NEW q, NEW m \in [Msg -> Entries], Teardown(q, m)
  PROVE  /\ closed' \in BOOLEAN /\ armed' \in BOOLEAN
         /\ msg' \in [Msg -> Entries] /\ queue' \in Seq(1 .. count)
         /\ tunnel' \in {"none", "connecting", "responding", "open", "done"}
<1>1. TeardownQueue(q, m) BY DEF Teardown
<1>2. tunnel' \in {"none", "connecting", "responding", "open", "done"}
  BY DEF Teardown, TypeOK
<1>. QED BY <1>1, <1>2, TeardownQueueType

\* Beginning a response keeps the types.
LEMMA StartWritingType ==
  ASSUME NEW m \in [Msg -> Entries], NEW w \in Seq(Output), NEW id \in 0 .. MaxMsg + 1,
         StartWriting(id, m, w)
  PROVE  pumpPc' = "writing" /\ msg' \in [Msg -> Entries] /\ wire' \in Seq(Output)
<1>1. wire' \in Seq(Output) BY WrittenType DEF StartWriting
<1>2. msg' \in [Msg -> Entries] BY FieldsType DEF StartWriting
<1>. QED BY <1>1, <1>2 DEF StartWriting

\* So does the dispatch of an entry.
LEMMA DispatchType ==
  ASSUME NEW m \in [Msg -> Entries], NEW w \in Seq(Output), NEW id \in 0 .. MaxMsg + 1,
         Dispatch(id, m, w)
  PROVE  /\ running' = TRUE /\ current' = id
         /\ timerState' = "ACTIVE" /\ since' = id /\ armed' = TRUE
         /\ pumpPc' \in {"handler", "writing"}
         /\ msg' \in [Msg -> Entries] /\ wire' \in Seq(Output)
  BY StartWritingType DEF Dispatch

\* Setting the timer keeps its types.
LEMMA SetTimerType ==
  ASSUME TypeOK, NEW s \in {"IDLE", "HEADERS", "ACTIVE"}, SetTimer(s)
  PROVE  /\ timerState' \in {"IDLE", "HEADERS", "ACTIVE"} /\ armed' \in BOOLEAN
         /\ since' \in 0 .. count
  BY DEF SetTimer, timerVars, TypeOK

\* So does the end of a turn, whichever way the connection goes on.
LEMMA EndTurnType ==
  ASSUME TypeOK, NEW m \in [Msg -> Entries], NEW w \in Seq(Output), EndTurn(m, w)
  PROVE  /\ closed' \in BOOLEAN /\ armed' \in BOOLEAN
         /\ msg' \in [Msg -> Entries] /\ queue' \in Seq(1 .. count)
         /\ tunnel' \in {"none", "connecting", "responding", "open", "done"}
         /\ running' \in BOOLEAN /\ pumpPc' \in {"idle", "handler", "writing", "body"}
         /\ current' \in 0 .. count /\ since' \in 0 .. count
         /\ timerState' \in {"IDLE", "HEADERS", "ACTIVE"}
         /\ sock' \in {"open", "ended", "destroyed", "closed"}
         /\ paused' \in BOOLEAN /\ wire' \in Seq(Output)
<1>. DEFINE q == IF queue = <<>> THEN <<>> ELSE Tail(queue)
            stays == paused /\ Len(q) >= MaxPipeline
<1>1. q \in Seq(1 .. count) BY EmptySeq, HeadTailProperties DEF TypeOK
<1>. HIDE DEF q, stays
<1>2. CASE /\ sock' = Ended /\ Teardown(q, m)
           /\ PumpStops /\ wire' = w /\ UNCHANGED <<timerState, since, paused>>
  BY <1>2, TeardownType DEF Ended, PumpStops, TypeOK
<1>3. CASE /\ q # <<>> /\ Dispatch(Head(q), m, w)
           /\ queue' = q /\ paused' = stays /\ UNCHANGED <<closed, tunnel, sock>>
  <2>1. Head(q) \in 1 .. count BY <1>1, <1>3, HeadTailProperties
  <2>2. Head(q) \in 0 .. MaxMsg + 1 BY <2>1, NumberType
  <2>3. /\ running' = TRUE /\ current' = Head(q)
        /\ timerState' = "ACTIVE" /\ since' = Head(q) /\ armed' = TRUE
        /\ pumpPc' \in {"handler", "writing"}
        /\ msg' \in [Msg -> Entries] /\ wire' \in Seq(Output)
    BY <1>3, <2>2, DispatchType
  <2>4. current' \in 0 .. count /\ since' \in 0 .. count BY <2>1, <2>3, NumberType
  <2>5. paused' \in BOOLEAN /\ queue' \in Seq(1 .. count) BY <1>1, <1>3 DEF TypeOK, stays
  <2>. QED BY <1>3, <2>3, <2>4, <2>5 DEF TypeOK
<1>4. CASE /\ IF closed THEN UNCHANGED timerVars ELSE SetTimer("IDLE")
           /\ PumpStops /\ wire' = w /\ msg' = m
           /\ queue' = q /\ paused' = stays /\ UNCHANGED <<closed, tunnel, sock>>
  BY <1>1, <1>4 DEF SetTimer, timerVars, PumpStops, TypeOK, stays
<1>. QED BY <1>2, <1>3, <1>4 DEF EndTurn, q, stays

\* So does a rejection.
LEMMA RejectType ==
  ASSUME TypeOK, Reject
  PROVE  /\ closed' \in BOOLEAN /\ armed' \in BOOLEAN
         /\ msg' \in [Msg -> Entries] /\ queue' \in Seq(1 .. count)
         /\ sock' \in {"open", "ended", "destroyed", "closed"} /\ wire' \in Seq(Output)
<1>1. msg \in [Msg -> Entries] /\ TeardownQueue(queue, msg) BY DEF Reject, TypeOK
<1>2. wire' \in Seq(Output)
  <2>1. 0 \in 0 .. MaxMsg + 1 BY MaxMsgAssumption
  <2>2. Written(wire, "reject", 0) \in Seq(Output) BY <2>1, WrittenType DEF TypeOK
  <2>. QED BY <2>2 DEF Reject, TypeOK
<1>3. sock' \in {"open", "ended", "destroyed", "closed"}
  BY DEF Reject, Dropped, Ended, TypeOK
<1>. QED BY <1>1, <1>2, <1>3, TeardownQueueType

\* The fields of the connection and its entries always hold values the code
\* gives them.
THEOREM TypeCorrect == Spec => []TypeOK
<1>1. Init => TypeOK
  <2> SUFFICES ASSUME Init PROVE TypeOK
    OBVIOUS
  <2>1. msg \in [Msg -> Entries] BY EntryType DEF Init
  <2>2. queue \in Seq(1 .. count) /\ wire \in Seq(Output) BY EmptySeq DEF Init
  <2>3. count \in 0 .. MaxMsg /\ current \in 0 .. count BY MaxMsgAssumption DEF Init
  <2>4. /\ partial \in BOOLEAN /\ parsing \in BOOLEAN /\ wantTunnel \in BOOLEAN
        /\ running \in BOOLEAN /\ closed \in BOOLEAN /\ closing \in BOOLEAN
        /\ armed \in BOOLEAN /\ paused \in BOOLEAN
    BY DEF Init
  <2>. QED BY <2>1, <2>2, <2>3, <2>4 DEF Init, TypeOK
<1>2. TypeOK /\ [Next]_vars => TypeOK'
  <2> SUFFICES ASSUME TypeOK, [Next]_vars PROVE TypeOK'
    OBVIOUS
  <2>0. /\ msg \in [Msg -> Entries] /\ wire \in Seq(Output)
        /\ current \in 0 .. MaxMsg + 1 /\ TunnelId \in 0 .. MaxMsg + 1
        /\ count \in 0 .. MaxMsg
    BY MaxMsgAssumption DEF TypeOK, TunnelId
  <2>1. CASE HandlerReturns
    <3>1. CASE /\ StartWriting(current, msg, wire)
               /\ UNCHANGED <<queue, running, current, tunnel, closed, timerVars, sock>>
      <4>1. pumpPc' = "writing" /\ msg' \in [Msg -> Entries] /\ wire' \in Seq(Output)
        BY <2>0, <3>1, StartWritingType
      <4>. QED BY <2>1, <3>1, <4>1 DEF HandlerReturns, parserVars, timerVars, TypeOK
    <3>2. CASE /\ Teardown(queue, msg) /\ sock' = Dropped /\ PumpStops
               /\ UNCHANGED <<wire, timerState, since>>
      <4>1. running' \in BOOLEAN BY <3>2 DEF PumpStops
      <4>. QED BY <2>0, <2>1, <3>2, <4>1, TeardownType
           DEF HandlerReturns, parserVars, PumpStops, Dropped, TypeOK
    <3>. QED BY <2>1, <3>1, <3>2 DEF HandlerReturns
  <2>2. CASE SendInformational
    <3>1. wire' \in Seq(Output) BY <2>0, <2>2, WrittenType DEF SendInformational
    <3>. QED BY <2>2, <3>1 DEF SendInformational, parserVars, pumpVars, timerVars, TypeOK
  <2>3. CASE WriteDone
    <3>. DEFINE m == [msg EXCEPT ![current].responded = TRUE]
                w == Written(wire, "end", current)
    <3>1. m \in [Msg -> Entries] /\ w \in Seq(Output)
      BY <2>0, FieldsType, WrittenType
    <3>2. [m EXCEPT ![current].discard = TRUE] \in [Msg -> Entries]
      BY <3>1, FieldsType
    <3>. HIDE DEF m, w
    <3>3. CASE EndTurn(m, w)
      BY <2>3, <3>1, <3>3, EndTurnType DEF WriteDone, parserVars, TypeOK
    <3>4. CASE /\ DiscardRest(m, w)
               /\ UNCHANGED <<queue, running, current, tunnel, closed, timerVars, sock>>
      <4>1. paused' \in BOOLEAN /\ msg' \in [Msg -> Entries]
        BY <3>2, <3>4 DEF DiscardRest
      <4>. QED BY <2>3, <3>1, <3>4, <4>1
           DEF WriteDone, DiscardRest, parserVars, timerVars, TypeOK
    <3>. QED BY <2>3, <3>3, <3>4 DEF WriteDone, m, w
  <2>4. CASE WriteFails
    <3>1. running' \in BOOLEAN BY <2>4 DEF WriteFails, PumpStops
    <3>. QED BY <2>0, <2>4, <3>1, TeardownType
         DEF WriteFails, parserVars, PumpStops, Dropped, TypeOK
  <2>5. CASE BodyDone
    BY <2>0, <2>5, EndTurnType DEF BodyDone, parserVars, TypeOK
  <2>6. CASE OnSocketData
    <3>1. parsing' \in BOOLEAN /\ partial' \in BOOLEAN BY <2>6 DEF OnSocketData
    <3>2. /\ timerState' \in {"IDLE", "HEADERS", "ACTIVE"} /\ armed' \in BOOLEAN
          /\ since' \in 0 .. count
      BY <2>6, SetTimerType DEF OnSocketData, timerVars, TypeOK
    <3>. QED BY <2>6, <3>1, <3>2 DEF OnSocketData, pumpVars, TypeOK
  <2>7. ASSUME NEW kind \in Kinds, OnRefusedHeaders(kind) PROVE TypeOK'
    <3>1. /\ timerState' \in {"IDLE", "HEADERS", "ACTIVE"} /\ armed' \in BOOLEAN
          /\ since' \in 0 .. count
      BY <2>7, SetTimerType DEF OnRefusedHeaders
    <3>2. wantTunnel' \in BOOLEAN /\ paused' \in BOOLEAN
      BY <2>7 DEF OnRefusedHeaders, TypeOK
    <3>. QED BY <2>7, <3>1, <3>2 DEF OnRefusedHeaders, pumpVars, TypeOK
  <2>8. ASSUME NEW kind \in Kinds, OnHeaders(kind) PROVE TypeOK'
    <3>. DEFINE id == count + 1
                m  == [msg EXCEPT ![id] = Entry(kind)]
                w  == IF kind = "expect" THEN Written(wire, "interim", id) ELSE wire
    <3>1. count < MaxMsg BY <2>8 DEF OnHeaders
    <3>2. /\ id \in 0 .. MaxMsg + 1 /\ id \in 0 .. MaxMsg /\ id \in 1 .. id
          /\ \A i \in 0 .. count : i \in 0 .. id
          /\ \A i \in 1 .. count : i \in 1 .. id
      BY <2>0, <3>1, MaxMsgAssumption
    <3>3. m \in [Msg -> Entries] BY <2>0, EntryType
    <3>4. w \in Seq(Output) BY <2>0, <3>2, WrittenType
    <3>5. queue \in Seq(1 .. id)
      BY <3>2 DEF TypeOK
    <3>6. Append(queue, id) \in Seq(1 .. id)
      BY <3>2, <3>5, AppendProperties
    <3>. HIDE DEF id, m, w
    <3>7. /\ count' = id /\ phase' = "body" /\ queue' = Append(queue, id)
          /\ paused' \in BOOLEAN
          /\ UNCHANGED <<partial, parsing, deferred, wantTunnel, tunnel, closed, closing, sock>>
          /\ \/ Dispatch(id, m, w)
             \/ SetTimer("ACTIVE") /\ msg' = m /\ wire' = w /\ UNCHANGED pumpVars
      BY <2>8 DEF OnHeaders, TypeOK, id, m, w
    <3>8. CASE Dispatch(id, m, w)
      <4>1. current' \in 0 .. id /\ since' \in 0 .. id
        <5>1. current' = id /\ since' = id BY <3>8 DEF Dispatch
        <5>2. id \in 0 .. id BY <2>0 DEF id
        <5>. QED BY <5>1, <5>2
      <4>. QED BY <3>2, <3>3, <3>4, <3>6, <3>7, <3>8, <4>1, DispatchType, ZenonT(60) DEF TypeOK
    <3>9. CASE SetTimer("ACTIVE") /\ msg' = m /\ wire' = w /\ UNCHANGED pumpVars
      <4>1. /\ timerState' \in {"IDLE", "HEADERS", "ACTIVE"} /\ armed' \in BOOLEAN
            /\ since' \in 0 .. id
        BY <3>2, <3>9, SetTimerType
      <4>2. current' \in 0 .. id BY <3>2, <3>9 DEF pumpVars, TypeOK
      <4>3. /\ running' \in BOOLEAN /\ pumpPc' \in {"idle", "handler", "writing", "body"}
            /\ queue' \in Seq(1 .. id) /\ count' \in 0 .. MaxMsg
        BY <3>2, <3>6, <3>7, <3>9 DEF pumpVars, TypeOK
      <4>. QED BY <3>3, <3>4, <3>7, <3>9, <4>1, <4>2, <4>3 DEF TypeOK
    <3>. QED BY <3>7, <3>8, <3>9
  <2>9. CASE OnData
    <3>1. msg' \in [Msg -> Entries]
      <4>1. [msg EXCEPT ![count].aborted = TRUE] \in [Msg -> Entries]
        BY <2>0, FieldsType
      <4>. QED BY <2>0, <2>9, <4>1 DEF OnData
    <3>2. paused' \in BOOLEAN BY <2>9 DEF OnData, TypeOK
    <3>. QED BY <2>9, <3>1, <3>2 DEF OnData, pumpVars, timerVars, TypeOK
  <2>10. CASE OnTrailers
    BY <2>10 DEF OnTrailers, pumpVars, timerVars, TypeOK
  <2>11. CASE OnMessageComplete
    <3>1. msg' \in [Msg -> Entries] BY <2>0, <2>11, CompleteType DEF OnMessageComplete
    <3>. QED BY <2>11, <3>1 DEF OnMessageComplete, pumpVars, timerVars, TypeOK
  <2>12. CASE OnError
    BY <2>12 DEF OnError, pumpVars, timerVars, TypeOK
  <2>13. CASE FeedEnd
    <3>0. parsing' \in BOOLEAN /\ wantTunnel' \in BOOLEAN /\ partial' \in BOOLEAN
      BY <2>13 DEF FeedEnd
    <3>1. CASE Reject /\ UNCHANGED <<paused, tunnel>>
      BY <2>13, <3>0, <3>1, RejectType DEF FeedEnd, pumpVars, TypeOK
    <3>2. CASE HasConnect /\ tunnel' = "connecting" /\ paused' = TRUE
               /\ UNCHANGED <<closed, queue, armed, msg, sock, wire>>
      <4>1. paused' \in BOOLEAN BY <3>2
      <4>. QED BY <2>13, <3>0, <3>2, <4>1 DEF FeedEnd, pumpVars, TypeOK
    <3>3. CASE UNCHANGED <<closed, queue, armed, msg, tunnel, sock, wire, paused>>
      BY <2>13, <3>0, <3>3 DEF FeedEnd, pumpVars, TypeOK
    <3>. QED BY <2>13, <3>1, <3>2, <3>3 DEF FeedEnd, BeginConnect
  <2>14. CASE ConnectReturns
    <3>1. Written(wire, "connect", TunnelId) \in Seq(Output) BY <2>0, WrittenType
    <3>2. CASE Reject /\ tunnel' = "done" /\ UNCHANGED <<running, paused>>
      BY <2>14, <3>2, RejectType DEF ConnectReturns, parserVars, TypeOK
    <3>3. CASE ~(Reject /\ tunnel' = "done" /\ UNCHANGED <<running, paused>>)
      <4>1. armed' \in BOOLEAN /\ running' \in BOOLEAN /\ paused' \in BOOLEAN
        BY <2>14, <3>3 DEF ConnectReturns, TypeOK
      <4>. QED BY <2>14, <3>1, <3>3, <4>1 DEF ConnectReturns, parserVars, TypeOK
    <3>. QED BY <3>2, <3>3
  <2>15. CASE ConnectWritten
    <3>1. wire' \in Seq(Output)
      BY <2>0, <2>15, WrittenType DEF ConnectWritten
    <3>. QED BY <2>0, <2>15, <3>1, TeardownQueueType
         DEF ConnectWritten, parserVars, pumpVars, Ended, Dropped, TypeOK
  <2>16. CASE TunnelEnds
    BY <2>0, <2>16, TeardownType
    DEF TunnelEnds, parserVars, pumpVars, Ended, Dropped, TypeOK
  <2>17. CASE OnTimeout
    <3>1. 0 \in 0 .. MaxMsg + 1 BY MaxMsgAssumption
    <3>2. wire' \in Seq(Output) BY <2>0, <2>17, <3>1, WrittenType DEF OnTimeout
    <3>. QED BY <2>0, <2>17, <3>2, TeardownType
         DEF OnTimeout, parserVars, pumpVars, Ended, Dropped, TypeOK
  <2>18. CASE InitiateClose
    <3>1. CASE sock' = Ended /\ Teardown(queue, msg)
      BY <2>0, <2>18, <3>1, TeardownType
      DEF InitiateClose, parserVars, pumpVars, Ended, TypeOK
    <3>2. CASE UNCHANGED <<sock, closed, queue, msg, armed, tunnel>>
      BY <2>18, <3>2 DEF InitiateClose, parserVars, pumpVars, TypeOK
    <3>. QED BY <2>18, <3>1, <3>2 DEF InitiateClose
  <2>19. CASE ServerDestroys
    BY <2>19 DEF ServerDestroys, parserVars, pumpVars, timerVars, TypeOK
  <2>20. CASE PeerEnds
    BY <2>20 DEF PeerEnds, parserVars, pumpVars, timerVars, TypeOK
  <2>21. CASE SocketClosed
    BY <2>0, <2>21, TeardownType DEF SocketClosed, parserVars, pumpVars, TypeOK
  <2>22. ASSUME NEW i \in Msg, BodyRead(i) PROVE TypeOK'
    <3>1. msg' \in [Msg -> Entries]
      <4>1. [msg EXCEPT ![i].body = "cancelled", ![i].discard = TRUE] \in [Msg -> Entries]
        BY <2>0, FieldsType
      <4>. QED BY <2>0, <2>22, <4>1 DEF BodyRead
    <3>2. paused' \in BOOLEAN BY <2>22 DEF BodyRead
    <3>. QED BY <2>22, <3>1, <3>2 DEF BodyRead, parserVars, pumpVars, timerVars, TypeOK
  <2>23. CASE UNCHANGED vars
    BY <2>23 DEF vars, parserVars, pumpVars, timerVars, TypeOK
  <2>. QED
    BY <2>1, <2>2, <2>3, <2>4, <2>5, <2>6, <2>7, <2>8, <2>9, <2>10, <2>11, <2>12,
       <2>13, <2>14, <2>15, <2>16, <2>17, <2>18, <2>19, <2>20, <2>21, <2>22, <2>23
    DEF Next, Parse, Pump, Tunnel, Events
<1>. QED BY <1>1, <1>2, PTL DEF Spec

-----------------------------------------------------------------------------
(* The tunnel and the timer.                                               *)

\* A tunnel is begun only when the parser was handed over, by no callback.
LEMMA TunnelInvCorrect == Spec => []TunnelInv
<1>1. Init => TunnelInv
  BY DEF Init, TunnelInv
<1>2. TunnelInv /\ [Next]_vars => TunnelInv'
  <2> SUFFICES ASSUME TunnelInv, [Next]_vars PROVE TunnelInv'
    OBVIOUS
  <2>1. CASE HandlerReturns
    BY <2>1 DEF TunnelInv, HandlerReturns, Teardown, TeardownQueue, parserVars
  <2>2. CASE SendInformational
    BY <2>2 DEF TunnelInv, SendInformational, parserVars
  <2>3. ASSUME NEW m, NEW w, EndTurn(m, w), UNCHANGED parserVars PROVE TunnelInv'
    BY <2>3 DEF TunnelInv, EndTurn, Teardown, TeardownQueue, parserVars
  <2>4. CASE WriteDone
    BY <2>3, <2>4 DEF TunnelInv, WriteDone, parserVars
  <2>5. CASE WriteFails
    BY <2>5 DEF TunnelInv, WriteFails, Teardown, TeardownQueue, parserVars
  <2>6. CASE BodyDone
    BY <2>3, <2>6 DEF BodyDone
  <2>7. CASE OnSocketData
    BY <2>7 DEF TunnelInv, OnSocketData
  <2>8. ASSUME NEW kind \in Kinds, OnRefusedHeaders(kind) PROVE TunnelInv'
    BY <2>8 DEF TunnelInv, OnRefusedHeaders, Accepting
  <2>9. ASSUME NEW kind \in Kinds, OnHeaders(kind) PROVE TunnelInv'
    BY <2>9 DEF TunnelInv, OnHeaders, Accepting
  <2>10. CASE OnData \/ OnTrailers \/ OnMessageComplete \/ OnError
    BY <2>10 DEF TunnelInv, OnData, OnTrailers, OnMessageComplete, OnError
  <2>11. CASE FeedEnd
    BY <2>11 DEF TunnelInv, FeedEnd, BeginConnect, Reject, TeardownQueue
  <2>12. CASE ConnectReturns
    BY <2>12 DEF TunnelInv, ConnectReturns, Reject, TeardownQueue, parserVars
  <2>13. CASE ConnectWritten
    BY <2>13 DEF TunnelInv, ConnectWritten, TeardownQueue, parserVars
  <2>14. CASE TunnelEnds
    BY <2>14 DEF TunnelInv, TunnelEnds, Teardown, TeardownQueue, parserVars
  <2>15. CASE OnTimeout
    BY <2>15 DEF TunnelInv, OnTimeout, Teardown, TeardownQueue, parserVars
  <2>16. CASE InitiateClose
    BY <2>16 DEF TunnelInv, InitiateClose, Teardown, TeardownQueue, parserVars
  <2>17. CASE ServerDestroys \/ PeerEnds
    BY <2>17 DEF TunnelInv, ServerDestroys, PeerEnds, parserVars
  <2>18. CASE SocketClosed
    BY <2>18 DEF TunnelInv, SocketClosed, Teardown, TeardownQueue, parserVars
  <2>19. ASSUME NEW i \in Msg, BodyRead(i) PROVE TunnelInv'
    BY <2>19 DEF TunnelInv, BodyRead, parserVars
  <2>20. CASE UNCHANGED vars
    BY <2>20 DEF TunnelInv, vars, parserVars
  <2>. QED
    BY <2>1, <2>2, <2>4, <2>5, <2>6, <2>7, <2>8, <2>9, <2>10, <2>11, <2>12, <2>13,
       <2>14, <2>15, <2>16, <2>17, <2>18, <2>19, <2>20
    DEF Next, Parse, Pump, Tunnel, Events
<1>. QED BY <1>1, <1>2, PTL DEF Spec

\* The duplex a CONNECT handler returned is destroyed with the connection,
\* even when it arrives after the client has gone.
THEOREM TunnelIsReleased == Spec => []TunnelReleased
<1>1. TunnelInv => TunnelReleased
  BY DEF TunnelInv, TunnelReleased
<1>. QED BY <1>1, TunnelInvCorrect, PTL

\* The kind of the deadline that runs.
KindRuns ==
  ~closed /\ tunnel = "none" => armed /\ (queue # <<>> => timerState = "ACTIVE")

LEMMA KindRunsCorrect == Spec => []KindRuns
<1>1. Init => KindRuns
  BY DEF Init, KindRuns
<1>2. KindRuns /\ [Next]_vars => KindRuns'
  <2> SUFFICES ASSUME KindRuns, [Next]_vars PROVE KindRuns'
    OBVIOUS
  <2>0. ASSUME NEW s, SetTimer(s) PROVE timerState' = s /\ (armed => armed')
    BY <2>0 DEF SetTimer, timerVars
  <2>1. ASSUME NEW q, NEW m, TeardownQueue(q, m), tunnel' = "none" => tunnel = "none",
               UNCHANGED timerState, q = queue \/ ~closed
        PROVE  KindRuns'
    BY <2>1 DEF KindRuns, TeardownQueue
  <2>2. ASSUME NEW m, NEW w, EndTurn(m, w) PROVE KindRuns'
    <3>. DEFINE q == IF queue = <<>> THEN <<>> ELSE Tail(queue)
    <3>1. \/ Teardown(q, m)
          \/ Dispatch(Head(q), m, w)
          \/ closed /\ UNCHANGED closed
          \/ q = <<>> /\ ~closed /\ SetTimer("IDLE") /\ queue' = q /\ UNCHANGED tunnel
      BY <2>2 DEF EndTurn
    <3>. HIDE DEF q
    <3>2. CASE Teardown(q, m)
      BY <3>2 DEF KindRuns, Teardown, TeardownQueue
    <3>3. CASE Dispatch(Head(q), m, w)
      BY <3>3 DEF KindRuns, Dispatch
    <3>4. CASE closed /\ UNCHANGED closed
      BY <3>4 DEF KindRuns
    <3>5. CASE q = <<>> /\ ~closed /\ SetTimer("IDLE") /\ queue' = q /\ UNCHANGED tunnel
      BY <2>0, <3>5 DEF KindRuns
    <3>. QED BY <3>1, <3>2, <3>3, <3>4, <3>5
  <2>3. CASE HandlerReturns
    BY <2>1, <2>3 DEF KindRuns, HandlerReturns, Teardown, timerVars
  <2>4. CASE SendInformational
    BY <2>4 DEF KindRuns, SendInformational, timerVars
  <2>5. CASE WriteDone
    BY <2>2, <2>5 DEF KindRuns, WriteDone, DiscardRest, timerVars
  <2>6. CASE WriteFails
    BY <2>1, <2>6 DEF WriteFails, Teardown
  <2>7. CASE BodyDone
    BY <2>2, <2>7 DEF BodyDone
  <2>8. CASE OnSocketData
    BY <2>0, <2>8 DEF KindRuns, OnSocketData, timerVars
  <2>9. ASSUME NEW kind \in Kinds, OnRefusedHeaders(kind) PROVE KindRuns'
    BY <2>0, <2>9 DEF KindRuns, OnRefusedHeaders
  <2>10. ASSUME NEW kind \in Kinds, OnHeaders(kind) PROVE KindRuns'
    BY <2>0, <2>10 DEF KindRuns, OnHeaders, Dispatch
  <2>11. CASE OnData \/ OnTrailers \/ OnMessageComplete \/ OnError
    BY <2>11 DEF KindRuns, OnData, OnTrailers, OnMessageComplete, OnError, timerVars
  <2>12. CASE FeedEnd
    BY <2>1, <2>12 DEF KindRuns, FeedEnd, BeginConnect, Reject
  <2>13. CASE ConnectReturns
    BY <2>13 DEF KindRuns, ConnectReturns
  <2>14. CASE ConnectWritten \/ TunnelEnds
    BY <2>14 DEF KindRuns, ConnectWritten, TunnelEnds, Teardown
  <2>15. CASE OnTimeout \/ SocketClosed
    BY <2>1, <2>15 DEF OnTimeout, SocketClosed, Teardown
  <2>16. CASE InitiateClose
    BY <2>1, <2>16 DEF KindRuns, InitiateClose, Teardown
  <2>17. CASE ServerDestroys \/ PeerEnds
    BY <2>17 DEF KindRuns, ServerDestroys, PeerEnds, timerVars
  <2>18. ASSUME NEW i \in Msg, BodyRead(i) PROVE KindRuns'
    BY <2>18 DEF KindRuns, BodyRead, timerVars
  <2>19. CASE UNCHANGED vars
    BY <2>19 DEF KindRuns, vars, timerVars
  <2>. QED
    BY <2>3, <2>4, <2>5, <2>6, <2>7, <2>8, <2>9, <2>10, <2>11, <2>12, <2>13,
       <2>14, <2>15, <2>16, <2>17, <2>18, <2>19
    DEF Next, Parse, Pump, Tunnel, Events
<1>. QED BY <1>1, <1>2, PTL DEF Spec

\* Whoever is dispatched gets a deadline of its own, and nobody else is given one.
OwnDeadline == since = current

LEMMA OwnDeadlineCorrect == Spec => []OwnDeadline
<1>1. Init => OwnDeadline
  BY DEF Init, OwnDeadline
<1>2. OwnDeadline /\ [Next]_vars => OwnDeadline'
  <2> SUFFICES ASSUME OwnDeadline, [Next]_vars PROVE OwnDeadline'
    OBVIOUS
  <2>1. ASSUME since' = since \/ since' = current, UNCHANGED current PROVE OwnDeadline'
    BY <2>1 DEF OwnDeadline
  <2>2. ASSUME NEW s, SetTimer(s) PROVE since' = since \/ since' = current
    BY <2>2 DEF SetTimer, timerVars
  <2>3. ASSUME NEW id, NEW m, NEW w, Dispatch(id, m, w) PROVE OwnDeadline'
    BY <2>3 DEF Dispatch, OwnDeadline
  <2>4. ASSUME NEW m, NEW w, EndTurn(m, w) PROVE OwnDeadline'
    <3>. DEFINE q == IF queue = <<>> THEN <<>> ELSE Tail(queue)
    <3>1. \/ Dispatch(Head(q), m, w)
          \/ PumpStops /\ (UNCHANGED since \/ SetTimer("IDLE"))
      BY <2>4 DEF EndTurn, timerVars
    <3>. HIDE DEF q
    <3>. QED BY <2>1, <2>2, <2>3, <3>1 DEF PumpStops
  <2>5. ASSUME NEW kind \in Kinds, OnHeaders(kind) PROVE OwnDeadline'
    <3>. DEFINE m == [msg EXCEPT ![count + 1] = Entry(kind)]
                w == IF kind = "expect" THEN Written(wire, "interim", count + 1) ELSE wire
    <3>1. \/ Dispatch(count + 1, m, w)
          \/ SetTimer("ACTIVE") /\ UNCHANGED current
      BY <2>5 DEF OnHeaders, pumpVars
    <3>. QED BY <2>1, <2>2, <2>3, <3>1
  <2>6. ASSUME NEW kind \in Kinds, OnRefusedHeaders(kind) PROVE OwnDeadline'
    BY <2>1, <2>2, <2>6 DEF OnRefusedHeaders, pumpVars
  <2>7. CASE OnSocketData
    BY <2>1, <2>2, <2>7 DEF OnSocketData, timerVars, pumpVars
  <2>8. CASE HandlerReturns
    BY <2>1, <2>8 DEF HandlerReturns, PumpStops, timerVars
  <2>9. CASE WriteDone
    BY <2>1, <2>4, <2>9 DEF WriteDone, timerVars
  <2>10. CASE BodyDone
    BY <2>4, <2>10 DEF BodyDone
  <2>11. CASE WriteFails \/ SendInformational
    BY <2>1, <2>11 DEF WriteFails, SendInformational, PumpStops, pumpVars, timerVars
  <2>12. CASE OnData \/ OnTrailers \/ OnMessageComplete \/ OnError \/ FeedEnd
    BY <2>1, <2>12
    DEF OnData, OnTrailers, OnMessageComplete, OnError, FeedEnd, pumpVars, timerVars
  <2>13. CASE Tunnel
    BY <2>1, <2>13 DEF Tunnel, ConnectReturns, ConnectWritten, TunnelEnds, pumpVars
  <2>14. CASE Events
    BY <2>1, <2>14
    DEF Events, OnTimeout, InitiateClose, ServerDestroys, PeerEnds, SocketClosed, BodyRead,
        pumpVars, timerVars
  <2>15. CASE UNCHANGED vars
    BY <2>1, <2>15 DEF vars, pumpVars, timerVars
  <2>. QED
    BY <2>5, <2>6, <2>7, <2>8, <2>9, <2>10, <2>11, <2>12, <2>13, <2>14, <2>15
    DEF Next, Parse, Pump
<1>. QED BY <1>1, <1>2, PTL DEF Spec

\* A failure is deferred only for as long as its chunk is parsed.
DeferredInv == ~parsing => deferred = "none"

\* FeedEnd answers what the callbacks deferred.
LEMMA DeferredInvCorrect == Spec => []DeferredInv
<1>1. Init => DeferredInv
  BY DEF Init, DeferredInv
<1>2. DeferredInv /\ [Next]_vars => DeferredInv'
  <2> SUFFICES ASSUME DeferredInv, [Next]_vars PROVE DeferredInv'
    OBVIOUS
  <2>1. CASE OnSocketData \/ FeedEnd
    BY <2>1 DEF DeferredInv, OnSocketData, FeedEnd
  <2>2. CASE OnData \/ OnTrailers \/ OnMessageComplete \/ OnError
    BY <2>2 DEF DeferredInv, OnData, OnTrailers, OnMessageComplete, OnError
  <2>3. ASSUME NEW kind \in Kinds, OnRefusedHeaders(kind) \/ OnHeaders(kind)
        PROVE  DeferredInv'
    BY <2>3 DEF DeferredInv, OnRefusedHeaders, OnHeaders
  <2>4. CASE UNCHANGED parserVars
    BY <2>4 DEF DeferredInv, parserVars
  <2>5. Pump \/ Tunnel \/ Events \/ UNCHANGED vars => UNCHANGED parserVars
    BY DEF Pump, HandlerReturns, SendInformational, WriteDone, WriteFails, BodyDone,
       Tunnel, ConnectReturns, ConnectWritten, TunnelEnds, Events, OnTimeout,
       InitiateClose, ServerDestroys, PeerEnds, SocketClosed, BodyRead, vars
  <2>. QED BY <2>1, <2>2, <2>3, <2>4, <2>5 DEF Next, Parse
<1>. QED BY <1>1, <1>2, PTL DEF Spec

\* README: "Once a message is rejected, all later parser callbacks from the
\* same input buffer are ignored."  No request is dispatched once a failure is
\* deferred or the connection is torn down.
THEOREM NoLateDispatch == Spec => NoDispatchAfterFailure
<1>1. DeferredInv /\ [Next]_vars
        => [current' # current => deferred = "none" /\ ~closed]_vars
  <2> SUFFICES ASSUME DeferredInv, Next, current' # current
               PROVE  deferred = "none" /\ ~closed
    BY DEF vars
  <2>1. ASSUME NEW m, NEW w, EndTurn(m, w) PROVE ~closed
    BY <2>1 DEF EndTurn, PumpStops
  <2>2. CASE Pump
    BY <2>1, <2>2 DEF DeferredInv, Pump, HandlerReturns, SendInformational, WriteDone,
       DiscardRest, WriteFails, BodyDone, StartWriting, PumpStops, pumpVars
  <2>3. CASE Parse
    BY <2>3 DEF Parse, OnSocketData, OnRefusedHeaders, OnHeaders, Accepting, OnData,
       OnTrailers, OnMessageComplete, OnError, FeedEnd, pumpVars
  <2>4. CASE Tunnel \/ Events
    BY <2>4 DEF Tunnel, Events, ConnectReturns, ConnectWritten, TunnelEnds, OnTimeout,
       InitiateClose, ServerDestroys, PeerEnds, SocketClosed, BodyRead, pumpVars
  <2>. QED BY <2>2, <2>3, <2>4 DEF Next
<1>. QED BY <1>1, DeferredInvCorrect, PTL DEF Spec, NoDispatchAfterFailure

-----------------------------------------------------------------------------
(* What the teardown owes to the requests.  QueueInv speaks of three facts *)
(* about the entries: those outside the queue are answered, all of them    *)
(* are told, and the body of a complete one is over.                       *)

OutsideAnswered(q, m) ==
  \A i \in 1 .. count : (\E k \in 1 .. Len(q) : q[k] = i) \/ (m[i].responded /\ BodyOver(m[i]))
AllTold(m) == \A i \in 1 .. count : (m[i].responded \/ m[i].aborted) /\ BodyOver(m[i])
CompleteOver(m) == \A i \in 1 .. count : m[i].complete => BodyOver(m[i])

\* What every change to an entry keeps.
Grows(e, f) ==
  /\ e.responded => f.responded
  /\ e.aborted => f.aborted
  /\ e.discard => f.discard
  /\ BodyOver(e) => BodyOver(f)
  /\ (e.complete => BodyOver(e)) => (f.complete => BodyOver(f))
Grown(m, n) == \A i \in 1 .. count : Grows(m[i], n[i])

\* A teardown tells an entry, unless it was answered and its body is over.
LEMMA AbandonTells ==
  ASSUME NEW e \in Entries
  PROVE  /\ Grows(e, Abandon(e))
         /\ Abandon(e).responded \/ Abandon(e).aborted
         /\ (e.complete => BodyOver(e)) => BodyOver(Abandon(e))
  BY DEF Entries, Abandon, Grows, BodyOver

\* Beginning, ending or discarding, aborting, cancelling or completing: each
\* only adds to an entry.
LEMMA FieldGrows ==
  ASSUME NEW e \in Entries
  PROVE  /\ Grows(e, e)
         /\ Grows(e, Commit(e))
         /\ Grows(e, [e EXCEPT !.responded = TRUE])
         /\ Grows(e, [e EXCEPT !.discard = TRUE])
         /\ Grows(e, [e EXCEPT !.aborted = TRUE])
         /\ Grows(e, [e EXCEPT !.body = "cancelled", !.discard = TRUE])
         /\ Grows(e, [e EXCEPT !.complete = TRUE,
                               !.body = IF @ = "open" /\ ~e.discard THEN "closed" ELSE @])
  BY DEF Entries, Grows, BodyOver, Commit

\* So the entries of the connection only grow.
LEMMA FieldsGrow ==
  ASSUME TypeOK, NEW m \in [Msg -> Entries], NEW i
  PROVE  /\ Grown(m, m)
         /\ Grown(m, [m EXCEPT ![i] = Commit(@)])
         /\ Grown(m, [m EXCEPT ![i].responded = TRUE])
         /\ Grown(m, [m EXCEPT ![i].discard = TRUE])
         /\ Grown(m, [m EXCEPT ![i].aborted = TRUE])
         /\ Grown(m, [m EXCEPT ![i].body = "cancelled", ![i].discard = TRUE])
         /\ Grown(m, [m EXCEPT ![i].complete = TRUE,
                               ![i].body = IF @ = "open" /\ ~m[i].discard THEN "closed" ELSE @])
<1>1. \A j \in 1 .. count : j \in Msg /\ m[j] \in Entries
  BY NumberType
<1>2. ASSUME NEW f, i \in 1 .. count => Grows(m[i], f)
      PROVE  Grown(m, [m EXCEPT ![i] = f])
  BY <1>1, <1>2, FieldGrows DEF Grown
<1>3. Grown(m, m) BY <1>1, FieldGrows DEF Grown
<1>4. Grown(m, [m EXCEPT ![i] = Commit(@)]) BY <1>1, <1>2, FieldGrows
<1>5. Grown(m, [m EXCEPT ![i].responded = TRUE]) BY <1>1, <1>2, FieldGrows
<1>6. Grown(m, [m EXCEPT ![i].discard = TRUE]) BY <1>1, <1>2, FieldGrows
<1>7. Grown(m, [m EXCEPT ![i].aborted = TRUE]) BY <1>1, <1>2, FieldGrows
<1>8. Grown(m, [m EXCEPT ![i].body = "cancelled", ![i].discard = TRUE])
  <2>. DEFINE f == [m[i] EXCEPT !.body = "cancelled", !.discard = TRUE]
  <2>1. i \in 1 .. count => Grows(m[i], f) BY <1>1, FieldGrows
  <2>2. [m EXCEPT ![i].body = "cancelled", ![i].discard = TRUE] = [m EXCEPT ![i] = f]
    OBVIOUS
  <2>. HIDE DEF f
  <2>. QED BY <1>2, <2>1, <2>2
<1>9. Grown(m, [m EXCEPT ![i].complete = TRUE,
                         ![i].body = IF @ = "open" /\ ~m[i].discard THEN "closed" ELSE @])
  <2>. DEFINE f == [m[i] EXCEPT !.complete = TRUE,
                                !.body = IF @ = "open" /\ ~m[i].discard THEN "closed" ELSE @]
  <2>1. i \in 1 .. count => Grows(m[i], f) BY <1>1, FieldGrows
  <2>2. [m EXCEPT ![i].complete = TRUE,
                  ![i].body = IF @ = "open" /\ ~m[i].discard THEN "closed" ELSE @]
          = [m EXCEPT ![i] = f]
    OBVIOUS
  <2>. HIDE DEF f
  <2>. QED BY <1>2, <2>1, <2>2
<1>. QED BY <1>3, <1>4, <1>5, <1>6, <1>7, <1>8, <1>9

\* What growing keeps of the three facts.
LEMMA GrownKeeps ==
  ASSUME NEW m, NEW n, Grown(m, n)
  PROVE  /\ \A q : OutsideAnswered(q, m) => OutsideAnswered(q, n)
         /\ AllTold(m) => AllTold(n)
         /\ CompleteOver(m) => CompleteOver(n)
  BY DEF Grown, Grows, OutsideAnswered, AllTold, CompleteOver

\* A teardown leaves an empty queue and everybody told.
LEMMA TeardownTells ==
  ASSUME TypeOK, NEW q, NEW m \in [Msg -> Entries], TeardownQueue(q, m), ~closed,
         OutsideAnswered(q, m), CompleteOver(m)
  PROVE  /\ closed' /\ queue' = <<>> /\ AllTold(msg') /\ CompleteOver(msg')
         /\ Grown(m, msg')
<1>1. \A i \in 1 .. count : i \in Msg /\ m[i] \in Entries BY NumberType
<1>2. \A i \in 1 .. count :
        msg'[i] = IF \E k \in 1 .. Len(q) : q[k] = i THEN Abandon(m[i]) ELSE m[i]
  BY <1>1 DEF TeardownQueue
<1>3. closed' /\ queue' = <<>> BY DEF TeardownQueue
<1>4. Grown(m, msg')
  <2>1. \A i \in 1 .. count : msg'[i] = Abandon(m[i]) \/ msg'[i] = m[i] BY <1>2
  <2>2. \A i \in 1 .. count : Grows(m[i], Abandon(m[i])) /\ Grows(m[i], m[i])
    BY <1>1, AbandonTells, FieldGrows
  <2>. QED BY <2>1, <2>2 DEF Grown
<1>5. AllTold(msg')
  BY <1>1, <1>2, AbandonTells DEF AllTold, OutsideAnswered, CompleteOver
<1>6. CompleteOver(msg') BY <1>4, GrownKeeps
<1>. QED BY <1>3, <1>4, <1>5, <1>6

\* QueueInv, in terms of the three facts.
LEMMA QueueInvFacts ==
  QueueInv <=>
    /\ pumpPc # "idle" => running /\ current \in 1 .. count
    /\ running => pumpPc # "idle" \/ phase = "tunnel"
    /\ pumpPc = "body" => msg[current].responded /\ msg[current].discard
    /\ CompleteOver(msg)
    /\ ~closed => /\ pumpPc = "idle" <=> queue = <<>>
                  /\ queue # <<>> => Head(queue) = current
                  /\ OutsideAnswered(queue, msg)
    /\ closed => queue = <<>> /\ AllTold(msg)
  BY DEF QueueInv, Queued, CompleteOver, OutsideAnswered, AllTold

\* A step that only adds to the entries, whatever becomes of the parser.
LEMMA QueueKept ==
  ASSUME TypeOK, QueueInv, Grown(msg, msg'),
         UNCHANGED <<count, queue, closed, running, current>>,
         pumpPc' = "idle" <=> pumpPc = "idle",
         pumpPc' = "body" => \/ pumpPc = "body"
                             \/ msg'[current].responded /\ msg'[current].discard,
         phase = "tunnel" => phase' = "tunnel"
  PROVE  QueueInv'
<1>1. CompleteOver(msg)' BY GrownKeeps, QueueInvFacts DEF CompleteOver
<1>2. OutsideAnswered(queue, msg) => OutsideAnswered(queue, msg)'
  BY GrownKeeps DEF OutsideAnswered
<1>3. AllTold(msg) => AllTold(msg)' BY GrownKeeps DEF AllTold
<1>4. pumpPc' = "body" => msg'[current].responded /\ msg'[current].discard
  <2>1. CASE pumpPc = "body"
    BY <2>1, QueueInvFacts DEF Grown, Grows
  <2>. QED BY <2>1
<1>. QED BY <1>1, <1>2, <1>3, <1>4, QueueInvFacts
     DEF QueueInv, Queued, CompleteOver, OutsideAnswered, AllTold

\* A teardown of the connection, by whatever ends it.
LEMMA QueueTorn ==
  ASSUME TypeOK, QueueInv, TeardownQueue(queue, msg), UNCHANGED <<count, phase>>,
         UNCHANGED pumpVars \/ PumpStops
  PROVE  QueueInv'
<1>1. /\ closed' /\ queue' = <<>> /\ AllTold(msg') /\ CompleteOver(msg')
      /\ Grown(msg, msg')
  <2>1. CASE closed
    BY <2>1, QueueInvFacts, FieldsGrow DEF TeardownQueue, TypeOK
  <2>2. CASE ~closed
    BY <2>2, QueueInvFacts, TeardownTells DEF TypeOK
  <2>. QED BY <2>1, <2>2
<1>2. pumpPc' = "body" => msg'[current'].responded /\ msg'[current'].discard
  <2>1. CASE PumpStops BY <2>1 DEF PumpStops
  <2>2. CASE UNCHANGED pumpVars
    BY <1>1, <2>2, QueueInvFacts DEF pumpVars, Grown, Grows
  <2>. QED BY <2>1, <2>2
<1>3. AllTold(msg)' /\ CompleteOver(msg)' BY <1>1 DEF AllTold, CompleteOver
<1>4. /\ pumpPc' # "idle" => running' /\ current' \in 1 .. count
      /\ running' => pumpPc' # "idle" \/ phase' = "tunnel"
  BY QueueInvFacts DEF pumpVars, PumpStops
<1>. QED BY <1>1, <1>2, <1>3, <1>4 DEF QueueInv, Queued, AllTold, CompleteOver

\* A request that leaves the queue is answered and its body is over: the rest
\* of the queue still covers everybody who is not.
LEMMA TailCovers ==
  ASSUME TypeOK, QueueInv, pumpPc # "idle", ~closed, NEW m, Grown(msg, m),
         m[current].responded /\ BodyOver(m[current])
  PROVE  queue # <<>> /\ OutsideAnswered(Tail(queue), m)
<1>1. /\ queue # <<>> /\ Head(queue) = current /\ OutsideAnswered(queue, m)
  BY QueueInvFacts, GrownKeeps
<1>2. /\ Len(queue) \in Nat /\ Len(Tail(queue)) = Len(queue) - 1
      /\ \A k \in 1 .. Len(Tail(queue)) : Tail(queue)[k] = queue[k + 1]
      /\ Head(queue) = queue[1]
  BY <1>1, HeadTailProperties, LenProperties DEF TypeOK
<1>3. ASSUME NEW k \in 1 .. Len(queue), k # 1
      PROVE  \E j \in 1 .. Len(Tail(queue)) : Tail(queue)[j] = queue[k]
  <2>1. k - 1 \in 1 .. Len(Tail(queue)) /\ (k - 1) + 1 = k BY <1>2, <1>3
  <2>2. Tail(queue)[k - 1] = queue[(k - 1) + 1] BY <1>2, <2>1
  <2>. QED BY <2>1, <2>2
<1>4. ASSUME NEW i \in 1 .. count, NEW k \in 1 .. Len(queue), queue[k] = i
      PROVE  \/ \E j \in 1 .. Len(Tail(queue)) : Tail(queue)[j] = i
             \/ m[i].responded /\ BodyOver(m[i])
  <2>1. CASE k = 1
    <3>1. i = current BY <1>1, <1>2, <1>4, <2>1
    <3>. QED BY <3>1
  <2>2. CASE k # 1 BY <1>3, <1>4, <2>2
  <2>. QED BY <2>1, <2>2
<1>5. OutsideAnswered(Tail(queue), m) BY <1>1, <1>4 DEF OutsideAnswered
<1>. QED BY <1>1, <1>5

\* The end of a turn of the pump, whichever way the connection goes on.
LEMMA QueueTurned ==
  ASSUME TypeOK, QueueInv, pumpPc # "idle", UNCHANGED <<count, phase>>,
         NEW m \in [Msg -> Entries], NEW w, Grown(msg, m),
         ~closed => m[current].responded /\ BodyOver(m[current]), EndTurn(m, w)
  PROVE  QueueInv'
<1>. DEFINE q == IF queue = <<>> THEN <<>> ELSE Tail(queue)
<1>1. CompleteOver(m) /\ (closed => AllTold(m) /\ q = <<>>)
  BY QueueInvFacts, GrownKeeps
<1>2. ~closed => OutsideAnswered(q, m) BY TailCovers
<1>3. q \in Seq(1 .. count) BY EmptySeq, HeadTailProperties DEF TypeOK
<1>4. \/ sock' = Ended /\ Teardown(q, m) /\ PumpStops
      \/ ~closed /\ q # <<>> /\ Dispatch(Head(q), m, w) /\ queue' = q /\ ~closed'
      \/ (q = <<>> \/ closed) /\ PumpStops /\ msg' = m /\ queue' = q /\ UNCHANGED closed
  BY DEF EndTurn
<1>. HIDE DEF q
<1>5. CASE Teardown(q, m) /\ PumpStops
  <2>1. closed' /\ queue' = <<>> /\ AllTold(msg') /\ CompleteOver(msg')
    <3>1. CASE closed
      <4>1. queue = <<>> BY <3>1, QueueInvFacts
      <4>. QED BY <1>1, <1>5, <3>1, <4>1 DEF Teardown, TeardownQueue
    <3>2. CASE ~closed
      BY <1>1, <1>2, <1>5, <3>2, TeardownTells DEF Teardown
    <3>. QED BY <3>1, <3>2
  <2>2. AllTold(msg)' /\ CompleteOver(msg)' BY <2>1 DEF AllTold, CompleteOver
  <2>. QED BY <1>5, <2>1, <2>2 DEF PumpStops, QueueInv, Queued, AllTold, CompleteOver
<1>6. CASE ~closed /\ q # <<>> /\ Dispatch(Head(q), m, w) /\ queue' = q /\ ~closed'
  <2>1. Head(q) \in 1 .. count BY <1>3, <1>6, HeadTailProperties
  <2>2. /\ running' /\ current' = Head(q) /\ pumpPc' \in {"handler", "writing"}
        /\ msg' = m \/ msg' = [m EXCEPT ![Head(q)] = Commit(@)]
    BY <1>6 DEF Dispatch, StartWriting
  <2>3. Grown(m, msg') BY <2>2, FieldsGrow
  <2>4. OutsideAnswered(q, msg') /\ CompleteOver(msg')
    BY <1>1, <1>2, <1>6, <2>3, GrownKeeps
  <2>5. OutsideAnswered(queue, msg)' /\ CompleteOver(msg)'
    BY <1>6, <2>4 DEF OutsideAnswered, CompleteOver
  <2>. QED BY <1>6, <2>1, <2>2, <2>5 DEF QueueInv, Queued, OutsideAnswered, CompleteOver
<1>7. CASE (q = <<>> \/ closed) /\ PumpStops /\ msg' = m /\ queue' = q /\ UNCHANGED closed
  <2>1. q = <<>> BY <1>1, <1>7
  <2>2. CompleteOver(msg)' /\ (closed' => AllTold(msg)')
    BY <1>1, <1>7 DEF AllTold, CompleteOver
  <2>3. ~closed' => OutsideAnswered(queue, msg)'
    BY <1>2, <1>7 DEF OutsideAnswered
  <2>. QED BY <1>7, <2>1, <2>2, <2>3
       DEF PumpStops, QueueInv, Queued, AllTold, CompleteOver, OutsideAnswered
<1>. QED BY <1>4, <1>5, <1>6, <1>7

\* A request that joins the queue, and the pump it may start.
LEMMA QueueJoined ==
  ASSUME TypeOK, QueueInv, NEW kind \in Kinds, OnHeaders(kind)
  PROVE  QueueInv'
<1>. DEFINE id == count + 1
            m  == [msg EXCEPT ![id] = Entry(kind)]
            w  == IF kind = "expect" THEN Written(wire, "interim", id) ELSE wire
<1>1. /\ count' = id /\ queue' = Append(queue, id) /\ ~closed /\ ~closed'
      /\ phase = "head"
      /\ \/ ~running /\ Dispatch(id, m, w)
         \/ running /\ msg' = m /\ UNCHANGED pumpVars
  BY DEF OnHeaders, Accepting
<1>2. /\ count \in Nat /\ id \in Nat /\ id \in Msg /\ 1 .. id = 1 .. count \cup {id}
      /\ id \notin 1 .. count
  BY MaxMsgAssumption DEF TypeOK, OnHeaders, Msg
<1>3. /\ m[id] = Entry(kind) /\ ~m[id].complete
      /\ \A i \in 1 .. count : m[i] = msg[i]
  BY <1>2 DEF TypeOK, Entry
<1>4. m \in [Msg -> Entries] BY EntryType DEF TypeOK
<1>. HIDE DEF m, w
<1>5. /\ \A i \in 1 .. count : msg'[i] = m[i]
      /\ msg'[id].complete = m[id].complete
  <2>1. CASE msg' = m BY <2>1
  <2>2. CASE msg' = [m EXCEPT ![id] = Commit(@)]
    <3>1. msg' = [m EXCEPT ![id] = Commit(m[id])] BY <2>2
    <3>2. Commit(m[id]).complete = m[id].complete
      BY <1>2, <1>4 DEF Entries, Commit
    <3>. HIDE DEF id
    <3>. QED BY <1>2, <1>4, <3>1, <3>2 DEF TypeOK
  <2>. QED BY <1>1, <2>1, <2>2 DEF Dispatch, StartWriting
<1>6. \A i \in 1 .. id : msg'[i].complete => BodyOver(msg'[i])
  BY <1>2, <1>3, <1>5, QueueInvFacts DEF CompleteOver
<1>7. /\ queue \in Seq(Nat)
      /\ Len(queue) \in Nat /\ Len(queue') = Len(queue) + 1 /\ queue' # <<>>
      /\ \A k \in 1 .. Len(queue) : queue'[k] = queue[k]
      /\ queue'[Len(queue) + 1] = id
      /\ Head(queue') = IF queue = <<>> THEN id ELSE Head(queue)
  <2>1. queue \in Seq(Nat) BY DEF TypeOK
  <2>. HIDE DEF id
  <2>. QED BY <1>1, <1>2, <2>1, AppendProperties, LenProperties, HeadTailAppend
<1>8. \A i \in 1 .. id : \/ \E k \in 1 .. Len(queue') : queue'[k] = i
                         \/ msg'[i].responded /\ BodyOver(msg'[i])
  <2>1. \E k \in 1 .. Len(queue') : queue'[k] = id
    BY <1>7
  <2>2. ASSUME NEW i \in 1 .. count, NEW k \in 1 .. Len(queue), queue[k] = i
        PROVE  \E j \in 1 .. Len(queue') : queue'[j] = i
    BY <1>7, <2>2
  <2>. QED BY <1>1, <1>2, <1>3, <1>5, <2>1, <2>2, QueueInvFacts, SMTT(30) DEF OutsideAnswered
<1>9. CASE ~running /\ Dispatch(id, m, w)
  <2>1. queue = <<>> BY <1>1, <1>9, QueueInvFacts
  <2>2. running' /\ current' = id /\ pumpPc' \in {"handler", "writing"}
    BY <1>9 DEF Dispatch, StartWriting
  <2>3. Head(queue') = current' /\ current' \in 1 .. count'
    BY <1>1, <1>2, <1>7, <2>1, <2>2
  <2>. QED BY <1>1, <1>6, <1>7, <1>8, <2>2, <2>3 DEF QueueInv, Queued
<1>10. CASE running /\ msg' = m /\ UNCHANGED pumpVars
  <2>1. pumpPc # "idle" /\ queue # <<>> /\ Head(queue) = current /\ current \in 1 .. count
    BY <1>1, <1>10, QueueInvFacts
  <2>2. pumpPc' = "body" => msg'[current'].responded /\ msg'[current'].discard
    BY <1>3, <1>10, <2>1, QueueInvFacts DEF pumpVars
  <2>3. current' \in 1 .. count' /\ Head(queue') = current'
    BY <1>1, <1>2, <1>7, <1>10, <2>1 DEF pumpVars
  <2>. QED BY <1>1, <1>6, <1>7, <1>8, <1>10, <2>1, <2>2, <2>3 DEF pumpVars, QueueInv, Queued
<1>. QED BY <1>1, <1>9, <1>10

\* The queue, the pump and the entries fit together in every reachable state.
LEMMA QueueInvCorrect == Spec => []QueueInv
<1>1. Init => QueueInv
  BY DEF Init, QueueInv, Queued
<1>2. TypeOK /\ TunnelInv /\ QueueInv /\ [Next]_vars => QueueInv'
  <2> SUFFICES ASSUME TypeOK, TunnelInv, QueueInv, [Next]_vars PROVE QueueInv'
    OBVIOUS
  <2>0. msg \in [Msg -> Entries] /\ Grown(msg, msg)
    BY FieldsGrow DEF TypeOK
  <2>1. CASE HandlerReturns
    <3>1. CASE /\ StartWriting(current, msg, wire)
               /\ UNCHANGED <<queue, running, current, tunnel, closed, timerVars, sock>>
      <4>1. Grown(msg, msg') BY <2>0, <3>1, FieldsGrow DEF StartWriting
      <4>. QED BY <2>1, <3>1, <4>1, QueueKept DEF HandlerReturns, StartWriting, parserVars
    <3>2. CASE Teardown(queue, msg) /\ PumpStops
      BY <2>1, <3>2, QueueTorn DEF HandlerReturns, Teardown, parserVars
    <3>. QED BY <2>1, <3>1, <3>2 DEF HandlerReturns
  <2>2. CASE SendInformational
    BY <2>0, <2>2, QueueKept DEF SendInformational, parserVars, pumpVars
  <2>3. CASE WriteDone
    <3>. DEFINE m == [msg EXCEPT ![current].responded = TRUE]
                w == Written(wire, "end", current)
    <3>1. /\ m \in [Msg -> Entries] /\ Grown(msg, m)
          /\ [m EXCEPT ![current].discard = TRUE] \in [Msg -> Entries]
          /\ Grown(m, [m EXCEPT ![current].discard = TRUE])
      BY <2>0, FieldsType, FieldsGrow
    <3>2. pumpPc = "writing" /\ current \in 1 .. count /\ current \in Msg
      BY <2>3, QueueInvFacts, NumberType DEF WriteDone
    <3>3. m[current].responded
      BY <2>0, <3>2
    <3>. HIDE DEF m, w
    <3>4. CASE m[current].complete /\ EndTurn(m, w)
      <4>1. BodyOver(m[current])
        BY <3>1, <3>2, <3>4, QueueInvFacts, GrownKeeps DEF CompleteOver
      <4>. QED BY <2>3, <3>1, <3>2, <3>3, <3>4, <4>1, QueueTurned DEF WriteDone, parserVars
    <3>5. CASE /\ DiscardRest(m, w)
               /\ UNCHANGED <<queue, running, current, tunnel, closed, timerVars, sock>>
      <4>1. msg' = [m EXCEPT ![current].discard = TRUE] /\ pumpPc' = "body"
        BY <3>5 DEF DiscardRest
      <4>2. Grown(msg, msg') BY <3>1, <4>1 DEF Grown, Grows
      <4>3. msg'[current].responded /\ msg'[current].discard
        BY <3>1, <3>2, <3>3, <4>1 DEF Entries
      <4>. QED BY <2>3, <3>2, <3>5, <4>1, <4>2, <4>3, QueueKept DEF WriteDone, parserVars
    <3>. QED BY <2>3, <3>4, <3>5 DEF WriteDone, m, w
  <2>4. CASE WriteFails
    BY <2>4, QueueTorn DEF WriteFails, Teardown, parserVars
  <2>5. CASE BodyDone
    <3>1. pumpPc = "body" /\ current \in 1 .. count
      BY <2>5, QueueInvFacts DEF BodyDone, Woken
    <3>2. ~closed => msg[current].responded /\ BodyOver(msg[current])
      BY <2>5, <3>1, QueueInvFacts DEF BodyDone, Woken, CompleteOver
    <3>. QED BY <2>0, <2>5, <3>1, <3>2, QueueTurned DEF BodyDone, parserVars
  <2>6. CASE OnSocketData
    BY <2>0, <2>6, QueueKept DEF OnSocketData, pumpVars
  <2>7. ASSUME NEW kind \in Kinds, OnRefusedHeaders(kind) PROVE QueueInv'
    BY <2>0, <2>7, QueueKept DEF OnRefusedHeaders, pumpVars
  <2>8. ASSUME NEW kind \in Kinds, OnHeaders(kind) PROVE QueueInv'
    BY <2>8, QueueJoined
  <2>9. CASE OnData
    <3>1. Grown(msg, msg') BY <2>0, <2>9, FieldsGrow DEF OnData
    <3>. QED BY <2>9, <3>1, QueueKept DEF OnData, pumpVars
  <2>10. CASE OnTrailers
    BY <2>0, <2>10, QueueKept DEF OnTrailers, pumpVars
  <2>11. CASE OnMessageComplete
    <3>1. Grown(msg, msg') BY <2>0, <2>11, FieldsGrow DEF OnMessageComplete
    <3>. QED BY <2>11, <3>1, QueueKept DEF OnMessageComplete, pumpVars
  <2>12. CASE OnError
    BY <2>0, <2>12, QueueKept DEF OnError, pumpVars
  <2>13. CASE FeedEnd
    <3>1. CASE Reject
      BY <2>13, <3>1, QueueTorn DEF FeedEnd, Reject
    <3>2. CASE UNCHANGED <<closed, queue, msg>>
      BY <2>0, <2>13, <3>2, QueueKept DEF FeedEnd, pumpVars
    <3>. QED BY <2>13, <3>1, <3>2 DEF FeedEnd, BeginConnect
  <2>14. CASE ConnectReturns
    <3>0. phase = "tunnel" BY <2>14 DEF ConnectReturns, TunnelInv
    <3>1. CASE Reject /\ UNCHANGED running
      BY <2>14, <3>1, QueueTorn DEF ConnectReturns, Reject, parserVars, pumpVars
    <3>2. CASE UNCHANGED <<closed, queue, msg>>
      BY <2>14, <3>0, <3>2
      DEF ConnectReturns, parserVars, QueueInv, Queued
    <3>. QED BY <2>14, <3>1, <3>2 DEF ConnectReturns
  <2>15. CASE ConnectWritten
    BY <2>15, QueueTorn DEF ConnectWritten, parserVars
  <2>16. CASE TunnelEnds
    BY <2>16, QueueTorn DEF TunnelEnds, Teardown, parserVars
  <2>17. CASE OnTimeout
    BY <2>17, QueueTorn DEF OnTimeout, Teardown, parserVars
  <2>18. CASE InitiateClose
    <3>1. CASE Teardown(queue, msg)
      BY <2>18, <3>1, QueueTorn DEF InitiateClose, Teardown, parserVars
    <3>2. CASE UNCHANGED <<closed, queue, msg>>
      BY <2>0, <2>18, <3>2, QueueKept DEF InitiateClose, parserVars, pumpVars
    <3>. QED BY <2>18, <3>1, <3>2 DEF InitiateClose
  <2>19. CASE ServerDestroys
    BY <2>0, <2>19, QueueKept DEF ServerDestroys, parserVars, pumpVars
  <2>20. CASE PeerEnds
    BY <2>0, <2>20, QueueKept DEF PeerEnds, parserVars, pumpVars
  <2>21. CASE SocketClosed
    BY <2>21, QueueTorn DEF SocketClosed, Teardown, parserVars
  <2>22. ASSUME NEW i \in Msg, BodyRead(i) PROVE QueueInv'
    <3>1. Grown(msg, msg') BY <2>0, <2>22, FieldsGrow DEF BodyRead
    <3>. QED BY <2>22, <3>1, QueueKept DEF BodyRead, parserVars, pumpVars
  <2>23. CASE UNCHANGED vars
    BY <2>0, <2>23, QueueKept DEF vars, parserVars, pumpVars
  <2>. QED
    BY <2>1, <2>2, <2>3, <2>4, <2>5, <2>6, <2>7, <2>8, <2>9, <2>10, <2>11, <2>12,
       <2>13, <2>14, <2>15, <2>16, <2>17, <2>18, <2>19, <2>20, <2>21, <2>22, <2>23
    DEF Next, Parse, Pump, Tunnel, Events
<1>. QED BY <1>1, <1>2, TypeCorrect, TunnelInvCorrect, PTL DEF Spec

\* When the connection ends, the signal of every request that has no response
\* is aborted, the ones still waiting in the pipeline included.
THEOREM NobodyForgotten == Spec => []AbortedOrAnswered
<1>1. QueueInv => AbortedOrAnswered
  BY QueueInvFacts DEF AbortedOrAnswered, AllTold
<1>. QED BY <1>1, QueueInvCorrect, PTL

\* When the connection ends no reader of a request body is left waiting,
\* except where the server had begun to discard the body.
THEOREM NoReaderWaits == Spec => []BodySettled
<1>1. QueueInv => BodySettled
  BY QueueInvFacts DEF BodySettled, AllTold, BodyOver
<1>. QED BY <1>1, QueueInvCorrect, PTL

\* A connection without a tunnel always has a deadline running; when a request
\* is queued it is a request deadline, set anew for the one #pump works on.
THEOREM DeadlineAlwaysRuns == Spec => []DeadlineRuns
<1>1. KindRuns /\ OwnDeadline /\ QueueInv => DeadlineRuns
  BY DEF KindRuns, OwnDeadline, QueueInv, DeadlineRuns
<1>. QED BY <1>1, KindRunsCorrect, OwnDeadlineCorrect, QueueInvCorrect, PTL

=============================================================================
