--------------------------- MODULE Server_proofs ---------------------------
(***************************************************************************)
(* Safety of Server for any number of connections and promises: the type   *)
(* invariant, and on top of it two inductive invariants, LifecycleInv for  *)
(* what server.closed means and DrainInv for what a graceful close waits   *)
(* for.                                                                    *)
(***************************************************************************)
EXTENDS Server, TLAPS

\* Destroying the sockets keeps their type, and neither brings back nor forgets
\* one: only open sockets change.
LEMMA DestroyedType ==
  ASSUME TypeOK
  PROVE  /\ Destroyed(sock) \in [Conn -> {"free", "open", "destroyed", "gone"}]
         /\ \A c \in Conn : /\ (Destroyed(sock)[c] = "free") = (sock[c] = "free")
                            /\ (Destroyed(sock)[c] = "gone") = (sock[c] = "gone")
  BY DEF Destroyed, TypeOK

\* The type of what a close assigns.
CloseType ==
  /\ closePc' \in {"none", "await", "waiting", "done"}
  /\ closeForce' \in BOOLEAN /\ deadline' \in {"off", "armed", "fired"}
  /\ drain' \in {"off", "polling", "settling", "done"} /\ snapshot' \subseteq Task
  /\ forced' \in BOOLEAN
  /\ tcp' \in {"none", "pending", "open", "failed", "closing", "closed"}
  /\ h3' \in {"none", "open", "closing", "closed"}
  /\ sock' \in [Conn -> {"free", "open", "destroyed", "gone"}]
  /\ backend' \in [Conn -> {"none", "h1", "h2", "done"}]
  /\ told' \subseteq Conn /\ known' \subseteq Conn /\ exchanges' \subseteq Exchange

\* #close keeps the types, whichever way it is entered.
LEMMA StartClosingType ==
  ASSUME TypeOK, NEW force \in BOOLEAN, NEW timed \in BOOLEAN,
         closeForce' \in BOOLEAN, StartClosing(force, timed)
  PROVE  CloseType
<1>1. CASE force
  BY <1>1, DestroyedType DEF StartClosing, ForceClose, TypeOK, CloseType
<1>2. CASE ~force
  BY <1>2, DestroyedType DEF StartClosing, DrainFrom, Routed, TypeOK, CloseType
<1>. QED BY <1>1, <1>2

\* So does the first close, whether or not it waits for the bind.
LEMMA FirstCloseType ==
  ASSUME TypeOK, NEW force \in BOOLEAN, NEW timed \in BOOLEAN, NEW now \in BOOLEAN,
         FirstClose(force, timed, now)
  PROVE  CloseType
<1>1. CASE closePc' = "await" /\ UNCHANGED <<tcp, drain, snapshot, backend, told, known>>
  BY <1>1, DestroyedType DEF FirstClose, ForceClose, StartClosing, TypeOK, CloseType
<1>2. CASE StartClosing(force, timed)
  <2>1. closeForce' \in BOOLEAN BY DEF FirstClose
  <2>. QED BY <1>2, <2>1, StartClosingType
<1>. QED BY <1>1, <1>2 DEF FirstClose

\* So does a close that finds another one in progress.
LEMMA JoinCloseType ==
  ASSUME TypeOK, NEW force \in BOOLEAN, JoinClose(force)
  PROVE  CloseType
<1>1. CASE force
  BY <1>1, DestroyedType DEF JoinClose, ForceClose, TypeOK, CloseType
<1>2. CASE ~force
  BY <1>2 DEF JoinClose, TypeOK, CloseType
<1>. QED BY <1>1, <1>2

\* So does close(), which also leaves the server closing or closed.
LEMMA DoCloseType ==
  ASSUME TypeOK, NEW force \in BOOLEAN, NEW timed \in BOOLEAN, DoClose(force, timed)
  PROVE  CloseType /\ state' \in {"closing", "closed"}
  BY FirstCloseType, JoinCloseType DEF DoClose

\* The fields of the server always hold values the code gives them.
THEOREM TypeCorrect == Spec => []TypeOK
<1>1. Init => TypeOK
  BY DEF Init, TypeOK
<1>2. TypeOK /\ [Next]_vars => TypeOK'
  <2> SUFFICES ASSUME TypeOK, [Next]_vars PROVE TypeOK'
    OBVIOUS
  <2>1. ASSUME NEW force \in BOOLEAN, NEW timed \in BOOLEAN, Close(force, timed)
        PROVE  TypeOK'
    <3>1. DoClose(force, timed) BY <2>1 DEF Close
    <3>2. CloseType /\ state' \in {"closing", "closed"} BY <3>1, DoCloseType
    <3>. QED BY <2>1, <3>2 DEF Close, CloseType, TypeOK, bindVars, taskVars
  <2>2. CASE Destroy
    <3>1. CloseType
      BY <2>2, FirstCloseType, JoinCloseType DEF Destroy
    <3>. QED BY <2>2, <3>1 DEF Destroy, CloseType, TypeOK, bindVars, taskVars
  <2>3. CASE Abort
    <3>1. DoClose(FALSE, TRUE) BY <2>3 DEF Abort
    <3>2. CloseType /\ state' \in {"closing", "closed"} BY <3>1, DoCloseType
    <3>. QED BY <2>3, <3>2 DEF Abort, CloseType, TypeOK, taskVars
  <2>4. CASE Listen
    BY <2>4 DEF Listen, TypeOK, closeVars, connVars, taskVars
  <2>5. CASE H3Fails
    <3>1. DoClose(TRUE, FALSE) BY <2>5 DEF H3Fails
    <3>2. CloseType /\ state' \in {"closing", "closed"} BY <3>1, DoCloseType
    <3>. QED BY <2>5, <3>2 DEF H3Fails, CloseType, TypeOK, taskVars
  <2>6. CASE BindAborted
    <3>1. DoClose(FALSE, TRUE) BY <2>6 DEF BindAborted
    <3>2. CloseType /\ state' \in {"closing", "closed"} BY <3>1, DoCloseType
    <3>. QED BY <2>6, <3>2 DEF BindAborted, CloseType, TypeOK, taskVars
  <2>7. CASE TcpListening \/ H3Listening
    BY <2>7 DEF TcpListening, H3Listening, BindEnds, BindResolves, TypeOK,
                closeVars, connVars, taskVars
  <2>8. CASE TcpFails \/ BindSeesClose \/ BindRejects
    BY <2>8 DEF TcpFails, BindSeesClose, BindResolves, BindRejects, TypeOK,
                closeVars, connVars, taskVars
  <2>9. CASE CloseResumes
    <3>1. closeForce' \in BOOLEAN /\ closeForce \in BOOLEAN
      BY <2>9 DEF CloseResumes, TypeOK
    <3>2. StartClosing(closeForce, deadline = "armed") BY <2>9 DEF CloseResumes
    <3>3. (deadline = "armed") \in BOOLEAN OBVIOUS
    <3>4. CloseType BY <3>1, <3>2, <3>3, StartClosingType
    <3>. QED BY <2>9, <3>4 DEF CloseResumes, CloseType, TypeOK, bindVars, taskVars
  <2>10. CASE DrainPoll \/ DrainSettled
    BY <2>10, DestroyedType DEF DrainPoll, DrainSettled, DrainFrom, TypeOK,
                bindVars, taskVars
  <2>11. CASE Deadline
    BY <2>11, DestroyedType DEF Deadline, ForceClose, TypeOK, bindVars, taskVars
  <2>12. CASE CloseDone \/ TcpClosed \/ H3Closed
    <3>1. CASE CloseDone
      BY <3>1 DEF CloseDone, TypeOK, connVars, taskVars
    <3>2. CASE TcpClosed
      BY <3>2 DEF TcpClosed, TypeOK, bindVars, closeVars, connVars, taskVars
    <3>3. CASE H3Closed
      BY <3>3 DEF H3Closed, TypeOK, serverVars, bindVars, closeVars, connVars, taskVars
    <3>. QED BY <2>12, <3>1, <3>2, <3>3
  <2>13. CASE Traffic
    <3>1. ASSUME NEW c \in Conn,
                 Accept(c) \/ Route(c) \/ KeepAliveTimeout(c) \/ SessionClosed(c)
                   \/ SocketClosed(c) \/ ClientCloses(c)
          PROVE  TypeOK'
      BY <3>1, BackendsAssumption
      DEF Accept, Route, KeepAliveTimeout, SessionClosed, SocketClosed,
          ClientCloses, Gone, TypeOK, serverVars, bindVars, closeVars, taskVars
    <3>2. ASSUME NEW x \in Exchange,
                 RequestStart(x) \/ ExchangeEnd(x) \/ HandlerReturn(x) \/ ExchangeTimeout(x)
          PROVE  TypeOK'
      BY <3>2
      DEF RequestStart, ExchangeEnd, HandlerReturn, ExchangeTimeout, TypeOK,
          serverVars, bindVars, closeVars, taskVars
    <3>3. CASE StreamReset
      BY <3>3 DEF StreamReset, TypeOK, serverVars, bindVars, closeVars, taskVars
    <3>. QED BY <2>13, <3>1, <3>2, <3>3 DEF Traffic
  <2>14. CASE Work
    BY <2>14 DEF Work, WaitUntil, WaitUntilNested, Settle, Track, TypeOK,
                 serverVars, bindVars, closeVars, connVars
  <2>15. CASE UNCHANGED vars
    BY <2>15 DEF vars, TypeOK, bindVars, closeVars, connVars, taskVars
  <2>. QED
    BY <2>1, <2>2, <2>3, <2>4, <2>5, <2>6, <2>7, <2>8, <2>9, <2>10, <2>11,
       <2>12, <2>13, <2>14, <2>15 DEF Next, User, Binding, Closing
<1>. QED BY <1>1, <1>2, PTL DEF Spec

-----------------------------------------------------------------------------
(* What server.closed means.                                               *)

\* How a close moves the parts LifecycleInv speaks of: it starts once, closes
\* the TCP server, and neither opens nor forgets a socket.
CloseMoves ==
  /\ closePc' # "none" /\ (closePc' = "done" => closePc = "done")
  /\ tcp' = tcp \/ (tcp # "none" /\ tcp' = "closing")
  /\ \A c \in Conn : /\ (sock'[c] = "free") = (sock[c] = "free")
                     /\ (sock'[c] = "gone") = (sock[c] = "gone")
                     /\ backend'[c] = backend[c]
                          \/ (backend[c] \in {"h1", "h2"} /\ backend'[c] = "done")

\* The working part of #close moves the server that way.
LEMMA StartClosingMoves ==
  ASSUME TypeOK, NEW force \in BOOLEAN, NEW timed \in BOOLEAN,
         StartClosing(force, timed)
  PROVE  CloseMoves /\ closePc' = "waiting"
<1>1. CASE force
  BY <1>1, DestroyedType DEF StartClosing, ForceClose, TypeOK, CloseMoves
<1>2. CASE ~force
  BY <1>2, DestroyedType DEF StartClosing, DrainFrom, Routed, TypeOK, CloseMoves
<1>. QED BY <1>1, <1>2

\* So does the first close.
LEMMA FirstCloseMoves ==
  ASSUME TypeOK, NEW force \in BOOLEAN, NEW timed \in BOOLEAN, NEW now \in BOOLEAN,
         FirstClose(force, timed, now)
  PROVE  CloseMoves /\ closePc' \in {"await", "waiting"}
<1>1. CASE closePc' = "await" /\ UNCHANGED <<tcp, drain, snapshot, backend, told, known>>
  <2>1. sock' = sock \/ sock' = Destroyed(sock)
    BY <1>1 DEF FirstClose, ForceClose, StartClosing
  <2>. QED BY <1>1, <2>1, DestroyedType DEF TypeOK, CloseMoves
<1>2. CASE StartClosing(force, timed)
  BY <1>2, StartClosingMoves
<1>. QED BY <1>1, <1>2 DEF FirstClose

\* So does a later close, which leaves #close where it is suspended.
LEMMA JoinCloseMoves ==
  ASSUME TypeOK, NEW force \in BOOLEAN, JoinClose(force), closePc # "none"
  PROVE  CloseMoves /\ closePc' = closePc
<1>1. sock' = sock \/ sock' = Destroyed(sock)
  BY DEF JoinClose, ForceClose
<1>. QED BY <1>1, DestroyedType DEF JoinClose, TypeOK, CloseMoves

\* The three facts about server.closed that are proved together.
ClosedInv == LifecycleInv /\ ClosedIsQuiet /\ ClosedIsOwed

\* A step that is a close keeps them.
LEMMA CloseKeeps ==
  ASSUME TypeOK, ClosedInv, CloseMoves, closePc' \in {"await", "waiting"} \/ closePc' = closePc,
         state' \in {"closing", "closed"}, UNCHANGED closedResolved
  PROVE  ClosedInv'
<1>1. LifecycleInv'
  BY DEF TypeOK, ClosedInv, LifecycleInv, ClosedIsQuiet, CloseMoves
<1>2. ClosedIsQuiet'
  BY DEF TypeOK, ClosedInv, ClosedIsQuiet, CloseMoves, Routed
<1>3. ClosedIsOwed'
  BY DEF TypeOK, ClosedInv, LifecycleInv, ClosedIsOwed, CloseMoves
<1>. QED BY <1>1, <1>2, <1>3 DEF ClosedInv

\* Every call of close() is such a step.
LEMMA DoCloseKeeps ==
  ASSUME TypeOK, ClosedInv, NEW force \in BOOLEAN, NEW timed \in BOOLEAN,
         DoClose(force, timed), UNCHANGED closedResolved
  PROVE  ClosedInv'
<1>1. CloseMoves /\ (closePc' \in {"await", "waiting"} \/ closePc' = closePc)
  BY FirstCloseMoves, JoinCloseMoves DEF DoClose
<1>2. state' \in {"closing", "closed"}
  BY DEF DoClose
<1>. QED BY <1>1, <1>2, CloseKeeps

\* Every step of the server keeps the three facts.
LEMMA ClosedStep == TypeOK /\ ClosedInv /\ [Next]_vars => ClosedInv'
<1> SUFFICES ASSUME TypeOK, ClosedInv, [Next]_vars PROVE ClosedInv'
  OBVIOUS
<1>1. ASSUME NEW force \in BOOLEAN, NEW timed \in BOOLEAN, Close(force, timed)
      PROVE  ClosedInv'
  BY <1>1, DoCloseKeeps DEF Close
<1>2. CASE Destroy
  <2>1. CloseMoves /\ (closePc' \in {"await", "waiting"} \/ closePc' = closePc)
    BY <1>2, FirstCloseMoves, JoinCloseMoves DEF Destroy
  <2>. QED BY <1>2, <2>1, CloseKeeps DEF Destroy
<1>3. CASE Abort \/ H3Fails \/ BindAborted
  BY <1>3, DoCloseKeeps DEF Abort, H3Fails, BindAborted
<1>4. CASE CloseResumes
  <2>1. StartClosing(closeForce, deadline = "armed") /\ closeForce \in BOOLEAN
    BY <1>4 DEF CloseResumes, TypeOK
  <2>2. CloseMoves /\ closePc' = "waiting"
    BY <2>1, StartClosingMoves
  <2>3. state' \in {"closing", "closed"} /\ UNCHANGED closedResolved
    BY <1>4 DEF CloseResumes, ClosedInv, LifecycleInv
  <2>. QED BY <2>2, <2>3, CloseKeeps
<1>5. CASE Listen
  BY <1>5 DEF Listen, TypeOK, ClosedInv, LifecycleInv, ClosedIsQuiet, ClosedIsOwed,
              Routed, closeVars, connVars
<1>6. CASE TcpListening \/ TcpFails
  BY <1>6 DEF TcpListening, TcpFails, BindEnds, BindResolves, TypeOK, ClosedInv,
              LifecycleInv, ClosedIsQuiet, ClosedIsOwed, Routed, closeVars, connVars
<1>7. CASE H3Listening \/ BindSeesClose
  BY <1>7 DEF H3Listening, BindSeesClose, BindEnds, BindResolves, TypeOK, ClosedInv,
              LifecycleInv, ClosedIsQuiet, ClosedIsOwed, Routed, closeVars, connVars
<1>8. CASE BindRejects
  BY <1>8 DEF BindRejects, TypeOK, ClosedInv, LifecycleInv, ClosedIsQuiet,
              ClosedIsOwed, Routed, closeVars, connVars
<1>9. CASE DrainPoll \/ DrainSettled \/ Deadline
  <2>1. sock' = sock \/ sock' = Destroyed(sock)
    BY <1>9 DEF DrainPoll, DrainSettled, Deadline, DrainFrom, ForceClose
  <2>2. UNCHANGED <<state, bindPc, tcp, closePc, closedResolved, backend>>
    BY <1>9 DEF DrainPoll, DrainSettled, Deadline, bindVars
  <2>. QED BY <2>1, <2>2, DestroyedType
           DEF TypeOK, ClosedInv, LifecycleInv, ClosedIsQuiet, ClosedIsOwed, Routed
<1>10. CASE CloseDone
  BY <1>10 DEF CloseDone, Collected, TypeOK, ClosedInv, LifecycleInv, ClosedIsQuiet,
               ClosedIsOwed, Routed, connVars
<1>11. CASE TcpClosed \/ H3Closed
  BY <1>11 DEF TcpClosed, H3Closed, TypeOK, ClosedInv, LifecycleInv, ClosedIsQuiet,
               ClosedIsOwed, Routed, serverVars, bindVars, closeVars, connVars
<1>12. CASE Traffic
  <2>1. UNCHANGED <<state, bindPc, tcp, closePc, closedResolved>>
    BY <1>12 DEF Traffic, Accept, Route, KeepAliveTimeout, SessionClosed, SocketClosed,
                 ClientCloses, Gone, RequestStart, ExchangeEnd, HandlerReturn,
                 ExchangeTimeout, StreamReset, serverVars, bindVars, closeVars
  <2>2. ASSUME NEW c \in Conn, Accept(c) PROVE ClosedInv'
    BY <2>1, <2>2 DEF Accept, TypeOK, ClosedInv, LifecycleInv, ClosedIsQuiet,
                      ClosedIsOwed, Routed
  <2>3. ASSUME NEW c \in Conn, Route(c) PROVE ClosedInv'
    BY <2>1, <2>3 DEF Route, TypeOK, ClosedInv, LifecycleInv, ClosedIsQuiet,
                      ClosedIsOwed, Routed
  <2>4. ASSUME NEW c \in Conn, KeepAliveTimeout(c) \/ SessionClosed(c) PROVE ClosedInv'
    BY <2>1, <2>4 DEF KeepAliveTimeout, SessionClosed, TypeOK, ClosedInv, LifecycleInv,
                      ClosedIsQuiet, ClosedIsOwed, Routed
  <2>5. ASSUME NEW c \in Conn, SocketClosed(c) \/ ClientCloses(c) PROVE ClosedInv'
    BY <2>1, <2>5 DEF SocketClosed, ClientCloses, Gone, TypeOK, ClosedInv,
                      LifecycleInv, ClosedIsQuiet, ClosedIsOwed, Routed
  <2>6. ASSUME NEW x \in Exchange,
               RequestStart(x) \/ ExchangeEnd(x) \/ HandlerReturn(x) \/ ExchangeTimeout(x)
        PROVE  ClosedInv'
    BY <2>1, <2>6 DEF RequestStart, ExchangeEnd, HandlerReturn, ExchangeTimeout, Owner,
                      TypeOK, ClosedInv, LifecycleInv, ClosedIsQuiet, ClosedIsOwed, Routed
  <2>7. CASE StreamReset
    BY <2>1, <2>7 DEF StreamReset, ClosedInv, LifecycleInv, ClosedIsQuiet,
                      ClosedIsOwed, Routed
  <2>. QED BY <1>12, <2>2, <2>3, <2>4, <2>5, <2>6, <2>7 DEF Traffic
<1>13. CASE Work \/ UNCHANGED vars
  <2>1. UNCHANGED <<state, bindPc, tcp, closePc, closedResolved, sock, backend>>
    BY <1>13 DEF Work, WaitUntil, WaitUntilNested, Settle, vars, serverVars,
                 bindVars, closeVars, connVars
  <2>. QED BY <2>1 DEF ClosedInv, LifecycleInv, ClosedIsQuiet, ClosedIsOwed, Routed
<1>. QED
  BY <1>1, <1>2, <1>3, <1>4, <1>5, <1>6, <1>7, <1>8, <1>9, <1>10, <1>11, <1>12,
     <1>13 DEF Next, User, Binding, Closing

\* The three facts hold in every state of every behaviour.
LEMMA ClosedInvariant == Spec => []ClosedInv
<1>1. Init => ClosedInv
  BY DEF Init, ClosedInv, LifecycleInv, ClosedIsQuiet, ClosedIsOwed, Routed
<1>. QED BY <1>1, TypeCorrect, ClosedStep, PTL DEF Spec

\* server.closed resolves only when no TCP socket is left.
THEOREM ClosedQuiet == Spec => []ClosedIsQuiet
<1>1. ClosedInv => ClosedIsQuiet BY DEF ClosedInv
<1>. QED BY <1>1, ClosedInvariant, PTL

\* A server that stops always has someone to resolve server.closed.
THEOREM ClosedOwed == Spec => []ClosedIsOwed
<1>1. ClosedInv => ClosedIsOwed BY DEF ClosedInv
<1>. QED BY <1>1, ClosedInvariant, PTL

-----------------------------------------------------------------------------
(* What a graceful close waits for.                                        *)

\* A step destroys no socket under an exchange that was asked to finish,
\* unless the server has been forced to close.
KeepsExchanges ==
  \A c \in known \cap exchanges :
    sock[c] = "open" /\ sock'[c] = "destroyed" => forced'

\* The working part of #close: a connection that is in an exchange is never
\* among the idle ones, so the drain polls until it is done.
LEMMA StartClosingDrains ==
  ASSUME TypeOK, DrainInv, NEW force \in BOOLEAN, NEW timed \in BOOLEAN,
         closePc \in {"none", "await"}, closeForce' = force,
         StartClosing(force, timed), UNCHANGED <<pending, owed>>
  PROVE  DrainInv' /\ KeepsExchanges
<1>1. drain = "off"
  BY DEF DrainInv, TypeOK
<1>2. CASE force
  <2>1. ForceClose /\ UNCHANGED <<drain, snapshot, backend, told, known>>
    BY <1>2 DEF StartClosing
  <2>2. exchanges' \subseteq exchanges /\ Routed' = Routed
    BY <2>1 DEF ForceClose, Routed
  <2>. QED BY <1>1, <1>2, <2>1, <2>2 DEF StartClosing, ForceClose, DrainInv, KeepsExchanges
<1>3. CASE ~force
  <2>. DEFINE idle == {c \in Routed : backend[c] = "h1" /\ c \notin exchanges}
  <2>1. /\ backend' = [c \in Conn |-> IF c \in idle THEN "done" ELSE backend[c]]
        /\ told' = told \cup Routed /\ known' = Routed
        /\ DrainFrom(Routed \ idle)
        /\ UNCHANGED exchanges /\ closePc' = "waiting"
    BY <1>3 DEF StartClosing
  <2>2. exchanges \cap Conn \subseteq Routed \ idle
    BY DEF DrainInv
  <2>3. (exchanges \cap Conn \subseteq Routed)'
    BY <2>1, <2>2 DEF Routed
  <2>4. CASE Routed \ idle # {}
    BY <1>3, <2>1, <2>3, <2>4 DEF DrainFrom, DrainInv, KeepsExchanges
  <2>5. CASE Routed \ idle = {}
    <3>1. known' \subseteq Conn /\ known \subseteq Conn
      BY <2>1 DEF TypeOK, Routed
    <3>2. known' \cap exchanges' = {} /\ known \cap exchanges = {}
      BY <2>1, <2>2, <2>5, <3>1
    <3>. QED BY <1>3, <2>1, <2>3, <2>5, <3>2 DEF DrainFrom, DrainInv, KeepsExchanges
  <2>. QED BY <2>4, <2>5
<1>. QED BY <1>2, <1>3

\* The first close.
LEMMA FirstCloseDrains ==
  ASSUME TypeOK, DrainInv, NEW force \in BOOLEAN, NEW timed \in BOOLEAN,
         NEW now \in BOOLEAN, closePc = "none", FirstClose(force, timed, now),
         UNCHANGED <<pending, owed>>
  PROVE  DrainInv' /\ KeepsExchanges
<1>1. closeForce' = force
  BY DEF FirstClose
<1>2. CASE StartClosing(force, timed)
  BY <1>1, <1>2, StartClosingDrains
<1>3. CASE ~StartClosing(force, timed)
  <2>1. drain = "off"
    BY DEF DrainInv, TypeOK
  <2>2. /\ closePc' = "await" /\ UNCHANGED <<drain, snapshot, backend, told, known>>
        /\ ForceClose \/ UNCHANGED <<sock, exchanges>>
    BY <1>3 DEF FirstClose
  <2>3. exchanges' \subseteq exchanges /\ Routed' = Routed
    BY <2>2 DEF ForceClose, Routed
  <2>4. DrainInv'
    BY <2>1, <2>2, <2>3 DEF DrainInv
  <2>5. KeepsExchanges
    BY <2>2 DEF ForceClose, KeepsExchanges
  <2>. QED BY <2>4, <2>5
<1>. QED BY <1>2, <1>3

\* A later close, and a deadline that forces the one in progress.
LEMMA ForceDrains ==
  ASSUME TypeOK, DrainInv, ForceClose \/ UNCHANGED <<sock, exchanges>>,
         UNCHANGED <<closePc, closeForce, drain, snapshot, backend, told, known,
                     pending, owed>>
  PROVE  DrainInv' /\ KeepsExchanges
<1>1. exchanges' \subseteq exchanges /\ Routed' = Routed
  BY DEF ForceClose, Routed
<1>2. DrainInv'
  BY <1>1 DEF DrainInv
<1>3. KeepsExchanges
  BY DEF ForceClose, KeepsExchanges
<1>. QED BY <1>2, <1>3

\* Every call of close().
LEMMA DoCloseDrains ==
  ASSUME TypeOK, DrainInv, NEW force \in BOOLEAN, NEW timed \in BOOLEAN,
         DoClose(force, timed), UNCHANGED <<pending, owed>>
  PROVE  DrainInv' /\ KeepsExchanges
<1>1. CASE closePc = "none" /\ FirstClose(force, timed, force)
  BY <1>1, FirstCloseDrains
<1>2. CASE JoinClose(force)
  BY <1>2, ForceDrains DEF JoinClose
<1>. QED BY <1>1, <1>2 DEF DoClose

\* Every step of the server keeps DrainInv and the exchanges.
LEMMA DrainStep == TypeOK /\ DrainInv /\ [Next]_vars => DrainInv' /\ KeepsExchanges
<1> SUFFICES ASSUME TypeOK, DrainInv, [Next]_vars PROVE DrainInv' /\ KeepsExchanges
  OBVIOUS
<1>1. ASSUME NEW force \in BOOLEAN, NEW timed \in BOOLEAN, Close(force, timed)
      PROVE  DrainInv' /\ KeepsExchanges
  BY <1>1, DoCloseDrains DEF Close, taskVars
<1>2. CASE Destroy
  <2>1. UNCHANGED <<pending, owed>>
    BY <1>2 DEF Destroy, taskVars
  <2>2. CASE closePc = "none" /\ FirstClose(TRUE, FALSE, FALSE)
    BY <2>1, <2>2, FirstCloseDrains
  <2>3. CASE JoinClose(TRUE)
    BY <2>1, <2>3, ForceDrains DEF JoinClose
  <2>. QED BY <1>2, <2>2, <2>3 DEF Destroy
<1>3. CASE Abort \/ H3Fails \/ BindAborted
  BY <1>3, DoCloseDrains DEF Abort, H3Fails, BindAborted, taskVars
<1>4. CASE CloseResumes
  <2>1. /\ StartClosing(closeForce, deadline = "armed") /\ closeForce \in BOOLEAN
        /\ closePc = "await" /\ UNCHANGED <<closeForce, pending, owed>>
    BY <1>4 DEF CloseResumes, TypeOK, taskVars
  <2>. QED BY <2>1, StartClosingDrains
<1>5. CASE Deadline
  BY <1>5, ForceDrains DEF Deadline, taskVars
<1>6. CASE DrainPoll
  <2>1. exchanges \cap Conn = {} /\ known \cap exchanges = {}
    BY <1>6 DEF DrainPoll, DrainInv, TypeOK
  <2>. QED BY <1>6, <2>1 DEF DrainPoll, DrainFrom, DrainInv, KeepsExchanges, Routed, taskVars
<1>7. CASE DrainSettled
  BY <1>7 DEF DrainSettled, DrainInv, KeepsExchanges, Routed, taskVars
<1>8. CASE CloseDone
  BY <1>8 DEF CloseDone, Collected, DrainInv, KeepsExchanges, Routed, connVars, taskVars
<1>9. CASE \/ Listen \/ TcpListening \/ TcpFails \/ H3Listening \/ BindSeesClose
           \/ BindRejects \/ TcpClosed \/ H3Closed \/ UNCHANGED vars
  <2>1. UNCHANGED <<closeVars, connVars, taskVars>>
    BY <1>9 DEF Listen, TcpListening, TcpFails, H3Listening, BindSeesClose, BindRejects,
                TcpClosed, H3Closed, vars, serverVars
  <2>. QED BY <2>1 DEF DrainInv, KeepsExchanges, Routed, closeVars, connVars, taskVars
<1>10. CASE Traffic
  <2>1. UNCHANGED <<closePc, closeForce, drain, snapshot, pending, owed>>
    BY <1>10 DEF Traffic, Accept, Route, KeepAliveTimeout, SessionClosed, SocketClosed,
                 ClientCloses, Gone, RequestStart, ExchangeEnd, HandlerReturn,
                 ExchangeTimeout, StreamReset, serverVars, closeVars, taskVars
  <2>2. ASSUME NEW c \in Conn, Accept(c) \/ Route(c)
        PROVE  DrainInv' /\ KeepsExchanges
    BY <2>1, <2>2 DEF Accept, Route, TypeOK, DrainInv, KeepsExchanges, Routed
  <2>3. ASSUME NEW c \in Conn, KeepAliveTimeout(c) \/ SessionClosed(c)
        PROVE  DrainInv' /\ KeepsExchanges
    BY <2>1, <2>3 DEF KeepAliveTimeout, SessionClosed, TypeOK, DrainInv,
                      KeepsExchanges, Routed
  <2>4. ASSUME NEW c \in Conn, SocketClosed(c) \/ ClientCloses(c)
        PROVE  DrainInv' /\ KeepsExchanges
    BY <2>1, <2>4 DEF SocketClosed, ClientCloses, Gone, TypeOK, DrainInv,
                      KeepsExchanges, Routed
  <2>5. ASSUME NEW x \in Exchange, RequestStart(x) PROVE DrainInv' /\ KeepsExchanges
    BY <2>1, <2>5, ConnAssumption DEF RequestStart, Serving, TypeOK, DrainInv,
                      KeepsExchanges, Routed
  <2>6. ASSUME NEW x \in Exchange,
               ExchangeEnd(x) \/ HandlerReturn(x) \/ ExchangeTimeout(x)
        PROVE  DrainInv' /\ KeepsExchanges
    BY <2>1, <2>6 DEF ExchangeEnd, HandlerReturn, ExchangeTimeout, TypeOK, DrainInv,
                      KeepsExchanges, Routed
  <2>7. CASE StreamReset
    BY <2>1, <2>7, ConnAssumption DEF StreamReset, DrainInv, KeepsExchanges, Routed
  <2>. QED BY <1>10, <2>2, <2>3, <2>4, <2>5, <2>6, <2>7 DEF Traffic
<1>11. CASE Work
  <2>1. UNCHANGED <<closePc, closeForce, drain, snapshot, sock, backend, told, known, exchanges>>
    BY <1>11 DEF Work, WaitUntil, WaitUntilNested, Settle, serverVars, closeVars, connVars
  <2>2. KeepsExchanges
    BY <2>1 DEF KeepsExchanges
  <2>3. ASSUME NEW t \in Task, NEW x \in Exchange, WaitUntil(t, x) PROVE DrainInv'
    BY <2>1, <2>3 DEF WaitUntil, Track, KnownToShutdown, TypeOK, DrainInv, Routed
  <2>4. ASSUME NEW t \in Task, WaitUntilNested(t) \/ Settle(t) PROVE DrainInv'
    BY <2>1, <2>4 DEF WaitUntilNested, Settle, Track, TypeOK, DrainInv, Routed
  <2>. QED BY <1>11, <2>2, <2>3, <2>4 DEF Work
<1>. QED
  BY <1>1, <1>2, <1>3, <1>4, <1>5, <1>6, <1>7, <1>8, <1>9, <1>10, <1>11
  DEF Next, User, Binding, Closing

\* DrainInv holds in every state of every behaviour.
LEMMA DrainInvariant == Spec => []DrainInv
<1>1. Init => DrainInv
  BY DEF Init, DrainInv, Routed
<1>. QED BY <1>1, TypeCorrect, DrainStep, PTL DEF Spec

\* A graceful close ends only when what the connections it knew had passed to
\* ctx.waitUntil() has settled, even if the close was forced later on.
THEOREM OwedAwaited == Spec => []OwedWorkAwaited
<1>1. DrainInv => OwedWorkAwaited BY DEF DrainInv, OwedWorkAwaited
<1>. QED BY <1>1, DrainInvariant, PTL

\* A graceful shutdown that nothing has forced cuts no exchange of a connection
\* it asked to finish.
THEOREM GracefulShutdown == Spec => GracefulKeepsExchanges
<1>1. TypeOK /\ DrainInv /\ [Next]_vars
        => [\A c \in known \cap exchanges :
              sock[c] = "open" /\ sock'[c] = "destroyed" => forced']_vars
  BY DrainStep DEF KeepsExchanges
<1>. QED BY <1>1, TypeCorrect, DrainInvariant, PTL DEF Spec, GracefulKeepsExchanges

=============================================================================
