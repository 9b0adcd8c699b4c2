------------------------------- MODULE Server -------------------------------
(***************************************************************************)
(* The life of one Server object (lib/server.js): listen(), the bind that  *)
(* brings up the TCP server and the HTTP/3 endpoint, the connections it    *)
(* tracks, the promises handed to ctx.waitUntil(), and the two ways to     *)
(* stop it, close() and destroy().                                         *)
(*                                                                         *)
(* JavaScript runs one callback at a time, so an action is everything the  *)
(* code does between two awaits.  A listen, a socket close event, a timer  *)
(* or a settled promise is a step of its own, and any other callback may   *)
(* run before it.  What a connection does with the bytes of an exchange is *)
(* abstracted here; module H1Connection models it.                         *)
(***************************************************************************)
EXTENDS Naturals, FiniteSets

CONSTANTS
  Conn,       \* connections clients may open, each used once
  Task,       \* promises the application may pass to ctx.waitUntil()
  Backends,   \* the backends a TCP socket may be routed to: "h1", "h2"
  H3          \* whether listen() may bring up an HTTP/3 endpoint beside TCP

ASSUME BackendsAssumption == Backends \subseteq {"h1", "h2"}
ASSUME H3Assumption == H3 \in BOOLEAN
ASSUME ConnAssumption == "h3" \notin Conn

VARIABLES
  state,          \* #state
  listening,      \* the #listening promise: "none", "pending", "resolved", "rejected"
  binding,        \* #binding
  bindPc,         \* where #bind is suspended
  signal,         \* #signal: "none", or an AbortSignal that is "quiet" or "aborted"
  tcp,            \* the net or tls server
  h3,             \* the HTTP/3 endpoint
  closePc,        \* where #close is suspended; "none" while #closePromise is null
  closeForce,     \* the force argument #close runs with
  deadline,       \* the shutdownTimeout timer of #close
  drain,          \* where #drainBackends is suspended
  snapshot,       \* the promises #drainBackends awaits
  destroyed,      \* #destroyed
  closedResolved, \* the promise server.closed is resolved
  sock,           \* each connection's socket
  backend,        \* who owns the socket: "none" is mid-sniff or mid-handshake
  told,           \* connections asked to finish: initiateClose(), session.close()
  known,          \* auxiliary: those that #close asked
  exchanges,      \* exchanges in flight, by connection; "h3" is an HTTP/3 stream
  handlers,       \* exchanges whose handler has not returned; may outlive them
  registered,     \* promises passed to waitUntil() so far
  pending,        \* #pending: those that have not settled
  owed,           \* auxiliary: registered on a connection the shutdown knew of
  forced          \* auxiliary: #forceClose has run

bindVars  == <<listening, binding, bindPc, signal>>
closeVars == <<closePc, closeForce, deadline, drain, snapshot, destroyed>>
connVars  == <<sock, backend, told, known, exchanges, handlers>>
taskVars  == <<registered, pending, owed>>
vars == <<state, bindVars, tcp, h3, closeVars, closedResolved, connVars,
          taskVars, forced>>

Exchange == Conn \cup {"h3"}

\* #connections and #sessions: what #drainBackends polls.
Routed == {c \in Conn : backend[c] \in {"h1", "h2"}}

\* Socket events and timers run only when no continuation of a settled promise
\* is due: #close after it awaited the listen promise, #bind at its end.
Macrotask == closePc # "await" /\ bindPc \notin {"ending", "throwing"}

Init ==
  /\ state = "created"
  /\ listening = "none" /\ binding = FALSE /\ bindPc = "none" /\ signal = "none"
  /\ tcp = "none" /\ h3 = "none"
  /\ closePc = "none" /\ closeForce = FALSE /\ deadline = "off"
  /\ drain = "off" /\ snapshot = {} /\ destroyed = FALSE
  /\ closedResolved = FALSE
  /\ sock = [c \in Conn |-> "free"] /\ backend = [c \in Conn |-> "none"]
  /\ told = {} /\ known = {} /\ exchanges = {} /\ handlers = {}
  /\ registered = {} /\ pending = {} /\ owed = {}
  /\ forced = FALSE

-----------------------------------------------------------------------------
(* Stopping: #forceClose, #drainBackends, #close, close(), destroy().      *)

\* Destroying a socket only schedules its close event (SocketClosed).
Destroyed(s) == [c \in Conn |-> IF s[c] = "open" THEN "destroyed" ELSE s[c]]

\* Mutant: the endpoint is left in a state that close() does not know.
ForceClose_BadState ==
  /\ forced' = TRUE
  /\ sock' = Destroyed(sock)
  /\ h3' = IF h3 \in {"open", "closing"} THEN "destroyed" ELSE h3
  /\ exchanges' = exchanges \ {"h3"}

\* Every socket, session and the HTTP/3 endpoint are destroyed.
ForceClose ==
  /\ forced' = TRUE
  /\ sock' = Destroyed(sock)
  /\ h3' = IF h3 \in {"open", "closing"} THEN "closed" ELSE h3
  /\ exchanges' = exchanges \ {"h3"}

\* Mutant: the drain waits for connections but not for waitUntil() promises.
DrainFrom_IgnoresTasks(live) ==
  \/ live # {} /\ drain' = "polling" /\ UNCHANGED <<snapshot, sock>>
  \/ /\ live = {}
     /\ drain' = "done" /\ sock' = Destroyed(sock) /\ UNCHANGED snapshot

\* Mutant: the drain does not wait for connections.
DrainFrom_IgnoresLive(live) ==
  \/ pending # {} /\ drain' = "settling" /\ snapshot' = pending /\ UNCHANGED sock
  \/ pending = {} /\ drain' = "done" /\ sock' = Destroyed(sock) /\ UNCHANGED snapshot

\* #drainBackends up to its next await, when `live' connections and sessions
\* are left: poll again, or await the promises pending now, or finish by
\* dropping the sockets no backend owns.
DrainFrom(live) ==
  \/ live # {} /\ drain' = "polling" /\ UNCHANGED <<snapshot, sock>>
  \/ /\ live = {} /\ pending # {}
     /\ drain' = "settling" /\ snapshot' = pending /\ UNCHANGED sock
  \/ /\ live = {} /\ pending = {}
     /\ drain' = "done" /\ sock' = Destroyed(sock) /\ UNCHANGED snapshot

\* The part of #close that runs at once: stop accepting, close the HTTP/3
\* endpoint, then destroy everything or ask every connection to finish.  An
\* idle h1 connection leaves immediately (H1Connection.initiateClose).
StartClosing(force, timed) ==
  /\ closePc' = "waiting"
  /\ tcp' = IF tcp = "none" THEN "none" ELSE "closing"
  /\ deadline' = IF ~force /\ timed THEN "armed" ELSE "off"
  /\ IF force
     THEN ForceClose /\ UNCHANGED <<drain, snapshot, backend, told, known>>
     ELSE LET idle == {c \in Routed : backend[c] = "h1" /\ c \notin exchanges}
          IN /\ backend' = [c \in Conn |-> IF c \in idle THEN "done" ELSE backend[c]]
             /\ told' = told \cup Routed /\ known' = Routed
             /\ h3' = IF h3 = "open" THEN "closing" ELSE h3
             /\ DrainFrom(Routed \ idle)
             /\ UNCHANGED <<forced, exchanges>>

\* Mutant: #close waits for the listen promise of a bind that waits for it.
FirstClose_DuringBind(force, timed, destroyNow) ==
  /\ closeForce' = force
  /\ \/ /\ listening # "none"
        /\ closePc' = "await"
        /\ deadline' = IF ~force /\ timed THEN "armed" ELSE "off"
        /\ IF destroyNow THEN ForceClose ELSE UNCHANGED <<forced, sock, h3, exchanges>>
        /\ UNCHANGED <<tcp, drain, snapshot, backend, told, known>>
     \/ listening = "none" /\ StartClosing(force, timed)

\* #close when it is the first closer: it waits for the listen promise only
\* when no bind is in progress, so what it waits for has already settled.
\* close({force: true}) has destroyed everything before; destroy() has not.
FirstClose(force, timed, destroyNow) ==
  /\ closeForce' = force
  /\ \/ /\ listening # "none" /\ ~binding
        /\ closePc' = "await"
        /\ deadline' = IF ~force /\ timed THEN "armed" ELSE "off"
        /\ IF destroyNow THEN ForceClose ELSE UNCHANGED <<forced, sock, h3, exchanges>>
        /\ UNCHANGED <<tcp, drain, snapshot, backend, told, known>>
     \/ /\ listening = "none" \/ binding
        /\ StartClosing(force, timed)

\* A close() or destroy() that finds #closePromise set.
JoinClose(force) ==
  /\ IF force THEN ForceClose ELSE UNCHANGED <<forced, sock, h3, exchanges>>
  /\ UNCHANGED <<closePc, closeForce, deadline, tcp, drain, snapshot, backend,
                 told, known>>

\* close({force, timeout}), timed being timeout > 0.  Only the first caller's
\* arguments reach #close; a later force still destroys the connections.
DoClose(force, timed) ==
  /\ state' = IF state = "closed" THEN "closed" ELSE "closing"
  /\ \/ closePc = "none" /\ FirstClose(force, timed, force)
     \/ closePc # "none" /\ JoinClose(force)

Close(force, timed) ==
  /\ bindPc # "ending"
  /\ DoClose(force, timed)
  /\ UNCHANGED <<bindVars, destroyed, closedResolved, handlers, taskVars>>

\* destroy(): the first call forces a close, or forces the one in progress.
Destroy ==
  /\ bindPc # "ending" /\ ~destroyed
  /\ destroyed' = TRUE
  /\ state' = "closing"
  /\ \/ closePc = "none" /\ FirstClose(TRUE, FALSE, FALSE)
     \/ closePc # "none" /\ JoinClose(TRUE)
  /\ UNCHANGED <<bindVars, closedResolved, handlers, taskVars>>

\* The signal passed to listen() fires; its listener, if any, calls close().
Abort ==
  /\ bindPc # "ending" /\ signal = "quiet"
  /\ signal' = "aborted"
  /\ DoClose(FALSE, TRUE)
  /\ UNCHANGED <<listening, binding, bindPc, destroyed, closedResolved,
                 handlers, taskVars>>

\* #close after `await this.#listening'.
CloseResumes ==
  /\ closePc = "await" /\ listening # "pending"
  /\ StartClosing(closeForce, deadline = "armed")
  /\ UNCHANGED <<state, bindVars, closeForce, destroyed, closedResolved,
                 handlers, taskVars>>

\* One turn of the 10 ms poll of #drainBackends that finds nothing left.
DrainPoll ==
  /\ drain = "polling" /\ Routed = {} /\ Macrotask
  /\ DrainFrom(Routed)
  /\ UNCHANGED <<state, bindVars, tcp, h3, closePc, closeForce, deadline,
                 destroyed, closedResolved, backend, told, known, exchanges, handlers,
                 taskVars, forced>>

\* The promises of the snapshot have settled: drop the sockets that are left.
DrainSettled ==
  /\ drain = "settling" /\ snapshot \cap pending = {}
  /\ drain' = "done"
  /\ sock' = Destroyed(sock)
  /\ UNCHANGED <<state, bindVars, tcp, h3, closePc, closeForce, deadline,
                 snapshot, destroyed, closedResolved, backend, told, known, exchanges,
                 handlers, taskVars, forced>>

\* Mutant: the deadline ends the race but destroys nothing.
Deadline_DestroysNothing ==
  /\ closePc = "waiting" /\ deadline = "armed" /\ Macrotask
  /\ deadline' = "fired"
  /\ UNCHANGED <<state, bindVars, tcp, h3, closePc, closeForce, drain, snapshot,
                 destroyed, closedResolved, connVars, taskVars, forced>>

\* shutdownTimeout has passed: the graceful close escalates.
Deadline ==
  /\ closePc = "waiting" /\ deadline = "armed" /\ Macrotask
  /\ deadline' = "fired"
  /\ ForceClose
  /\ UNCHANGED <<state, bindVars, tcp, closePc, closeForce, drain, snapshot,
                 destroyed, closedResolved, backend, told, known, handlers, taskVars>>

\* Mutant: #close does not wait for tcp.close().
Collected_NotTcp == h3 # "closing" /\ drain = IF closeForce THEN "off" ELSE "done"

\* Mutant: a forced close waits for the drain as well.
Collected_AlwaysDrained == tcp \in {"none", "closed"} /\ h3 # "closing" /\ drain = "done"

\* Every promise #close collected has resolved.
Collected ==
  /\ tcp \in {"none", "closed"}
  /\ h3 # "closing"
  /\ drain = IF closeForce THEN "off" ELSE "done"

CloseDone ==
  /\ closePc = "waiting" /\ Collected
  /\ closePc' = "done"
  /\ deadline' = IF deadline = "armed" THEN "off" ELSE deadline
  /\ signal' = "none"
  /\ state' = "closed"
  /\ closedResolved' = TRUE
  /\ UNCHANGED <<listening, binding, bindPc, tcp, h3, closeForce, drain,
                 snapshot, destroyed, connVars, taskVars, forced>>

-----------------------------------------------------------------------------
(* Starting: listen(), #doListen, #bind.                                   *)

\* listen() on a new server runs #bind up to the TCP listen.  The signal may
\* already be aborted, and the options or the TLS key may be refused.
Listen ==
  /\ state = "created" /\ listening = "none"
  /\ state' = "binding" /\ listening' = "pending" /\ binding' = TRUE
  /\ signal' \in {"none", "quiet", "aborted"}
  /\ \/ bindPc' = "throwing" /\ UNCHANGED tcp
     \/ bindPc' = "tcp" /\ tcp' = "pending"
  /\ UNCHANGED <<h3, closeVars, closedResolved, connVars, taskVars, forced>>

\* #bind returns, and with it #doListen.  A close in progress keeps its state.
BindResolves ==
  /\ bindPc' = "done" /\ binding' = FALSE /\ listening' = "resolved"
  /\ state' = IF state = "binding" THEN "listening" ELSE state

\* The end of #bind, where an abort that came too early for the listener is
\* honoured (BindAborted).
BindEnds ==
  \/ signal # "aborted" /\ BindResolves
  \/ signal = "aborted" /\ bindPc' = "ending" /\ UNCHANGED <<state, binding, listening>>

\* The TCP server is bound; next comes HTTP/3, or the end of the bind.  A TCP
\* server that was closed before it was bound never reports, and #bind stays
\* suspended.
TcpListening ==
  /\ bindPc = "tcp" /\ tcp = "pending"
  /\ tcp' = "open"
  /\ \/ H3 /\ bindPc' = "h3" /\ UNCHANGED <<state, binding, listening>>
     \/ BindEnds
  /\ UNCHANGED <<signal, h3, closeVars, closedResolved, connVars, taskVars, forced>>

\* The TCP server reports an error.
TcpFails ==
  /\ bindPc = "tcp" /\ tcp = "pending"
  /\ tcp' = "failed" /\ bindPc' = "throwing"
  /\ UNCHANGED <<state, listening, binding, signal, h3, closeVars,
                 closedResolved, connVars, taskVars, forced>>

\* createH3Endpoint() succeeds, whatever has become of the server meanwhile.
H3Listening ==
  /\ bindPc = "h3" /\ Macrotask
  /\ h3' = "open"
  /\ BindEnds
  /\ UNCHANGED <<signal, tcp, closeVars, closedResolved, connVars, taskVars, forced>>

\* createH3Endpoint() fails: the server is closed by force before #bind throws.
H3Fails ==
  /\ bindPc = "h3" /\ Macrotask
  /\ bindPc' = "rollback"
  /\ DoClose(TRUE, FALSE)
  /\ UNCHANGED <<listening, binding, signal, destroyed, closedResolved,
                 handlers, taskVars>>

BindAborted ==
  /\ bindPc = "ending"
  /\ bindPc' = "aborted"
  /\ DoClose(FALSE, TRUE)
  /\ UNCHANGED <<listening, binding, signal, destroyed, closedResolved,
                 handlers, taskVars>>

\* The close that #bind awaits has completed.
BindSeesClose ==
  /\ closePc = "done"
  /\ \/ bindPc = "aborted" /\ BindResolves
     \/ /\ bindPc = "rollback" /\ bindPc' = "throwing"
        /\ UNCHANGED <<state, binding, listening>>
  /\ UNCHANGED <<signal, tcp, h3, closeVars, closedResolved, connVars,
                 taskVars, forced>>

\* Mutant: a failed startup leaves server.closed unresolved.
BindRejects_NotResolved ==
  /\ bindPc = "throwing"
  /\ bindPc' = "done" /\ binding' = FALSE /\ listening' = "rejected"
  /\ \/ state = "binding" /\ state' = "closed" /\ signal' = "none"
     \/ state # "binding" /\ UNCHANGED <<state, signal>>
  /\ UNCHANGED <<tcp, h3, closeVars, closedResolved, connVars, taskVars, forced>>

\* The catch block of #doListen.  Unless a close has taken over, the server is
\* closed here and now.
BindRejects ==
  /\ bindPc = "throwing"
  /\ bindPc' = "done" /\ binding' = FALSE /\ listening' = "rejected"
  /\ \/ /\ state = "binding"
        /\ state' = "closed" /\ signal' = "none" /\ closedResolved' = TRUE
     \/ state # "binding" /\ UNCHANGED <<state, signal, closedResolved>>
  /\ UNCHANGED <<tcp, h3, closeVars, connVars, taskVars, forced>>

-----------------------------------------------------------------------------
(* Connections, exchanges and the promises of the application.             *)

serverVars == <<state, bindVars, tcp, closeVars, closedResolved, forced>>

\* A client connects: the socket is tracked (#track) before it is routed.
Accept(c) ==
  /\ tcp = "open" /\ sock[c] = "free" /\ Macrotask
  /\ sock' = [sock EXCEPT ![c] = "open"]
  /\ UNCHANGED <<serverVars, h3, backend, told, known, exchanges, handlers, taskVars>>

\* The preface sniff or the ALPN protocol decides; a protocol that is not
\* served has its socket destroyed.  Nothing looks at #state here.
Route(c) ==
  /\ sock[c] = "open" /\ backend[c] = "none" /\ Macrotask
  /\ \/ \E b \in Backends : backend' = [backend EXCEPT ![c] = b] /\ UNCHANGED sock
     \/ sock' = [sock EXCEPT ![c] = "destroyed"] /\ UNCHANGED backend
  /\ UNCHANGED <<serverVars, h3, told, known, exchanges, handlers, taskVars>>

Owner(x) == IF x \in Conn THEN backend[x] ELSE "h3"

\* A connection that may still take a request, or the HTTP/3 endpoint.
Serving(x) ==
  \/ x \in Routed \ told /\ sock[x] = "open"
  \/ x = "h3" /\ h3 = "open"

\* A request arrives and is dispatched to the handler.
RequestStart(x) ==
  /\ Serving(x) /\ x \notin exchanges \cup handlers /\ Macrotask
  /\ exchanges' = exchanges \cup {x} /\ handlers' = handlers \cup {x}
  /\ UNCHANGED <<serverVars, h3, sock, backend, told, known, taskVars>>

\* The handler has returned and the response is written.  An h1 connection
\* that was told to finish, or that its client does not keep alive, ends.
ExchangeEnd(x) ==
  /\ x \in exchanges \cap handlers
  /\ exchanges' = exchanges \ {x} /\ handlers' = handlers \ {x}
  /\ \/ (x \in told => Owner(x) = "h2") /\ UNCHANGED backend
     \/ Owner(x) = "h1" /\ backend' = [backend EXCEPT ![x] = "done"]
  /\ UNCHANGED <<serverVars, h3, sock, told, known, taskVars>>

\* The handler of an exchange that is gone returns.
HandlerReturn(x) ==
  /\ x \in handlers \ exchanges
  /\ handlers' = handlers \ {x}
  /\ UNCHANGED <<serverVars, h3, sock, backend, told, known, exchanges, taskVars>>

\* requestTimeout: an h1 connection is given up with its exchange, a stream
\* alone.  The handler goes on running.
ExchangeTimeout(x) ==
  /\ x \in exchanges /\ Macrotask
  /\ exchanges' = exchanges \ {x}
  /\ \/ Owner(x) = "h1" /\ backend' = [backend EXCEPT ![x] = "done"]
     \/ Owner(x) # "h1" /\ UNCHANGED backend
  /\ UNCHANGED <<serverVars, h3, sock, told, known, handlers, taskVars>>

\* keepAliveTimeout: an idle h1 connection ends.  A session on which no frame
\* has passed is asked to finish, whatever its handlers do.
KeepAliveTimeout(c) ==
  /\ c \in Routed /\ sock[c] = "open" /\ Macrotask
  /\ \/ /\ backend[c] = "h1" /\ c \notin exchanges
        /\ backend' = [backend EXCEPT ![c] = "done"] /\ UNCHANGED told
     \/ backend[c] = "h2" /\ told' = told \cup {c} /\ UNCHANGED backend
  /\ UNCHANGED <<serverVars, h3, sock, known, exchanges, handlers, taskVars>>

\* A session that was closed and has no stream left closes its socket.
SessionClosed(c) ==
  /\ backend[c] = "h2" /\ c \in told \ exchanges /\ sock[c] = "open" /\ Macrotask
  /\ backend' = [backend EXCEPT ![c] = "done"]
  /\ sock' = [sock EXCEPT ![c] = "destroyed"]
  /\ UNCHANGED <<serverVars, h3, told, known, exchanges, handlers, taskVars>>

\* The close event of a socket: both sets forget it, its exchange is aborted.
Gone(c) ==
  /\ sock' = [sock EXCEPT ![c] = "gone"]
  /\ backend' = [backend EXCEPT ![c] = "done"]
  /\ exchanges' = exchanges \ {c}
  /\ UNCHANGED <<serverVars, h3, told, known, handlers, taskVars>>

SocketClosed(c) == sock[c] = "destroyed" /\ Macrotask /\ Gone(c)

\* The client closes or resets its connection; or its HTTP/3 stream.
ClientCloses(c) == sock[c] = "open" /\ Macrotask /\ Gone(c)

StreamReset ==
  /\ "h3" \in exchanges /\ Macrotask
  /\ exchanges' = exchanges \ {"h3"}
  /\ UNCHANGED <<serverVars, h3, sock, backend, told, known, handlers, taskVars>>

\* The closed TCP server reports once its last connection is gone.
TcpClosed ==
  /\ tcp = "closing" /\ \A c \in Conn : sock[c] \in {"free", "gone"}
  /\ tcp' = "closed"
  /\ UNCHANGED <<state, bindVars, h3, closeVars, closedResolved, connVars,
                 taskVars, forced>>

H3Closed ==
  /\ h3 = "closing" /\ "h3" \notin exchanges
  /\ h3' = "closed"
  /\ UNCHANGED <<serverVars, connVars, taskVars>>

\* ctx.waitUntil(): #trackWaitUntil adds the promise to #pending.  It is owed
\* when its exchange is in flight on a connection the shutdown waits for.
Track(t) ==
  /\ t \notin registered
  /\ registered' = registered \cup {t} /\ pending' = pending \cup {t}

KnownToShutdown(x) ==
  x \in Conn \cap exchanges /\ (x \in known \/ closePc \in {"none", "await"})

WaitUntil(t, x) ==
  /\ x \in handlers /\ Track(t)
  /\ owed' = IF KnownToShutdown(x) THEN owed \cup {t} ELSE owed
  /\ UNCHANGED <<serverVars, h3, connVars>>

\* Code that a tracked promise stands for registers another one.
WaitUntilNested(t) ==
  /\ pending # {} /\ Track(t)
  /\ UNCHANGED <<owed, serverVars, h3, connVars>>

Settle(t) ==
  /\ t \in pending
  /\ pending' = pending \ {t}
  /\ UNCHANGED <<registered, owed, serverVars, h3, connVars>>

-----------------------------------------------------------------------------

User == (\E force, timed \in BOOLEAN : Close(force, timed)) \/ Destroy \/ Abort \/ Listen

Binding == TcpListening \/ TcpFails \/ H3Listening \/ H3Fails \/ BindAborted
             \/ BindSeesClose \/ BindRejects

Closing == CloseResumes \/ DrainPoll \/ DrainSettled \/ Deadline \/ CloseDone
             \/ TcpClosed \/ H3Closed

Traffic == \/ \E c \in Conn : \/ Accept(c) \/ Route(c) \/ KeepAliveTimeout(c)
                              \/ SessionClosed(c) \/ SocketClosed(c) \/ ClientCloses(c)
           \/ \E x \in Exchange : \/ RequestStart(x) \/ ExchangeEnd(x)
                                  \/ HandlerReturn(x) \/ ExchangeTimeout(x)
           \/ StreamReset

Work == \E t \in Task : \/ \E x \in Exchange : WaitUntil(t, x)
                        \/ WaitUntilNested(t) \/ Settle(t)

Next == User \/ Binding \/ Closing \/ Traffic \/ Work

Spec == Init /\ [][Next]_vars

-----------------------------------------------------------------------------
(* Fairness.  The event loop runs every callback that stays ready: socket   *)
(* and server events, timers, continuations of settled promises.  Nothing   *)
(* is assumed of clients or of the application's calls.                     *)

ServerFairness ==
  /\ WF_vars(TcpListening \/ TcpFails)
  /\ WF_vars(H3Listening \/ H3Fails)
  /\ WF_vars(BindAborted) /\ WF_vars(BindSeesClose) /\ WF_vars(BindRejects)
  /\ WF_vars(CloseResumes) /\ WF_vars(DrainPoll) /\ WF_vars(DrainSettled)
  /\ WF_vars(Deadline) /\ WF_vars(CloseDone)
  /\ WF_vars(TcpClosed) /\ WF_vars(H3Closed)
  /\ \A c \in Conn : WF_vars(SocketClosed(c)) /\ WF_vars(SessionClosed(c))

FairSpec == Spec /\ ServerFairness

-----------------------------------------------------------------------------
(* Properties.                                                             *)

\* The fields of the server hold values the code gives them.
TypeOK ==
  /\ state \in {"created", "binding", "listening", "closing", "closed"}
  /\ listening \in {"none", "pending", "resolved", "rejected"}
  /\ binding \in BOOLEAN
  /\ bindPc \in {"none", "tcp", "h3", "ending", "aborted", "rollback",
                 "throwing", "done"}
  /\ signal \in {"none", "quiet", "aborted"}
  /\ tcp \in {"none", "pending", "open", "failed", "closing", "closed"}
  /\ h3 \in {"none", "open", "closing", "closed"}
  /\ closePc \in {"none", "await", "waiting", "done"}
  /\ closeForce \in BOOLEAN /\ deadline \in {"off", "armed", "fired"}
  /\ drain \in {"off", "polling", "settling", "done"} /\ snapshot \subseteq Task
  /\ destroyed \in BOOLEAN /\ closedResolved \in BOOLEAN /\ forced \in BOOLEAN
  /\ sock \in [Conn -> {"free", "open", "destroyed", "gone"}]
  /\ backend \in [Conn -> {"none", "h1", "h2", "done"}]
  /\ told \subseteq Conn /\ known \subseteq Conn
  /\ exchanges \subseteq Exchange /\ handlers \subseteq Exchange
  /\ registered \subseteq Task /\ pending \subseteq registered /\ owed \subseteq registered

\* server.closed resolves only when no TCP socket is left: none is tracked,
\* none sits in a backend, and the TCP server takes no more (#close awaits
\* tcp.close(); a failed startup never had any).
ClosedIsQuiet ==
  closedResolved => /\ tcp \notin {"pending", "open"}
                    /\ Routed = {}
                    /\ \A c \in Conn : sock[c] \in {"free", "gone"}

\* A server that is closing or closed has resolved server.closed, or a #close
\* is under way that will: no early return of close(), destroy() or of the
\* catch block of #doListen leaves the promise to nobody.
ClosedIsOwed ==
  state \in {"closing", "closed"} => closedResolved \/ closePc \in {"await", "waiting"}

\* A close that began gracefully ends only when every waitUntil() promise
\* registered by an exchange of a connection the shutdown knew has settled,
\* even if it was forced later on.
OwedWorkAwaited ==
  closePc = "done" /\ ~closeForce => owed \cap pending = {}

\* A graceful shutdown that nothing has forced destroys no socket under an
\* exchange of a connection that #close asked to finish.
GracefulKeepsExchanges ==
  [][\A c \in known \cap exchanges :
       sock[c] = "open" /\ sock'[c] = "destroyed" => forced']_vars

\* What the proofs of ClosedIsQuiet and ClosedIsOwed rest on: how far the bind
\* and the close can have got in each state, and what a TCP server that never
\* served, or has closed, says of the sockets.
LifecycleInv ==
  /\ state = "created" => tcp = "none" /\ bindPc = "none" /\ ~closedResolved
  /\ closePc # "none" => state \in {"closing", "closed"}
  /\ closePc = "done" => closedResolved
  /\ bindPc = "throwing" /\ state = "binding" => tcp \in {"none", "failed"}
  /\ tcp \in {"none", "pending", "failed"} => \A c \in Conn : sock[c] = "free"
  /\ tcp = "closed" => \A c \in Conn : sock[c] \in {"free", "gone"}
  /\ \A c \in Conn : /\ sock[c] = "free" => backend[c] = "none"
                     /\ sock[c] = "gone" => backend[c] = "done"

\* What the proofs of OwedWorkAwaited and GracefulKeepsExchanges rest on: past
\* the polling no connection that #close asked has an exchange, so what is owed
\* was pending when the snapshot was taken.
DrainInv ==
  /\ exchanges \cap Conn \subseteq Routed /\ known \subseteq told
  /\ drain # "off" => closePc \in {"waiting", "done"}
  /\ drain \in {"settling", "done"} => known \cap exchanges = {}
  /\ drain = "settling" => owed \cap pending \subseteq snapshot
  /\ drain = "done" => owed \cap pending = {}
  /\ closePc = "done" /\ ~closeForce => drain = "done"

\* Where listen() may hang.  A TCP server that was closed before it was bound
\* never reports.  The close that #bind awaits may wait for waitUntil()
\* promises; and when an abort found a graceful close() without a timeout
\* under way, that close also waits for handlers and clients.
BindHeldUp ==
  \/ bindPc = "tcp" /\ tcp \in {"closing", "closed"}
  \/ bindPc \in {"aborted", "rollback"} /\ snapshot \cap pending # {}
  \/ /\ bindPc = "aborted" /\ ~forced /\ deadline = "off"
     /\ Routed # {} \/ "h3" \in exchanges

\* A listen() promise settles, whatever runs beside the bind, unless one of
\* these holds it up for ever: refused options, TCP and HTTP/3 errors, the
\* rollback of a started TCP server and an abort all end it, although #bind
\* then awaits a close() that would itself await the listen promise.
ListenSettles ==
  listening = "pending" ~> (listening # "pending" \/ []BindHeldUp)

\* A close that is forced from the start completes whatever the handlers and
\* the waitUntil() promises do.
ForcedCloseCompletes == (closePc = "waiting" /\ closeForce) ~> closedResolved

\* A graceful close with a shutdownTimeout completes even if handlers never
\* return and clients never leave: only a waitUntil() promise can hold it up.
TimedCloseCompletes ==
  (closePc = "waiting" /\ deadline = "armed")
     ~> (closedResolved \/ (drain = "settling" /\ snapshot \cap pending # {}))

\* What the documentation says and the code does not do.

\* README: "`closed` | A promise that resolves once the server is fully
\* closed."  An HTTP/3 endpoint that finishes starting after close() stays up.
ClosedReleasesH3 == closedResolved => h3 # "open"

\* README on destroy(): "`waitUntil` promises are ignored. Returns right away;
\* `server.closed` resolves once teardown is done."
DestroyCompletes == destroyed ~> closedResolved

\* README on ctx.waitUntil: "A graceful `close()` waits for these promises."
WaitUntilAwaited ==
  [][CloseDone /\ ~forced => pending = {}]_vars

=============================================================================
