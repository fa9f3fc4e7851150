-------------------------- MODULE ConnectionServer --------------------------
(***************************************************************************)
(* `serve` of server.rs on a listener of its own, and the connection tasks *)
(* it spawns: the live-connection budget, the idle watchdog, the graceful  *)
(* shutdown of every connection, and the WebSocket pump that outlives the  *)
(* HTTP connection it was upgraded from (the timers of                     *)
(* websocket_native.rs).                                                   *)
(*                                                                         *)
(* Time advances in ticks.  A timer that is due is served before the next  *)
(* tick; everything else may happen at any moment in between.              *)
(***************************************************************************)
EXTENDS Integers, FiniteSets

CONSTANTS Conns,           \* client connections that may arrive
          MaxConnections,  \* max_connections
          MaxActive,       \* bound on the requests of one connection
          IdleTimeout,     \* connection_idle_timeout
          CloseGrace,      \* IDLE_CONNECTION_CLOSE_GRACE
          ShutdownGrace,   \* shutdown_grace_timeout
          RequestTimeout   \* request_timeout: lifetime of a WebSocket

ASSUME ServerAssumption ==
  /\ MaxConnections \in Nat \ {0}
  /\ MaxActive \in Nat \ {0}
  /\ {IdleTimeout, CloseGrace, ShutdownGrace, RequestTimeout} \subseteq Nat \ {0}

VARIABLES
  server,     \* where `serve` stands
  cancelled,  \* the App cancellation token
  shutdown,   \* the watch channel `serve` tells its connection tasks with
  permits,    \* free permits of connection_concurrency
  conn,       \* where each connection task stands
  active,     \* active_requests of its ConnectionActivity
  idleFor,    \* ticks since idle_since, up to IdleTimeout
  wake,       \* ticks until the idle watchdog wakes
  timer,      \* ticks left of the timeout the task is under
  bodies,     \* streaming responses the connection is still sending
  socket,     \* SocketTask holds the pump of an accepted WebSocket
  quiet,      \* ticks since a request was last active (history)
  stopping    \* ticks of shutdown under a cancelled App, capped (history)

taskVars == <<active, idleFor, wake, timer, bodies, socket>>
serverVars == <<server, cancelled, shutdown>>
history == <<quiet, stopping>>
vars == <<serverVars, permits, conn, taskVars, history>>

\* The task polls its Hyper connection: in the select, or within a grace.
Connected(c) == conn[c] \in {"serving", "idleGrace", "shutdownGrace"}
\* The task awaits the WebSocket pump.
Pumping(c) == conn[c] \in {"upgrading", "exchanging", "closing"}
Live == {c \in Conns : Connected(c) \/ Pumping(c)}

ConnStates == {"new", "serving", "idleGrace", "shutdownGrace", "upgrading",
               "exchanging", "closing", "closed"}

\* The longest a connection may go on after the App was cancelled.
StopBound ==
  (IF CloseGrace > ShutdownGrace THEN CloseGrace ELSE ShutdownGrace) + ShutdownGrace

Init ==
  /\ server = "waiting"
  /\ cancelled = FALSE
  /\ shutdown = FALSE
  /\ permits = MaxConnections
  /\ conn = [c \in Conns |-> "new"]
  /\ active = [c \in Conns |-> 0]
  /\ idleFor = [c \in Conns |-> 0]
  /\ wake = [c \in Conns |-> 0]
  /\ timer = [c \in Conns |-> 0]
  /\ bodies = [c \in Conns |-> 0]
  /\ socket = [c \in Conns |-> FALSE]
  /\ quiet = [c \in Conns |-> 0]
  /\ stopping = 0
-----------------------------------------------------------------------------
(* The accept loop.                                                        *)

\* readiness.wait() returns and `serve` starts on the prepared listener.
StartServing ==
  /\ server = "waiting"
  /\ server' = "serving"
  /\ UNCHANGED <<cancelled, shutdown, permits, conn, taskVars, history>>

\* Mutant of Accept: a connection beyond the budget is served as well.
AcceptOverBudget(c) ==
  /\ server = "serving"
  /\ conn[c] = "new"
  /\ conn' = [conn EXCEPT ![c] = "serving"]
  /\ permits' = IF permits > 0 THEN permits - 1 ELSE 0
  /\ wake' = [wake EXCEPT ![c] = IdleTimeout]
  /\ UNCHANGED <<serverVars, active, idleFor, timer, bodies, socket, history>>

\* A connection is accepted.  Without a free permit its socket is dropped;
\* otherwise its task starts, idle from now on, with its watchdog asleep.
Accept(c) ==
  /\ server = "serving"
  /\ conn[c] = "new"
  /\ IF permits > 0
     THEN /\ conn' = [conn EXCEPT ![c] = "serving"]
          /\ permits' = permits - 1
          /\ wake' = [wake EXCEPT ![c] = IdleTimeout]
     ELSE /\ conn' = [conn EXCEPT ![c] = "closed"]
          /\ UNCHANGED <<permits, wake>>
  /\ UNCHANGED <<serverVars, active, idleFor, timer, bodies, socket, history>>

\* accept itself fails: the connections are told, and `serve` drains them.
AcceptFails ==
  /\ server = "serving"
  /\ server' = "failing"
  /\ shutdown' = TRUE
  /\ UNCHANGED <<cancelled, permits, conn, taskVars, history>>

CancelApp ==
  /\ ~cancelled
  /\ cancelled' = TRUE
  /\ UNCHANGED <<server, shutdown, permits, conn, taskVars, history>>

\* The cancellation reaches the accept loop.
SeeCancellation ==
  /\ server = "serving"
  /\ cancelled
  /\ server' = "draining"
  /\ shutdown' = TRUE
  /\ UNCHANGED <<cancelled, permits, conn, taskVars, history>>

\* Every connection task has ended and `serve` returns.
FinishDrain ==
  /\ server \in {"draining", "failing"}
  /\ Live = {}
  /\ server' = IF server = "draining" THEN "stopped" ELSE "crashed"
  /\ UNCHANGED <<cancelled, shutdown, permits, conn, taskVars, history>>
-----------------------------------------------------------------------------
(* A connection task.                                                      *)

\* The task ends: its permit returns, and with it go its requests and bodies.
Close(c) ==
  /\ conn' = [conn EXCEPT ![c] = "closed"]
  /\ permits' = permits + 1
  /\ active' = [active EXCEPT ![c] = 0]
  /\ bodies' = [bodies EXCEPT ![c] = 0]
  /\ socket' = [socket EXCEPT ![c] = FALSE]
  /\ idleFor' = [idleFor EXCEPT ![c] = 0]
  /\ wake' = [wake EXCEPT ![c] = 0]
  /\ timer' = [timer EXCEPT ![c] = 0]
  /\ quiet' = [quiet EXCEPT ![c] = 0]

\* The task goes to another state that is bounded by a timeout.
Under(c, state, timeout) ==
  /\ conn' = [conn EXCEPT ![c] = state]
  /\ timer' = [timer EXCEPT ![c] = timeout]

\* ConnectionActivity::begin, for every request Hyper parses; one that was
\* under way when a grace began may still be parsed.
RequestBegins(c) ==
  /\ Connected(c)
  /\ ~socket[c]
  /\ active[c] < MaxActive
  /\ active' = [active EXCEPT ![c] = @ + 1]
  /\ quiet' = [quiet EXCEPT ![c] = 0]
  /\ UNCHANGED <<serverVars, permits, conn, idleFor, wake, timer, bodies, socket, stopping>>

\* Mutant of RequestEnds: idle_since keeps the time of an earlier request.
RequestEndsUnmarked(c, kind) ==
  /\ Connected(c)
  /\ active[c] > 0
  /\ kind = "websocket" => active[c] = 1 /\ bodies[c] = 0
  /\ kind = "streaming" => bodies[c] < MaxActive
  /\ active' = [active EXCEPT ![c] = @ - 1]
  /\ bodies' = [bodies EXCEPT ![c] = IF kind = "streaming" THEN @ + 1 ELSE @]
  /\ socket' = [socket EXCEPT ![c] = @ \/ kind = "websocket"]
  /\ UNCHANGED <<serverVars, permits, conn, idleFor, wake, timer, history>>

\* `call` returns and drops its ActiveRequest; the last one to go marks the
\* connection idle.  The answer is a whole body, a stream that is sent from
\* now on, or an accepted WebSocket whose pump is left in SocketTask.
RequestEnds(c, kind) ==
  /\ Connected(c)
  /\ active[c] > 0
  /\ kind = "websocket" => active[c] = 1 /\ bodies[c] = 0
  /\ kind = "streaming" => bodies[c] < MaxActive
  /\ active' = [active EXCEPT ![c] = @ - 1]
  /\ idleFor' = [idleFor EXCEPT ![c] = IF active[c] = 1 THEN 0 ELSE @]
  /\ bodies' = [bodies EXCEPT ![c] = IF kind = "streaming" THEN @ + 1 ELSE @]
  /\ socket' = [socket EXCEPT ![c] = @ \/ kind = "websocket"]
  /\ UNCHANGED <<serverVars, permits, conn, wake, timer, history>>

\* A response stream is sent to its end.
BodyEnds(c) ==
  /\ Connected(c)
  /\ bodies[c] > 0
  /\ bodies' = [bodies EXCEPT ![c] = @ - 1]
  /\ UNCHANGED <<serverVars, permits, conn, active, idleFor, wake, timer, socket, history>>

\* Mutant of WatchdogWakes: it always sleeps for the whole timeout again.
WatchdogOversleeps(c) ==
  /\ conn[c] = "serving"
  /\ wake[c] = 0
  /\ IF active[c] = 0 /\ idleFor[c] >= IdleTimeout
     THEN Under(c, "idleGrace", CloseGrace) /\ UNCHANGED wake
     ELSE /\ wake' = [wake EXCEPT ![c] = IdleTimeout]
          /\ UNCHANGED <<conn, timer>>
  /\ UNCHANGED <<serverVars, permits, active, idleFor, bodies, socket, history>>

\* wait_for_connection_idle wakes: a connection idle for the whole timeout is
\* shut down gracefully, any other one is looked at again at its deadline.
WatchdogWakes(c) ==
  /\ conn[c] = "serving"
  /\ wake[c] = 0
  /\ IF active[c] = 0 /\ idleFor[c] >= IdleTimeout
     THEN Under(c, "idleGrace", CloseGrace) /\ UNCHANGED wake
     ELSE /\ wake' = [wake EXCEPT ![c] =
                        IF active[c] = 0 THEN IdleTimeout - idleFor[c] ELSE IdleTimeout]
          /\ UNCHANGED <<conn, timer>>
  /\ UNCHANGED <<serverVars, permits, active, idleFor, bodies, socket, history>>

\* Mutant of SeeShutdown: the grace is added to the request timeout.
SeeShutdownLate(c) ==
  /\ conn[c] = "serving"
  /\ shutdown
  /\ Under(c, "shutdownGrace", RequestTimeout + ShutdownGrace)
  /\ UNCHANGED <<serverVars, permits, active, idleFor, wake, bodies, socket, history>>

\* wait_for_shutdown returns: graceful_shutdown, bounded by the grace.
SeeShutdown(c) ==
  /\ conn[c] = "serving"
  /\ shutdown
  /\ Under(c, "shutdownGrace", ShutdownGrace)
  /\ UNCHANGED <<serverVars, permits, active, idleFor, wake, bodies, socket, history>>

\* The Hyper connection completes: closed by the client, by an error, by the
\* header timeout or by a graceful shutdown.
ConnectionEnds(c) ==
  /\ Connected(c)
  /\ Close(c)
  /\ UNCHANGED <<serverVars, stopping>>

\* The Hyper connection completes with an upgrade: the task awaits the pump.
ConnectionUpgrades(c) ==
  /\ Connected(c)
  /\ socket[c]
  /\ Under(c, "upgrading", ShutdownGrace)
  /\ UNCHANGED <<serverVars, permits, active, idleFor, wake, bodies, socket, history>>

\* Mutant of GraceExpires: a connection that is sending is left alone.
GraceExpiresUnlessBusy(c) ==
  /\ conn[c] \in {"idleGrace", "shutdownGrace"}
  /\ timer[c] = 0
  /\ active[c] + bodies[c] = 0
  /\ Close(c)
  /\ UNCHANGED <<serverVars, stopping>>

\* The grace is over and the Hyper connection is dropped as it stands; the
\* upgrade a pump may be waiting for has failed with it.
GraceExpires(c) ==
  /\ conn[c] \in {"idleGrace", "shutdownGrace"}
  /\ timer[c] = 0
  /\ Close(c)
  /\ UNCHANGED <<serverVars, stopping>>
-----------------------------------------------------------------------------
(* The WebSocket pump, websocket_native::run, as far as its timers go.     *)

UpgradeReady(c) ==
  /\ conn[c] = "upgrading"
  /\ Under(c, "exchanging", RequestTimeout)
  /\ UNCHANGED <<serverVars, permits, active, idleFor, wake, bodies, socket, history>>

\* The upgrade fails or does not come within the grace.
UpgradeFails(c) ==
  /\ conn[c] = "upgrading"
  /\ Close(c)
  /\ UNCHANGED <<serverVars, stopping>>

\* Both pumps finish, and the session is over.
ExchangeEnds(c) ==
  /\ conn[c] = "exchanging"
  /\ Close(c)
  /\ UNCHANGED <<serverVars, stopping>>

\* A pump fails or the lifetime is over: a last Close is sent, for a grace.
ExchangeFails(c) ==
  /\ conn[c] = "exchanging"
  /\ Under(c, "closing", ShutdownGrace)
  /\ UNCHANGED <<serverVars, permits, active, idleFor, wake, bodies, socket, history>>

\* The App is cancelled: an upgrade is given up, an exchange is closed.
PumpCancelled(c) ==
  /\ cancelled
  /\ \/ /\ conn[c] = "upgrading"
        /\ Close(c)
     \/ /\ conn[c] = "exchanging"
        /\ Under(c, "closing", ShutdownGrace)
        /\ UNCHANGED <<permits, active, idleFor, wake, bodies, socket, quiet>>
  /\ UNCHANGED <<serverVars, stopping>>

\* The last Close is sent or its grace is over.
CloseSent(c) ==
  /\ conn[c] = "closing"
  /\ Close(c)
  /\ UNCHANGED <<serverVars, stopping>>

\* A connection task panics.  A serving loop tells the other tasks and
\* returns at once, leaving them detached; a draining one takes no notice.
TaskPanics(c) ==
  /\ c \in Live
  /\ Close(c)
  /\ server' = IF server = "serving" THEN "crashed" ELSE server
  /\ shutdown' = TRUE
  /\ UNCHANGED <<cancelled, stopping>>
-----------------------------------------------------------------------------
\* Steps that happen before the clock moves on.
Due ==
  \/ server = "serving" /\ cancelled
  \/ \E c \in Conns :
       \/ conn[c] = "serving" /\ (shutdown \/ wake[c] = 0)
       \/ conn[c] \in {"idleGrace", "shutdownGrace"} /\ timer[c] = 0
       \/ Pumping(c) /\ timer[c] = 0
       \/ conn[c] \in {"upgrading", "exchanging"} /\ cancelled

Tick ==
  /\ ~Due
  /\ idleFor' = [c \in Conns |->
       IF Connected(c) /\ idleFor[c] < IdleTimeout THEN idleFor[c] + 1 ELSE idleFor[c]]
  /\ quiet' = [c \in Conns |->
       IF conn[c] = "serving" /\ active[c] = 0 THEN quiet[c] + 1 ELSE quiet[c]]
  /\ wake' = [c \in Conns |-> IF wake[c] > 0 THEN wake[c] - 1 ELSE 0]
  /\ timer' = [c \in Conns |-> IF timer[c] > 0 THEN timer[c] - 1 ELSE 0]
  /\ stopping' = IF cancelled /\ shutdown /\ stopping <= StopBound THEN stopping + 1 ELSE stopping
  /\ UNCHANGED <<serverVars, permits, conn, active, bodies, socket>>

\* Steps that the executor and its timers take by themselves.
TaskStep(c) ==
  \/ WatchdogWakes(c) \/ SeeShutdown(c) \/ GraceExpires(c) \/ PumpCancelled(c)
  \/ timer[c] = 0 /\ (UpgradeFails(c) \/ ExchangeFails(c) \/ CloseSent(c))

Next ==
  \/ StartServing \/ AcceptFails \/ CancelApp \/ SeeCancellation \/ FinishDrain
  \/ \E c \in Conns :
       \/ Accept(c) \/ RequestBegins(c) \/ BodyEnds(c)
       \/ \E kind \in {"buffered", "streaming", "websocket"} : RequestEnds(c, kind)
       \/ ConnectionEnds(c) \/ ConnectionUpgrades(c)
       \/ UpgradeReady(c) \/ UpgradeFails(c) \/ ExchangeEnds(c) \/ ExchangeFails(c)
       \/ CloseSent(c) \/ TaskPanics(c)
       \/ TaskStep(c)
  \/ Tick

Spec == Init /\ [][Next]_vars

\* Time passes and the executor runs what is due.  Clients, Endpoints and the
\* decision to cancel are left free.
FairSpec ==
  /\ Spec
  /\ WF_vars(Tick) /\ WF_vars(SeeCancellation) /\ WF_vars(FinishDrain)
  /\ \A c \in Conns : WF_vars(TaskStep(c))
-----------------------------------------------------------------------------
TypeOK ==
  /\ server \in {"waiting", "serving", "draining", "failing", "stopped", "crashed"}
  /\ cancelled \in BOOLEAN
  /\ shutdown \in BOOLEAN
  /\ permits \in Nat
  /\ conn \in [Conns -> ConnStates]
  /\ active \in [Conns -> 0 .. MaxActive]
  /\ idleFor \in [Conns -> 0 .. IdleTimeout]
  /\ wake \in [Conns -> 0 .. IdleTimeout]
  /\ timer \in [Conns -> Nat]
  /\ bodies \in [Conns -> 0 .. MaxActive]
  /\ socket \in [Conns -> BOOLEAN]
  /\ quiet \in [Conns -> Nat]
  /\ stopping \in 0 .. StopBound + 1

\* A listener of one instance keeps the promise of every Web Ingress listener:
\* it never serves more connections than its budget, whatever becomes of them.
Budget == INSTANCE ConnectionBudget
  WITH gate <- server # "waiting",
       live <- Live,
       gone <- {c \in Conns : conn[c] = "closed"}

ServerImplementsBudget == Budget!Spec

\* An idle connection does not outlive connection_idle_timeout, wherever in the
\* sleep of the watchdog its last request happened to end.
IdleClosedOnTime ==
  \A c \in Conns : conn[c] = "serving" => quiet[c] <= IdleTimeout

\* The watchdog closes no connection that had a request within the timeout.
IdleNeverEarly ==
  [][\A c \in Conns :
       conn[c] = "serving" /\ conn'[c] = "idleGrace" =>
         active[c] = 0 /\ quiet[c] >= IdleTimeout]_vars

\* A cancelled App is rid of its connections within two graces, WebSockets that
\* were accepted during the shutdown included.
StopsInTime == stopping > StopBound => Live = {}

\* Shutdown, whether by cancellation, by a failed accept or by a panicking task,
\* ends every connection and returns every permit, whatever the clients do.
ServerShutdownCompletes ==
  shutdown ~> (server \in {"stopped", "crashed"} /\ permits = MaxConnections)

\* README.md: "The idle deadline is suspended while any parsed request is active
\* and starts at the final request's completion".
IdleSparesResponses ==
  [][\A c \in Conns :
       conn[c] = "serving" /\ conn'[c] = "idleGrace" => bodies[c] = 0]_vars

\* README.md: "admitted connections receive `shutdown_grace_timeout_millis` to
\* drain [...], after which the socket and its live-connection permit are
\* released".
ReleasedAfterGrace == stopping > ShutdownGrace => Live = {}

\* No connection outlives its deadline, neither that of its idleness nor that of the
\* App's shutdown (wait_for_connection_idle, serve, websocket_native::run).
ClosedOnTime == IdleClosedOnTime /\ StopsInTime
=============================================================================
