----------------------- MODULE ConnectionServer_proofs -----------------------
(***************************************************************************)
(* Proofs about `serve` for every number of connections, every budget and  *)
(* all timeouts: it implements the listener's promise, its idle watchdog   *)
(* is never early and never late, and a cancelled App is rid of its        *)
(* connections within two graces.                                          *)
(***************************************************************************)
EXTENDS ConnectionServer, FiniteSetTheorems, TLAPS

LiveStates == ConnStates \ {"new", "closed"}
Gone == {c \in Conns : conn[c] = "closed"}
MaxGrace == IF CloseGrace > ShutdownGrace THEN CloseGrace ELSE ShutdownGrace

\* Nothing is connected before `serve` starts, the tasks are told of a shutdown
\* only by a loop that accepts no more, and the stop clock runs only then.
ServerInv ==
  /\ server = "waiting" => \A c \in Conns : conn[c] = "new"
  /\ shutdown => server \notin {"waiting", "serving"}
  /\ stopping > 0 => shutdown /\ cancelled

\* The clocks of one connection: while it is idle, the watchdog wakes no later
\* than the idle deadline; under a shutdown, the time that has passed and what is
\* left of the timer stay within the graces the task still has ahead.
ClockInv(c) ==
  /\ conn[c] = "new" => active[c] = 0 /\ idleFor[c] = 0 /\ quiet[c] = 0
  /\ conn[c] = "serving" =>
       /\ active[c] = 0 => idleFor[c] = quiet[c] /\ quiet[c] + wake[c] <= IdleTimeout
       /\ active[c] > 0 => quiet[c] = 0
       /\ stopping = 0
  /\ conn[c] \in {"idleGrace", "shutdownGrace"} => stopping + timer[c] <= MaxGrace
  /\ conn[c] \in {"upgrading", "exchanging"} => stopping <= MaxGrace
  /\ conn[c] = "closing" => stopping + timer[c] <= StopBound

PermitInv == IsFiniteSet(Live) /\ permits + Cardinality(Live) = MaxConnections

IInv == TypeOK /\ ServerInv /\ (\A c \in Conns : ClockInv(c)) /\ PermitInv
-----------------------------------------------------------------------------
\* The limits and timeouts are positive, and StopBound is two graces.
LEMMA Constants ==
  /\ MaxConnections \in Nat \ {0} /\ MaxActive \in Nat \ {0}
  /\ IdleTimeout \in Nat \ {0} /\ CloseGrace \in Nat \ {0}
  /\ ShutdownGrace \in Nat \ {0} /\ RequestTimeout \in Nat \ {0}
  /\ MaxGrace \in Nat /\ CloseGrace <= MaxGrace /\ ShutdownGrace <= MaxGrace
  /\ StopBound = MaxGrace + ShutdownGrace
BY ServerAssumption DEF MaxGrace, StopBound

\* Which connections are live is decided by their state alone.
LEMMA LiveIsState ==
  /\ Live = {c \in Conns : conn[c] \in LiveStates}
  /\ Live' = {c \in Conns : conn'[c] \in LiveStates}
BY DEF Live, Connected, Pumping, LiveStates, ConnStates
-----------------------------------------------------------------------------
(* What a step does to one connection.                                     *)

\* The task of c ends.
Ends(c) == c \in Live /\ Close(c)

\* A live connection changes state, or a request of it begins or ends.
TaskMoves(c) ==
  \/ RequestBegins(c) \/ BodyEnds(c) \/ WatchdogWakes(c) \/ SeeShutdown(c)
  \/ \E kind \in {"buffered", "streaming", "websocket"} : RequestEnds(c, kind)
  \/ ConnectionUpgrades(c) \/ UpgradeReady(c) \/ ExchangeFails(c)
  \/ /\ cancelled /\ conn[c] = "exchanging" /\ Under(c, "closing", ShutdownGrace)
     /\ UNCHANGED <<serverVars, permits, active, idleFor, wake, bodies, socket, history>>

\* `serve` itself moves on.
ServerMoves == StartServing \/ AcceptFails \/ CancelApp \/ SeeCancellation \/ FinishDrain

\* A task that ended took the loop with it if it panicked.
ServerSees ==
  /\ UNCHANGED <<cancelled, stopping>>
  /\ \/ UNCHANGED <<server, shutdown>>
     \/ /\ server' = IF server = "serving" THEN "crashed" ELSE server
        /\ shutdown' = TRUE

\* Every step is one of `serve`, of one connection, or of the clock.
LEMMA StepKinds ==
  ASSUME Next
  PROVE  \/ ServerMoves
         \/ \E c \in Conns : Accept(c) \/ TaskMoves(c) \/ (Ends(c) /\ ServerSees)
         \/ Tick
<1>1. ASSUME NEW c \in Conns,
             ConnectionEnds(c) \/ UpgradeFails(c) \/ ExchangeEnds(c) \/ CloseSent(c)
               \/ TaskPanics(c) \/ GraceExpires(c)
      PROVE  Ends(c) /\ ServerSees
  BY <1>1 DEF ConnectionEnds, UpgradeFails, ExchangeEnds, CloseSent, TaskPanics,
       GraceExpires, Ends, ServerSees, serverVars, Live, Connected, Pumping
<1>2. ASSUME NEW c \in Conns, PumpCancelled(c)
      PROVE  TaskMoves(c) \/ (Ends(c) /\ ServerSees)
  BY <1>2 DEF PumpCancelled, TaskMoves, Ends, ServerSees, serverVars, history, Live,
       Connected, Pumping
<1> QED BY <1>1, <1>2 DEF Next, TaskStep, TaskMoves, ServerMoves

\* Every step keeps the variables in their types.
LEMMA TypeStep ==
  ASSUME TypeOK, Next, permits' \in Nat
  PROVE  TypeOK'
<1> USE Constants DEF TypeOK, ConnStates, serverVars, taskVars, history
<1>1. CASE ServerMoves
  BY <1>1 DEF ServerMoves, StartServing, AcceptFails, CancelApp, SeeCancellation, FinishDrain
<1>2. ASSUME NEW c \in Conns, Accept(c) PROVE TypeOK'
  BY <1>2 DEF Accept
<1>3. ASSUME NEW c \in Conns, TaskMoves(c) PROVE TypeOK'
  <2>1. CASE RequestBegins(c) \/ BodyEnds(c)
    BY <2>1 DEF RequestBegins, BodyEnds
  <2>2. ASSUME NEW kind \in {"buffered", "streaming", "websocket"}, RequestEnds(c, kind)
        PROVE  TypeOK'
    BY <2>2 DEF RequestEnds
  <2>3. CASE WatchdogWakes(c)
    BY <2>3 DEF WatchdogWakes, Under
  <2>4. CASE SeeShutdown(c) \/ ConnectionUpgrades(c) \/ UpgradeReady(c) \/ ExchangeFails(c)
    BY <2>4 DEF SeeShutdown, ConnectionUpgrades, UpgradeReady, ExchangeFails, Under
  <2>5. CASE /\ Under(c, "closing", ShutdownGrace)
             /\ UNCHANGED <<serverVars, permits, active, idleFor, wake, bodies, socket, history>>
    BY <2>5 DEF Under
  <2> QED BY <1>3, <2>1, <2>2, <2>3, <2>4, <2>5 DEF TaskMoves
<1>4. ASSUME NEW c \in Conns, Ends(c), ServerSees PROVE TypeOK'
  <2>1. /\ server' \in {"waiting", "serving", "draining", "failing", "stopped", "crashed"}
        /\ shutdown' \in BOOLEAN /\ cancelled' \in BOOLEAN /\ stopping' \in 0 .. StopBound + 1
    BY <1>4 DEF ServerSees
  <2>2. Close(c)
    BY <1>4 DEF Ends
  <2> QED BY <2>1, <2>2 DEF Close
<1>5. CASE Tick
  BY <1>5 DEF Tick
<1> QED BY <1>1, <1>2, <1>3, <1>4, <1>5, StepKinds

-----------------------------------------------------------------------------
(* The budget.                                                             *)

Admits(c) ==
  /\ server = "serving" /\ server' = server
  /\ c \notin Live \cup Gone
  /\ permits > 0 /\ permits' = permits - 1
  /\ Live' = Live \cup {c} /\ Gone' = Gone

Refuses(c) ==
  /\ server = "serving" /\ server' = server
  /\ c \notin Live \cup Gone
  /\ permits' = permits
  /\ Live' = Live /\ Gone' = Gone \cup {c}

Closes(c) ==
  /\ c \in Live /\ (server # "waiting") = (server' # "waiting")
  /\ permits' = permits + 1
  /\ Live' = Live \ {c} /\ Gone' = Gone \cup {c}

NoMove ==
  /\ server # "waiting" => server' # "waiting"
  /\ permits' = permits
  /\ Live' = Live /\ Gone' = Gone

\* To the budget every step is an admission, a refusal, a close or nothing.
LEMMA BudgetMoves ==
  ASSUME TypeOK, ServerInv, Next
  PROVE  NoMove \/ \E c \in Conns : Admits(c) \/ Refuses(c) \/ Closes(c)
<1> USE DEF serverVars, taskVars, history
<1>0. /\ conn \in [Conns -> ConnStates]
      /\ Live = {c \in Conns : conn[c] \in LiveStates}
      /\ Live' = {c \in Conns : conn'[c] \in LiveStates}
  BY LiveIsState DEF TypeOK
<1>1. ASSUME conn' = conn, permits' = permits, server # "waiting" => server' # "waiting"
      PROVE  NoMove
  BY <1>1, <1>0 DEF NoMove, Gone
<1>2. CASE ServerMoves \/ Tick
  <2>1. conn' = conn /\ permits' = permits /\ (server # "waiting" => server' # "waiting")
    BY <1>2 DEF ServerMoves, StartServing, AcceptFails, CancelApp, SeeCancellation,
         FinishDrain, Tick
  <2> QED BY <2>1, <1>1
<1>3. ASSUME NEW c \in Conns, Accept(c) PROVE Admits(c) \/ Refuses(c)
  <2>1. CASE permits > 0
    <3>1. conn[c] = "new" /\ conn' = [conn EXCEPT ![c] = "serving"] /\ permits' = permits - 1
          /\ server = "serving" /\ server' = server
      BY <1>3, <2>1 DEF Accept
    <3>2. Live' = Live \cup {c} /\ Gone' = Gone /\ c \notin Live \cup Gone
      BY <3>1, <1>0 DEF Gone, LiveStates, ConnStates
    <3> QED BY <2>1, <3>1, <3>2 DEF Admits
  <2>2. CASE ~(permits > 0)
    <3>1. conn[c] = "new" /\ conn' = [conn EXCEPT ![c] = "closed"] /\ permits' = permits
          /\ server = "serving" /\ server' = server
      BY <1>3, <2>2 DEF Accept
    <3>2. Live' = Live /\ Gone' = Gone \cup {c} /\ c \notin Live \cup Gone
      BY <3>1, <1>0 DEF Gone, LiveStates, ConnStates
    <3> QED BY <3>1, <3>2 DEF Refuses
  <2> QED BY <2>1, <2>2
<1>4. ASSUME NEW c \in Conns, TaskMoves(c) PROVE NoMove
  <2>1. /\ permits' = permits /\ server' = server /\ conn[c] \in LiveStates
        /\ conn' = conn \/ \E st \in LiveStates : conn' = [conn EXCEPT ![c] = st]
    <3> USE <1>0 DEF LiveStates, ConnStates, Connected, Under
    <3>1. CASE RequestBegins(c) \/ BodyEnds(c)
      BY <3>1 DEF RequestBegins, BodyEnds
    <3>2. ASSUME NEW kind \in {"buffered", "streaming", "websocket"}, RequestEnds(c, kind)
          PROVE  permits' = permits /\ server' = server /\ conn[c] \in LiveStates /\ conn' = conn
      BY <3>2 DEF RequestEnds
    <3>3. CASE WatchdogWakes(c)
      BY <3>3 DEF WatchdogWakes
    <3>4. CASE SeeShutdown(c) \/ ConnectionUpgrades(c) \/ UpgradeReady(c) \/ ExchangeFails(c)
      BY <3>4 DEF SeeShutdown, ConnectionUpgrades, UpgradeReady, ExchangeFails
    <3>5. CASE /\ conn[c] = "exchanging" /\ Under(c, "closing", ShutdownGrace)
               /\ UNCHANGED <<serverVars, permits>>
      BY <3>5
    <3> QED BY <1>4, <3>1, <3>2, <3>3, <3>4, <3>5 DEF TaskMoves
  <2>2. CASE conn' = conn
    BY <2>1, <2>2, <1>1
  <2>3. ASSUME NEW st \in LiveStates, conn' = [conn EXCEPT ![c] = st] PROVE NoMove
    <3>1. Live' = Live /\ Gone' = Gone
      BY <2>1, <2>3, <1>0 DEF Gone, LiveStates, ConnStates
    <3> QED BY <2>1, <3>1 DEF NoMove
  <2> QED BY <2>1, <2>2, <2>3
<1>5. ASSUME NEW c \in Conns, Ends(c), ServerSees PROVE Closes(c)
  <2>1. /\ c \in Live /\ conn' = [conn EXCEPT ![c] = "closed"] /\ permits' = permits + 1
        /\ conn[c] \in LiveStates
    BY <1>5, <1>0 DEF Ends, Close
  <2>2. Live' = Live \ {c} /\ Gone' = Gone \cup {c}
    BY <2>1, <1>0 DEF Gone, LiveStates
  <2>3. server # "waiting" /\ server' # "waiting"
    BY <1>5, <2>1 DEF ServerInv, ServerSees, LiveStates
  <2> QED BY <2>1, <2>2, <2>3 DEF Closes
<1> QED BY <1>2, <1>3, <1>4, <1>5, StepKinds

\* Every step keeps one permit with every live connection.
LEMMA PermitStep ==
  ASSUME TypeOK, ServerInv, PermitInv, Next
  PROVE  PermitInv' /\ permits' \in Nat
<1>0. /\ permits \in Nat /\ Cardinality(Live) \in Nat /\ MaxConnections \in Nat
      /\ IsFiniteSet(Live)
  BY FS_CardinalityType, Constants DEF TypeOK, PermitInv
<1>1. CASE Live' = Live /\ permits' = permits
  BY <1>0, <1>1 DEF PermitInv
<1>2. ASSUME NEW c \in Conns, Admits(c) PROVE PermitInv' /\ permits' \in Nat
  <2>1. IsFiniteSet(Live') /\ Cardinality(Live') = Cardinality(Live) + 1
    BY <1>0, <1>2, FS_AddElement DEF Admits
  <2> QED BY <1>0, <1>2, <2>1 DEF Admits, PermitInv
<1>3. ASSUME NEW c \in Conns, Closes(c) PROVE PermitInv' /\ permits' \in Nat
  <2>1. IsFiniteSet(Live') /\ Cardinality(Live') = Cardinality(Live) - 1
    BY <1>0, <1>3, FS_RemoveElement DEF Closes
  <2> QED BY <1>0, <1>3, <2>1 DEF Closes, PermitInv
<1> QED BY <1>1, <1>2, <1>3, BudgetMoves DEF NoMove, Refuses
-----------------------------------------------------------------------------
(* The clocks.                                                             *)

\* Every step keeps the order in which `serve` starts, tells and stops.
LEMMA ServerStep ==
  ASSUME TypeOK, ServerInv, Next
  PROVE  ServerInv'
<1> USE Constants DEF ServerInv, serverVars, taskVars, history
<1>1. CASE ServerMoves
  BY <1>1 DEF ServerMoves, StartServing, AcceptFails, CancelApp, SeeCancellation,
       FinishDrain, TypeOK
<1>2. ASSUME NEW c \in Conns, Accept(c) PROVE ServerInv'
  BY <1>2 DEF Accept
<1>3. ASSUME NEW c \in Conns, TaskMoves(c) PROVE ServerInv'
  <2>1. UNCHANGED <<serverVars, stopping>> /\ server # "waiting"
    <3> USE <1>3 DEF Under, Connected
    <3>1. CASE RequestBegins(c) \/ BodyEnds(c)
      BY <3>1 DEF RequestBegins, BodyEnds
    <3>2. ASSUME NEW kind \in {"buffered", "streaming", "websocket"}, RequestEnds(c, kind)
          PROVE  UNCHANGED <<serverVars, stopping>> /\ server # "waiting"
      BY <3>2 DEF RequestEnds
    <3>3. CASE WatchdogWakes(c)
      BY <3>3 DEF WatchdogWakes
    <3>4. CASE SeeShutdown(c) \/ ConnectionUpgrades(c) \/ UpgradeReady(c) \/ ExchangeFails(c)
      BY <3>4 DEF SeeShutdown, ConnectionUpgrades, UpgradeReady, ExchangeFails
    <3>5. CASE /\ conn[c] = "exchanging"
               /\ UNCHANGED <<serverVars, history>>
      BY <3>5
    <3> QED BY <3>1, <3>2, <3>3, <3>4, <3>5 DEF TaskMoves
  <2> QED BY <2>1
<1>4. ASSUME NEW c \in Conns, Ends(c), ServerSees PROVE ServerInv'
  <2>1. server # "waiting"
    BY <1>4 DEF Ends, Live, Connected, Pumping
  <2>2. server' # "waiting"
    BY <1>4, <2>1 DEF ServerSees
  <2> QED BY <1>4, <2>1, <2>2 DEF ServerSees
<1>5. CASE Tick
  BY <1>5 DEF Tick, TypeOK
<1> QED BY <1>1, <1>2, <1>3, <1>4, <1>5, StepKinds

\* A step of one connection leaves the clocks of the others alone.
LEMMA OtherClocks ==
  ASSUME NEW d \in Conns, ClockInv(d), stopping' = stopping,
         conn'[d] = conn[d], active'[d] = active[d], idleFor'[d] = idleFor[d],
         wake'[d] = wake[d], timer'[d] = timer[d], quiet'[d] = quiet[d]
  PROVE  ClockInv(d)'
BY DEF ClockInv

\* A connection starts with its watchdog asleep until the idle deadline.
LEMMA AcceptClock ==
  ASSUME TypeOK, ServerInv, NEW c \in Conns, ClockInv(c), Accept(c)
  PROVE  ClockInv(c)'
<1>1. stopping = 0
  BY Constants DEF Accept, ServerInv, TypeOK
<1> QED BY <1>1, Constants DEF Accept, TypeOK, ClockInv, history

\* What a connection task does keeps its clocks within their deadlines.
LEMMA TaskClock ==
  ASSUME TypeOK, ServerInv, NEW c \in Conns, ClockInv(c), TaskMoves(c)
  PROVE  ClockInv(c)'
<1> USE Constants DEF TypeOK, ClockInv, serverVars, history, Under
<1>1. CASE RequestBegins(c)
  BY <1>1 DEF RequestBegins, Connected
<1>2. CASE BodyEnds(c)
  BY <1>2 DEF BodyEnds
<1>3. ASSUME NEW kind \in {"buffered", "streaming", "websocket"}, RequestEnds(c, kind)
      PROVE  ClockInv(c)'
  <2>1. /\ active[c] > 0 /\ active'[c] = active[c] - 1 /\ Connected(c)
        /\ idleFor'[c] = IF active[c] = 1 THEN 0 ELSE idleFor[c]
        /\ conn' = conn /\ wake' = wake /\ timer' = timer /\ quiet' = quiet
        /\ stopping' = stopping
    BY <1>3 DEF RequestEnds
  <2> QED BY <2>1 DEF Connected
<1>4. CASE WatchdogWakes(c)
  <2>1. conn[c] = "serving" /\ stopping = 0
    BY <1>4 DEF WatchdogWakes
  <2>2. CASE active[c] = 0 /\ idleFor[c] >= IdleTimeout
    BY <1>4, <2>1, <2>2 DEF WatchdogWakes
  <2>3. CASE ~(active[c] = 0 /\ idleFor[c] >= IdleTimeout)
    BY <1>4, <2>1, <2>3 DEF WatchdogWakes
  <2> QED BY <2>2, <2>3
<1>5. CASE SeeShutdown(c)
  BY <1>5 DEF SeeShutdown
<1>6. CASE ConnectionUpgrades(c)
  <2>1. Connected(c) /\ conn'[c] = "upgrading" /\ stopping' = stopping
    BY <1>6 DEF ConnectionUpgrades
  <2>2. stopping <= MaxGrace
    BY <2>1 DEF Connected
  <2> QED BY <2>1, <2>2
<1>7. CASE UpgradeReady(c)
  BY <1>7 DEF UpgradeReady
<1>8. CASE /\ conn[c] = "exchanging" /\ Under(c, "closing", ShutdownGrace)
           /\ UNCHANGED <<serverVars, permits, active, idleFor, wake, bodies, socket, history>>
  BY <1>8
<1> QED BY <1>1, <1>2, <1>3, <1>4, <1>5, <1>6, <1>7, <1>8 DEF TaskMoves, ExchangeFails

\* Time only passes while no deadline of the connection has come.
LEMMA TickClock ==
  ASSUME TypeOK, NEW c \in Conns, ClockInv(c), Tick
  PROVE  ClockInv(c)'
<1> USE Constants DEF TypeOK, ClockInv
<1>1. /\ conn[c] = "serving" => ~shutdown /\ wake[c] # 0
      /\ conn[c] \in {"idleGrace", "shutdownGrace", "closing"} => timer[c] # 0
      /\ conn[c] \in {"upgrading", "exchanging"} => ~cancelled
  BY DEF Tick, Due, Pumping
<1>2. /\ conn' = conn /\ active' = active
      /\ idleFor'[c] = IF Connected(c) /\ idleFor[c] < IdleTimeout THEN idleFor[c] + 1
                       ELSE idleFor[c]
      /\ quiet'[c] = IF conn[c] = "serving" /\ active[c] = 0 THEN quiet[c] + 1 ELSE quiet[c]
      /\ wake'[c] = IF wake[c] > 0 THEN wake[c] - 1 ELSE 0
      /\ timer'[c] = IF timer[c] > 0 THEN timer[c] - 1 ELSE 0
      /\ stopping' \in {stopping, stopping + 1}
      /\ ~(cancelled /\ shutdown) => stopping' = stopping
  BY DEF Tick
<1>3. CASE conn[c] = "new"
  BY <1>2, <1>3 DEF Connected
<1>4. CASE conn[c] = "serving"
  BY <1>1, <1>2, <1>4 DEF Connected
<1>5. CASE conn[c] \in {"idleGrace", "shutdownGrace", "closing"}
  <2>1. stopping \in Nat /\ timer[c] \in Nat /\ timer[c] # 0
    BY <1>1, <1>5
  <2>2. stopping' + timer'[c] <= stopping + timer[c] /\ conn'[c] = conn[c]
    BY <1>2, <2>1
  <2>3. stopping' \in Nat /\ timer'[c] \in Nat
    BY <1>2, <2>1
  <2>4. CASE conn[c] = "closing"
    BY <2>1, <2>2, <2>3, <2>4
  <2>5. CASE conn[c] \in {"idleGrace", "shutdownGrace"}
    BY <2>1, <2>2, <2>3, <2>5
  <2> QED BY <1>5, <2>4, <2>5
<1>6. CASE conn[c] \in {"upgrading", "exchanging"}
  BY <1>1, <1>2, <1>6
<1>7. CASE conn[c] = "closed"
  BY <1>2, <1>7
<1> QED BY <1>3, <1>4, <1>5, <1>6, <1>7 DEF ConnStates

\* Every step keeps the clocks of every connection within their deadlines.
LEMMA ClockStep ==
  ASSUME TypeOK, ServerInv, \A c \in Conns : ClockInv(c), Next
  PROVE  \A c \in Conns : ClockInv(c)'
<1> SUFFICES ASSUME NEW d \in Conns PROVE ClockInv(d)'
  OBVIOUS
<1> USE DEF serverVars, taskVars, history
<1>1. CASE ServerMoves
  BY <1>1, OtherClocks DEF ServerMoves, StartServing, AcceptFails, CancelApp,
       SeeCancellation, FinishDrain
<1>2. ASSUME NEW c \in Conns, Accept(c) PROVE ClockInv(d)'
  <2>1. CASE c = d
    BY <1>2, <2>1, AcceptClock
  <2>2. CASE c # d
    BY <1>2, <2>2, OtherClocks DEF Accept, TypeOK
  <2> QED BY <2>1, <2>2
<1>3. ASSUME NEW c \in Conns, TaskMoves(c) PROVE ClockInv(d)'
  <2>1. CASE c = d
    BY <1>3, <2>1, TaskClock
  <2>2. CASE c # d
    <3> USE <1>3, <2>2, OtherClocks DEF TypeOK, Under
    <3>1. CASE RequestBegins(c) \/ BodyEnds(c)
      BY <3>1 DEF RequestBegins, BodyEnds
    <3>2. ASSUME NEW kind \in {"buffered", "streaming", "websocket"}, RequestEnds(c, kind)
          PROVE  ClockInv(d)'
      BY <3>2 DEF RequestEnds
    <3>3. CASE WatchdogWakes(c)
      BY <3>3 DEF WatchdogWakes
    <3>4. CASE SeeShutdown(c) \/ ConnectionUpgrades(c) \/ UpgradeReady(c) \/ ExchangeFails(c)
      BY <3>4 DEF SeeShutdown, ConnectionUpgrades, UpgradeReady, ExchangeFails
    <3>5. CASE /\ Under(c, "closing", ShutdownGrace)
               /\ UNCHANGED <<serverVars, permits, active, idleFor, wake, bodies, socket,
                              history>>
      BY <3>5
    <3> QED BY <3>1, <3>2, <3>3, <3>4, <3>5 DEF TaskMoves
  <2> QED BY <2>1, <2>2
<1>4. ASSUME NEW c \in Conns, Ends(c), ServerSees PROVE ClockInv(d)'
  <2>1. CASE c = d
    <3>1. conn'[d] = "closed"
      BY <1>4, <2>1 DEF Ends, Close, TypeOK
    <3> QED BY <3>1 DEF ClockInv
  <2>2. CASE c # d
    BY <1>4, <2>2, OtherClocks DEF Ends, Close, ServerSees, TypeOK
  <2> QED BY <2>1, <2>2
<1>5. CASE Tick
  BY <1>5, TickClock
<1> QED BY <1>1, <1>2, <1>3, <1>4, <1>5, StepKinds
-----------------------------------------------------------------------------
\* Before `serve` starts all permits are free and all clocks are at zero.
LEMMA InitHolds == Init => IInv
<1> SUFFICES ASSUME Init PROVE IInv
  OBVIOUS
<1>1. TypeOK /\ ServerInv
  <2>1. ServerInv
    BY DEF Init, ServerInv
  <2>2. StopBound \in Nat
    BY Constants
  <2>3. 0 \in 0 .. MaxActive /\ 0 \in 0 .. IdleTimeout /\ 0 \in 0 .. StopBound + 1
    BY <2>2, Constants
  <2>4. TypeOK
    BY <2>3, Constants DEF Init, TypeOK, ConnStates
  <2> QED BY <2>1, <2>4
<1>2. \A c \in Conns : ClockInv(c)
  BY DEF Init, ClockInv
<1>3. Live = {}
  BY LiveIsState DEF Init, LiveStates, ConnStates
<1>4. PermitInv
  BY <1>3, Constants, FS_EmptySet DEF Init, PermitInv
<1> QED BY <1>1, <1>2, <1>4 DEF IInv

\* Every step of `serve`, its tasks and the clock keeps the invariant.
LEMMA NextHolds == IInv /\ [Next]_vars => IInv'
<1> SUFFICES ASSUME IInv, [Next]_vars PROVE IInv'
  OBVIOUS
<1>1. CASE Next
  <2>1. PermitInv' /\ permits' \in Nat
    BY <1>1, PermitStep DEF IInv
  <2>2. TypeOK'
    BY <1>1, <2>1, TypeStep DEF IInv
  <2>3. ServerInv'
    BY <1>1, ServerStep DEF IInv
  <2>4. \A c \in Conns : ClockInv(c)'
    BY <1>1, ClockStep DEF IInv
  <2> QED BY <2>1, <2>2, <2>3, <2>4 DEF IInv
<1>2. CASE UNCHANGED vars
  <2> USE <1>2 DEF IInv, vars, serverVars, taskVars, history
  <2>1. TypeOK' /\ ServerInv'
    BY DEF TypeOK, ServerInv
  <2>2. \A c \in Conns : ClockInv(c)'
    BY OtherClocks
  <2>3. PermitInv'
    <3>1. Live' = Live
      BY LiveIsState
    <3> QED BY <3>1 DEF PermitInv
  <2> QED BY <2>1, <2>2, <2>3
<1> QED BY <1>1, <1>2

\* The inductive invariant of `serve`: every live connection has one permit, and
\* the clocks of each are related so that no deadline can be missed.
THEOREM ServerInvariant == Spec => []IInv
BY InitHolds, NextHolds, PTL DEF Spec

\* No connection outlives its idle deadline, nor two graces of a cancelled App,
\* for every choice of the timeouts (wait_for_connection_idle, serve and
\* websocket_native::run).
THEOREM DeadlinesAreKept == Spec => []ClosedOnTime
<1>1. IInv => ClosedOnTime
  <2> SUFFICES ASSUME IInv PROVE ClosedOnTime
    OBVIOUS
  <2> USE Constants DEF IInv, TypeOK, ClockInv
  <2>1. IdleClosedOnTime
    BY DEF IdleClosedOnTime
  <2>2. StopsInTime
    <3> SUFFICES ASSUME stopping > StopBound, NEW c \in Live PROVE FALSE
      BY DEF StopsInTime
    <3>1. c \in Conns /\ conn[c] \in LiveStates
      BY LiveIsState
    <3> QED BY <3>1 DEF LiveStates, ConnStates
  <2> QED BY <2>1, <2>2 DEF ClosedOnTime
<1> QED BY <1>1, ServerInvariant, PTL

\* The watchdog shuts no connection down that had a request within
\* connection_idle_timeout (wait_for_connection_idle).
THEOREM WatchdogIsNeverEarly == Spec => IdleNeverEarly
<1> DEFINE Early == \A c \in Conns : conn[c] = "serving" /\ conn'[c] = "idleGrace" =>
                      active[c] = 0 /\ quiet[c] >= IdleTimeout
<1>1. IInv /\ [Next]_vars => [Early]_vars
  <2> SUFFICES ASSUME IInv, Next, NEW d \in Conns, conn[d] = "serving",
                      conn'[d] = "idleGrace"
               PROVE  active[d] = 0 /\ quiet[d] >= IdleTimeout
    OBVIOUS
  <2>0. TypeOK /\ ClockInv(d)
    BY DEF IInv
  <2>1. CASE ServerMoves \/ Tick
    BY <2>1 DEF ServerMoves, StartServing, AcceptFails, CancelApp, SeeCancellation,
         FinishDrain, Tick
  <2>2. ASSUME NEW c \in Conns, Accept(c) PROVE FALSE
    BY <2>0, <2>2 DEF Accept, TypeOK
  <2>3. ASSUME NEW c \in Conns, Ends(c) PROVE FALSE
    BY <2>0, <2>3 DEF Ends, Close, TypeOK
  <2>4. ASSUME NEW c \in Conns, TaskMoves(c)
        PROVE  active[d] = 0 /\ quiet[d] >= IdleTimeout
    <3>1. CASE WatchdogWakes(c)
      <4>1. c = d /\ active[d] = 0 /\ idleFor[d] >= IdleTimeout
        BY <2>0, <3>1 DEF WatchdogWakes, Under, TypeOK
      <4> QED BY <4>1, <2>0 DEF ClockInv
    <3>2. CASE ~WatchdogWakes(c)
      BY <2>0, <2>4, <3>2 DEF TaskMoves, RequestBegins, BodyEnds, SeeShutdown, RequestEnds,
           ConnectionUpgrades, UpgradeReady, ExchangeFails, Under, TypeOK
    <3> QED BY <3>1, <3>2
  <2> QED BY <2>1, <2>2, <2>3, <2>4, StepKinds
<1> QED BY <1>1, ServerInvariant, PTL DEF Spec, IdleNeverEarly

\* `serve` keeps the promise of every Web Ingress listener, for every budget.
THEOREM ServerIsOneListener == Spec => ServerImplementsBudget
<1>1. Init => Budget!Init
  BY LiveIsState DEF Init, Budget!Init, LiveStates, ConnStates
<1>2. IInv /\ [Next]_vars => [Budget!Next]_(Budget!vars)
  <2> SUFFICES ASSUME IInv, [Next]_vars
               PROVE  Budget!Next \/ UNCHANGED Budget!vars
    OBVIOUS
  <2>1. CASE UNCHANGED vars
    <3>1. Live' = Live
      BY <2>1, LiveIsState DEF vars
    <3> QED BY <2>1, <3>1 DEF vars, serverVars, Budget!vars
  <2>2. CASE Next
    <3>1. TypeOK /\ ServerInv /\ Cardinality(Live) \in Nat /\ permits \in Nat
          /\ MaxConnections \in Nat /\ permits + Cardinality(Live) = MaxConnections
      BY FS_CardinalityType, Constants DEF IInv, PermitInv, TypeOK
    <3>2. CASE NoMove
      BY <3>2 DEF NoMove, Gone, Budget!Next, Budget!OpenGate, Budget!vars
    <3>3. ASSUME NEW c \in Conns, Admits(c) PROVE Budget!Next
      <4>1. Cardinality(Live) < MaxConnections
        BY <3>1, <3>3 DEF Admits
      <4>2. Budget!Cardinality(Live) = Cardinality(Live)
        BY DEF Budget!Cardinality, Cardinality
      <4>3. Budget!Admit(c)
        BY <3>3, <4>1, <4>2 DEF Admits, Gone, Budget!Admit
      <4> QED BY <4>3 DEF Budget!Next
    <3>4. ASSUME NEW c \in Conns, Refuses(c) PROVE Budget!Next
      BY <3>4 DEF Refuses, Gone, Budget!Refuse, Budget!Next
    <3>5. ASSUME NEW c \in Conns, Closes(c) PROVE Budget!Next
      BY <3>5 DEF Closes, Gone, Budget!Close, Budget!Next
    <3> QED BY <2>2, <3>1, <3>2, <3>3, <3>4, <3>5, BudgetMoves
  <2> QED BY <2>1, <2>2
<1> QED BY <1>1, <1>2, ServerInvariant, PTL DEF Spec, ServerImplementsBudget, Budget!Spec
==============================================================================
