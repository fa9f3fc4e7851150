------------------------ MODULE ListenerCoordinator ------------------------
(***************************************************************************)
(* The same-port listener group of the Web Ingress plugin: one host-owned  *)
(* listener and acceptor thread, and ReplicaCount Kernel lanes that each   *)
(* run `serve` on the connections the acceptor hands them                  *)
(* (replication.rs, the accept loop of server.rs, the lifecycle hooks of   *)
(* native.rs and the host's shutdown in lenso-web-host).                   *)
(*                                                                         *)
(* The acceptor and every lane run on threads of their own.  A step is     *)
(* what one of them does between two points where another can interfere.   *)
(***************************************************************************)
EXTENDS Integers, Sequences, FiniteSets

CONSTANTS Conns,           \* client connections that may arrive
          ReplicaCount,    \* replica_count of bind: the number of lanes
          MaxConnections,  \* max_connections of the shared configuration
          Manifests,       \* route and middleware manifests lanes may publish
          AllocateCalls,   \* bound on the calls of allocate_replica
          NoManifest,      \* Option::None for a manifest
          NoConn           \* the acceptor holds no connection

ASSUME CoordinatorAssumption ==
  /\ ReplicaCount \in Nat \ {0}
  /\ MaxConnections \in Nat \ {0}
  /\ AllocateCalls \in Nat
  /\ NoManifest \notin Manifests
  /\ NoConn \notin Conns

Slots == 0 .. (ReplicaCount - 1)
NoSlot == -1

\* Mutant of QueueCapacity: the division rounds down.
QueueCapacityRoundedDown ==
  LET share == MaxConnections \div ReplicaCount
  IN  IF share < 1 THEN 1 ELSE share

\* `max_connections.div_ceil(slot_count).max(1)`
QueueCapacity ==
  LET share == (MaxConnections + ReplicaCount - 1) \div ReplicaCount
  IN  IF share < 1 THEN 1 ELSE share

NextSlot(s) == IF s = ReplicaCount - 1 THEN 0 ELSE s + 1

VARIABLES
  \* CoordinatorState and the atomics beside it
  allocated,       \* ReplicaSlot.allocated
  manifest,        \* ReplicaSlot.manifest; `connections` is set with it
  canonical,       \* canonical_manifest
  nextSlot,        \* next_slot
  nextConnection,  \* next_connection, modulo the slot count
  ready,           \* the `ready` watch
  failure,         \* the `acceptor_failure` watch holds a detail
  permits,         \* free permits of connection_concurrency
  \* the acceptor thread
  acceptor,        \* where it stands in spawn_acceptor / distribute_connection
  held,            \* the connection it is placing
  cursor,          \* the slot it tries next
  tried,           \* slots it has tried for this connection
  waiting,         \* waiting_senders: slots that were full when tried
  \* the lanes
  lane,            \* where the lane's ingress instance stands
  armed,           \* receive() passed its failure check and is parked
  cancelled,       \* the lane's App cancellation token
  released,        \* the lane's factory and lifecycle are dropped
  queue,           \* the lane's mpsc channel
  \* the connections and the host
  conn, owner,     \* where each connection is, and on which lane
  host             \* "running", "stopping" (app.shutdown), "dropped"

coordinatorVars == <<allocated, manifest, canonical, nextSlot, ready>>
acceptorVars == <<acceptor, held, cursor, tried, waiting, nextConnection>>
laneVars == <<lane, armed, cancelled, released>>
connVars == <<queue, conn, owner, permits>>
vars == <<coordinatorVars, acceptorVars, laneVars, connVars, failure, host>>

AcceptorStates == {"starting", "gated", "accepting", "admitting", "probing",
                   "reserving", "stopped"}
LaneStates == {"free", "allocated", "announcing", "registered", "serving",
               "draining", "failing", "stopped", "crashed", "rejected"}
ConnStates == {"new", "accepted", "admitted", "queued", "serving", "closed"}

\* The lane's mpsc receiver exists: ReplicaConnectionSource is not dropped.
Open(s) == lane[s] \in {"announcing", "registered", "serving", "draining", "failing"}

\* Some Arc<ListenerCoordinatorInner> is alive.
Alive ==
  \/ host # "dropped"
  \/ \E s \in Slots : allocated[s] /\ ~released[s]
  \/ acceptor \in {"probing", "reserving"}

\* Connections that own a permit of connection_concurrency.
Live == {c \in Conns : conn[c] \in {"admitted", "queued", "serving"}}
Serving(s) == {c \in Conns : conn[c] = "serving" /\ owner[c] = s}

Init ==
  /\ allocated = [s \in Slots |-> FALSE]
  /\ manifest = [s \in Slots |-> NoManifest]
  /\ canonical = NoManifest
  /\ nextSlot = 0
  /\ nextConnection = 0
  /\ ready = FALSE
  /\ failure = FALSE
  /\ permits = MaxConnections
  /\ acceptor = "starting"
  /\ held = NoConn
  /\ cursor = 0
  /\ tried = {}
  /\ waiting = {}
  /\ lane = [s \in Slots |-> "free"]
  /\ armed = [s \in Slots |-> FALSE]
  /\ cancelled = [s \in Slots |-> FALSE]
  /\ released = [s \in Slots |-> FALSE]
  /\ queue = [s \in Slots |-> <<>>]
  /\ conn = [c \in Conns |-> "new"]
  /\ owner = [c \in Conns |-> NoSlot]
  /\ host = "running"
-----------------------------------------------------------------------------
(* Helpers shared by the actions.                                          *)

\* Dropping a ReplicaConnection: the socket closes and its permit returns.
DropConnection(c) ==
  /\ conn' = [conn EXCEPT ![c] = "closed"]
  /\ owner' = [owner EXCEPT ![c] = NoSlot]
  /\ permits' = permits + 1

\* report_acceptor_failure: only an existing coordinator can be told.
ReportFailure == failure' = (failure \/ Alive)

\* distribute_connection returns to the accept loop.
ResumeAccepting ==
  /\ acceptor' = "accepting"
  /\ held' = NoConn
  /\ tried' = {}
  /\ waiting' = {}

\* A send into slot s succeeds: the connection is queued there.
SendTo(s) ==
  /\ queue' = [queue EXCEPT ![s] = Append(@, held)]
  /\ conn' = [conn EXCEPT ![held] = "queued"]
  /\ owner' = [owner EXCEPT ![held] = s]
  /\ ResumeAccepting
  /\ UNCHANGED <<permits, cursor, nextConnection>>

\* Mutant of HasRoom: a channel takes one connection too many.
HasRoomOneOver(s) == Open(s) /\ Len(queue[s]) <= QueueCapacity

HasRoom(s) == Open(s) /\ Len(queue[s]) < QueueCapacity
-----------------------------------------------------------------------------
(* Slot allocation and registration, called by the host and the lanes.     *)

\* allocate_replica_at succeeds; a taken or unknown slot changes nothing.
AllocateReplicaAt(s) ==
  /\ host # "dropped"
  /\ ~allocated[s]
  /\ allocated' = [allocated EXCEPT ![s] = TRUE]
  /\ lane' = [lane EXCEPT ![s] = "allocated"]
  /\ UNCHANGED <<manifest, canonical, nextSlot, ready, acceptorVars, armed,
                 cancelled, released, connVars, failure, host>>

\* allocate_replica burns an index of next_slot even when the slot is taken.
AllocateReplica ==
  /\ host # "dropped"
  /\ nextSlot < AllocateCalls
  /\ nextSlot' = nextSlot + 1
  /\ LET fresh == {s \in Slots : s = nextSlot /\ ~allocated[s]}
     IN  /\ allocated' = [s \in Slots |-> allocated[s] \/ s \in fresh]
         /\ lane' = [s \in Slots |-> IF s \in fresh THEN "allocated" ELSE lane[s]]
  /\ UNCHANGED <<manifest, canonical, ready, acceptorVars, armed, cancelled,
                 released, connVars, failure, host>>

\* instantiate or activate fails before register: the lane's configuration is
\* not the coordinator's, or its routes do not resolve.
RejectInstance(s) ==
  /\ lane[s] = "allocated"
  /\ lane' = [lane EXCEPT ![s] = "rejected"]
  /\ UNCHANGED <<coordinatorVars, acceptorVars, armed, cancelled, released,
                 connVars, failure, host>>

\* Mutant of Register: the first lane to register opens the gate.
RegisterAnnouncesFirst(s, m) ==
  /\ lane[s] = "allocated"
  /\ canonical \in {NoManifest, m}
  /\ canonical' = m
  /\ manifest' = [manifest EXCEPT ![s] = m]
  /\ lane' = [lane EXCEPT ![s] = "announcing"]
  /\ UNCHANGED <<allocated, nextSlot, ready, acceptorVars, armed, cancelled,
                 released, connVars, failure, host>>

\* register with a manifest that agrees with the canonical one, under the lock.
\* The lane that completes the group opens the gate after it unlocks.
Register(s, m) ==
  /\ lane[s] = "allocated"
  /\ canonical \in {NoManifest, m}
  /\ canonical' = m
  /\ manifest' = [manifest EXCEPT ![s] = m]
  /\ lane' = [lane EXCEPT ![s] =
       IF \A t \in Slots : manifest'[t] # NoManifest THEN "announcing" ELSE "registered"]
  /\ UNCHANGED <<allocated, nextSlot, ready, acceptorVars, armed, cancelled,
                 released, connVars, failure, host>>

\* register with a different manifest: an error, and the slot stays empty.
RegisterMismatch(s, m) ==
  /\ lane[s] = "allocated"
  /\ canonical \notin {NoManifest, m}
  /\ lane' = [lane EXCEPT ![s] = "rejected"]
  /\ UNCHANGED <<coordinatorVars, acceptorVars, armed, cancelled, released,
                 connVars, failure, host>>

\* `ready.send_replace(true)`, after the state lock is dropped.
AnnounceReady(s) ==
  /\ lane[s] = "announcing"
  /\ lane' = [lane EXCEPT ![s] = "registered"]
  /\ ready' = TRUE
  /\ UNCHANGED <<allocated, manifest, canonical, nextSlot, acceptorVars, armed,
                 cancelled, released, connVars, failure, host>>
-----------------------------------------------------------------------------
(* The acceptor thread: spawn_acceptor and distribute_connection.          *)

\* The acceptor's runtime is built, and it waits for the gate.
StartAcceptor ==
  /\ acceptor = "starting"
  /\ acceptor' = "gated"
  /\ UNCHANGED <<coordinatorVars, held, cursor, tried, waiting, nextConnection,
                 laneVars, connVars, failure, host>>

\* `ready` is true and the listener is registered with the acceptor's reactor.
PassGate ==
  /\ acceptor = "gated"
  /\ ready
  /\ acceptor' = "accepting"
  /\ UNCHANGED <<coordinatorVars, held, cursor, tried, waiting, nextConnection,
                 laneVars, connVars, failure, host>>

\* The runtime cannot be built, the listener cannot be registered, or accept
\* itself fails: every one of them is reported and ends the thread.
AcceptorFails ==
  /\ \/ acceptor \in {"starting", "accepting"}
     \/ acceptor = "gated" /\ ready
  /\ acceptor' = "stopped"
  /\ ReportFailure
  /\ UNCHANGED <<coordinatorVars, held, cursor, tried, waiting, nextConnection,
                 laneVars, connVars, host>>

\* An accepted socket cannot leave the acceptor's reactor (into_std fails).
SocketTransferFails(c) ==
  /\ acceptor = "accepting"
  /\ conn[c] = "new"
  /\ conn' = [conn EXCEPT ![c] = "closed"]
  /\ acceptor' = "stopped"
  /\ ReportFailure
  /\ UNCHANGED <<coordinatorVars, held, cursor, tried, waiting, nextConnection,
                 laneVars, queue, owner, permits, host>>

\* Mutant of AcceptorShutsDown: only the accept loop watches `shutdown`.
AcceptorShutsDownLate ==
  /\ acceptor = "accepting"
  /\ ~Alive
  /\ acceptor' = "stopped"
  /\ UNCHANGED <<coordinatorVars, held, cursor, tried, waiting, nextConnection,
                 laneVars, connVars, failure, host>>

\* The coordinator is gone: its `_shutdown` (and `ready`) senders are dropped.
AcceptorShutsDown ==
  /\ acceptor \in {"gated", "accepting"}
  /\ ~Alive
  /\ acceptor' = "stopped"
  /\ UNCHANGED <<coordinatorVars, held, cursor, tried, waiting, nextConnection,
                 laneVars, connVars, failure, host>>

Accept(c) ==
  /\ acceptor = "accepting"
  /\ conn[c] = "new"
  /\ conn' = [conn EXCEPT ![c] = "accepted"]
  /\ held' = c
  /\ acceptor' = "admitting"
  /\ UNCHANGED <<coordinatorVars, cursor, tried, waiting, nextConnection,
                 laneVars, queue, owner, permits, failure, host>>

\* distribute_connection up to the round robin: upgrade the weak handle and
\* take a connection permit without waiting, or drop the socket.
Admit ==
  /\ acceptor = "admitting"
  /\ IF Alive /\ permits > 0
     THEN /\ acceptor' = "probing"
          /\ permits' = permits - 1
          /\ conn' = [conn EXCEPT ![held] = "admitted"]
          /\ cursor' = nextConnection
          /\ nextConnection' = NextSlot(nextConnection)
          /\ UNCHANGED <<held, tried, waiting>>
     ELSE /\ conn' = [conn EXCEPT ![held] = "closed"]
          /\ ResumeAccepting
          /\ UNCHANGED <<permits, cursor, nextConnection>>
  /\ UNCHANGED <<coordinatorVars, laneVars, queue, owner, failure, host>>

\* One turn of the round robin: try_send to the slot under the cursor.
ProbeSends ==
  /\ acceptor = "probing"
  /\ HasRoom(cursor)
  /\ SendTo(cursor)
  /\ UNCHANGED <<coordinatorVars, laneVars, failure, host>>

\* try_send gives the connection back; only a Full slot is waited for later.
ProbeReturns ==
  /\ acceptor = "probing"
  /\ ~HasRoom(cursor)
  /\ tried' = tried \cup {cursor}
  /\ waiting' = IF Open(cursor) THEN waiting \cup {cursor} ELSE waiting
  /\ IF tried' = Slots
     THEN acceptor' = "reserving" /\ UNCHANGED cursor
     ELSE cursor' = NextSlot(cursor) /\ UNCHANGED acceptor
  /\ UNCHANGED <<coordinatorVars, held, nextConnection, laneVars, connVars,
                 failure, host>>

\* The first reservation that completes gets the connection.
ReservationGranted(s) ==
  /\ acceptor = "reserving"
  /\ s \in waiting
  /\ HasRoom(s)
  /\ SendTo(s)
  /\ UNCHANGED <<coordinatorVars, laneVars, failure, host>>

\* Mutant of ReservationFails: a failed reservation is polled for ever.
ReservationFailsRetried(s) ==
  /\ acceptor = "reserving"
  /\ s \in waiting
  /\ ~Open(s)
  /\ UNCHANGED vars

\* A waited-for lane closes its receiver: its reservation fails.
ReservationFails(s) ==
  /\ acceptor = "reserving"
  /\ s \in waiting
  /\ ~Open(s)
  /\ waiting' = waiting \ {s}
  /\ UNCHANGED <<coordinatorVars, acceptor, held, cursor, tried, nextConnection,
                 laneVars, connVars, failure, host>>

\* Mutant of GiveUp: the dropped connection keeps its permit.
GiveUpKeepsPermit ==
  /\ acceptor = "reserving"
  /\ waiting = {}
  /\ conn' = [conn EXCEPT ![held] = "closed"]
  /\ ResumeAccepting
  /\ UNCHANGED <<coordinatorVars, cursor, nextConnection, laneVars, queue,
                 owner, permits, failure, host>>

\* Mutant of GiveUp: the connection is put back to be admitted once more.
GiveUpRetries ==
  /\ acceptor = "reserving"
  /\ waiting = {}
  /\ acceptor' = "admitting"
  /\ conn' = [conn EXCEPT ![held] = "accepted"]
  /\ permits' = permits + 1
  /\ UNCHANGED <<coordinatorVars, held, cursor, tried, waiting, nextConnection, laneVars,
                 queue, owner, failure, host>>

\* No reservation is left: the connection is dropped with its permit.
GiveUp ==
  /\ acceptor = "reserving"
  /\ waiting = {}
  /\ DropConnection(held)
  /\ ResumeAccepting
  /\ UNCHANGED <<coordinatorVars, cursor, nextConnection, laneVars, queue,
                 failure, host>>
-----------------------------------------------------------------------------
(* A lane: the server task of native.rs and the accept loop of `serve`.    *)

\* readiness.wait() returns and `serve` starts.
StartServing(s) ==
  /\ lane[s] = "registered"
  /\ lane' = [lane EXCEPT ![s] = "serving"]
  /\ UNCHANGED <<coordinatorVars, acceptorVars, armed, cancelled, released,
                 connVars, failure, host>>

\* The server task cannot be spawned, or is dropped before readiness.
TaskNotStarted(s) ==
  /\ lane[s] = "registered"
  /\ lane' = [lane EXCEPT ![s] = "stopped"]
  /\ UNCHANGED <<coordinatorVars, acceptorVars, armed, cancelled, released,
                 connVars, failure, host>>

\* receive() finds no acceptor failure and parks in its select.
ArmReceive(s) ==
  /\ lane[s] = "serving"
  /\ ~armed[s]
  /\ ~failure
  /\ armed' = [armed EXCEPT ![s] = TRUE]
  /\ UNCHANGED <<coordinatorVars, acceptorVars, lane, cancelled, released,
                 connVars, failure, host>>

\* The parked receive() yields a connection and its task is spawned.  A
\* failure reported meanwhile does not stop this one.
ReceiveConnection(s) ==
  /\ lane[s] = "serving"
  /\ armed[s]
  /\ queue[s] # <<>>
  /\ armed' = [armed EXCEPT ![s] = FALSE]
  /\ queue' = [queue EXCEPT ![s] = Tail(@)]
  /\ conn' = [conn EXCEPT ![Head(queue[s])] = "serving"]
  /\ UNCHANGED <<coordinatorVars, acceptorVars, lane, cancelled, released,
                 owner, permits, failure, host>>

\* from_std fails on a received socket: the whole server drains and errors.
SocketRegistrationFails(s) ==
  /\ lane[s] = "serving"
  /\ armed[s]
  /\ queue[s] # <<>>
  /\ armed' = [armed EXCEPT ![s] = FALSE]
  /\ queue' = [queue EXCEPT ![s] = Tail(@)]
  /\ DropConnection(Head(queue[s]))
  /\ lane' = [lane EXCEPT ![s] = "failing"]
  /\ UNCHANGED <<coordinatorVars, acceptorVars, cancelled, released, failure, host>>

\* Mutant of SeeFailure: a parked receive() does not watch acceptor_failure.
SeeFailureUnparked(s) ==
  /\ lane[s] = "serving"
  /\ failure
  /\ ~armed[s]
  /\ lane' = [lane EXCEPT ![s] = "failing"]
  /\ UNCHANGED <<coordinatorVars, acceptorVars, armed, cancelled, released,
                 connVars, failure, host>>

\* receive() returns the acceptor's failure: drain, then return the error.
SeeFailure(s) ==
  /\ lane[s] = "serving"
  /\ failure
  /\ lane' = [lane EXCEPT ![s] = "failing"]
  /\ armed' = [armed EXCEPT ![s] = FALSE]
  /\ UNCHANGED <<coordinatorVars, acceptorVars, cancelled, released, connVars,
                 failure, host>>

\* App cancellation: `serve` stops receiving and drains its connections.  The
\* source, and so the receiver, lives until `serve` returns.
SeeCancellation(s) ==
  /\ lane[s] = "serving"
  /\ cancelled[s]
  /\ lane' = [lane EXCEPT ![s] = "draining"]
  /\ armed' = [armed EXCEPT ![s] = FALSE]
  /\ UNCHANGED <<coordinatorVars, acceptorVars, cancelled, released, connVars,
                 failure, host>>

\* The coordinator is dropped under a parked receive(): Ok(None).
SourceEnds(s) ==
  /\ lane[s] = "serving"
  /\ armed[s]
  /\ ~failure
  /\ ~Alive
  /\ lane' = [lane EXCEPT ![s] = "draining"]
  /\ armed' = [armed EXCEPT ![s] = FALSE]
  /\ UNCHANGED <<coordinatorVars, acceptorVars, cancelled, released, connVars,
                 failure, host>>

\* A connection task ends; a serving lane goes round its select again.
ConnectionEnds(s, c) ==
  /\ c \in Serving(s)
  /\ DropConnection(c)
  /\ armed' = [armed EXCEPT ![s] = FALSE]
  /\ UNCHANGED <<coordinatorVars, acceptorVars, lane, cancelled, released,
                 queue, failure, host>>

\* A connection task panics and `serve` sees the JoinError: it signals the
\* others and returns at once, leaving their tasks detached.
ConnectionPanics(s, c) ==
  /\ lane[s] = "serving"
  /\ c \in Serving(s)
  /\ DropConnection(c)
  /\ lane' = [lane EXCEPT ![s] = "crashed"]
  /\ armed' = [armed EXCEPT ![s] = FALSE]
  /\ UNCHANGED <<coordinatorVars, acceptorVars, cancelled, released, queue,
                 failure, host>>

\* Every connection task has ended: `serve` returns and drops its source.
FinishDrain(s) ==
  /\ lane[s] \in {"draining", "failing"}
  /\ Serving(s) = {}
  /\ lane' = [lane EXCEPT ![s] = IF @ = "draining" THEN "stopped" ELSE "crashed"]
  /\ UNCHANGED <<coordinatorVars, acceptorVars, armed, cancelled, released,
                 connVars, failure, host>>

\* The dropped receiver drops the connections still queued, one at a time.
DropQueued(s) ==
  /\ lane[s] \in {"stopped", "crashed"}
  /\ queue[s] # <<>>
  /\ queue' = [queue EXCEPT ![s] = Tail(@)]
  /\ DropConnection(Head(queue[s]))
  /\ UNCHANGED <<coordinatorVars, acceptorVars, laneVars, failure, host>>
-----------------------------------------------------------------------------
(* The host and the Runner.                                                *)

\* RunningReplicatedWebHost::shutdown starts (or the group fails to start).
BeginShutdown ==
  /\ host = "running"
  /\ host' = "stopping"
  /\ UNCHANGED <<coordinatorVars, acceptorVars, laneVars, connVars, failure>>

\* The Runner cancels a lane's App, at shutdown or on its own.
CancelLane(s) ==
  /\ allocated[s]
  /\ ~cancelled[s]
  /\ cancelled' = [cancelled EXCEPT ![s] = TRUE]
  /\ UNCHANGED <<coordinatorVars, acceptorVars, lane, armed, released, connVars,
                 failure, host>>

\* A lane's factory and plugin instance are dropped with their replica handle.
ReleaseLane(s) ==
  /\ allocated[s]
  /\ ~released[s]
  /\ \/ lane[s] \in {"rejected", "stopped", "crashed"}
     \/ cancelled[s] /\ lane[s] \in {"registered", "serving", "draining", "failing"}
  /\ released' = [released EXCEPT ![s] = TRUE]
  /\ UNCHANGED <<coordinatorVars, acceptorVars, lane, armed, cancelled, connVars,
                 failure, host>>

\* shutdown returns, its work done or its timeout over, and drops the host's
\* coordinator handle.
DropHost ==
  /\ host = "stopping"
  /\ host' = "dropped"
  /\ UNCHANGED <<coordinatorVars, acceptorVars, laneVars, connVars, failure>>
-----------------------------------------------------------------------------
AcceptorStep ==
  \/ StartAcceptor \/ PassGate \/ AcceptorShutsDown
  \/ Admit \/ ProbeSends \/ ProbeReturns \/ GiveUp
  \/ \E s \in Slots : ReservationGranted(s) \/ ReservationFails(s)

LaneStep(s) ==
  \/ AnnounceReady(s) \/ StartServing(s) \/ TaskNotStarted(s)
  \/ ArmReceive(s) \/ ReceiveConnection(s) \/ SeeFailure(s) \/ SeeCancellation(s)
  \/ SourceEnds(s) \/ FinishDrain(s) \/ DropQueued(s)

Next ==
  \/ AcceptorStep
  \/ AcceptorFails
  \/ \E c \in Conns : Accept(c) \/ SocketTransferFails(c)
  \/ AllocateReplica
  \/ \E s \in Slots :
       \/ LaneStep(s)
       \/ AllocateReplicaAt(s) \/ RejectInstance(s)
       \/ \E m \in Manifests : Register(s, m) \/ RegisterMismatch(s, m)
       \/ SocketRegistrationFails(s)
       \/ \E c \in Conns : ConnectionEnds(s, c) \/ ConnectionPanics(s, c)
       \/ CancelLane(s) \/ ReleaseLane(s)
  \/ BeginShutdown
  \/ DropHost

Spec == Init /\ [][Next]_vars

\* Threads and tasks are scheduled; a shutdown reaches every lane; drained
\* connections end within their grace.  Clients, failures and the decision to
\* shut down are left free.
Fairness ==
  /\ WF_vars(AcceptorStep)
  /\ \A s \in Slots :
       /\ WF_vars(LaneStep(s))
       /\ WF_vars(lane[s] # "serving" /\ \E c \in Conns : ConnectionEnds(s, c))
       /\ WF_vars(host # "running" /\ CancelLane(s))
       /\ WF_vars(host # "running" /\ RejectInstance(s))
       /\ WF_vars(ReleaseLane(s))
  /\ WF_vars(DropHost)

FairSpec == Spec /\ Fairness
-----------------------------------------------------------------------------
TypeOK ==
  /\ allocated \in [Slots -> BOOLEAN]
  /\ manifest \in [Slots -> Manifests \cup {NoManifest}]
  /\ canonical \in Manifests \cup {NoManifest}
  /\ nextSlot \in Nat
  /\ nextConnection \in Slots
  /\ ready \in BOOLEAN
  /\ failure \in BOOLEAN
  /\ permits \in Nat
  /\ acceptor \in AcceptorStates
  /\ held \in Conns \cup {NoConn}
  /\ cursor \in Slots
  /\ tried \in SUBSET Slots
  /\ waiting \in SUBSET Slots
  /\ lane \in [Slots -> LaneStates]
  /\ armed \in [Slots -> BOOLEAN]
  /\ cancelled \in [Slots -> BOOLEAN]
  /\ released \in [Slots -> BOOLEAN]
  /\ queue \in [Slots -> Seq(Conns)]
  /\ conn \in [Conns -> ConnStates]
  /\ owner \in [Conns -> Slots \cup {NoSlot}]
  /\ host \in {"running", "stopping", "dropped"}

\* Every permit of connection_concurrency is either free or owned by exactly
\* one admitted, queued or served connection, so the group never exceeds its
\* budget and never loses a permit, whatever fails or is cancelled.
PermitsConserved == permits + Cardinality(Live) = MaxConnections

\* Past the gate every slot has published one and the same manifest: no
\* connection is accepted for a group that could route it differently.
GateNeedsAgreement ==
  acceptor \in {"accepting", "admitting", "probing", "reserving"} =>
    \A s \in Slots : manifest[s] # NoManifest /\ manifest[s] = canonical

\* A lane's channel never holds more than its capacity, holds each connection
\* once, and holds exactly the connections that are queued for that lane: a
\* queued connection is never stranded with its permit.
QueuesExact ==
  \A s \in Slots :
    /\ Len(queue[s]) <= QueueCapacity
    /\ \A i, j \in 1 .. Len(queue[s]) : i # j => queue[s][i] # queue[s][j]
    /\ {queue[s][i] : i \in 1 .. Len(queue[s])}
         = {c \in Conns : conn[c] = "queued" /\ owner[c] = s}

\* The acceptor blocks in distribute_connection, holding the coordinator
\* alive and deaf to shutdown, only once some lane has closed its receiver:
\* the capacities together cover the whole connection budget.
NeverBlocksWhileAllOpen ==
  acceptor = "reserving" => \E s \in Slots : ~Open(s)

\* The listener group is one listener to its clients: it admits nothing before
\* the gate, keeps within the budget, and closes every connection once.
Budget == INSTANCE ConnectionBudget
  WITH gate <- ready,
       live <- Live,
       gone <- {c \in Conns : conn[c] = "closed"}

ImplementsBudget == Budget!Spec

\* An accepted connection does not hang between the acceptor and a lane: it is
\* served or closed, although lanes stop, fail or fill up on the way.
ConnectionsSettle ==
  \A c \in Conns :
    conn[c] \in {"accepted", "admitted", "queued"} ~> conn[c] \in {"serving", "closed"}

\* An acceptor failure ends every serving lane with an error, unless the lane
\* is being cancelled anyway: no lane goes on waiting for a dead listener.
FailureReachesLanes ==
  \A s \in Slots :
    (failure /\ lane[s] = "serving") ~> (lane[s] = "crashed" \/ cancelled[s])

\* Shutdown ends the acceptor thread and returns every permit, although the
\* acceptor keeps the coordinator alive while it places a connection.
ShutdownCompletes ==
  host # "running" ~> (acceptor = "stopped" /\ permits = MaxConnections)

\* docs/adr/0002: "Shutdown stops new accepts first".
ShutdownStopsAccepts ==
  [][host # "running" => \A c \in Conns : conn[c] = "new" => conn'[c] = "new"]_vars
=============================================================================
