--------------------- MODULE ListenerCoordinator_proofs ---------------------
(***************************************************************************)
(* Proofs, for every number of lanes, connections and permits, of the      *)
(* safety of the same-port listener group: type correctness, conservation  *)
(* of connection permits, exactness of the lane queues, the manifest gate, *)
(* and that the acceptor never blocks while every lane is open.            *)
(***************************************************************************)
EXTENDS ListenerCoordinator, QueueTheorems, FiniteSetTheorems

\* The connection the acceptor places is where the accept loop left it.
HeldInv ==
  /\ acceptor = "admitting" => held \in Conns /\ conn[held] = "accepted"
  /\ acceptor \in {"probing", "reserving"} => held \in Conns /\ conn[held] = "admitted"
  /\ acceptor \notin {"probing", "reserving"} => tried = {}

Agreed == \A s \in Slots : manifest[s] # NoManifest /\ manifest[s] = canonical

\* A slot that is not allocated has no plugin instance yet.
AllocInv == \A s \in Slots : ~allocated[s] => lane[s] = "free"

\* The gate is decided by manifests that only move from None to canonical.
GateInv ==
  /\ \A s \in Slots : manifest[s] \in {NoManifest, canonical}
  /\ \A s \in Slots : lane[s] \in {"free", "allocated"} => manifest[s] = NoManifest
  /\ \A s \in Slots : lane[s] = "announcing" => Agreed
  /\ ready => Agreed
  /\ acceptor \in {"accepting", "admitting", "probing", "reserving"} => ready

\* While every lane is open, the round robin still has a slot with room ahead.
RoomInv ==
  acceptor = "probing" /\ (\A s \in Slots : Open(s)) =>
    \E s \in Slots \ tried : Len(queue[s]) < QueueCapacity

ConnInv == TypeOK /\ HeldInv /\ QueuesExact

IInv ==
  /\ ConnInv
  /\ IsFiniteSet(Live)
  /\ PermitsConserved
  /\ AllocInv
  /\ GateInv
  /\ RoomInv
  /\ NeverBlocksWhileAllOpen
-----------------------------------------------------------------------------
(* The moves of a connection.                                              *)

\* The head of a lane's channel is dropped, by a failed lane or a closed one.
HeadDropped(s) ==
  /\ queue[s] # <<>>
  /\ queue' = [queue EXCEPT ![s] = Tail(@)]
  /\ DropConnection(Head(queue[s]))
  /\ UNCHANGED <<acceptorVars, ready>>

\* A connection task of lane s is over.
TaskOver(s, c) ==
  /\ c \in Serving(s)
  /\ DropConnection(c)
  /\ UNCHANGED <<queue, acceptorVars, ready>>

\* The acceptor hands its connection to lane s.
HandedOver(s) ==
  /\ acceptor \in {"probing", "reserving"}
  /\ HasRoom(s)
  /\ SendTo(s)
  /\ UNCHANGED ready

\* The acceptor moves on without touching a connection.
AcceptorMoves ==
  /\ UNCHANGED connVars
  /\ \/ StartAcceptor \/ PassGate \/ AcceptorFails \/ AcceptorShutsDown
     \/ ProbeReturns \/ \E s \in Slots : ReservationFails(s)

\* A connection changes place only in these ways.
ConnectionStep ==
  \/ \E c \in Conns : Accept(c) \/ SocketTransferFails(c)
  \/ Admit
  \/ GiveUp
  \/ \E s \in Slots : HandedOver(s) \/ ReceiveConnection(s) \/ HeadDropped(s)
  \/ \E s \in Slots, c \in Conns : TaskOver(s, c)

\* What a lane or the host does leaves connections and the acceptor alone,
\* except for the moves named above.
LEMMA StepKinds ==
  ASSUME TypeOK, Next
  PROVE  \/ UNCHANGED <<connVars, acceptorVars>> /\ (ready => ready')
         \/ AcceptorMoves /\ UNCHANGED ready
         \/ ConnectionStep
<1> USE DEF connVars, acceptorVars, laneVars, coordinatorVars
<1>1. CASE AcceptorStep
  <2>1. CASE ProbeSends
    BY <2>1 DEF ProbeSends, ConnectionStep, HandedOver, TypeOK
  <2>2. CASE \E s \in Slots : ReservationGranted(s)
    BY <2>2 DEF ReservationGranted, ConnectionStep, HandedOver
  <2>3. CASE StartAcceptor \/ PassGate \/ AcceptorShutsDown \/ ProbeReturns
    BY <2>3 DEF AcceptorMoves, StartAcceptor, PassGate, AcceptorShutsDown, ProbeReturns
  <2>4. CASE \E s \in Slots : ReservationFails(s)
    BY <2>4 DEF AcceptorMoves, ReservationFails
  <2> QED BY <1>1, <2>1, <2>2, <2>3, <2>4 DEF AcceptorStep, ConnectionStep
<1>2. CASE AcceptorFails
  BY <1>2 DEF AcceptorFails, AcceptorMoves
<1>3. CASE \E c \in Conns : Accept(c) \/ SocketTransferFails(c)
  BY <1>3 DEF ConnectionStep
<1>4. CASE AllocateReplica \/ BeginShutdown \/ DropHost
  BY <1>4 DEF AllocateReplica, BeginShutdown, DropHost
<1>5. ASSUME NEW s \in Slots, LaneStep(s)
      PROVE  (UNCHANGED <<connVars, acceptorVars>> /\ (ready => ready')) \/ ConnectionStep
  <2>1. CASE DropQueued(s)
    BY <2>1 DEF DropQueued, ConnectionStep, HeadDropped
  <2>2. CASE AnnounceReady(s) \/ StartServing(s) \/ TaskNotStarted(s) \/ ArmReceive(s)
    BY <2>2 DEF AnnounceReady, StartServing, TaskNotStarted, ArmReceive
  <2>3. CASE SeeFailure(s) \/ SeeCancellation(s) \/ SourceEnds(s) \/ FinishDrain(s)
    BY <2>3 DEF SeeFailure, SeeCancellation, SourceEnds, FinishDrain
  <2> QED BY <1>5, <2>1, <2>2, <2>3 DEF LaneStep, ConnectionStep
<1>6. ASSUME NEW s \in Slots, NEW m \in Manifests,
             Register(s, m) \/ RegisterMismatch(s, m)
      PROVE  UNCHANGED <<connVars, acceptorVars, ready>>
  BY <1>6 DEF Register, RegisterMismatch
<1>7. ASSUME NEW s \in Slots, NEW c \in Conns,
             ConnectionEnds(s, c) \/ ConnectionPanics(s, c)
      PROVE  ConnectionStep
  BY <1>7 DEF ConnectionEnds, ConnectionPanics, ConnectionStep, TaskOver
<1>8. ASSUME NEW s \in Slots, SocketRegistrationFails(s)
      PROVE  ConnectionStep
  BY <1>8 DEF SocketRegistrationFails, ConnectionStep, HeadDropped
<1>9. ASSUME NEW s \in Slots,
             AllocateReplicaAt(s) \/ RejectInstance(s) \/ CancelLane(s) \/ ReleaseLane(s)
      PROVE  UNCHANGED <<connVars, acceptorVars, ready>>
  BY <1>9 DEF AllocateReplicaAt, RejectInstance, CancelLane, ReleaseLane
<1> QED BY <1>1, <1>2, <1>3, <1>4, <1>5, <1>6, <1>7, <1>8, <1>9 DEF Next
-----------------------------------------------------------------------------
(* Type correctness.                                                       *)

\* The lane, slot and host halves of TypeOK, which no connection decides.
GroupTypeOK ==
  /\ allocated \in [Slots -> BOOLEAN]
  /\ manifest \in [Slots -> Manifests \cup {NoManifest}]
  /\ canonical \in Manifests \cup {NoManifest}
  /\ nextSlot \in Nat
  /\ ready \in BOOLEAN
  /\ failure \in BOOLEAN
  /\ lane \in [Slots -> LaneStates]
  /\ armed \in [Slots -> BOOLEAN]
  /\ cancelled \in [Slots -> BOOLEAN]
  /\ released \in [Slots -> BOOLEAN]
  /\ host \in {"running", "stopping", "dropped"}

PlacementTypeOK ==
  /\ nextConnection \in Slots
  /\ permits \in Nat
  /\ acceptor \in AcceptorStates
  /\ held \in Conns \cup {NoConn}
  /\ cursor \in Slots
  /\ tried \in SUBSET Slots
  /\ waiting \in SUBSET Slots
  /\ queue \in [Slots -> Seq(Conns)]
  /\ conn \in [Conns -> ConnStates]
  /\ owner \in [Conns -> Slots \cup {NoSlot}]

\* Type correctness splits into the group's and the connections' half.
LEMMA TypeHalves == TypeOK <=> GroupTypeOK /\ PlacementTypeOK
BY DEF TypeOK, GroupTypeOK, PlacementTypeOK

\* Every step keeps the coordinator, the lanes and the host well typed.
LEMMA GroupTypeStep ==
  ASSUME GroupTypeOK, Next
  PROVE  GroupTypeOK'
<1> USE DEF GroupTypeOK, LaneStates, connVars, acceptorVars, laneVars, coordinatorVars
<1>1. CASE AcceptorStep
  BY <1>1 DEF AcceptorStep, StartAcceptor, PassGate, AcceptorShutsDown, Admit,
       ProbeSends, ProbeReturns, GiveUp, ReservationGranted, ReservationFails
<1>2. CASE AcceptorFails \/ \E c \in Conns : Accept(c) \/ SocketTransferFails(c)
  <2>1. failure' = failure \/ failure' = (failure \/ Alive)
    BY <1>2 DEF AcceptorFails, Accept, SocketTransferFails, ReportFailure
  <2>2. (failure \/ Alive) \in BOOLEAN
    BY DEF Alive
  <2>3. failure' \in BOOLEAN
    BY <2>1, <2>2, Zenon
  <2>4. UNCHANGED <<coordinatorVars, laneVars, host>>
    BY <1>2 DEF AcceptorFails, Accept, SocketTransferFails
  <2> QED BY <2>3, <2>4
<1>3. CASE AllocateReplica
  <2>1. allocated' \in [Slots -> BOOLEAN]
    BY <1>3 DEF AllocateReplica
  <2>2. lane' \in [Slots -> LaneStates] /\ nextSlot' \in Nat
    BY <1>3 DEF AllocateReplica
  <2> QED BY <1>3, <2>1, <2>2 DEF AllocateReplica
<1>4. CASE BeginShutdown \/ DropHost
  BY <1>4 DEF BeginShutdown, DropHost
<1>5. ASSUME NEW s \in Slots, LaneStep(s)
      PROVE  GroupTypeOK'
  <2>1. CASE AnnounceReady(s) \/ StartServing(s) \/ TaskNotStarted(s)
    BY <2>1 DEF AnnounceReady, StartServing, TaskNotStarted
  <2>2. CASE ArmReceive(s) \/ ReceiveConnection(s) \/ DropQueued(s)
    BY <2>2 DEF ArmReceive, ReceiveConnection, DropQueued
  <2>3. CASE SeeFailure(s) \/ SeeCancellation(s) \/ SourceEnds(s)
    BY <2>3 DEF SeeFailure, SeeCancellation, SourceEnds
  <2>4. CASE FinishDrain(s)
    BY <2>4 DEF FinishDrain
  <2> QED BY <1>5, <2>1, <2>2, <2>3, <2>4 DEF LaneStep
<1>6. ASSUME NEW s \in Slots, NEW m \in Manifests,
             Register(s, m) \/ RegisterMismatch(s, m)
      PROVE  GroupTypeOK'
  BY <1>6 DEF Register, RegisterMismatch
<1>7. ASSUME NEW s \in Slots, NEW c \in Conns,
             ConnectionEnds(s, c) \/ ConnectionPanics(s, c)
      PROVE  GroupTypeOK'
  BY <1>7 DEF ConnectionEnds, ConnectionPanics
<1>8. ASSUME NEW s \in Slots, SocketRegistrationFails(s)
      PROVE  GroupTypeOK'
  BY <1>8 DEF SocketRegistrationFails
<1>9. ASSUME NEW s \in Slots,
             AllocateReplicaAt(s) \/ RejectInstance(s) \/ CancelLane(s) \/ ReleaseLane(s)
      PROVE  GroupTypeOK'
  BY <1>9 DEF AllocateReplicaAt, RejectInstance, CancelLane, ReleaseLane
<1> QED BY <1>1, <1>2, <1>3, <1>4, <1>5, <1>6, <1>7, <1>8, <1>9 DEF Next
-----------------------------------------------------------------------------
(* The placement of connections: TypeOK, HeldInv and QueuesExact together. *)

\* Slots wrap around, and every channel has at least one place.
LEMMA SlotFacts ==
  /\ 0 \in Slots
  /\ \A s \in Slots : NextSlot(s) \in Slots
  /\ QueueCapacity \in Nat \ {0}
BY CoordinatorAssumption DEF Slots, NextSlot, QueueCapacity

QueuedFor(s) == {c \in Conns : conn[c] = "queued" /\ owner[c] = s}

\* QueuesExact in terms of the elements of a queue.
LEMMA QueuesExactElements ==
  QueuesExact <=> \A s \in Slots : /\ Len(queue[s]) <= QueueCapacity
                                   /\ Distinct(queue[s])
                                   /\ Elements(queue[s]) = QueuedFor(s)
BY DEF QueuesExact, Distinct, Elements, QueuedFor

\* Moves of connections that are not queued leave the queues exact.
LEMMA QueuesUntouched ==
  ASSUME QueuesExact, queue' = queue,
         \A c \in Conns : conn'[c] = "queued" <=> conn[c] = "queued",
         \A c \in Conns : conn[c] = "queued" => owner'[c] = owner[c]
  PROVE  QueuesExact'
<1>1. \A s \in Slots : QueuedFor(s)' = QueuedFor(s)
  BY DEF QueuedFor
<1> QED BY <1>1 DEF QueuesExact, QueuedFor

\* The head of a lane's channel is a connection queued for that lane.
LEMMA HeadQueued ==
  ASSUME ConnInv, NEW s \in Slots, queue[s] # <<>>
  PROVE  /\ Head(queue[s]) \in Conns
         /\ conn[Head(queue[s])] = "queued"
         /\ owner[Head(queue[s])] = s
<1>1. queue[s] \in Seq(Conns) /\ Distinct(queue[s]) /\ Elements(queue[s]) = QueuedFor(s)
  BY QueuesExactElements DEF ConnInv, TypeOK
<1>2. Head(queue[s]) \in QueuedFor(s)
  BY <1>1, TailElements
<1> QED BY <1>2 DEF QueuedFor

\* Taking the head of a channel, to serve it or to drop it.
LEMMA HeadTaken ==
  ASSUME ConnInv, NEW s \in Slots, queue[s] # <<>>, NEW st \in {"serving", "closed"},
         queue' = [queue EXCEPT ![s] = Tail(@)],
         conn' = [conn EXCEPT ![Head(queue[s])] = st],
         \A c \in Conns : c # Head(queue[s]) => owner'[c] = owner[c]
  PROVE  queue' \in [Slots -> Seq(Conns)] /\ QueuesExact'
<1> DEFINE h == Head(queue[s])
<1>1. /\ queue \in [Slots -> Seq(Conns)]
      /\ conn \in [Conns -> ConnStates]
      /\ \A t \in Slots : /\ Len(queue[t]) <= QueueCapacity
                          /\ Distinct(queue[t])
                          /\ Elements(queue[t]) = QueuedFor(t)
  BY QueuesExactElements DEF ConnInv, TypeOK
<1>2. h \in Conns /\ conn[h] = "queued" /\ owner[h] = s
  BY HeadQueued
<1>3. /\ Tail(queue[s]) \in Seq(Conns)
      /\ Len(Tail(queue[s])) = Len(queue[s]) - 1
      /\ Elements(Tail(queue[s])) = Elements(queue[s]) \ {h}
      /\ Distinct(Tail(queue[s]))
  BY <1>1, TailElements
<1>4. Len(queue[s]) \in Nat
  BY <1>1, LenProperties
<1>5. \A t \in Slots : QueuedFor(t)' = QueuedFor(t) \ {h}
  BY <1>1, <1>2 DEF QueuedFor
<1>6. \A t \in Slots \ {s} : h \notin QueuedFor(t)
  BY <1>2 DEF QueuedFor
<1>7. queue' \in [Slots -> Seq(Conns)]
  BY <1>1, <1>3
<1>8. ASSUME NEW t \in Slots
      PROVE  /\ Len(queue'[t]) <= QueueCapacity
             /\ Distinct(queue'[t])
             /\ Elements(queue'[t]) = QueuedFor(t)'
  <2>1. CASE t = s
    <3>1. queue'[t] = Tail(queue[s])
      BY <1>1, <2>1
    <3>2. Len(queue'[t]) <= QueueCapacity
      BY <3>1, <2>1, <1>1, <1>3, <1>4, SlotFacts
    <3>3. Distinct(queue'[t])
      BY <3>1, <1>3
    <3>4. Elements(queue'[t]) = QueuedFor(t) \ {h}
      BY <3>1, <2>1, <1>1, <1>3
    <3> QED BY <3>2, <3>3, <3>4, <1>5
  <2>2. CASE t # s
    <3>1. queue'[t] = queue[t]
      BY <1>1, <2>2
    <3>2. QueuedFor(t) \ {h} = QueuedFor(t)
      BY <1>6, <2>2
    <3> QED BY <3>1, <3>2, <1>1, <1>5
  <2> QED BY <2>1, <2>2
<1>9. QueuesExact'
  BY <1>8 DEF QueuesExact, Distinct, Elements, QueuedFor
<1> QED BY <1>7, <1>9

\* A successful send queues the held connection at the end of the channel.
LEMMA HandOver ==
  ASSUME ConnInv, NEW s \in Slots, HandedOver(s)
  PROVE  queue' \in [Slots -> Seq(Conns)] /\ QueuesExact'
<1>1. /\ queue \in [Slots -> Seq(Conns)]
      /\ conn \in [Conns -> ConnStates]
      /\ owner \in [Conns -> Slots \cup {NoSlot}]
      /\ \A t \in Slots : /\ Len(queue[t]) <= QueueCapacity
                          /\ Distinct(queue[t])
                          /\ Elements(queue[t]) = QueuedFor(t)
  BY QueuesExactElements DEF ConnInv, TypeOK
<1>2. held \in Conns /\ conn[held] = "admitted"
  BY DEF ConnInv, HeldInv, HandedOver
<1>3. /\ queue' = [queue EXCEPT ![s] = Append(@, held)]
      /\ conn' = [conn EXCEPT ![held] = "queued"]
      /\ owner' = [owner EXCEPT ![held] = s]
      /\ Len(queue[s]) < QueueCapacity
  BY DEF HandedOver, SendTo, HasRoom
<1>4. \A t \in Slots : held \notin QueuedFor(t)
  BY <1>2 DEF QueuedFor
<1>5. /\ Append(queue[s], held) \in Seq(Conns)
      /\ Len(Append(queue[s], held)) = Len(queue[s]) + 1
      /\ Elements(Append(queue[s], held)) = Elements(queue[s]) \cup {held}
      /\ Distinct(Append(queue[s], held))
  BY <1>1, <1>2, <1>4, AppendElements
<1>6. Len(queue[s]) \in Nat
  BY <1>1, LenProperties
<1>7. \A t \in Slots : QueuedFor(t)' = IF t = s THEN QueuedFor(t) \cup {held} ELSE QueuedFor(t)
  BY <1>1, <1>2, <1>3 DEF QueuedFor
<1>8. queue' \in [Slots -> Seq(Conns)]
  BY <1>1, <1>3, <1>5
<1>9. ASSUME NEW t \in Slots
      PROVE  /\ Len(queue'[t]) <= QueueCapacity
             /\ Distinct(queue'[t])
             /\ Elements(queue'[t]) = QueuedFor(t)'
  <2>1. CASE t = s
    <3>1. queue'[t] = Append(queue[s], held)
      BY <1>1, <1>3, <2>1
    <3>2. Len(queue'[t]) <= QueueCapacity
      BY <3>1, <1>3, <1>5, <1>6, SlotFacts
    <3>3. Distinct(queue'[t])
      BY <3>1, <1>5
    <3>4. Elements(queue'[t]) = QueuedFor(t) \cup {held}
      BY <3>1, <2>1, <1>1, <1>5
    <3> QED BY <3>2, <3>3, <3>4, <2>1, <1>7
  <2>2. CASE t # s
    <3>1. queue'[t] = queue[t]
      BY <1>1, <1>3, <2>2
    <3> QED BY <3>1, <2>2, <1>1, <1>7
  <2> QED BY <2>1, <2>2
<1>10. QueuesExact'
  BY <1>9 DEF QueuesExact, Distinct, Elements, QueuedFor
<1> QED BY <1>8, <1>10

\* Every step keeps each connection where exactly one party can find it.
LEMMA PlacementStep ==
  ASSUME ConnInv, Next
  PROVE  PlacementTypeOK' /\ HeldInv' /\ QueuesExact'
<1> USE DEF connVars, acceptorVars
<1>0. PlacementTypeOK /\ HeldInv /\ QueuesExact /\ TypeOK
  BY TypeHalves DEF ConnInv
<1>1. CASE UNCHANGED <<connVars, acceptorVars>>
  <2>1. QueuesExact'
    BY <1>0, <1>1, QueuesUntouched
  <2> QED BY <1>0, <1>1, <2>1 DEF PlacementTypeOK, HeldInv
<1>2. CASE AcceptorMoves
  <2>1. QueuesExact'
    BY <1>0, <1>2, QueuesUntouched DEF AcceptorMoves
  <2>2. CASE StartAcceptor \/ PassGate \/ AcceptorFails \/ AcceptorShutsDown
    BY <1>0, <1>2, <2>1, <2>2 DEF AcceptorMoves, StartAcceptor, PassGate, AcceptorFails,
         AcceptorShutsDown, PlacementTypeOK, AcceptorStates, HeldInv
  <2>3. CASE ProbeReturns
    <3>1. PlacementTypeOK'
      BY <1>0, <1>2, <2>3, SlotFacts DEF AcceptorMoves, ProbeReturns, PlacementTypeOK,
           AcceptorStates
    <3>2. HeldInv'
      BY <1>0, <2>3 DEF ProbeReturns, HeldInv
    <3> QED BY <2>1, <3>1, <3>2
  <2>4. CASE \E s \in Slots : ReservationFails(s)
    BY <1>0, <1>2, <2>1, <2>4 DEF AcceptorMoves, ReservationFails, PlacementTypeOK, HeldInv
  <2> QED BY <1>2, <2>2, <2>3, <2>4 DEF AcceptorMoves
<1>3. CASE \E c \in Conns : Accept(c) \/ SocketTransferFails(c)
  <2>1. QueuesExact'
    BY <1>0, <1>3, QueuesUntouched DEF Accept, SocketTransferFails, PlacementTypeOK
  <2>2. PlacementTypeOK'
    BY <1>0, <1>3 DEF Accept, SocketTransferFails, PlacementTypeOK, AcceptorStates, ConnStates
  <2>3. HeldInv'
    BY <1>0, <1>3 DEF Accept, SocketTransferFails, PlacementTypeOK, HeldInv
  <2> QED BY <2>1, <2>2, <2>3
<1>4. CASE Admit
  <2>1. held \in Conns /\ conn[held] = "accepted"
    BY <1>0, <1>4 DEF HeldInv, Admit
  <2>2. QueuesExact'
    BY <1>0, <1>4, <2>1, QueuesUntouched DEF Admit, PlacementTypeOK
  <2>3. PlacementTypeOK'
    <3>1. CASE Alive /\ permits > 0
      <4>1. permits' \in Nat /\ nextConnection' \in Slots /\ cursor' \in Slots
        BY <1>0, <1>4, <3>1, SlotFacts DEF Admit, PlacementTypeOK
      <4>2. conn' \in [Conns -> ConnStates] /\ acceptor' \in AcceptorStates
        BY <1>0, <1>4, <2>1, <3>1 DEF Admit, PlacementTypeOK, AcceptorStates, ConnStates
      <4> QED BY <1>0, <1>4, <3>1, <4>1, <4>2 DEF Admit, PlacementTypeOK
    <3>2. CASE ~(Alive /\ permits > 0)
      BY <1>0, <1>4, <2>1, <3>2 DEF Admit, ResumeAccepting, PlacementTypeOK,
           AcceptorStates, ConnStates
    <3> QED BY <3>1, <3>2
  <2>4. HeldInv'
    BY <1>0, <1>4, <2>1 DEF Admit, ResumeAccepting, PlacementTypeOK, HeldInv
  <2> QED BY <2>2, <2>3, <2>4
<1>5. CASE GiveUp
  <2>1. held \in Conns /\ conn[held] = "admitted"
    BY <1>0, <1>5 DEF HeldInv, GiveUp
  <2>2. QueuesExact'
    BY <1>0, <1>5, <2>1, QueuesUntouched DEF GiveUp, DropConnection, PlacementTypeOK
  <2>3. PlacementTypeOK' /\ HeldInv'
    BY <1>0, <1>5, <2>1 DEF GiveUp, DropConnection, ResumeAccepting, PlacementTypeOK,
         AcceptorStates, ConnStates, HeldInv
  <2> QED BY <2>2, <2>3
<1>6. ASSUME NEW s \in Slots, HandedOver(s)
      PROVE  PlacementTypeOK' /\ HeldInv' /\ QueuesExact'
  <2>1. queue' \in [Slots -> Seq(Conns)] /\ QueuesExact'
    BY <1>6, HandOver
  <2>2. held \in Conns
    BY <1>0, <1>6 DEF HeldInv, HandedOver
  <2>3. PlacementTypeOK' /\ HeldInv'
    BY <1>0, <1>6, <2>1, <2>2 DEF HandedOver, SendTo, ResumeAccepting, PlacementTypeOK,
         AcceptorStates, ConnStates, HeldInv
  <2> QED BY <2>1, <2>3
<1>7. ASSUME NEW s \in Slots, ReceiveConnection(s) \/ HeadDropped(s)
      PROVE  PlacementTypeOK' /\ HeldInv' /\ QueuesExact'
  <2> DEFINE h == Head(queue[s])
  <2>1. queue[s] # <<>>
    BY <1>7 DEF ReceiveConnection, HeadDropped
  <2>2. h \in Conns /\ conn[h] = "queued"
    BY <2>1, HeadQueued
  <2>3. /\ queue' = [queue EXCEPT ![s] = Tail(@)]
        /\ owner' = owner \/ owner' = [owner EXCEPT ![h] = NoSlot]
        /\ permits' = permits \/ permits' = permits + 1
        /\ UNCHANGED acceptorVars
    BY <1>7 DEF ReceiveConnection, HeadDropped, DropConnection
  <2>a. PICK st \in {"serving", "closed"} : conn' = [conn EXCEPT ![h] = st]
    BY <1>7 DEF ReceiveConnection, HeadDropped, DropConnection
  <2>4. \A c \in Conns : c # h => owner'[c] = owner[c]
    BY <1>0, <2>3 DEF PlacementTypeOK
  <2>5. queue' \in [Slots -> Seq(Conns)] /\ QueuesExact'
    BY <2>1, <2>a, <2>3, <2>4, HeadTaken
  <2>6. PlacementTypeOK'
    <3>1. conn' \in [Conns -> ConnStates]
      BY <1>0, <2>a DEF PlacementTypeOK, ConnStates
    <3>2. owner' \in [Conns -> Slots \cup {NoSlot}]
      BY <1>0, <2>3 DEF PlacementTypeOK
    <3>3. permits' \in Nat
      BY <1>0, <2>3 DEF PlacementTypeOK
    <3> QED BY <1>0, <2>3, <2>5, <3>1, <3>2, <3>3 DEF PlacementTypeOK
  <2>7. HeldInv'
    BY <1>0, <2>2, <2>a, <2>3 DEF PlacementTypeOK, HeldInv
  <2> QED BY <2>5, <2>6, <2>7
<1>8. ASSUME NEW s \in Slots, NEW c \in Conns, TaskOver(s, c)
      PROVE  PlacementTypeOK' /\ HeldInv' /\ QueuesExact'
  <2>1. conn[c] = "serving"
    BY <1>8 DEF TaskOver, Serving
  <2>2. QueuesExact'
    BY <1>0, <1>8, <2>1, QueuesUntouched DEF TaskOver, DropConnection, PlacementTypeOK
  <2>3. PlacementTypeOK' /\ HeldInv'
    BY <1>0, <1>8, <2>1 DEF TaskOver, DropConnection, PlacementTypeOK, ConnStates, HeldInv
  <2> QED BY <2>2, <2>3
<1> QED BY <1>0, <1>1, <1>2, <1>3, <1>4, <1>5, <1>6, <1>7, <1>8, StepKinds DEF ConnectionStep
-----------------------------------------------------------------------------
(* The manifest gate.                                                      *)

\* Nothing is published and no lane opens.
LanesQuiet ==
  /\ UNCHANGED <<manifest, canonical, ready>>
  /\ \A s \in Slots : lane'[s] \in {"free", "allocated"} =>
                        lane[s] \in {"free", "allocated"}
  /\ \A s \in Slots : lane'[s] = "announcing" => lane[s] = "announcing"
  /\ \A s \in Slots : Open(s)' => Open(s)

\* A lane or slot only changes in these ways.
LaneStepKinds ==
  \/ LanesQuiet
  \/ \E s \in Slots, m \in Manifests : Register(s, m)
  \/ \E s \in Slots : AnnounceReady(s)

\* Only register publishes a manifest, opens a lane or announces the group.
LEMMA LaneKinds ==
  ASSUME GroupTypeOK, AllocInv, Next
  PROVE  LaneStepKinds /\ AllocInv'
<1> USE DEF GroupTypeOK, LaneStates, connVars, acceptorVars, laneVars, coordinatorVars, Open,
           AllocInv
<1>1. CASE AcceptorStep
  <2>1. UNCHANGED <<manifest, canonical, ready, lane, allocated>>
    BY <1>1 DEF AcceptorStep, StartAcceptor, PassGate, AcceptorShutsDown, Admit,
         ProbeSends, ProbeReturns, GiveUp, ReservationGranted, ReservationFails
  <2> QED BY <2>1 DEF LaneStepKinds, LanesQuiet
<1>2. CASE AcceptorFails \/ \E c \in Conns : Accept(c) \/ SocketTransferFails(c)
  <2>1. UNCHANGED <<manifest, canonical, ready, lane, allocated>>
    BY <1>2 DEF AcceptorFails, Accept, SocketTransferFails
  <2> QED BY <2>1 DEF LaneStepKinds, LanesQuiet
<1>3. CASE AllocateReplica
  <2>1. \A s \in Slots : \/ lane'[s] = lane[s] /\ allocated'[s] = allocated[s]
                         \/ lane'[s] = "allocated" /\ ~allocated[s] /\ allocated'[s]
    BY <1>3 DEF AllocateReplica
  <2> QED BY <1>3, <2>1 DEF AllocateReplica, LaneStepKinds, LanesQuiet
<1>4. CASE BeginShutdown \/ DropHost
  BY <1>4 DEF BeginShutdown, DropHost, LaneStepKinds, LanesQuiet
<1>5. ASSUME NEW s \in Slots, LaneStep(s)
      PROVE  LaneStepKinds /\ AllocInv'
  <2>1. CASE AnnounceReady(s)
    <3>1. AllocInv'
      BY <2>1 DEF AnnounceReady
    <3> QED BY <2>1, <3>1 DEF LaneStepKinds, LanesQuiet
  <2>2. CASE StartServing(s) \/ TaskNotStarted(s)
    BY <2>2 DEF StartServing, TaskNotStarted, LaneStepKinds, LanesQuiet
  <2>3. CASE ArmReceive(s) \/ ReceiveConnection(s) \/ DropQueued(s)
    BY <2>3 DEF ArmReceive, ReceiveConnection, DropQueued, LaneStepKinds, LanesQuiet
  <2>4. CASE SeeFailure(s) \/ SeeCancellation(s) \/ SourceEnds(s)
    BY <2>4 DEF SeeFailure, SeeCancellation, SourceEnds, LaneStepKinds, LanesQuiet
  <2>5. CASE FinishDrain(s)
    BY <2>5 DEF FinishDrain, LaneStepKinds, LanesQuiet
  <2> QED BY <1>5, <2>1, <2>2, <2>3, <2>4, <2>5 DEF LaneStep
<1>6. ASSUME NEW s \in Slots, NEW m \in Manifests,
             Register(s, m) \/ RegisterMismatch(s, m)
      PROVE  LaneStepKinds /\ AllocInv'
  <2>1. CASE Register(s, m)
    <3>1. AllocInv'
      BY <2>1 DEF Register
    <3> QED BY <2>1, <3>1 DEF LaneStepKinds, LanesQuiet
  <2>2. CASE RegisterMismatch(s, m)
    BY <2>2 DEF RegisterMismatch, LaneStepKinds, LanesQuiet
  <2> QED BY <1>6, <2>1, <2>2
<1>7. ASSUME NEW s \in Slots, NEW c \in Conns,
             ConnectionEnds(s, c) \/ ConnectionPanics(s, c)
      PROVE  LaneStepKinds /\ AllocInv'
  BY <1>7 DEF ConnectionEnds, ConnectionPanics, LaneStepKinds, LanesQuiet
<1>8. ASSUME NEW s \in Slots, SocketRegistrationFails(s)
      PROVE  LaneStepKinds /\ AllocInv'
  BY <1>8 DEF SocketRegistrationFails, LaneStepKinds, LanesQuiet
<1>9. ASSUME NEW s \in Slots,
             AllocateReplicaAt(s) \/ RejectInstance(s) \/ CancelLane(s) \/ ReleaseLane(s)
      PROVE  LaneStepKinds /\ AllocInv'
  BY <1>9 DEF AllocateReplicaAt, RejectInstance, CancelLane, ReleaseLane, LaneStepKinds, LanesQuiet
<1> QED BY <1>1, <1>2, <1>3, <1>4, <1>5, <1>6, <1>7, <1>8, <1>9 DEF Next

PastGate == acceptor \in {"accepting", "admitting", "probing", "reserving"}

\* Manifests still agree when the group is complete, and the acceptor passes
\* the gate only once it is.
LEMMA GateStep ==
  ASSUME TypeOK, AllocInv, GateInv, Next
  PROVE  GateInv'
<1> DEFINE Published == /\ \A s \in Slots : manifest[s] \in {NoManifest, canonical}
                        /\ \A s \in Slots : lane[s] \in {"free", "allocated"} =>
                                              manifest[s] = NoManifest
                        /\ \A s \in Slots : lane[s] = "announcing" => Agreed
                        /\ ready => Agreed
<1>0. GroupTypeOK /\ LaneStepKinds /\ Published /\ (PastGate => ready) /\ 0 \in Slots
  BY TypeHalves, LaneKinds, SlotFacts DEF GateInv, PastGate
<1>1. Published'
  <2>1. CASE LanesQuiet
    <3>1. Agreed' <=> Agreed
      BY <2>1 DEF LanesQuiet, Agreed
    <3> QED BY <1>0, <2>1, <3>1 DEF LanesQuiet
  <2>2. ASSUME NEW s \in Slots, AnnounceReady(s)
        PROVE  Published'
    BY <1>0, <2>2 DEF AnnounceReady, GroupTypeOK, LaneStates, Agreed
  <2>3. ASSUME NEW s \in Slots, NEW m \in Manifests, Register(s, m)
        PROVE  Published'
    <3>1. /\ manifest' = [manifest EXCEPT ![s] = m]
          /\ canonical' = m /\ canonical \in {NoManifest, m}
          /\ manifest[s] = NoManifest
          /\ lane[s] = "allocated"
          /\ UNCHANGED ready
      BY <1>0, <2>3 DEF Register
    <3>2. \A t \in Slots : manifest'[t] \in {NoManifest, canonical'}
      BY <1>0, <3>1 DEF GroupTypeOK
    <3>3. ~ Agreed
      BY <3>1 DEF Agreed
    <3>4. /\ lane'[s] = "announcing" => \A t \in Slots : manifest'[t] # NoManifest
          /\ lane'[s] \notin {"free", "allocated"}
          /\ \A t \in Slots \ {s} : lane'[t] = lane[t] /\ manifest'[t] = manifest[t]
      BY <1>0, <2>3 DEF Register, GroupTypeOK
    <3> QED BY <1>0, <3>1, <3>2, <3>3, <3>4 DEF Agreed
  <2> QED BY <1>0, <2>1, <2>2, <2>3 DEF LaneStepKinds
<1>2. PastGate' => ready'
  <2>1. CASE UNCHANGED <<connVars, acceptorVars>> /\ (ready => ready')
    BY <1>0, <2>1 DEF PastGate, acceptorVars
  <2>2. CASE AcceptorMoves /\ UNCHANGED ready
    BY <1>0, <2>2 DEF AcceptorMoves, StartAcceptor, PassGate, AcceptorFails,
         AcceptorShutsDown, ProbeReturns, ReservationFails, PastGate
  <2>3. CASE ConnectionStep
    <3>1. CASE Admit \/ GiveUp \/ \E c \in Conns : Accept(c) \/ SocketTransferFails(c)
      BY <1>0, <3>1 DEF Admit, GiveUp, Accept, SocketTransferFails, ResumeAccepting,
           coordinatorVars, PastGate
    <3>2. CASE \E s \in Slots : HandedOver(s) \/ ReceiveConnection(s) \/ HeadDropped(s)
      BY <1>0, <3>2 DEF HandedOver, ReceiveConnection, HeadDropped, SendTo,
           ResumeAccepting, acceptorVars, coordinatorVars, PastGate
    <3>3. CASE \E s \in Slots, c \in Conns : TaskOver(s, c)
      BY <1>0, <3>3 DEF TaskOver, acceptorVars, PastGate
    <3> QED BY <2>3, <3>1, <3>2, <3>3 DEF ConnectionStep
  <2> QED BY <2>1, <2>2, <2>3, StepKinds
<1> QED BY <1>1, <1>2 DEF GateInv, PastGate
-----------------------------------------------------------------------------
(* Permits.                                                                *)

Gone == {c \in Conns : conn[c] = "closed"}

\* What a step does to the connection budget.
NoMove == Live' = Live /\ Gone' = Gone /\ permits' = permits
Admits(c) ==
  /\ c \notin Live \cup Gone
  /\ Live' = Live \cup {c} /\ Gone' = Gone
  /\ permits > 0 /\ permits' = permits - 1
Refuses(c) ==
  /\ c \notin Live \cup Gone
  /\ Live' = Live /\ Gone' = Gone \cup {c}
  /\ permits' = permits
Closes(c) ==
  /\ c \in Live
  /\ Live' = Live \ {c} /\ Gone' = Gone \cup {c}
  /\ permits' = permits + 1

\* A step admits, refuses or closes one connection behind the gate, or none.
LEMMA BudgetMoves ==
  ASSUME ConnInv, GateInv, Next
  PROVE  \/ NoMove /\ (ready => ready')
         \/ UNCHANGED ready /\ ready /\ \E c \in Conns : Admits(c) \/ Refuses(c)
         \/ UNCHANGED ready /\ \E c \in Conns : Closes(c)
<1> USE DEF Live, Gone
<1>0. TypeOK /\ HeldInv /\ (PastGate => ready)
  BY DEF ConnInv, GateInv, PastGate
<1>1. conn \in [Conns -> ConnStates] /\ permits \in Nat
  BY <1>0 DEF TypeOK
<1>2. CASE UNCHANGED <<connVars, acceptorVars>> /\ (ready => ready')
  BY <1>2 DEF connVars, NoMove
<1>3. CASE AcceptorMoves /\ UNCHANGED ready
  BY <1>3 DEF AcceptorMoves, connVars, NoMove
<1>4. ASSUME NEW c \in Conns, Accept(c)
      PROVE  NoMove /\ UNCHANGED ready
  BY <1>1, <1>4 DEF Accept, coordinatorVars, NoMove
<1>5. ASSUME NEW c \in Conns, SocketTransferFails(c)
      PROVE  UNCHANGED ready /\ ready /\ Refuses(c)
  BY <1>0, <1>1, <1>5 DEF SocketTransferFails, coordinatorVars, PastGate, Refuses
<1>6. CASE Admit
  <2>1. held \in Conns /\ conn[held] = "accepted" /\ ready /\ UNCHANGED ready
    BY <1>0, <1>6 DEF HeldInv, Admit, PastGate, coordinatorVars
  <2>2. CASE Alive /\ permits > 0
    <3>1. Admits(held)
      BY <1>1, <1>6, <2>1, <2>2 DEF Admit, Admits
    <3> QED BY <2>1, <3>1 DEF Admits
  <2>3. CASE ~(Alive /\ permits > 0)
    <3>1. Refuses(held)
      BY <1>1, <1>6, <2>1, <2>3 DEF Admit, Refuses
    <3> QED BY <2>1, <3>1 DEF Refuses
  <2> QED BY <2>2, <2>3
<1>7. CASE GiveUp
  <2>1. held \in Conns /\ conn[held] = "admitted" /\ UNCHANGED ready
    BY <1>0, <1>7 DEF HeldInv, GiveUp, coordinatorVars
  <2>2. Closes(held)
    BY <1>1, <1>7, <2>1 DEF GiveUp, DropConnection, Closes
  <2> QED BY <2>1, <2>2 DEF Closes
<1>8. ASSUME NEW s \in Slots, HandedOver(s)
      PROVE  NoMove /\ UNCHANGED ready
  <2>1. held \in Conns /\ conn[held] = "admitted"
    BY <1>0, <1>8 DEF HeldInv, HandedOver
  <2> QED BY <1>1, <1>8, <2>1 DEF HandedOver, SendTo, NoMove
<1>9. ASSUME NEW s \in Slots, ReceiveConnection(s)
      PROVE  NoMove /\ UNCHANGED ready
  <2>1. Head(queue[s]) \in Conns /\ conn[Head(queue[s])] = "queued"
    BY <1>9, HeadQueued DEF ReceiveConnection
  <2> QED BY <1>1, <1>9, <2>1 DEF ReceiveConnection, coordinatorVars, NoMove
<1>10. ASSUME NEW s \in Slots, HeadDropped(s)
       PROVE  UNCHANGED ready /\ \E c \in Conns : Closes(c)
  <2>1. Head(queue[s]) \in Conns /\ conn[Head(queue[s])] = "queued"
    BY <1>10, HeadQueued DEF HeadDropped
  <2>2. Closes(Head(queue[s]))
    BY <1>1, <1>10, <2>1 DEF HeadDropped, DropConnection, Closes
  <2> QED BY <1>10, <2>1, <2>2 DEF HeadDropped, Closes
<1>11. ASSUME NEW s \in Slots, NEW c \in Conns, TaskOver(s, c)
       PROVE  UNCHANGED ready /\ Closes(c)
  BY <1>1, <1>11 DEF TaskOver, Serving, DropConnection, Closes
<1> QED BY <1>0, <1>2, <1>3, <1>4, <1>5, <1>6, <1>7, <1>8, <1>9, <1>10, <1>11, StepKinds
     DEF ConnectionStep

\* A permit is taken with every admission and comes back with every close.
LEMMA PermitStep ==
  ASSUME ConnInv, GateInv, IsFiniteSet(Live), PermitsConserved, Next
  PROVE  IsFiniteSet(Live') /\ PermitsConserved'
<1>0. permits \in Nat /\ Cardinality(Live) \in Nat /\ MaxConnections \in Nat
  BY FS_CardinalityType, CoordinatorAssumption DEF ConnInv, TypeOK
<1>1. CASE Live' = Live /\ permits' = permits
  BY <1>1 DEF PermitsConserved
<1>2. ASSUME NEW c \in Conns, Admits(c)
      PROVE  IsFiniteSet(Live') /\ PermitsConserved'
  <2>1. c \notin Live /\ Live' = Live \cup {c} /\ permits' = permits - 1
    BY <1>2 DEF Admits
  <2>2. IsFiniteSet(Live') /\ Cardinality(Live') = Cardinality(Live) + 1
    BY <2>1, FS_AddElement
  <2> QED BY <1>0, <2>1, <2>2 DEF PermitsConserved
<1>3. ASSUME NEW c \in Conns, Closes(c)
      PROVE  IsFiniteSet(Live') /\ PermitsConserved'
  <2>1. c \in Live /\ Live' = Live \ {c} /\ permits' = permits + 1
    BY <1>3 DEF Closes
  <2>2. IsFiniteSet(Live') /\ Cardinality(Live') = Cardinality(Live) - 1
    BY <2>1, FS_RemoveElement
  <2> QED BY <1>0, <2>1, <2>2 DEF PermitsConserved
<1> QED BY <1>1, <1>2, <1>3, BudgetMoves DEF NoMove, Refuses
-----------------------------------------------------------------------------
(* The round robin.                                                        *)

\* div_ceil: the channels together hold at least the whole budget.
LEMMA CapacityCovers == MaxConnections <= ReplicaCount * QueueCapacity
<1> DEFINE total == MaxConnections + ReplicaCount - 1
           share == total \div ReplicaCount
<1>1. ReplicaCount \in Nat /\ ReplicaCount > 0 /\ MaxConnections \in Nat
  BY CoordinatorAssumption
<1>2. /\ share \in Int
      /\ total = ReplicaCount * share + (total % ReplicaCount)
      /\ total % ReplicaCount \in 0 .. (ReplicaCount - 1)
  BY <1>1
<1>3. MaxConnections <= ReplicaCount * share
  BY <1>1, <1>2
<1>4. QueueCapacity \in Int /\ share <= QueueCapacity
  BY <1>2 DEF QueueCapacity
<1>5. ReplicaCount * share <= ReplicaCount * QueueCapacity
  BY <1>1, <1>2, <1>4
<1> QED BY <1>1, <1>2, <1>3, <1>4, <1>5

\* With a permit to spare, some channel has room: queued connections hold
\* permits, and every channel full would need the whole budget.
LEMMA RoomSomewhere ==
  ASSUME ConnInv, IsFiniteSet(Live), PermitsConserved, permits > 0
  PROVE  \E s \in Slots : Len(queue[s]) < QueueCapacity
<1> SUFFICES ASSUME \A s \in Slots : ~(Len(queue[s]) < QueueCapacity)
             PROVE  FALSE
  OBVIOUS
<1> DEFINE Places == Slots \X (1 .. QueueCapacity)
           place == [p \in Places |-> queue[p[1]][p[2]]]
<1>1. /\ queue \in [Slots -> Seq(Conns)]
      /\ \A s \in Slots : /\ Distinct(queue[s])
                          /\ Elements(queue[s]) = QueuedFor(s)
  BY QueuesExactElements DEF ConnInv, TypeOK
<1>2. QueueCapacity \in Nat /\ ReplicaCount \in Nat \ {0} /\ MaxConnections \in Nat
  BY SlotFacts, CoordinatorAssumption
<1>3. \A s \in Slots : Len(queue[s]) \in Nat /\ QueueCapacity <= Len(queue[s])
  BY <1>1, <1>2, LenProperties
<1>4. \A s \in Slots, i \in 1 .. QueueCapacity :
        i \in 1 .. Len(queue[s]) /\ queue[s][i] \in QueuedFor(s)
  <2> SUFFICES ASSUME NEW s \in Slots, NEW i \in 1 .. QueueCapacity
               PROVE  i \in 1 .. Len(queue[s]) /\ queue[s][i] \in QueuedFor(s)
    OBVIOUS
  <2>1. i \in 1 .. Len(queue[s])
    BY <1>2, <1>3
  <2>2. queue[s][i] \in Elements(queue[s])
    BY <2>1 DEF Elements
  <2> QED BY <1>1, <2>1, <2>2
<1>5. place \in [Places -> Live]
  BY <1>4 DEF QueuedFor, Live
<1>6. ASSUME NEW p \in Places, NEW r \in Places, place[p] = place[r]
      PROVE  p = r
  <2>1. /\ p[1] \in Slots /\ p[2] \in 1 .. QueueCapacity /\ p = <<p[1], p[2]>>
        /\ r[1] \in Slots /\ r[2] \in 1 .. QueueCapacity /\ r = <<r[1], r[2]>>
    OBVIOUS
  <2>2. queue[p[1]][p[2]] = queue[r[1]][r[2]]
    BY <1>6
  <2>3. p[1] = r[1]
    BY <1>4, <2>1, <2>2 DEF QueuedFor
  <2>4. p[2] = r[2]
    BY <1>1, <1>4, <2>1, <2>2, <2>3 DEF Distinct
  <2> QED BY <2>1, <2>3, <2>4
<1>7. place \in Injection(Places, Live)
  BY <1>5, <1>6 DEF Injection, IsInjective
<1> HIDE DEF place
<1>8. Cardinality(Places) <= Cardinality(Live)
  BY <1>7, FS_Injection
<1>9. Cardinality(Places) = ReplicaCount * QueueCapacity
  <2>1. IsFiniteSet(Slots) /\ Cardinality(Slots) = ReplicaCount
    BY <1>2, FS_Interval DEF Slots
  <2>2. IsFiniteSet(1 .. QueueCapacity) /\ Cardinality(1 .. QueueCapacity) = QueueCapacity
    BY <1>2, FS_Interval
  <2> QED BY <2>1, <2>2, FS_Product
<1>10. Cardinality(Live) < MaxConnections
  BY <1>2, FS_CardinalityType DEF PermitsConserved, ConnInv, TypeOK
<1>11. Cardinality(Live) \in Nat
  BY FS_CardinalityType
<1>12. MaxConnections <= Cardinality(Places)
  BY <1>9, CapacityCovers
<1>13. Cardinality(Places) \in Int
  BY <1>2, <1>9
<1> HIDE DEF Places
<1> QED BY <1>2, <1>8, <1>10, <1>11, <1>12, <1>13

\* Past the gate every lane has registered, so none can still open.
LEMMA NoLaneOpens ==
  ASSUME TypeOK, AllocInv, GateInv, PastGate, Next
  PROVE  \A s \in Slots : Open(s)' => Open(s)
<1>1. GroupTypeOK /\ LaneStepKinds /\ Agreed
  BY TypeHalves, LaneKinds DEF GateInv, PastGate
<1>2. CASE LanesQuiet
  BY <1>2 DEF LanesQuiet
<1>3. ASSUME NEW s \in Slots, AnnounceReady(s)
      PROVE  \A t \in Slots : Open(t)' => Open(t)
  BY <1>1, <1>3 DEF AnnounceReady, GroupTypeOK, Open
<1>4. ASSUME NEW s \in Slots, NEW m \in Manifests, Register(s, m)
      PROVE  FALSE
  BY <1>1, <1>4 DEF Register, GateInv, Agreed
<1> QED BY <1>1, <1>2, <1>3, <1>4 DEF LaneStepKinds

\* Channels only get shorter while the acceptor is still looking for a slot.
LEMMA ProbingQueues ==
  ASSUME ConnInv, Next, acceptor \in {"probing", "reserving"}, acceptor' # "accepting",
         NEW s \in Slots
  PROVE  Len(queue'[s]) <= Len(queue[s])
<1>0. TypeOK /\ queue \in [Slots -> Seq(Conns)]
  BY DEF ConnInv, TypeOK
<1>1. Len(queue[s]) \in Nat
  BY <1>0, LenProperties
<1>2. CASE UNCHANGED queue
  BY <1>1, <1>2
<1>3. ASSUME NEW t \in Slots, queue[t] # <<>>, queue' = [queue EXCEPT ![t] = Tail(@)]
      PROVE  Len(queue'[s]) <= Len(queue[s])
  <2>1. CASE s = t
    <3>1. queue'[s] = Tail(queue[s]) /\ Len(Tail(queue[s])) = Len(queue[s]) - 1
      BY <1>0, <1>3, <2>1, HeadTailProperties
    <3> QED BY <1>1, <3>1
  <2>2. CASE s # t
    BY <1>0, <1>1, <1>3, <2>2
  <2> QED BY <2>1, <2>2
<1>4. CASE ConnectionStep
  <2>1. CASE Admit \/ GiveUp \/ \E c \in Conns : Accept(c) \/ SocketTransferFails(c)
    BY <1>2, <2>1 DEF Admit, GiveUp, Accept, SocketTransferFails
  <2>2. ~ \E t \in Slots : HandedOver(t)
    BY DEF HandedOver, SendTo, ResumeAccepting
  <2>3. CASE \E t \in Slots : ReceiveConnection(t) \/ HeadDropped(t)
    BY <1>3, <2>3 DEF ReceiveConnection, HeadDropped
  <2>4. CASE \E t \in Slots, c \in Conns : TaskOver(t, c)
    BY <1>2, <2>4 DEF TaskOver
  <2> QED BY <1>4, <2>1, <2>2, <2>3, <2>4 DEF ConnectionStep
<1> QED BY <1>0, <1>2, <1>4, StepKinds DEF AcceptorMoves, connVars

\* The acceptor's own moves while it looks for a slot.
LEMMA ProbingMoves ==
  ASSUME TypeOK, Next, acceptor' \in {"probing", "reserving"}
  PROVE  \/ acceptor = "admitting" /\ Admit /\ acceptor' = "probing"
         \/ acceptor = "probing" /\ ProbeReturns
         \/ acceptor' = acceptor /\ tried' = tried
<1>1. CASE UNCHANGED <<connVars, acceptorVars>>
  BY <1>1 DEF acceptorVars
<1>2. CASE AcceptorMoves
  BY <1>2 DEF AcceptorMoves, StartAcceptor, PassGate, AcceptorFails,
       AcceptorShutsDown, ProbeReturns, ReservationFails
<1>3. CASE ConnectionStep
  <2>1. CASE Admit \/ GiveUp \/ \E c \in Conns : Accept(c) \/ SocketTransferFails(c)
    BY <2>1 DEF Admit, GiveUp, Accept, SocketTransferFails, ResumeAccepting
  <2>2. ~ \E t \in Slots : HandedOver(t)
    BY DEF HandedOver, SendTo, ResumeAccepting
  <2>3. CASE \E t \in Slots : ReceiveConnection(t) \/ HeadDropped(t)
    BY <2>3 DEF ReceiveConnection, HeadDropped, acceptorVars
  <2>4. CASE \E t \in Slots, c \in Conns : TaskOver(t, c)
    BY <2>4 DEF TaskOver, acceptorVars
  <2> QED BY <1>3, <2>1, <2>2, <2>3, <2>4 DEF ConnectionStep
<1> QED BY <1>1, <1>2, <1>3, StepKinds

\* The round robin finds a channel with room as long as no lane has closed.
LEMMA RoomStep ==
  ASSUME IInv, Next
  PROVE  RoomInv' /\ NeverBlocksWhileAllOpen'
<1>0. /\ ConnInv /\ TypeOK /\ HeldInv /\ AllocInv /\ GateInv
      /\ IsFiniteSet(Live) /\ PermitsConserved
  BY DEF IInv, ConnInv
<1>1. cursor \in Slots /\ tried \subseteq Slots /\ queue \in [Slots -> Seq(Conns)]
  BY <1>0 DEF TypeOK
<1>2. QueueCapacity \in Nat /\ \A s \in Slots : Len(queue[s]) \in Nat
  BY <1>1, SlotFacts, LenProperties
<1>3. SUFFICES ASSUME acceptor' \in {"probing", "reserving"}, \A s \in Slots : Open(s)'
               PROVE  /\ acceptor' = "probing"
                      /\ \E s \in Slots \ tried' : Len(queue'[s]) < QueueCapacity
  BY DEF RoomInv, NeverBlocksWhileAllOpen
<1>4. acceptor \in {"admitting", "probing", "reserving"}
  BY <1>0, <1>3, ProbingMoves DEF ProbeReturns
<1>5. \A s \in Slots : Open(s)
  BY <1>0, <1>3, <1>4, NoLaneOpens DEF PastGate
<1>6. acceptor # "reserving"
  BY <1>5 DEF IInv, NeverBlocksWhileAllOpen
<1>7. CASE acceptor = "admitting"
  <2>1. Admit /\ acceptor' = "probing" /\ tried = {}
    BY <1>0, <1>3, <1>7, ProbingMoves DEF HeldInv
  <2>2. permits > 0 /\ UNCHANGED <<queue, tried>>
    BY <2>1 DEF Admit, ResumeAccepting
  <2> QED BY <1>0, <2>1, <2>2, RoomSomewhere
<1>8. CASE acceptor = "probing"
  <2>1. PICK s \in Slots \ tried : Len(queue[s]) < QueueCapacity
    BY <1>5, <1>8 DEF IInv, RoomInv
  <2>2. Len(queue'[s]) <= Len(queue[s])
    BY <1>0, <1>3, <1>8, ProbingQueues
  <2>3. CASE ProbeReturns
    <3>1. s # cursor /\ s \notin tried' /\ UNCHANGED queue
      BY <1>5, <2>1, <2>3 DEF ProbeReturns, HasRoom, connVars
    <3>2. acceptor' = "probing"
      BY <1>8, <2>3, <3>1 DEF ProbeReturns
    <3> QED BY <2>1, <3>1, <3>2
  <2>4. CASE acceptor' = acceptor /\ tried' = tried
    <3>1. Len(queue'[s]) < QueueCapacity
      <4>1. PlacementTypeOK'
        BY <1>0, PlacementStep
      <4>2. Len(queue'[s]) \in Nat
        BY <4>1, LenProperties DEF PlacementTypeOK
      <4> QED BY <1>2, <2>1, <2>2, <4>2
    <3> QED BY <1>8, <2>1, <2>4, <3>1
  <2> QED BY <1>0, <1>3, <1>8, <2>3, <2>4, ProbingMoves
<1> QED BY <1>4, <1>6, <1>7, <1>8
-----------------------------------------------------------------------------
(* The theorems.                                                           *)

\* A new coordinator satisfies the invariant.
LEMMA InitInvariant == Init => IInv
<1> SUFFICES ASSUME Init PROVE IInv
  OBVIOUS
<1> USE DEF Init
<1>1. TypeOK
  BY SlotFacts, CoordinatorAssumption, EmptySeq DEF TypeOK, AcceptorStates, LaneStates, ConnStates
<1>2. HeldInv /\ AllocInv /\ GateInv /\ RoomInv /\ NeverBlocksWhileAllOpen
  BY DEF HeldInv, AllocInv, GateInv, RoomInv, NeverBlocksWhileAllOpen
<1>3. QueuesExact
  BY SlotFacts, EmptySeq DEF QueuesExact
<1>4. Live = {}
  BY DEF Live
<1>5. IsFiniteSet(Live) /\ PermitsConserved
  BY <1>4, FS_EmptySet, CoordinatorAssumption DEF PermitsConserved
<1> QED BY <1>1, <1>2, <1>3, <1>5 DEF IInv, ConnInv

\* Every step of acceptor, lanes, host and clients keeps the invariant.
LEMMA StepInvariant == IInv /\ [Next]_vars => IInv'
<1> SUFFICES ASSUME IInv, [Next]_vars PROVE IInv'
  OBVIOUS
<1>1. CASE Next
  <2>1. /\ ConnInv /\ TypeOK /\ GroupTypeOK /\ AllocInv /\ GateInv
        /\ IsFiniteSet(Live) /\ PermitsConserved
    BY TypeHalves DEF IInv, ConnInv
  <2>2. GroupTypeOK'
    BY <1>1, <2>1, GroupTypeStep
  <2>3. PlacementTypeOK' /\ HeldInv' /\ QueuesExact'
    BY <1>1, <2>1, PlacementStep
  <2>4. TypeOK'
    BY <2>2, <2>3 DEF TypeOK, GroupTypeOK, PlacementTypeOK
  <2>5. AllocInv'
    BY <1>1, <2>1, LaneKinds
  <2>6. GateInv'
    BY <1>1, <2>1, GateStep
  <2>7. IsFiniteSet(Live') /\ PermitsConserved'
    BY <1>1, <2>1, PermitStep
  <2>8. RoomInv' /\ NeverBlocksWhileAllOpen'
    BY <1>1, RoomStep
  <2> QED BY <2>3, <2>4, <2>5, <2>6, <2>7, <2>8 DEF IInv, ConnInv
<1>2. CASE UNCHANGED vars
  <2> USE <1>2 DEF vars, coordinatorVars, acceptorVars, laneVars, connVars
  <2>1. TypeOK' /\ HeldInv' /\ AllocInv'
    BY DEF IInv, ConnInv, TypeOK, HeldInv, AllocInv
  <2>2. QueuesExact'
    BY QueuesUntouched DEF IInv, ConnInv
  <2>3. IsFiniteSet(Live') /\ PermitsConserved'
    BY DEF IInv, PermitsConserved, Live
  <2>4. GateInv'
    BY DEF IInv, GateInv, Agreed
  <2>5. RoomInv' /\ NeverBlocksWhileAllOpen'
    BY DEF IInv, RoomInv, NeverBlocksWhileAllOpen, Open
  <2> QED BY <2>1, <2>2, <2>3, <2>4, <2>5 DEF IInv, ConnInv
<1> QED BY <1>1, <1>2

\* The inductive invariant of the listener group.
LEMMA InductiveInvariant == Spec => []IInv
BY InitInvariant, StepInvariant, PTL DEF Spec

\* Every variable of the listener group keeps its type.
THEOREM TypeCorrect == Spec => []TypeOK
<1>1. IInv => TypeOK
  BY DEF IInv, ConnInv
<1> QED BY <1>1, InductiveInvariant, PTL

\* distribute_connection and the lanes never lose or duplicate a connection
\* permit: free permits and live connections always add up to max_connections.
THEOREM PermitsAreConserved == Spec => []PermitsConserved
<1>1. IInv => PermitsConserved
  BY DEF IInv
<1> QED BY <1>1, InductiveInvariant, PTL

\* Every lane's channel holds exactly the connections queued for that lane,
\* each once, within its capacity.
THEOREM QueuesAreExact == Spec => []QueuesExact
<1>1. IInv => QueuesExact
  BY DEF IInv, ConnInv
<1> QED BY <1>1, InductiveInvariant, PTL

\* The acceptor accepts only for a complete group with one manifest.
THEOREM GateIsSound == Spec => []GateNeedsAgreement
<1>1. IInv => GateNeedsAgreement
  BY DEF IInv, GateInv, Agreed, GateNeedsAgreement
<1> QED BY <1>1, InductiveInvariant, PTL

\* With div_ceil capacities the acceptor waits for a reservation only when
\* some lane has closed its receiver.
THEOREM AcceptorNeverBlocks == Spec => []NeverBlocksWhileAllOpen
<1>1. IInv => NeverBlocksWhileAllOpen
  BY DEF IInv
<1> QED BY <1>1, InductiveInvariant, PTL

\* The group of lanes implements one listener with one connection budget:
\* every step admits, refuses or closes one connection as ConnectionBudget
\* allows, opens the gate, or does nothing a client can see.
THEOREM GroupIsOneListener == Spec => ImplementsBudget
<1>1. Init => Budget!Init
  BY DEF Init, Budget!Init, Live
<1>2. IInv /\ [Next]_vars => [Budget!Next]_(Budget!vars)
  <2> SUFFICES ASSUME IInv, [Next]_vars
               PROVE  Budget!Next \/ UNCHANGED Budget!vars
    OBVIOUS
  <2>1. CASE UNCHANGED vars
    BY <2>1 DEF vars, coordinatorVars, connVars, Budget!vars, Live
  <2>2. CASE Next
    <3>1. /\ ConnInv /\ GateInv /\ ready \in BOOLEAN
          /\ permits \in Nat /\ Cardinality(Live) \in Nat /\ MaxConnections \in Nat
      BY FS_CardinalityType, CoordinatorAssumption DEF IInv, ConnInv, TypeOK
    <3>2. CASE NoMove /\ (ready => ready')
      <4>1. GroupTypeOK'
        BY <2>2, GroupTypeStep, TypeHalves DEF IInv, ConnInv
      <4>2. ready' \in BOOLEAN
        BY <4>1 DEF GroupTypeOK
      <4> QED BY <3>1, <3>2, <4>2
           DEF NoMove, Gone, Budget!Next, Budget!OpenGate, Budget!vars
    <3>3. ASSUME UNCHANGED ready, ready, NEW c \in Conns, Admits(c)
          PROVE  Budget!Next
      <4>1. Cardinality(Live) < MaxConnections
        BY <3>1, <3>3 DEF IInv, PermitsConserved, Admits
      <4>2. Budget!Cardinality(Live) = Cardinality(Live)
        BY DEF Budget!Cardinality, Cardinality
      <4>3. Budget!Admit(c)
        BY <3>3, <4>1, <4>2 DEF Admits, Gone, Budget!Admit
      <4> QED BY <4>3 DEF Budget!Next
    <3>4. ASSUME UNCHANGED ready, ready, NEW c \in Conns, Refuses(c)
          PROVE  Budget!Next
      BY <3>4 DEF Refuses, Gone, Budget!Refuse, Budget!Next
    <3>5. ASSUME UNCHANGED ready, NEW c \in Conns, Closes(c)
          PROVE  Budget!Next
      BY <3>5 DEF Closes, Gone, Budget!Close, Budget!Next
    <3> QED BY <2>2, <3>1, <3>2, <3>3, <3>4, <3>5, BudgetMoves
  <2> QED BY <2>1, <2>2
<1> QED BY <1>1, <1>2, InductiveInvariant, PTL DEF Spec, ImplementsBudget, Budget!Spec
=============================================================================
