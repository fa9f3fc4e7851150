-------------------------- MODULE RequestAdmission --------------------------
(***************************************************************************)
(* Request admission of the native Web Ingress: IngressService::call and   *)
(* IngressService::dispatch (server.rs) over acquire_request_permit        *)
(* (ingress.rs).  A request takes a permit of its lane, then one of the    *)
(* whole listener group, reads its body, runs the Endpoint and gives both  *)
(* permits back when the call returns or is dropped with its connection.   *)
(*                                                                         *)
(* The lanes are threads.  Both semaphores are tokio's: a released permit  *)
(* goes to the first waiter of the queue, and to the free count only when  *)
(* nobody waits.                                                           *)
(***************************************************************************)
EXTENDS Integers, Sequences, FiniteSets, SequencesExt

CONSTANTS Requests,       \* requests that may be parsed
          Lanes,          \* the lanes that run `serve`
          MaxConcurrent,  \* max_concurrent_requests of the configuration
          Replicated,     \* the connections come from a listener coordinator
          Global,         \* names global_concurrency
          NoLane          \* the request is not parsed yet

ASSUME AdmissionAssumption ==
  /\ IsFiniteSet(Requests)
  /\ IsFiniteSet(Lanes) /\ Lanes # {}
  /\ MaxConcurrent \in Nat \ {0}
  /\ Replicated \in BOOLEAN
  /\ Global \notin Lanes
  /\ NoLane \notin Lanes \cup {Global}
  /\ ~Replicated => Cardinality(Lanes) = 1

VARIABLES
  req,        \* where the call of each request stands
  lane,       \* the lane of its connection
  at,         \* the semaphore it acquires or has acquired last
  free,       \* free permits of each semaphore
  queue,      \* waiters of each semaphore, first come first served
  cancelled   \* the App cancellation token of each lane

vars == <<req, lane, at, free, queue, cancelled>>

Semaphores == IF Replicated THEN Lanes \cup {Global} ELSE {Global}

\* Mutant of LocalLimit: the operands of div_ceil are swapped.
LocalLimitSwapped == (Cardinality(Lanes) + MaxConcurrent - 1) \div MaxConcurrent

\* `local_request_limit` of bind: max_concurrent.div_ceil(replica_count).
LocalLimit == (MaxConcurrent + Cardinality(Lanes) - 1) \div Cardinality(Lanes)

Limit(s) == IF s = Global THEN MaxConcurrent ELSE LocalLimit

Settled == {"answered", "rejected", "unavailable", "dropped"}
CallStates == {"new", "acquiring", "waiting", "granted", "reading",
               "dispatching", "session"} \cup Settled

\* The semaphores of which request r owns a permit.
Held(r) ==
  LET local == {lane[r]} \cap Semaphores
  IN  CASE req[r] \in {"acquiring", "waiting"}   -> local \ {at[r]}
        [] req[r] = "granted"                    -> local \cup {at[r]}
        [] req[r] \in {"reading", "dispatching"} -> local \cup {Global}
        [] OTHER                                 -> {}

Holders(s) == {r \in Requests : s \in Held(r)}

Init ==
  /\ req = [r \in Requests |-> "new"]
  /\ lane = [r \in Requests |-> NoLane]
  /\ at = [r \in Requests |-> NoLane]
  /\ free = [s \in Semaphores |-> Limit(s)]
  /\ queue = [s \in Semaphores |-> <<>>]
  /\ cancelled = [l \in Lanes |-> FALSE]
-----------------------------------------------------------------------------
\* Mutant of Finish: a waiter that goes away stays in the queue.
FinishStaysQueued(r, outcome) ==
  LET back == Held(r)
      next == {Head(queue[s]) : s \in {t \in back : queue[t] # <<>>}}
  IN  /\ req' = [x \in Requests |-> IF x = r THEN outcome
                                   ELSE IF x \in next THEN "granted" ELSE req[x]]
      /\ queue' = [s \in Semaphores |->
           IF s \in back /\ queue[s] # <<>> THEN Tail(queue[s]) ELSE queue[s]]
      /\ free' = [s \in Semaphores |->
           IF s \in back /\ queue[s] = <<>> THEN free[s] + 1 ELSE free[s]]

\* The call of r returns or is dropped: it leaves the queue it waits in, and
\* its permits go to the next waiters or back to the free count.
Finish(r, outcome) ==
  LET back == Held(r)
      rest == [s \in Semaphores |-> RemoveFirst(queue[s], r)]
      next == {Head(rest[s]) : s \in {t \in back : rest[t] # <<>>}}
  IN  /\ req' = [x \in Requests |-> IF x = r THEN outcome
                                   ELSE IF x \in next THEN "granted" ELSE req[x]]
      /\ queue' = [s \in Semaphores |->
           IF s \in back /\ rest[s] # <<>> THEN Tail(rest[s]) ELSE rest[s]]
      /\ free' = [s \in Semaphores |->
           IF s \in back /\ rest[s] = <<>> THEN free[s] + 1 ELSE free[s]]

\* Hyper hands a parsed request to `call`.  A head over
\* max_request_head_bytes is answered with 431 without a permit.
Call(r, l, oversized) ==
  /\ req[r] = "new"
  /\ req' = [req EXCEPT ![r] = IF oversized THEN "rejected" ELSE "acquiring"]
  /\ lane' = [lane EXCEPT ![r] = l]
  /\ at' = [at EXCEPT ![r] = IF Replicated THEN l ELSE Global]
  /\ UNCHANGED <<free, queue, cancelled>>

\* The permit of the lane is there, and the one of the group is next; with
\* the latter `dispatch` starts.
Advance(r) ==
  /\ req' = [req EXCEPT ![r] = IF at[r] = Global THEN "reading" ELSE "acquiring"]
  /\ at' = [at EXCEPT ![r] = Global]

\* acquire_request_permit up to its select: a cancelled App takes nothing, a
\* free permit is taken at once, and otherwise the request queues up.
AcquireRequestPermit(r) ==
  /\ req[r] = "acquiring"
  /\ IF cancelled[lane[r]]
     THEN Finish(r, "unavailable") /\ UNCHANGED at
     ELSE IF free[at[r]] > 0
     THEN /\ free' = [free EXCEPT ![at[r]] = @ - 1]
          /\ Advance(r)
          /\ UNCHANGED queue
     ELSE /\ req' = [req EXCEPT ![r] = "waiting"]
          /\ queue' = [queue EXCEPT ![at[r]] = Append(@, r)]
          /\ UNCHANGED <<at, free>>
  /\ UNCHANGED <<lane, cancelled>>

\* Mutant of PermitArrives: a permit handed over by the group is not noticed.
PermitArrivesLocal(r) ==
  /\ req[r] = "granted"
  /\ at[r] # Global
  /\ Advance(r)
  /\ UNCHANGED <<lane, free, queue, cancelled>>

\* The select of acquire_request_permit yields the permit handed to r.
PermitArrives(r) ==
  /\ req[r] = "granted"
  /\ Advance(r)
  /\ UNCHANGED <<lane, free, queue, cancelled>>

\* The select yields the cancellation, also when a permit has just arrived.
AcquireCancelled(r) ==
  /\ req[r] \in {"waiting", "granted"}
  /\ cancelled[lane[r]]
  /\ Finish(r, "unavailable")
  /\ UNCHANGED <<lane, at, cancelled>>

\* dispatch: the body is complete and dispatch_buffered starts.
BodyRead(r) ==
  /\ req[r] = "reading"
  /\ req' = [req EXCEPT ![r] = "dispatching"]
  /\ UNCHANGED <<lane, at, free, queue, cancelled>>

\* dispatch: the body is too large (413), broken (400) or late (408).
BodyRejected(r) ==
  /\ req[r] = "reading"
  /\ Finish(r, "rejected")
  /\ UNCHANGED <<lane, at, cancelled>>

\* dispatch: the App is cancelled while the body is read.
BodyCancelled(r) ==
  /\ req[r] = "reading"
  /\ cancelled[lane[r]]
  /\ Finish(r, "unavailable")
  /\ UNCHANGED <<lane, at, cancelled>>

\* Mutant of Respond: the answer keeps the permits of its request.
RespondKeepsPermits(r) ==
  /\ req[r] = "dispatching"
  /\ req' = [req EXCEPT ![r] = "answered"]
  /\ UNCHANGED <<lane, at, free, queue, cancelled>>

\* dispatch_buffered returns a whole answer and `call` hands it to Hyper.
Respond(r) ==
  /\ req[r] = "dispatching"
  /\ Finish(r, "answered")
  /\ UNCHANGED <<lane, at, cancelled>>

\* dispatch_buffered returns the head of a stream or an accepted WebSocket:
\* `call` returns, but the Endpoint goes on with the session.
OpenSession(r) ==
  /\ req[r] = "dispatching"
  /\ Finish(r, "session")
  /\ UNCHANGED <<lane, at, cancelled>>

SessionEnds(r) ==
  /\ req[r] = "session"
  /\ req' = [req EXCEPT ![r] = "answered"]
  /\ UNCHANGED <<lane, at, free, queue, cancelled>>

\* The connection is gone, and the call is dropped where it stands.
CallDropped(r) ==
  /\ req[r] \notin Settled \cup {"new"}
  /\ Finish(r, "dropped")
  /\ UNCHANGED <<lane, at, cancelled>>

CancelLane(l) ==
  /\ ~cancelled[l]
  /\ cancelled' = [cancelled EXCEPT ![l] = TRUE]
  /\ UNCHANGED <<req, lane, at, free, queue>>
-----------------------------------------------------------------------------
CallStep(r) ==
  \/ AcquireRequestPermit(r) \/ PermitArrives(r) \/ AcquireCancelled(r)
  \/ BodyRead(r) \/ BodyRejected(r) \/ BodyCancelled(r)
  \/ Respond(r) \/ OpenSession(r)

Next ==
  \/ \E r \in Requests :
       \/ \E l \in Lanes, oversized \in BOOLEAN : Call(r, l, oversized)
       \/ CallStep(r) \/ SessionEnds(r) \/ CallDropped(r)
  \/ \E l \in Lanes : CancelLane(l)

Spec == Init /\ [][Next]_vars

\* The executor polls a call that can go on; a body is read within
\* request_body_timeout, and an Endpoint answers within request_timeout.
FairSpec == Spec /\ \A r \in Requests : WF_vars(CallStep(r))
-----------------------------------------------------------------------------
TypeOK ==
  /\ req \in [Requests -> CallStates]
  /\ lane \in [Requests -> Lanes \cup {NoLane}]
  /\ at \in [Requests -> Semaphores \cup {NoLane}]
  /\ free \in [Semaphores -> Nat]
  /\ queue \in [Semaphores -> Seq(Requests)]
  /\ cancelled \in [Lanes -> BOOLEAN]

\* Every permit of a lane and of the group is free or owned by exactly one
\* call: disconnects, cancellations and timeouts in any order lose none, and
\* neither limit is ever exceeded.
RequestPermitsConserved ==
  \A s \in Semaphores : free[s] + Cardinality(Holders(s)) = Limit(s)

\* A request waits only while no permit is free, in one queue and at one place
\* of it: a call that was dropped while it waited is never handed a permit.
QueuesHoldWaiters ==
  \A s \in Semaphores :
    /\ queue[s] # <<>> => free[s] = 0
    /\ \A i, j \in 1 .. Len(queue[s]) : i # j => queue[s][i] # queue[s][j]
    /\ {queue[s][i] : i \in 1 .. Len(queue[s])} =
         {r \in Requests : req[r] = "waiting" /\ at[r] = s}

\* The lanes' shares of max_concurrent_requests, rounded up, exceed it by less
\* than one per lane: fewer requests than there are lanes ever wait for the
\* group while they hold a permit of their lane.
FewWaitForTheGroup ==
  Replicated => Len(queue[Global]) < Cardinality(Lanes)

\* Every call returns or is dropped: acquiring two semaphores one after the
\* other under backpressure, cancellation and disconnects never wedges.
CallsSettle ==
  \A r \in Requests : req[r] = "acquiring" ~> req[r] \in Settled \cup {"session"}

\* README.md: "the same semaphore remains the global execution ceiling across
\* connections": no more than max_concurrent_requests Endpoints run at once.
ExecutionCeiling ==
  Cardinality({r \in Requests : req[r] \in {"dispatching", "session"}}) <= MaxConcurrent

\* The two semaphores of a request are exact: permits that are free, permits that
\* are held and places in the queues are those of the calls there are
\* (acquire_request_permit, once for the lane and once for the group).
AdmissionIsExact == RequestPermitsConserved /\ QueuesHoldWaiters
=============================================================================
