----------------------- MODULE RequestAdmission_proofs -----------------------
(***************************************************************************)
(* Proofs, for every number of requests, lanes and permits, that the two   *)
(* semaphores of a request stay exact, and that the rounded up shares of   *)
(* the lanes let fewer requests wait for the group than there are lanes.   *)
(***************************************************************************)
EXTENDS RequestAdmission, WaiterTheorems, FiniteSetTheorems

Acquires == {"acquiring", "waiting", "granted"}
Executes == {"reading", "dispatching"}
Idle == {"new", "session"} \cup Settled

\* A parsed request is on a lane, and acquires the permit of that lane or the
\* one of the group.
PlaceInv ==
  \A r \in Requests :
    /\ req[r] # "new" => lane[r] \in Lanes
    /\ req[r] \in Acquires => at[r] \in Semaphores /\ at[r] \in {lane[r], Global}

IInv == TypeOK /\ PlaceInv /\ RequestPermitsConserved /\ QueuesHoldWaiters
-----------------------------------------------------------------------------
(* Queues and permits as sets.                                             *)

WaitsFor(s) == {r \in Requests : req[r] = "waiting" /\ at[r] = s}

\* QueuesHoldWaiters in terms of the elements of a queue.
LEMMA QueuesAsSets ==
  QueuesHoldWaiters <=> \A s \in Semaphores : /\ queue[s] # <<>> => free[s] = 0
                                              /\ Distinct(queue[s])
                                              /\ Elements(queue[s]) = WaitsFor(s)
BY DEF QueuesHoldWaiters, Distinct, Elements, WaitsFor

\* What a call owns, by where it stands.
LEMMA HeldFacts ==
  ASSUME NEW r \in Requests
  PROVE  /\ req[r] \in Idle => Held(r) = {}
         /\ req[r] \in {"acquiring", "waiting"} =>
              Held(r) = ({lane[r]} \cap Semaphores) \ {at[r]}
         /\ req[r] = "granted" => Held(r) = ({lane[r]} \cap Semaphores) \cup {at[r]}
         /\ req[r] \in Executes => Held(r) = ({lane[r]} \cap Semaphores) \cup {Global}
BY DEF Held, Idle, Executes, Settled

\* The same, after a step.
LEMMA HeldNext ==
  ASSUME NEW r \in Requests
  PROVE  /\ req'[r] \in Idle => Held(r)' = {}
         /\ req'[r] \in {"acquiring", "waiting"} =>
              Held(r)' = ({lane'[r]} \cap Semaphores) \ {at'[r]}
         /\ req'[r] = "granted" => Held(r)' = ({lane'[r]} \cap Semaphores) \cup {at'[r]}
         /\ req'[r] \in Executes => Held(r)' = ({lane'[r]} \cap Semaphores) \cup {Global}
BY DEF Held, Idle, Executes, Settled

\* There is always the group's semaphore, and one per lane if replicated.
LEMMA SemaphoreFacts ==
  /\ Global \in Semaphores
  /\ Semaphores \subseteq Lanes \cup {Global}
  /\ NoLane \notin Semaphores
  /\ ~Replicated => Semaphores = {Global}
  /\ Replicated => Lanes \subseteq Semaphores
  /\ Global \notin Lanes
BY AdmissionAssumption DEF Semaphores

\* The limits are natural numbers.
LEMMA LimitType == \A s \in Semaphores : Limit(s) \in Nat
<1>1. Cardinality(Lanes) \in Nat /\ Cardinality(Lanes) > 0
  BY AdmissionAssumption, FS_CardinalityType, FS_EmptySet
<1>2. LocalLimit \in Nat
  BY <1>1, AdmissionAssumption DEF LocalLimit
<1> QED BY <1>2, AdmissionAssumption DEF Limit

\* Finitely many requests hold a permit, before and after a step.
LEMMA HoldersFinite == \A s : /\ IsFiniteSet(Holders(s)) /\ Cardinality(Holders(s)) \in Nat
                              /\ IsFiniteSet(Holders(s)') /\ Cardinality(Holders(s)') \in Nat
BY AdmissionAssumption, FS_Subset, FS_CardinalityType DEF Holders
-----------------------------------------------------------------------------
(* Steps that move no permit and no waiter.                                *)

\* A step that leaves what every call owns alone conserves the permits.
LEMMA PermitsKept ==
  ASSUME RequestPermitsConserved, free' = free,
         \A x \in Requests : Held(x)' = Held(x)
  PROVE  RequestPermitsConserved'
<1>1. \A s : Holders(s)' = Holders(s)
  BY DEF Holders
<1> QED BY <1>1 DEF RequestPermitsConserved

\* A step that leaves the waiting calls alone keeps the queues exact.
LEMMA QueuesKept ==
  ASSUME QueuesHoldWaiters, free' = free, queue' = queue,
         \A x \in Requests, s \in Semaphores :
           (req'[x] = "waiting" /\ at'[x] = s) <=> (req[x] = "waiting" /\ at[x] = s)
  PROVE  QueuesHoldWaiters'
<1>1. \A s \in Semaphores : WaitsFor(s)' = WaitsFor(s)
  BY DEF WaitsFor
<1> QED BY <1>1 DEF QueuesHoldWaiters, WaitsFor

\* A step of one call that leaves both semaphores alone.
LEMMA OneCallMoves ==
  ASSUME IInv, NEW r \in Requests, NEW st \in CallStates, NEW l \in Lanes,
         NEW a \in Semaphores,
         req[r] # "waiting", st # "waiting",
         req' = [req EXCEPT ![r] = st], lane' = [lane EXCEPT ![r] = l],
         at' = [at EXCEPT ![r] = a], st \in Acquires => a \in {l, Global},
         free' = free, queue' = queue, cancelled' \in [Lanes -> BOOLEAN],
         Held(r)' = Held(r)
  PROVE  IInv'
<1>1. TypeOK'
  BY DEF IInv, TypeOK
<1>2. PlaceInv'
  BY DEF IInv, TypeOK, PlaceInv, Acquires
<1>3. \A x \in Requests : x # r => req'[x] = req[x] /\ lane'[x] = lane[x] /\ at'[x] = at[x]
  BY DEF IInv, TypeOK
<1>4. \A x \in Requests : x # r => Held(x)' = Held(x)
  BY <1>3 DEF Held
<1>5. RequestPermitsConserved'
  BY <1>4, PermitsKept DEF IInv
<1>6. req'[r] # "waiting"
  BY DEF IInv, TypeOK
<1>7. QueuesHoldWaiters'
  BY <1>3, <1>6, QueuesKept DEF IInv
<1> QED BY <1>1, <1>2, <1>5, <1>7 DEF IInv
-----------------------------------------------------------------------------
(* Steps that take or give back permits.                                   *)

\* A free permit is taken.
LEMMA PermitTaken ==
  ASSUME IInv, NEW r \in Requests, NEW st \in CallStates \ {"waiting"},
         req[r] = "acquiring", free[at[r]] > 0,
         free' = [free EXCEPT ![at[r]] = @ - 1],
         req' = [req EXCEPT ![r] = st],
         st = IF at[r] = Global THEN "reading" ELSE "acquiring",
         at' = [at EXCEPT ![r] = Global],
         UNCHANGED <<lane, queue, cancelled>>
  PROVE  IInv'
<1> DEFINE a == at[r]
<1>0. /\ a \in Semaphores /\ a \in {lane[r], Global} /\ lane[r] \in Lanes
      /\ free \in [Semaphores -> Nat]
  BY DEF IInv, TypeOK, PlaceInv, Acquires
<1>1. TypeOK'
  BY <1>0, SemaphoreFacts DEF IInv, TypeOK
<1>2. PlaceInv'
  BY SemaphoreFacts DEF IInv, TypeOK, PlaceInv, Acquires
<1>3. \A x \in Requests : x # r => req'[x] = req[x] /\ lane'[x] = lane[x] /\ at'[x] = at[x]
  BY DEF IInv, TypeOK
<1>4. \A x \in Requests : x # r => Held(x)' = Held(x)
  BY <1>3 DEF Held
<1>5. req'[r] = st /\ at'[r] = Global /\ lane'[r] = lane[r]
  BY DEF IInv, TypeOK
<1>6. Held(r) = ({lane[r]} \cap Semaphores) \ {a}
  BY HeldFacts
<1>7. Held(r)' = Held(r) \cup {a}
  <2>1. CASE a = Global
    BY <2>1, <1>5, <1>6, <1>0, HeldNext, SemaphoreFacts DEF Executes
  <2>2. CASE a # Global
    BY <2>2, <1>5, <1>6, <1>0, HeldNext, SemaphoreFacts
  <2> QED BY <2>1, <2>2
<1>8. RequestPermitsConserved'
  <2> SUFFICES ASSUME NEW s \in Semaphores
               PROVE  free'[s] + Cardinality(Holders(s)') = Limit(s)
    BY DEF RequestPermitsConserved
  <2>0. /\ free[s] + Cardinality(Holders(s)) = Limit(s)
        /\ IsFiniteSet(Holders(s)) /\ Cardinality(Holders(s)) \in Nat
    BY HoldersFinite DEF IInv, RequestPermitsConserved
  <2>1. CASE s = a
    <3>1. Holders(s)' = Holders(s) \cup {r}
      BY <2>1, <1>4, <1>7 DEF Holders
    <3>2. r \notin Holders(s)
      BY <2>1, <1>6 DEF Holders
    <3>3. Cardinality(Holders(s)') = Cardinality(Holders(s)) + 1
      BY <3>1, <3>2, <2>0, FS_AddElement
    <3>4. free'[s] = free[s] - 1 /\ free[s] \in Nat
      BY <2>1, <1>0
    <3> QED BY <3>3, <3>4, <2>0
  <2>2. CASE s # a
    <3>1. Holders(s)' = Holders(s)
      BY <2>2, <1>4, <1>7 DEF Holders
    <3>2. free'[s] = free[s]
      BY <2>2, <1>0
    <3> QED BY <3>1, <3>2, <2>0
  <2> QED BY <2>1, <2>2
<1>9. QueuesHoldWaiters'
  <2>1. req'[r] # "waiting"
    BY <1>5
  <2>2. \A s \in Semaphores : WaitsFor(s)' = WaitsFor(s)
    BY <1>3, <2>1 DEF WaitsFor
  <2>3. \A s \in Semaphores : queue[s] # <<>> => free[s] = 0
    BY DEF IInv, QueuesHoldWaiters
  <2>4. queue[a] = <<>>
    BY <2>3, <1>0
  <2>5. \A s \in Semaphores : queue[s] # <<>> => free'[s] = 0
    BY <2>3, <2>4, <1>0
  <2> QED BY <2>2, <2>5 DEF IInv, QueuesHoldWaiters, WaitsFor
<1> QED BY <1>1, <1>2, <1>8, <1>9 DEF IInv

\* No permit is free, and the request queues up.
LEMMA QueuesUp ==
  ASSUME IInv, NEW r \in Requests, req[r] = "acquiring", ~(free[at[r]] > 0),
         req' = [req EXCEPT ![r] = "waiting"],
         queue' = [queue EXCEPT ![at[r]] = Append(@, r)],
         UNCHANGED <<lane, at, free, cancelled>>
  PROVE  IInv'
<1> DEFINE a == at[r]
           q == queue[a]
<1>0. /\ a \in Semaphores /\ free[a] = 0
      /\ queue \in [Semaphores -> Seq(Requests)] /\ q \in Seq(Requests)
      /\ Distinct(q) /\ Elements(q) = WaitsFor(a)
  BY QueuesAsSets DEF IInv, TypeOK, PlaceInv, Acquires
<1>1. r \notin Elements(q)
  BY <1>0 DEF WaitsFor
<1>2. /\ Append(q, r) \in Seq(Requests) /\ Distinct(Append(q, r))
      /\ Elements(Append(q, r)) = Elements(q) \cup {r}
  BY <1>0, <1>1, AppendElements
<1>3. \A s \in Semaphores : queue'[s] = IF s = a THEN Append(q, r) ELSE queue[s]
  BY <1>0
<1>4. TypeOK'
  BY <1>2, <1>0 DEF IInv, TypeOK, CallStates
<1>5. PlaceInv'
  BY DEF IInv, TypeOK, PlaceInv, Acquires
<1>6. \A x \in Requests : req'[x] = IF x = r THEN "waiting" ELSE req[x]
  BY DEF IInv, TypeOK
<1>7. \A x \in Requests : Held(x)' = Held(x)
  <2> SUFFICES ASSUME NEW x \in Requests PROVE Held(x)' = Held(x)
    OBVIOUS
  <2>1. CASE x = r
    BY <2>1, <1>6, HeldFacts, HeldNext
  <2>2. CASE x # r
    BY <2>2, <1>6 DEF Held
  <2> QED BY <2>1, <2>2
<1>8. RequestPermitsConserved'
  BY <1>7, PermitsKept DEF IInv
<1>9. \A s \in Semaphores : WaitsFor(s)' = IF s = a THEN WaitsFor(s) \cup {r} ELSE WaitsFor(s)
  BY <1>6, <1>0 DEF WaitsFor
<1>10. \A s \in Semaphores : /\ queue'[s] # <<>> => free'[s] = 0
                             /\ Distinct(queue'[s])
                             /\ Elements(queue'[s]) = WaitsFor(s)'
  BY <1>0, <1>2, <1>3, <1>9, QueuesAsSets DEF IInv
<1>11. QueuesHoldWaiters'
  BY <1>10 DEF QueuesHoldWaiters, Distinct, Elements, WaitsFor
<1> QED BY <1>4, <1>5, <1>8, <1>11 DEF IInv

\* A call ends and gives back what it holds, to the first waiter if there is one.
LEMMA CallEnds ==
  ASSUME IInv, NEW r \in Requests, NEW outcome \in Idle \ {"new"}, req[r] # "new",
         Finish(r, outcome), UNCHANGED <<lane, at, cancelled>>
  PROVE  IInv'
<1> DEFINE back == Held(r)
           R(s) == RemoveFirst(queue[s], r)
           rest == [s \in Semaphores |-> R(s)]
           next == {Head(rest[s]) : s \in {t \in back : rest[t] # <<>>}}
<1>0. /\ req \in [Requests -> CallStates] /\ queue \in [Semaphores -> Seq(Requests)]
      /\ free \in [Semaphores -> Nat]
  BY DEF IInv, TypeOK
<1>1. /\ req' = [x \in Requests |-> IF x = r THEN outcome
                                   ELSE IF x \in next THEN "granted" ELSE req[x]]
      /\ queue' = [s \in Semaphores |->
           IF s \in back /\ rest[s] # <<>> THEN Tail(rest[s]) ELSE rest[s]]
      /\ free' = [s \in Semaphores |->
           IF s \in back /\ rest[s] = <<>> THEN free[s] + 1 ELSE free[s]]
  BY DEF Finish
<1>2. \A s \in Semaphores : rest[s] = R(s)
  OBVIOUS
<1>3. \A s \in Semaphores : /\ rest[s] \in Seq(Requests) /\ Distinct(rest[s])
                            /\ Elements(rest[s]) = WaitsFor(s) \ {r}
                            /\ queue[s] # <<>> => free[s] = 0
  <2> SUFFICES ASSUME NEW s \in Semaphores
               PROVE  /\ rest[s] \in Seq(Requests) /\ Distinct(rest[s])
                      /\ Elements(rest[s]) = WaitsFor(s) \ {r}
                      /\ queue[s] # <<>> => free[s] = 0
    OBVIOUS
  <2>1. /\ queue[s] \in Seq(Requests) /\ Distinct(queue[s])
        /\ Elements(queue[s]) = WaitsFor(s) /\ (queue[s] # <<>> => free[s] = 0)
    BY <1>0, QueuesAsSets DEF IInv
  <2>2. /\ R(s) \in Seq(Requests) /\ Elements(R(s)) = Elements(queue[s]) \ {r}
        /\ Distinct(R(s))
    BY <2>1, RemoveElements
  <2> QED BY <1>2, <2>1, <2>2
<1> HIDE DEF rest, R
<1>4. \A s \in Semaphores : rest[s] # <<>> =>
        /\ Head(rest[s]) \in WaitsFor(s) \ {r}
        /\ Tail(rest[s]) \in Seq(Requests) /\ Distinct(Tail(rest[s]))
        /\ Elements(Tail(rest[s])) = (WaitsFor(s) \ {r}) \ {Head(rest[s])}
        /\ free[s] = 0
  <2> SUFFICES ASSUME NEW s \in Semaphores, rest[s] # <<>>
               PROVE  /\ Head(rest[s]) \in WaitsFor(s) \ {r}
                      /\ Tail(rest[s]) \in Seq(Requests) /\ Distinct(Tail(rest[s]))
                      /\ Elements(Tail(rest[s])) = (WaitsFor(s) \ {r}) \ {Head(rest[s])}
                      /\ free[s] = 0
    OBVIOUS
  <2>1. /\ Head(rest[s]) \in Elements(rest[s])
        /\ Tail(rest[s]) \in Seq(Requests) /\ Distinct(Tail(rest[s]))
        /\ Elements(Tail(rest[s])) = Elements(rest[s]) \ {Head(rest[s])}
    BY <1>3, TailElements
  <2>2. queue[s] # <<>>
    <3>1. Elements(queue[s]) # {}
      BY <2>1, <1>3, QueuesAsSets DEF IInv
    <3>2. Elements(<<>>) = {}
      BY DEF Elements
    <3> QED BY <3>1, <3>2
  <2> QED BY <2>1, <2>2, <1>3
<1>5. back \subseteq Semaphores
  BY HeldFacts, SemaphoreFacts DEF IInv, TypeOK, PlaceInv, Acquires, CallStates, Idle, Executes
\* A request is woken exactly if it waits first for something that comes back.
<1>6. \A x \in Requests :
        x \in next <=> \E s \in back : rest[s] # <<>> /\ x = Head(rest[s])
  OBVIOUS
<1> HIDE DEF next, back
<1>7. \A x \in next : /\ x \in Requests /\ x # r /\ req[x] = "waiting"
                      /\ at[x] \in back /\ rest[at[x]] # <<>> /\ x = Head(rest[at[x]])
  <2> SUFFICES ASSUME NEW x \in next
               PROVE  /\ x \in Requests /\ x # r /\ req[x] = "waiting"
                      /\ at[x] \in back /\ rest[at[x]] # <<>> /\ x = Head(rest[at[x]])
    OBVIOUS
  <2>1. PICK s \in back : rest[s] # <<>> /\ x = Head(rest[s])
    BY DEF next
  <2>2. x \in WaitsFor(s) \ {r}
    BY <2>1, <1>4, <1>5
  <2> QED BY <2>1, <2>2 DEF WaitsFor
<1>8. \A x \in Requests : /\ x = r => req'[x] = outcome
                          /\ x # r /\ x \in next => req'[x] = "granted"
                          /\ x # r /\ x \notin next => req'[x] = req[x]
  BY <1>1
<1>9. TypeOK'
  <2>1. req' \in [Requests -> CallStates]
    BY <1>0, <1>1 DEF CallStates, Idle
  <2>2. queue' \in [Semaphores -> Seq(Requests)]
    BY <1>1, <1>3, <1>4
  <2>3. free' \in [Semaphores -> Nat]
    BY <1>0, <1>1
  <2> QED BY <2>1, <2>2, <2>3 DEF IInv, TypeOK
<1>10. PlaceInv'
  <2> SUFFICES ASSUME NEW x \in Requests
               PROVE  /\ req'[x] # "new" => lane[x] \in Lanes
                      /\ req'[x] \in Acquires => /\ at[x] \in Semaphores
                                                 /\ at[x] \in {lane[x], Global}
    BY DEF PlaceInv
  <2>0. /\ req[x] # "new" => lane[x] \in Lanes
        /\ req[x] \in Acquires => at[x] \in Semaphores /\ at[x] \in {lane[x], Global}
        /\ req[r] # "new" => lane[r] \in Lanes
    BY DEF IInv, PlaceInv
  <2>1. CASE x = r
    BY <2>0, <2>1, <1>8 DEF Idle, Acquires, Settled
  <2>2. CASE x # r /\ x \in next
    BY <2>0, <2>2, <1>7 DEF Acquires
  <2>3. CASE x # r /\ x \notin next
    BY <2>0, <2>3, <1>8
  <2> QED BY <2>1, <2>2, <2>3
<1>11. \A x \in Requests : Held(x)' = IF x = r THEN {}
                                      ELSE IF x \in next THEN Held(x) \cup {at[x]}
                                      ELSE Held(x)
  <2> SUFFICES ASSUME NEW x \in Requests
               PROVE  Held(x)' = IF x = r THEN {}
                                 ELSE IF x \in next THEN Held(x) \cup {at[x]}
                                 ELSE Held(x)
    OBVIOUS
  <2>1. CASE x = r
    BY <2>1, <1>8, HeldNext
  <2>2. CASE x # r /\ x \in next
    <3>1. Held(x)' = ({lane[x]} \cap Semaphores) \cup {at[x]}
      BY <2>2, <1>8, HeldNext
    <3>2. Held(x) = ({lane[x]} \cap Semaphores) \ {at[x]}
      BY <2>2, <1>7, HeldFacts
    <3> QED BY <2>2, <3>1, <3>2
  <2>3. CASE x # r /\ x \notin next
    <3>1. req'[x] = req[x]
      BY <2>3, <1>8
    <3>2. Held(x)' = Held(x)
      BY <3>1 DEF Held
    <3> QED BY <2>3, <3>2
  <2> QED BY <2>1, <2>2, <2>3
<1>12. RequestPermitsConserved'
  <2> SUFFICES ASSUME NEW s \in Semaphores
               PROVE  free'[s] + Cardinality(Holders(s)') = Limit(s)
    BY DEF RequestPermitsConserved
  <2>0. /\ free[s] + Cardinality(Holders(s)) = Limit(s)
        /\ IsFiniteSet(Holders(s)) /\ Cardinality(Holders(s)) \in Nat
        /\ free[s] \in Nat
    BY HoldersFinite, <1>0 DEF IInv, RequestPermitsConserved
  <2>1. CASE s \in back /\ rest[s] # <<>>
    <3> DEFINE w == Head(rest[s])
    <3>1. w \in Requests /\ w # r /\ req[w] = "waiting" /\ at[w] = s /\ w \in next
      BY <2>1, <1>4, <1>6 DEF WaitsFor
    <3>2. w \notin Holders(s)
      BY <3>1, HeldFacts DEF Holders
    <3>3. r \in Holders(s)
      BY <2>1 DEF Holders, back
    <3>4. \A x \in next : at[x] = s => x = w
      BY <1>7
    <3> HIDE DEF w
    <3>5. Holders(s)' = (Holders(s) \ {r}) \cup {w}
      BY <3>1, <3>4, <1>11 DEF Holders
    <3>6. Cardinality(Holders(s)') = Cardinality(Holders(s))
      <4>1. /\ IsFiniteSet(Holders(s) \ {r})
            /\ Cardinality(Holders(s) \ {r}) = Cardinality(Holders(s)) - 1
        BY <3>3, <2>0, FS_RemoveElement
      <4>2. Cardinality((Holders(s) \ {r}) \cup {w}) = Cardinality(Holders(s) \ {r}) + 1
        BY <4>1, <3>2, FS_AddElement
      <4> QED BY <4>1, <4>2, <3>5, <2>0
    <3>7. free'[s] = free[s]
      BY <2>1, <1>1
    <3> QED BY <3>6, <3>7, <2>0
  <2>2. CASE s \in back /\ rest[s] = <<>>
    <3>1. \A x \in next : at[x] # s
      BY <2>2, <1>7
    <3>2. Holders(s)' = Holders(s) \ {r}
      BY <3>1, <1>11, <1>7 DEF Holders
    <3>3. r \in Holders(s)
      BY <2>2 DEF Holders, back
    <3>4. Cardinality(Holders(s)') = Cardinality(Holders(s)) - 1
      BY <3>2, <3>3, <2>0, FS_RemoveElement
    <3>5. free'[s] = free[s] + 1
      BY <2>2, <1>1
    <3> QED BY <3>4, <3>5, <2>0
  <2>3. CASE s \notin back
    <3>1. \A x \in next : at[x] # s
      BY <2>3, <1>7
    <3>2. r \notin Holders(s)
      BY <2>3 DEF Holders, back
    <3>3. Holders(s)' = Holders(s)
      BY <3>1, <3>2, <1>11, <1>7 DEF Holders
    <3>4. free'[s] = free[s]
      BY <2>3, <1>1
    <3> QED BY <3>3, <3>4, <2>0
  <2> QED BY <2>1, <2>2, <2>3
<1>13. QueuesHoldWaiters'
  <2>1. ASSUME NEW s \in Semaphores
        PROVE  /\ queue'[s] # <<>> => free'[s] = 0
               /\ Distinct(queue'[s])
               /\ Elements(queue'[s]) = WaitsFor(s)'
    <3>0. outcome # "waiting"
      BY DEF Idle, Settled
    <3>1. WaitsFor(s)' = (WaitsFor(s) \ {r}) \ next
      BY <3>0, <1>8, <1>7 DEF WaitsFor
    <3>2. CASE s \in back /\ rest[s] # <<>>
      <4>1. (WaitsFor(s) \ {r}) \ next = (WaitsFor(s) \ {r}) \ {Head(rest[s])}
        BY <3>2, <1>4, <1>6, <1>7 DEF WaitsFor
      <4>2. queue'[s] = Tail(rest[s]) /\ free'[s] = free[s]
        BY <3>2, <1>1
      <4> QED BY <4>1, <4>2, <3>1, <3>2, <1>4
    <3>3. CASE ~(s \in back /\ rest[s] # <<>>)
      <4>1. WaitsFor(s) \cap next = {}
        BY <3>3, <1>7 DEF WaitsFor
      <4>2. queue'[s] = rest[s]
        BY <3>3, <1>1
      <4>3. rest[s] # <<>> => free'[s] = 0
        BY <3>3, <1>1, <1>4
      <4> QED BY <4>1, <4>2, <4>3, <3>1, <1>3
    <3> QED BY <3>2, <3>3
  <2> QED BY <2>1 DEF QueuesHoldWaiters, Distinct, Elements, WaitsFor
<1> QED BY <1>9, <1>10, <1>12, <1>13 DEF IInv
-----------------------------------------------------------------------------
\* Before the first request all permits are free and nobody waits.
LEMMA InitHolds == Init => IInv
<1> SUFFICES ASSUME Init PROVE IInv
  OBVIOUS
<1>1. TypeOK
  BY LimitType, EmptySeq DEF Init, TypeOK, CallStates
<1>2. PlaceInv
  BY DEF Init, PlaceInv, Acquires
<1>3. RequestPermitsConserved
  <2>1. \A s : Holders(s) = {}
    BY HeldFacts DEF Init, Holders, Idle
  <2>2. \A s \in Semaphores : Cardinality(Holders(s)) = 0
    BY <2>1, FS_EmptySet
  <2>3. \A s \in Semaphores : free[s] = Limit(s) /\ Limit(s) \in Nat
    BY LimitType DEF Init
  <2> QED BY <2>2, <2>3 DEF RequestPermitsConserved
<1>4. QueuesHoldWaiters
  <2>1. \A s \in Semaphores : queue[s] = <<>> /\ Len(queue[s]) = 0 /\ WaitsFor(s) = {}
    BY DEF Init, WaitsFor
  <2> QED BY <2>1 DEF QueuesHoldWaiters, WaitsFor
<1> QED BY <1>1, <1>2, <1>3, <1>4 DEF IInv

\* Every step of a call, a client or a cancellation keeps the invariant.
LEMMA NextHolds == IInv /\ [Next]_vars => IInv'
<1> SUFFICES ASSUME IInv, [Next]_vars PROVE IInv'
  OBVIOUS
<1>0. TypeOK /\ PlaceInv
  BY DEF IInv
<1>1. ASSUME NEW r \in Requests, NEW l \in Lanes, NEW oversized \in BOOLEAN,
             Call(r, l, oversized)
      PROVE  IInv'
  <2> DEFINE st == IF oversized THEN "rejected" ELSE "acquiring"
             a == IF Replicated THEN l ELSE Global
  <2>1. a \in Semaphores /\ a \in {l, Global} /\ st \in CallStates /\ st # "waiting"
    BY SemaphoreFacts DEF CallStates, Settled
  <2>2. req'[r] = st /\ lane'[r] = l /\ at'[r] = a
    BY <1>1, <1>0 DEF Call, TypeOK
  <2>3. Held(r) = {}
    BY <1>1, HeldFacts DEF Call, Idle
  <2>4. Held(r)' = {}
    <3>1. CASE oversized
      BY <3>1, <2>2, HeldNext DEF Idle, Settled
    <3>2. CASE ~oversized
      BY <3>2, <2>2, HeldNext, SemaphoreFacts
    <3> QED BY <3>1, <3>2
  <2> HIDE DEF st, a
  <2>5. /\ req' = [req EXCEPT ![r] = st] /\ lane' = [lane EXCEPT ![r] = l]
        /\ at' = [at EXCEPT ![r] = a] /\ free' = free /\ queue' = queue
        /\ cancelled' \in [Lanes -> BOOLEAN] /\ req[r] # "waiting"
    BY <1>1, <1>0 DEF Call, TypeOK, st, a
  <2> QED BY <2>1, <2>3, <2>4, <2>5, OneCallMoves
<1>2. ASSUME NEW r \in Requests, AcquireRequestPermit(r) PROVE IInv'
  <2>1. CASE cancelled[lane[r]]
    BY <2>1, <1>2, CallEnds DEF AcquireRequestPermit, Idle, Settled
  <2>2. CASE ~cancelled[lane[r]] /\ free[at[r]] > 0
    <3> DEFINE st == IF at[r] = Global THEN "reading" ELSE "acquiring"
    <3>1. st \in CallStates \ {"waiting"}
      BY DEF CallStates
    <3> QED BY <3>1, <2>2, <1>2, PermitTaken DEF AcquireRequestPermit, Advance
  <2>3. CASE ~cancelled[lane[r]] /\ ~(free[at[r]] > 0)
    BY <2>3, <1>2, QueuesUp DEF AcquireRequestPermit
  <2> QED BY <2>1, <2>2, <2>3
<1>3. ASSUME NEW r \in Requests, PermitArrives(r) PROVE IInv'
  <2> DEFINE st == IF at[r] = Global THEN "reading" ELSE "acquiring"
  <2>1. /\ st \in CallStates /\ st # "waiting" /\ req[r] = "granted"
        /\ lane[r] \in Lanes /\ at[r] \in {lane[r], Global} /\ at[r] \in Semaphores
        /\ Global \in Semaphores
    BY <1>3, <1>0, SemaphoreFacts DEF PermitArrives, CallStates, PlaceInv, Acquires
  <2>2. /\ req' = [req EXCEPT ![r] = st] /\ at' = [at EXCEPT ![r] = Global]
        /\ free' = free /\ queue' = queue /\ cancelled' = cancelled /\ lane' = lane
    BY <1>3 DEF PermitArrives, Advance
  <2>3. req'[r] = st /\ at'[r] = Global /\ lane'[r] = lane[r]
    BY <2>2, <1>0 DEF TypeOK
  <2>4. Held(r) = ({lane[r]} \cap Semaphores) \cup {at[r]}
    BY <2>1, HeldFacts
  <2>5. Held(r)' = Held(r)
    <3>1. CASE at[r] = Global
      BY <3>1, <2>1, <2>3, <2>4, HeldNext DEF Executes
    <3>2. CASE at[r] # Global
      BY <3>2, <2>1, <2>3, <2>4, HeldNext, SemaphoreFacts
    <3> QED BY <3>1, <3>2
  <2>6. lane' = [lane EXCEPT ![r] = lane[r]] /\ cancelled' \in [Lanes -> BOOLEAN]
    BY <2>2, <1>0 DEF TypeOK
  <2> HIDE DEF st
  <2> QED BY <2>1, <2>2, <2>5, <2>6, OneCallMoves
<1>4. ASSUME NEW r \in Requests,
             AcquireCancelled(r) \/ BodyRejected(r) \/ BodyCancelled(r) \/ Respond(r)
               \/ OpenSession(r) \/ CallDropped(r)
      PROVE  IInv'
  <2>1. /\ req[r] # "new" /\ UNCHANGED <<lane, at, cancelled>>
        /\ \E o \in Idle \ {"new"} : Finish(r, o)
    BY <1>4 DEF AcquireCancelled, BodyRejected, BodyCancelled, Respond, OpenSession,
         CallDropped, Idle, Settled
  <2> QED BY <2>1, CallEnds
<1>5. ASSUME NEW r \in Requests, NEW st \in {"dispatching", "answered"},
             req[r] = IF st = "answered" THEN "session" ELSE "reading",
             req' = [req EXCEPT ![r] = st],
             UNCHANGED <<lane, at, free, queue, cancelled>>
      PROVE  IInv'
  <2>1. req'[r] = st
    BY <1>5, <1>0 DEF TypeOK
  <2>2. Held(r)' = Held(r)
    BY <1>5, <2>1, HeldFacts, HeldNext DEF Idle, Executes, Settled
  <2>3. TypeOK'
    BY <1>5, <1>0 DEF TypeOK, CallStates, Settled
  <2>4. PlaceInv'
    BY <1>5, <1>0 DEF TypeOK, PlaceInv, Acquires
  <2>5. \A x \in Requests : x # r => req'[x] = req[x]
    BY <1>5, <1>0 DEF TypeOK
  <2>6. \A x \in Requests : x # r => Held(x)' = Held(x)
    BY <2>5, <1>5 DEF Held
  <2>7. RequestPermitsConserved'
    BY <2>2, <2>6, <1>5, PermitsKept DEF IInv
  <2>8. QueuesHoldWaiters'
    BY <2>1, <2>5, <1>5, QueuesKept DEF IInv
  <2> QED BY <2>3, <2>4, <2>7, <2>8 DEF IInv
<1>6. ASSUME UNCHANGED <<req, lane, at, free, queue>>, cancelled' \in [Lanes -> BOOLEAN]
      PROVE  IInv'
  <2>1. TypeOK' /\ PlaceInv'
    BY <1>6, <1>0 DEF TypeOK, PlaceInv
  <2>2. \A x \in Requests : Held(x)' = Held(x)
    BY <1>6 DEF Held
  <2> QED BY <2>1, <2>2, <1>6, PermitsKept, QueuesKept DEF IInv
<1>7. ASSUME NEW l \in Lanes, CancelLane(l) PROVE IInv'
  BY <1>6, <1>7, <1>0 DEF CancelLane, TypeOK
<1>8. ASSUME NEW r \in Requests, BodyRead(r) \/ SessionEnds(r) PROVE IInv'
  BY <1>5, <1>8 DEF BodyRead, SessionEnds
<1>9. CASE UNCHANGED vars
  BY <1>6, <1>9, <1>0 DEF vars, TypeOK
<1> QED BY <1>1, <1>2, <1>3, <1>4, <1>7, <1>8, <1>9 DEF Next, CallStep

\* The inductive invariant of admission: a parsed request is on a lane, acquires
\* its lane's permit or the group's, and both semaphores are exact.
THEOREM AdmissionInvariant == Spec => []IInv
BY InitHolds, NextHolds, PTL DEF Spec

\* For every number of requests, lanes and permits, no call of
\* IngressService::call loses or duplicates a permit, and the queues of both
\* semaphores hold exactly the calls that wait.
THEOREM SemaphoresAreExact == Spec => []AdmissionIsExact
<1>1. IInv => AdmissionIsExact
  BY DEF IInv, AdmissionIsExact
<1> QED BY <1>1, AdmissionInvariant, PTL
-----------------------------------------------------------------------------
\* The lanes' shares, rounded up, exceed the limit by less than one per lane.
LEMMA SharesCover ==
  /\ Cardinality(Lanes) \in Nat /\ Cardinality(Lanes) > 0 /\ LocalLimit \in Nat
  /\ Cardinality(Lanes) * LocalLimit <= MaxConcurrent + Cardinality(Lanes) - 1
<1> DEFINE n == Cardinality(Lanes)
           total == MaxConcurrent + n - 1
<1>1. n \in Nat /\ n > 0 /\ MaxConcurrent \in Nat
  BY AdmissionAssumption, FS_CardinalityType, FS_EmptySet
<1> HIDE DEF n
<1>2. /\ total \div n \in Int
      /\ total = n * (total \div n) + (total % n)
      /\ total % n \in 0 .. (n - 1)
  BY <1>1
<1>3. n * (total \div n) <= total
  BY <1>1, <1>2
<1>4. LocalLimit = total \div n /\ LocalLimit \in Nat
  BY <1>1 DEF LocalLimit, n
<1> QED BY <1>1, <1>3, <1>4 DEF n

\* Whoever waits for the group, or has its permit, holds one of their lane.
LEMMA LaneFirst ==
  ASSUME IInv, Replicated, NEW x \in WaitsFor(Global) \cup Holders(Global)
  PROVE  /\ x \in Requests /\ lane[x] \in Lanes
         /\ lane[x] \in Semaphores /\ x \in Holders(lane[x])
<1>1. x \in Requests
  BY DEF WaitsFor, Holders
<1>2. req[x] \in {"waiting", "granted"} \cup Executes /\ (req[x] = "waiting" => at[x] = Global)
  <2>1. CASE x \in WaitsFor(Global)
    BY <2>1 DEF WaitsFor
  <2>2. CASE x \in Holders(Global)
    <3>1. Global \in Held(x)
      BY <2>2 DEF Holders
    <3>2. req[x] \notin Idle
      BY <3>1, <1>1, HeldFacts
    <3>3. req[x] \notin {"acquiring", "waiting"}
      <4> SUFFICES ASSUME req[x] \in {"acquiring", "waiting"} PROVE FALSE
        OBVIOUS
      <4>1. lane[x] = Global
        BY <3>1, <1>1, HeldFacts
      <4> QED BY <4>1, <1>1, SemaphoreFacts DEF IInv, PlaceInv
    <3> QED BY <3>2, <3>3, <1>1 DEF IInv, TypeOK, CallStates, Idle, Executes
  <2> QED BY <2>1, <2>2
<1>3. lane[x] \in Lanes /\ lane[x] \in Semaphores /\ lane[x] # Global
  BY <1>1, <1>2, SemaphoreFacts DEF IInv, PlaceInv, Executes
<1>4. lane[x] \in Held(x)
  BY <1>1, <1>2, <1>3, HeldFacts
<1> QED BY <1>1, <1>3, <1>4 DEF Holders

\* A queue without repetition has as many places as elements.
LEMMA QueueLength ==
  ASSUME NEW S, NEW q \in Seq(S), Distinct(q)
  PROVE  /\ Len(q) \in Nat /\ IsFiniteSet(Elements(q))
         /\ Cardinality(Elements(q)) = Len(q)
<1>1. Len(q) \in Nat /\ q \in [1 .. Len(q) -> S]
  BY LenProperties
<1>2. q \in [1 .. Len(q) -> Elements(q)]
  BY <1>1 DEF Elements
<1>3. q \in Bijection(1 .. Len(q), Elements(q))
  BY <1>2 DEF Bijection, Injection, Surjection, IsInjective, Distinct, Elements
<1>4. IsFiniteSet(1 .. Len(q)) /\ Cardinality(1 .. Len(q)) = Len(q)
  BY <1>1, FS_Interval
<1>5. ExistsBijection(1 .. Len(q), Elements(q))
  BY <1>3 DEF ExistsBijection
<1> QED BY <1>1, <1>4, <1>5, FS_Bijection

\* Waiters for the group and owners of its permits together fit in the lanes'
\* permits, each of which has one owner.
LEMMA LanesBoundWaiters ==
  ASSUME IInv, Replicated
  PROVE  /\ IsFiniteSet(WaitsFor(Global) \cup Holders(Global))
         /\ Cardinality(WaitsFor(Global) \cup Holders(Global)) <=
              Cardinality(Lanes) * LocalLimit
<1> DEFINE Both == WaitsFor(Global) \cup Holders(Global)
           Places == Lanes \X (1 .. LocalLimit)
           B(l) == Bijection(1 .. Cardinality(Holders(l)), Holders(l))
           owner == [l \in Lanes |-> CHOOSE f : f \in B(l)]
           Index(x) == CHOOSE i \in 1 .. LocalLimit : owner[lane[x]][i] = x
           place == [x \in Both |-> <<lane[x], Index(x)>>]
<1>1. \A l \in Lanes : /\ Cardinality(Holders(l)) \in Nat
                       /\ Cardinality(Holders(l)) <= LocalLimit
                       /\ owner[l] \in B(l)
  <2> SUFFICES ASSUME NEW l \in Lanes
               PROVE  /\ Cardinality(Holders(l)) \in Nat
                      /\ Cardinality(Holders(l)) <= LocalLimit
                      /\ owner[l] \in B(l)
    OBVIOUS
  <2>1. l \in Semaphores /\ l # Global
    BY SemaphoreFacts
  <2>2. free[l] \in Nat /\ free[l] + Cardinality(Holders(l)) = LocalLimit
    BY <2>1 DEF IInv, TypeOK, RequestPermitsConserved, Limit
  <2>3. IsFiniteSet(Holders(l)) /\ Cardinality(Holders(l)) \in Nat
    BY HoldersFinite
  <2>4. \E f : f \in B(l)
    BY <2>3, FS_CardinalityType DEF ExistsBijection
  <2>5. owner[l] \in B(l)
    BY <2>4
  <2> QED BY <2>2, <2>3, <2>5, SharesCover
<1> HIDE DEF owner
<1>2. \A x \in Both : /\ lane[x] \in Lanes
                      /\ Index(x) \in 1 .. LocalLimit
                      /\ owner[lane[x]][Index(x)] = x
  <2> SUFFICES ASSUME NEW x \in Both
               PROVE  /\ lane[x] \in Lanes
                      /\ Index(x) \in 1 .. LocalLimit
                      /\ owner[lane[x]][Index(x)] = x
    OBVIOUS
  <2>1. lane[x] \in Lanes /\ x \in Holders(lane[x])
    BY LaneFirst
  <2>2. owner[lane[x]] \in Surjection(1 .. Cardinality(Holders(lane[x])), Holders(lane[x]))
    BY <2>1, <1>1 DEF Bijection
  <2>3. \E i \in 1 .. Cardinality(Holders(lane[x])) : owner[lane[x]][i] = x
    BY <2>1, <2>2 DEF Surjection
  <2>4. \E i \in 1 .. LocalLimit : owner[lane[x]][i] = x
    BY <2>3, <2>1, <1>1, SharesCover
  <2> QED BY <2>1, <2>4
<1> HIDE DEF Index
<1>3. place \in Injection(Both, Places)
  <2>1. place \in [Both -> Places]
    BY <1>2
  <2>2. ASSUME NEW x \in Both, NEW y \in Both, place[x] = place[y] PROVE x = y
    <3>1. lane[x] = lane[y] /\ Index(x) = Index(y)
      BY <2>2
    <3> QED BY <3>1, <1>2
  <2> QED BY <2>1, <2>2 DEF Injection, IsInjective
<1> HIDE DEF place
<1>4. IsFiniteSet(Places) /\ Cardinality(Places) = Cardinality(Lanes) * LocalLimit
  <2>1. IsFiniteSet(1 .. LocalLimit) /\ Cardinality(1 .. LocalLimit) = LocalLimit
    BY SharesCover, FS_Interval
  <2> QED BY <2>1, AdmissionAssumption, FS_Product
<1> HIDE DEF Places
<1>5. IsFiniteSet(Both) /\ Cardinality(Both) <= Cardinality(Places)
  BY <1>3, <1>4, FS_Injection
<1> QED BY <1>4, <1>5

\* The invariant bounds how many wait for the group.
LEMMA FewWait ==
  ASSUME IInv
  PROVE  FewWaitForTheGroup
<1> SUFFICES ASSUME Replicated
             PROVE  Len(queue[Global]) < Cardinality(Lanes)
  BY DEF FewWaitForTheGroup
<1> DEFINE q == queue[Global]
           W == WaitsFor(Global)
           H == Holders(Global)
<1>1. /\ q \in Seq(Requests) /\ Distinct(q) /\ Elements(q) = W
      /\ (q # <<>> => free[Global] = 0)
      /\ free[Global] + Cardinality(H) = MaxConcurrent /\ free[Global] \in Nat
  BY SemaphoreFacts, QueuesAsSets DEF IInv, TypeOK, RequestPermitsConserved, Limit
<1>2. Len(q) \in Nat /\ IsFiniteSet(W) /\ Cardinality(W) = Len(q)
  BY <1>1, QueueLength
<1>3. IsFiniteSet(H) /\ Cardinality(H) \in Nat /\ MaxConcurrent \in Nat
  BY HoldersFinite, AdmissionAssumption
<1>4. CASE q = <<>>
  BY <1>4, SharesCover
<1>5. CASE q # <<>>
  <2>1. Cardinality(H) = MaxConcurrent
    BY <1>1, <1>3, <1>5
  <2>2. W \cap H = {}
    BY HeldFacts DEF WaitsFor, Holders
  <2>3. Cardinality(W \cup H) = Len(q) + MaxConcurrent
    <3>1. Cardinality(W \cap H) = 0
      BY <2>2, FS_EmptySet
    <3>2. Cardinality(W \cup H) = Cardinality(W) + Cardinality(H) - Cardinality(W \cap H)
      BY <1>2, <1>3, FS_Union
    <3> QED BY <3>1, <3>2, <2>1, <1>2, <1>3
  <2>4. Cardinality(W \cup H) <= Cardinality(Lanes) * LocalLimit
    BY LanesBoundWaiters
  <2> HIDE DEF q, W, H
  <2>5. Len(q) + MaxConcurrent <= MaxConcurrent + Cardinality(Lanes) - 1
    BY <2>3, <2>4, <1>2, <1>3, SharesCover
  <2>6. Len(q) < Cardinality(Lanes)
    BY <2>5, <1>2, <1>3, SharesCover
  <2> QED BY <2>6 DEF q
<1> QED BY <1>4, <1>5

\* For every number of lanes and every max_concurrent_requests, fewer requests
\* wait for the group's semaphore than there are lanes: what `div_ceil` in
\* `bind` gives the lanes too much is all that can queue up there.
THEOREM FewEverWait == Spec => []FewWaitForTheGroup
<1>1. IInv => FewWaitForTheGroup
  BY FewWait
<1> QED BY <1>1, AdmissionInvariant, PTL
==============================================================================
