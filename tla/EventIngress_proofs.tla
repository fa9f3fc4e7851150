------------------------- MODULE EventIngress_proofs -------------------------
(***************************************************************************)
(* Proofs, for every number of requests and permits, that the event        *)
(* ingress bounds what its Endpoints work on, starts nothing while it      *)
(* drains and reports a clean end only of a success.                       *)
(***************************************************************************)
EXTENDS EventIngress, WaiterTheorems, FiniteSetTheorems

Owners == {r \in Requests : permit[r] # "none"}
Waiting == {r \in Requests : call[r] = "waiting"}

\* Who owns the permit of a request, by where its call and its body stand.
OwnerInv ==
  \A r \in Requests :
    /\ permit[r] = "call" <=> call[r] \in {"granted", "dispatching"}
    /\ permit[r] = "body" <=> body[r] = "open"
    /\ body[r] # "none" => call[r] = "streaming"
    /\ receiving[r] => body[r] \in {"open", "cancelled"}

\* Permits are free or owned, and the queue holds the calls that wait.
SemaphoreInv ==
  /\ IsFiniteSet(Owners)
  /\ free + Cardinality(Owners) = MaxConcurrent
  /\ Distinct(queue)
  /\ Elements(queue) = Waiting

\* A finished body, and an end that was reported, follow the Endpoint's success.
EndInv ==
  \A r \in Requests :
    /\ result[r] = "eof" => ended[r]
    /\ body[r] = "done" => ended[r]

IInv == TypeOK /\ OwnerInv /\ SemaphoreInv /\ EndInv
-----------------------------------------------------------------------------
SemaphoreType ==
  /\ call \in [Requests -> CallStates]
  /\ permit \in [Requests -> {"none", "call", "body"}]
  /\ free \in Nat
  /\ queue \in Seq(Requests)

\* What is free never exceeds the limit.
LEMMA FreeBounded ==
  ASSUME SemaphoreType', SemaphoreInv'
  PROVE  free' \in 0 .. MaxConcurrent
BY FS_CardinalityType, EventAssumption DEF SemaphoreType, SemaphoreInv

\* The call or the body of r gives up its permit, or its place in the queue.
LEMMA Released ==
  ASSUME SemaphoreType, SemaphoreInv, NEW r \in Requests, ReleasePermit(r),
         \A x \in Waiting : permit[x] = "none",
         call' \in [Requests -> CallStates], call'[r] # "waiting",
         \A x \in Requests : x # r =>
           call'[x] = IF x \in Woken(r) THEN "granted" ELSE call[x]
  PROVE  /\ SemaphoreType' /\ SemaphoreInv'
         /\ permit'[r] = "none"
         /\ \A x \in Requests : x # r => permit'[x] = IF x \in Woken(r) THEN "call" ELSE permit[x]
         /\ \A x \in Woken(r) : x \in Waiting
<1>0. /\ permit \in [Requests -> {"none", "call", "body"}] /\ queue \in Seq(Requests)
      /\ free \in Nat /\ IsFiniteSet(Owners) /\ Cardinality(Owners) \in Nat
      /\ free + Cardinality(Owners) = MaxConcurrent /\ MaxConcurrent \in Nat
      /\ Distinct(queue) /\ Elements(queue) = Waiting
  BY FS_CardinalityType, EventAssumption DEF SemaphoreType, SemaphoreInv
<1>1. CASE permit[r] = "none"
  <2>1. UNCHANGED <<free, permit>> /\ queue' = RemoveFirst(queue, r) /\ Woken(r) = {}
    BY <1>1 DEF ReleasePermit, Woken
  <2>2. /\ queue' \in Seq(Requests) /\ Distinct(queue')
        /\ Elements(queue') = Elements(queue) \ {r}
    BY <2>1, <1>0, RemoveElements
  <2>3. Waiting' = Waiting \ {r}
    BY <2>1 DEF Waiting
  <2>4. Owners' = Owners
    BY <2>1 DEF Owners
  <2> QED BY <1>0, <1>1, <2>1, <2>2, <2>3, <2>4 DEF SemaphoreType, SemaphoreInv
<1>2. CASE permit[r] # "none" /\ queue = <<>>
  <2>1. /\ free' = free + 1 /\ permit' = [permit EXCEPT ![r] = "none"]
        /\ queue' = queue /\ Woken(r) = {}
    BY <1>2 DEF ReleasePermit, Woken
  <2>2. r \notin Waiting
    BY <1>2
  <2>3. Waiting' = Waiting
    BY <2>1, <2>2 DEF Waiting
  <2>4. Owners' = Owners \ {r} /\ r \in Owners
    BY <2>1, <1>0, <1>2 DEF Owners
  <2>5. IsFiniteSet(Owners') /\ Cardinality(Owners') = Cardinality(Owners) - 1
    BY <2>4, <1>0, FS_RemoveElement
  <2>6. SemaphoreInv'
    BY <1>0, <2>1, <2>3, <2>5 DEF SemaphoreInv
  <2>7. SemaphoreType'
    BY <1>0, <2>1 DEF SemaphoreType
  <2> QED BY <1>0, <2>1, <2>6, <2>7
<1>3. CASE permit[r] # "none" /\ queue # <<>>
  <2> DEFINE h == Head(queue)
  <2>1. /\ free' = free /\ permit' = [permit EXCEPT ![r] = "none", ![h] = "call"]
        /\ queue' = Tail(queue) /\ Woken(r) = {h}
    BY <1>3 DEF ReleasePermit, Woken
  <2>2. /\ h \in Elements(queue) /\ h \in Requests /\ Tail(queue) \in Seq(Requests)
        /\ Elements(Tail(queue)) = Elements(queue) \ {h} /\ Distinct(Tail(queue))
    BY <1>0, <1>3, TailElements
  <2>3. h \in Waiting /\ h # r /\ permit[h] = "none" /\ r \notin Waiting
    BY <2>2, <1>0, <1>3
  <2> HIDE DEF h
  <2>4. permit' \in [Requests -> {"none", "call", "body"}]
    BY <2>1, <2>2, <1>0
  <2>5. \A x \in Requests : permit'[x] = IF x = h THEN "call"
                                         ELSE IF x = r THEN "none" ELSE permit[x]
    BY <2>1, <2>2, <1>0
  <2>6. Waiting' = Waiting \ {h}
    BY <2>1, <2>3 DEF Waiting
  <2>7. Owners' = (Owners \ {r}) \cup {h} /\ r \in Owners /\ h \notin Owners
    BY <2>2, <2>3, <2>5, <1>3 DEF Owners
  <2>8. IsFiniteSet(Owners') /\ Cardinality(Owners') = Cardinality(Owners)
    <3>1. /\ IsFiniteSet(Owners \ {r})
          /\ Cardinality(Owners \ {r}) = Cardinality(Owners) - 1
      BY <2>7, <1>0, FS_RemoveElement
    <3>2. /\ IsFiniteSet((Owners \ {r}) \cup {h})
          /\ Cardinality((Owners \ {r}) \cup {h}) = Cardinality(Owners \ {r}) + 1
      BY <3>1, <2>7, FS_AddElement
    <3> QED BY <3>1, <3>2, <2>7, <1>0
  <2>9. SemaphoreInv'
    BY <1>0, <2>1, <2>2, <2>6, <2>8 DEF SemaphoreInv
  <2>10. SemaphoreType'
    BY <1>0, <2>1, <2>2, <2>4 DEF SemaphoreType
  <2> QED BY <2>1, <2>3, <2>5, <2>9, <2>10
<1> QED BY <1>1, <1>2, <1>3

\* Calls that wait own nothing.
LEMMA WaitersOwnNothing ==
  ASSUME TypeOK, OwnerInv
  PROVE  /\ \A x \in Waiting : x \in Requests /\ permit[x] = "none" /\ body[x] = "none"
         /\ \A x \in Requests : permit[x] = "none" \/ permit[x] = "call" \/ permit[x] = "body"
BY DEF TypeOK, OwnerInv, Waiting

\* The call of r returns or is dropped.
LEMMA CallReturns ==
  ASSUME IInv, NEW r \in Requests, InFlight(r),
         NEW outcome \in {"answered", "rejected", "unavailable", "failed", "dropped"},
         Return(r, outcome), UNCHANGED <<lifecycleVars, token, bodyVars>>
  PROVE  IInv'
<1> USE DEF lifecycleVars, bodyVars
<1>0. TypeOK /\ OwnerInv /\ SemaphoreInv /\ EndInv /\ SemaphoreType
  BY EventAssumption DEF IInv, TypeOK, SemaphoreType
<1>1. /\ call' = [x \in Requests |-> IF x = r THEN outcome
                                 ELSE IF x \in Woken(r) THEN "granted" ELSE call[x]]
      /\ ReleasePermit(r)
  BY DEF Return
<1>2. call' \in [Requests -> CallStates] /\ call'[r] = outcome
  BY <1>0, <1>1 DEF CallStates, TypeOK
<1>3. \A x \in Requests : x # r =>
        call'[x] = IF x \in Woken(r) THEN "granted" ELSE call[x]
  BY <1>1
<1>4. /\ SemaphoreType' /\ SemaphoreInv' /\ permit'[r] = "none"
      /\ \A x \in Requests : x # r => permit'[x] = IF x \in Woken(r) THEN "call" ELSE permit[x]
      /\ \A x \in Woken(r) : x \in Waiting
  BY <1>0, <1>1, <1>2, <1>3, Released, WaitersOwnNothing
<1>5. body[r] = "none"
  BY <1>0 DEF OwnerInv, InFlight
<1>6. OwnerInv'
  <2> SUFFICES ASSUME NEW x \in Requests
               PROVE  /\ permit'[x] = "call" <=> call'[x] \in {"granted", "dispatching"}
                      /\ permit'[x] = "body" <=> body[x] = "open"
                      /\ body[x] # "none" => call'[x] = "streaming"
                      /\ receiving[x] => body[x] \in {"open", "cancelled"}
    BY DEF OwnerInv
  <2>1. CASE x = r
    BY <2>1, <1>0, <1>2, <1>4, <1>5 DEF OwnerInv
  <2>2. CASE x # r /\ x \in Woken(r)
    BY <2>2, <1>0, <1>3, <1>4, WaitersOwnNothing DEF OwnerInv
  <2>3. CASE x # r /\ x \notin Woken(r)
    BY <2>3, <1>0, <1>3, <1>4 DEF OwnerInv
  <2> QED BY <2>1, <2>2, <2>3
<1>7. TypeOK'
  BY <1>0, <1>4, FreeBounded DEF TypeOK, SemaphoreType
<1>8. EndInv'
  BY <1>0 DEF EndInv
<1> QED BY <1>4, <1>6, <1>7, <1>8 DEF IInv

\* The body of r lets go of the permit, if it still has one.
LEMMA BodyReleases ==
  ASSUME IInv, NEW r \in Requests, body[r] # "none", ReleaseBody(r),
         UNCHANGED <<lifecycleVars, token>>,
         NEW b \in {"done", "cancelled", "dropped"}, body' = [body EXCEPT ![r] = b],
         receiving' \in [Requests -> BOOLEAN],
         \A x \in Requests : x # r => receiving'[x] = receiving[x],
         receiving'[r] => b = "cancelled",
         result' \in [Requests -> {"none", "eof", "error"}],
         ended' \in [Requests -> BOOLEAN], EndInv'
  PROVE  IInv'
<1> USE DEF lifecycleVars
<1>0. TypeOK /\ OwnerInv /\ SemaphoreInv /\ SemaphoreType
  BY EventAssumption DEF IInv, TypeOK, SemaphoreType
<1>1. /\ call' = [x \in Requests |-> IF x \in Woken(r) THEN "granted" ELSE call[x]]
      /\ ReleasePermit(r)
  BY DEF ReleaseBody
<1>2. call[r] = "streaming" /\ r \notin Waiting
  BY <1>0 DEF OwnerInv, Waiting
<1>3. r \notin Woken(r)
  <2>1. \A x \in Woken(r) : x \in Waiting
    <3>1. queue # <<>> => Head(queue) \in Elements(queue)
      BY <1>0, TailElements DEF SemaphoreInv, SemaphoreType
    <3> QED BY <3>1, <1>0 DEF Woken, SemaphoreInv
  <2> QED BY <2>1, <1>2
<1>4. call' \in [Requests -> CallStates] /\ call'[r] = "streaming"
  BY <1>0, <1>1, <1>2, <1>3 DEF CallStates, TypeOK
<1>5. \A x \in Requests : x # r =>
        call'[x] = IF x \in Woken(r) THEN "granted" ELSE call[x]
  BY <1>1
<1>6. /\ SemaphoreType' /\ SemaphoreInv' /\ permit'[r] = "none"
      /\ \A x \in Requests : x # r => permit'[x] = IF x \in Woken(r) THEN "call" ELSE permit[x]
      /\ \A x \in Woken(r) : x \in Waiting
  BY <1>0, <1>1, <1>4, <1>5, Released, WaitersOwnNothing
<1>7. body'[r] = b /\ \A x \in Requests : x # r => body'[x] = body[x]
  BY <1>0 DEF TypeOK
<1>8. OwnerInv'
  <2> SUFFICES ASSUME NEW x \in Requests
               PROVE  /\ permit'[x] = "call" <=> call'[x] \in {"granted", "dispatching"}
                      /\ permit'[x] = "body" <=> body'[x] = "open"
                      /\ body'[x] # "none" => call'[x] = "streaming"
                      /\ receiving'[x] => body'[x] \in {"open", "cancelled"}
    BY DEF OwnerInv
  <2>1. CASE x = r
    BY <2>1, <1>4, <1>6, <1>7
  <2>2. CASE x # r /\ x \in Woken(r)
    BY <2>2, <1>0, <1>5, <1>6, <1>7, WaitersOwnNothing DEF OwnerInv
  <2>3. CASE x # r /\ x \notin Woken(r)
    BY <2>3, <1>0, <1>5, <1>6, <1>7 DEF OwnerInv
  <2> QED BY <2>1, <2>2, <2>3
<1>9. TypeOK'
  <2>1. body' \in [Requests -> {"none", "open", "done", "cancelled", "dropped"}]
    BY <1>0 DEF TypeOK
  <2> QED BY <1>0, <1>6, <2>1, FreeBounded DEF TypeOK, SemaphoreType
<1> QED BY <1>6, <1>8, <1>9 DEF IInv

\* Steps that leave the calls, the permits and the bodies where they are.
LEMMA NothingMoves ==
  ASSUME IInv, UNCHANGED <<call, semaphore, body>>, TypeOK',
         \A r \in Requests : receiving'[r] => body[r] \in {"open", "cancelled"}, EndInv'
  PROVE  IInv'
<1> USE DEF semaphore
<1>1. OwnerInv'
  BY DEF IInv, OwnerInv
<1>2. Owners' = Owners /\ Waiting' = Waiting
  BY DEF Owners, Waiting
<1>3. SemaphoreInv'
  BY <1>2 DEF IInv, SemaphoreInv
<1> QED BY <1>1, <1>3 DEF IInv

\* One call moves on, and the number of owners stays.
LEMMA OneCallMoves ==
  ASSUME IInv, NEW r \in Requests, NEW st \in CallStates \ {"waiting"},
         NEW p \in {"none", "call", "body"}, NEW b \in {"none", "open"},
         call[r] # "waiting", body[r] = "none",
         call' = [call EXCEPT ![r] = st], permit' = [permit EXCEPT ![r] = p],
         body' = [body EXCEPT ![r] = b],
         p = "call" <=> st \in {"granted", "dispatching"},
         p = "body" <=> b = "open", b = "open" => st = "streaming",
         SemaphoreInv',
         free' \in 0 .. MaxConcurrent,
         UNCHANGED <<lifecycleVars, token, queue, receiving, result, ended>>
  PROVE  IInv'
<1> USE DEF lifecycleVars
<1>1. TypeOK'
  BY DEF IInv, TypeOK
<1>2. OwnerInv'
  BY DEF IInv, TypeOK, OwnerInv
<1>3. EndInv'
  BY DEF IInv, TypeOK, EndInv
<1> QED BY <1>1, <1>2, <1>3 DEF IInv

\* A new request is answered at once, queues up, or takes a free permit.
LEMMA HandleStep ==
  ASSUME IInv, NEW r \in Requests, NEW oversized \in BOOLEAN, NEW tooLarge \in BOOLEAN,
         Handle(r, oversized, tooLarge)
  PROVE  IInv'
<1> USE DEF semaphore, bodyVars
<1> DEFINE verdict == Verdict(r, oversized)
           admitted == Admitted(r, tooLarge)
<1>0. TypeOK /\ OwnerInv /\ SemaphoreInv /\ EndInv /\ SemaphoreType
  BY EventAssumption DEF IInv, TypeOK, SemaphoreType
<1>1. /\ call[r] = "new" /\ body[r] = "none" /\ permit[r] = "none" /\ r \notin Waiting
      /\ UNCHANGED <<lifecycleVars, token, body, receiving, result, ended>>
  BY <1>0 DEF Handle, OwnerInv, Waiting, TypeOK
<1>2. permit = [permit EXCEPT ![r] = "none"] /\ body' = [body EXCEPT ![r] = "none"]
  BY <1>0, <1>1 DEF TypeOK
<1>3. ASSUME NEW st \in {"failed", "unavailable", "rejected"},
             call' = [call EXCEPT ![r] = st], UNCHANGED semaphore
      PROVE  IInv'
  <2>1. Owners' = Owners
    BY <1>3 DEF Owners
  <2>2. Waiting' = Waiting
    BY <1>3, <1>0, <1>1 DEF Waiting, TypeOK
  <2>3. SemaphoreInv'
    BY <1>0, <1>3, <2>1, <2>2 DEF SemaphoreInv
  <2>4. free' \in 0 .. MaxConcurrent /\ st \in CallStates \ {"waiting"}
    BY <1>0, <1>3 DEF TypeOK, CallStates
  <2> QED BY <1>1, <1>2, <1>3, <2>3, <2>4, OneCallMoves
<1>4. CASE verdict # "admit"
  <2>1. verdict \in {"failed", "unavailable", "rejected"}
    BY <1>4 DEF Verdict
  <2> QED BY <1>3, <1>4, <2>1 DEF Handle
<1>5. CASE verdict = "admit" /\ free = 0
  <2>1. /\ call' = [call EXCEPT ![r] = "waiting"] /\ queue' = Append(queue, r)
        /\ permit' = permit /\ free' = free
    BY <1>5 DEF Handle
  <2>2. /\ Append(queue, r) \in Seq(Requests) /\ Distinct(Append(queue, r))
        /\ Elements(Append(queue, r)) = Elements(queue) \cup {r}
    BY <1>0, <1>1, AppendElements DEF SemaphoreType, SemaphoreInv
  <2>3. Owners' = Owners
    BY <2>1 DEF Owners
  <2>4. Waiting' = Waiting \cup {r}
    BY <2>1, <1>0 DEF Waiting, TypeOK
  <2>5. SemaphoreInv'
    BY <1>0, <2>1, <2>2, <2>3, <2>4 DEF SemaphoreInv
  <2>6. TypeOK'
    BY <1>0, <1>1, <2>1, <2>2 DEF TypeOK, CallStates, lifecycleVars
  <2>7. OwnerInv'
    BY <1>0, <1>1, <2>1 DEF TypeOK, OwnerInv
  <2>8. EndInv'
    BY <1>0, <1>1 DEF EndInv
  <2> QED BY <2>5, <2>6, <2>7, <2>8 DEF IInv
<1>6. CASE verdict = "admit" /\ free # 0
  <2>1. admitted \in {"unavailable", "rejected", "dispatching"}
    BY DEF Admitted
  <2>2. CASE admitted # "dispatching"
    BY <1>3, <1>6, <2>1, <2>2 DEF Handle
  <2>3. CASE admitted = "dispatching"
    <3>1. /\ call' = [call EXCEPT ![r] = "dispatching"] /\ queue' = queue
          /\ permit' = [permit EXCEPT ![r] = "call"] /\ free' = free - 1
      BY <1>6, <2>3 DEF Handle
    <3>2. Owners' = Owners \cup {r} /\ r \notin Owners
      BY <3>1, <1>0, <1>1 DEF Owners, TypeOK
    <3>3. Waiting' = Waiting
      BY <3>1, <1>0, <1>1 DEF Waiting, TypeOK
    <3>4. /\ IsFiniteSet(Owners') /\ Cardinality(Owners') = Cardinality(Owners) + 1
          /\ Cardinality(Owners) \in Nat
      BY <3>2, <1>0, FS_AddElement, FS_CardinalityType DEF SemaphoreInv
    <3>5. free' + Cardinality(Owners') = MaxConcurrent /\ free' \in 0 .. MaxConcurrent
      BY <3>1, <3>4, <1>0, <1>6, EventAssumption DEF SemaphoreInv, TypeOK
    <3>6. SemaphoreInv'
      BY <1>0, <3>1, <3>3, <3>4, <3>5 DEF SemaphoreInv
    <3>7. "dispatching" \in CallStates \ {"waiting"}
      BY DEF CallStates
    <3> QED BY <1>1, <1>2, <3>1, <3>5, <3>6, <3>7, OneCallMoves
  <2> QED BY <2>2, <2>3
<1> QED BY <1>4, <1>5, <1>6

\* A call that was dispatched goes on, with the permit it has or through its body.
LEMMA DispatchStep ==
  ASSUME IInv, NEW r \in Requests, call[r] \in {"granted", "dispatching"},
         NEW st \in {"dispatching", "streaming"}, call' = [call EXCEPT ![r] = st],
         permit' = IF st = "streaming" THEN [permit EXCEPT ![r] = "body"] ELSE permit,
         body' = IF st = "streaming" THEN [body EXCEPT ![r] = "open"] ELSE body,
         UNCHANGED <<lifecycleVars, token, free, queue, receiving, result, ended>>
  PROVE  IInv'
<1> DEFINE p == IF st = "streaming" THEN "body" ELSE "call"
           b == IF st = "streaming" THEN "open" ELSE "none"
<1>0. TypeOK /\ OwnerInv /\ SemaphoreInv
  BY DEF IInv
<1>1. permit[r] = "call" /\ body[r] = "none"
  BY <1>0 DEF OwnerInv
<1>2. permit' = [permit EXCEPT ![r] = p] /\ body' = [body EXCEPT ![r] = b]
  BY <1>0, <1>1 DEF TypeOK
<1>3. Owners' = Owners
  BY <1>0, <1>1, <1>2 DEF Owners, TypeOK
<1>4. Waiting' = Waiting
  BY <1>0 DEF Waiting, TypeOK
<1>5. SemaphoreInv'
  BY <1>0, <1>3, <1>4 DEF SemaphoreInv
<1>6. /\ st \in CallStates \ {"waiting"} /\ p \in {"none", "call", "body"}
      /\ b \in {"none", "open"} /\ free' \in 0 .. MaxConcurrent
      /\ p = "call" <=> st \in {"granted", "dispatching"}
      /\ p = "body" <=> b = "open"
      /\ b = "open" => st = "streaming"
  BY <1>0 DEF TypeOK, CallStates
<1> HIDE DEF p, b
<1> QED BY <1>1, <1>2, <1>5, <1>6, OneCallMoves
-----------------------------------------------------------------------------
\* A fresh factory owns nothing.
LEMMA InitHolds == Init => IInv
<1> SUFFICES ASSUME Init PROVE IInv
  OBVIOUS
<1>1. TypeOK
  <2>1. {streamsBound, open, accepting, appCancelled} \subseteq BOOLEAN
    BY DEF Init
  <2>2. free \in 0 .. MaxConcurrent /\ queue \in Seq(Requests)
    BY EmptySeq, EventAssumption DEF Init
  <2> QED BY <2>1, <2>2 DEF Init, TypeOK, CallStates
<1>2. OwnerInv /\ EndInv
  BY DEF Init, OwnerInv, EndInv
<1>3. Owners = {} /\ Waiting = {}
  BY DEF Init, Owners, Waiting
<1>4. Distinct(queue) /\ Elements(queue) = {}
  BY DEF Init, Distinct, Elements
<1>5. SemaphoreInv
  BY <1>3, <1>4, FS_EmptySet, EventAssumption DEF Init, SemaphoreInv
<1> QED BY <1>1, <1>2, <1>5 DEF IInv

\* What handle_response does after its first await keeps the invariant.
LEMMA CallHolds ==
  ASSUME IInv, NEW r \in Requests, CallStep(r) \/ CallDropped(r)
  PROVE  IInv'
<1>1. ASSUME NEW tooLarge \in BOOLEAN, PermitArrives(r, tooLarge) PROVE IInv'
  <2>1. Admitted(r, tooLarge) \in {"unavailable", "rejected", "dispatching"}
    BY DEF Admitted
  <2>2. CASE Admitted(r, tooLarge) = "dispatching"
    BY <1>1, <2>2, DispatchStep DEF PermitArrives, semaphore, bodyVars
  <2>3. CASE Admitted(r, tooLarge) # "dispatching"
    BY <1>1, <2>1, <2>3, CallReturns DEF PermitArrives, InFlight
  <2> QED BY <2>2, <2>3
<1>2. CASE WaitCancelled(r) \/ AnswerWhole(r) \/ SessionRefused(r) \/ CallDropped(r)
  BY <1>2, CallReturns DEF WaitCancelled, AnswerWhole, SessionRefused, CallDropped, InFlight
<1>3. CASE AnswerSession(r)
  BY <1>3, DispatchStep DEF AnswerSession
<1>4. CASE SeeAppCancel(r)
  <2>1. UNCHANGED <<call, semaphore, bodyVars>> /\ TypeOK'
    BY <1>4 DEF SeeAppCancel, IInv, TypeOK, lifecycleVars, semaphore, bodyVars
  <2> QED BY <2>1, NothingMoves DEF IInv, OwnerInv, EndInv, bodyVars
<1> QED BY <1>1, <1>2, <1>3, <1>4 DEF CallStep

\* receive, cancel and drop of a body keep the invariant.
LEMMA BodyHolds ==
  ASSUME IInv, NEW r \in Requests, BodyStep(r)
  PROVE  IInv'
<1>0. TypeOK /\ OwnerInv /\ EndInv
  BY DEF IInv
<1> USE DEF lifecycleVars, callVars, semaphore
<1>1. CASE ReceiveStarts(r)
  <2>1. UNCHANGED <<call, semaphore, body, ended>> /\ body[r] \in {"open", "done", "cancelled"}
    BY <1>1 DEF ReceiveStarts
  <2>2. CASE body[r] = "open" /\ ~receiving[r]
    <3>1. receiving' = [receiving EXCEPT ![r] = TRUE] /\ result' = result
      BY <1>1, <2>2 DEF ReceiveStarts
    <3>2. TypeOK'
      BY <1>0, <1>1, <3>1 DEF ReceiveStarts, TypeOK
    <3>3. \A x \in Requests : receiving'[x] => body[x] \in {"open", "cancelled"}
      BY <1>0, <2>2, <3>1 DEF TypeOK, OwnerInv
    <3>4. EndInv'
      BY <1>0, <2>1, <3>1 DEF EndInv
    <3> QED BY <2>1, <3>2, <3>3, <3>4, NothingMoves
  <2>3. CASE ~(body[r] = "open" /\ ~receiving[r])
    <3> DEFINE e == IF body[r] = "done" THEN "eof" ELSE "error"
    <3>1. result' = [result EXCEPT ![r] = e] /\ receiving' = receiving
      BY <1>1, <2>3 DEF ReceiveStarts
    <3>2. TypeOK'
      BY <1>0, <1>1, <3>1 DEF ReceiveStarts, TypeOK
    <3>3. EndInv'
      BY <1>0, <2>1, <3>1 DEF EndInv, TypeOK
    <3> QED BY <1>0, <2>1, <3>1, <3>2, <3>3, NothingMoves DEF OwnerInv
  <2> QED BY <2>2, <2>3
<1>2. CASE ReceiveReturns(r)
  <2>1. TypeOK'
    BY <1>0, <1>2 DEF ReceiveReturns, TypeOK
  <2>2. \A x \in Requests : receiving'[x] => body[x] \in {"open", "cancelled"}
    BY <1>0, <1>2 DEF ReceiveReturns, TypeOK, OwnerInv
  <2>3. EndInv'
    BY <1>0, <1>2 DEF ReceiveReturns, EndInv
  <2> QED BY <1>2, <2>1, <2>2, <2>3, NothingMoves DEF ReceiveReturns
<1>3. CASE TerminalArrives(r)
  <2> DEFINE b == IF body[r] = "open" THEN "done" ELSE body[r]
  <2>1. body[r] \in {"open", "cancelled"} /\ b \in {"done", "cancelled", "dropped"}
    BY <1>0, <1>3 DEF TerminalArrives, OwnerInv
  <2>2. /\ receiving' = [receiving EXCEPT ![r] = FALSE]
        /\ result' = [result EXCEPT ![r] = "eof"]
        /\ ended' = [ended EXCEPT ![r] = TRUE]
        /\ body' = [body EXCEPT ![r] = b]
    BY <1>0, <1>3 DEF TerminalArrives, TypeOK
  <2>3. /\ receiving' \in [Requests -> BOOLEAN] /\ ended' \in [Requests -> BOOLEAN]
        /\ result' \in [Requests -> {"none", "eof", "error"}]
        /\ \A x \in Requests : x # r => receiving'[x] = receiving[x]
        /\ ~receiving'[r]
    BY <1>0, <2>2 DEF TypeOK
  <2>4. EndInv'
    BY <1>0, <2>2 DEF EndInv, TypeOK
  <2> HIDE DEF b
  <2> QED BY <1>3, <2>1, <2>2, <2>3, <2>4, BodyReleases DEF TerminalArrives
<1>4. CASE ReceiveFails(r)
  <2>1. body[r] # "none"
    BY <1>0, <1>4 DEF ReceiveFails, OwnerInv
  <2>2. /\ receiving' \in [Requests -> BOOLEAN] /\ ended' \in [Requests -> BOOLEAN]
        /\ result' \in [Requests -> {"none", "eof", "error"}]
        /\ \A x \in Requests : x # r => receiving'[x] = receiving[x]
        /\ EndInv'
    BY <1>0, <1>4 DEF ReceiveFails, TypeOK, EndInv
  <2> QED BY <1>4, <2>1, <2>2, BodyReleases DEF ReceiveFails
<1>5. CASE CancelBody(r)
  <2>1. EndInv'
    BY <1>0, <1>5 DEF CancelBody, TypeOK, EndInv
  <2> QED BY <1>0, <1>5, <2>1, BodyReleases DEF CancelBody, TypeOK
<1>6. CASE DropBody(r)
  <2>1. EndInv'
    BY <1>0, <1>6 DEF DropBody, TypeOK, EndInv
  <2>2. /\ receiving' = receiving /\ ended' \in [Requests -> BOOLEAN] /\ ~receiving[r]
        /\ result' \in [Requests -> {"none", "eof", "error"}] /\ body[r] # "none"
    BY <1>0, <1>6 DEF DropBody, TypeOK
  <2>3. receiving' \in [Requests -> BOOLEAN] /\ ~receiving'[r]
    BY <1>0, <2>2 DEF TypeOK
  <2>4. /\ body' = [body EXCEPT ![r] = "dropped"] /\ ReleaseBody(r)
        /\ UNCHANGED <<lifecycleVars, token>>
    BY <1>6 DEF DropBody
  <2> QED BY <2>1, <2>2, <2>3, <2>4, BodyReleases
<1> QED BY <1>1, <1>2, <1>3, <1>4, <1>5, <1>6 DEF BodyStep

\* Every step of the host, the Kernel and the ingress keeps the invariant.
LEMMA NextHolds == IInv /\ [Next]_vars => IInv'
<1> SUFFICES ASSUME IInv, [Next]_vars PROVE IInv'
  OBVIOUS
<1>0. TypeOK /\ OwnerInv /\ EndInv
  BY DEF IInv
<1>1. ASSUME UNCHANGED <<call, semaphore, bodyVars>>, TypeOK' PROVE IInv'
  BY <1>0, <1>1, NothingMoves DEF OwnerInv, EndInv, bodyVars
<1>2. CASE Instantiate \/ Activate \/ Deactivate \/ OpenReadiness \/ BeginDrain \/ CancelApp
  <2>1. UNCHANGED <<call, semaphore, bodyVars>>
    BY <1>2 DEF Instantiate, Activate, Deactivate, OpenReadiness, BeginDrain, CancelApp, callVars
  <2>2. TypeOK'
    BY <1>0, <1>2 DEF Instantiate, Activate, Deactivate, OpenReadiness, BeginDrain, CancelApp,
         callVars, semaphore, bodyVars, TypeOK
  <2> QED BY <1>1, <2>1, <2>2
<1>3. ASSUME NEW r \in Requests, CancelRequest(r) PROVE IInv'
  <2>1. UNCHANGED <<call, semaphore, bodyVars>> /\ TypeOK'
    BY <1>0, <1>3 DEF CancelRequest, lifecycleVars, semaphore, bodyVars, TypeOK
  <2> QED BY <1>1, <2>1
<1>4. CASE UNCHANGED vars
  <2>1. UNCHANGED <<call, semaphore, bodyVars>> /\ TypeOK'
    BY <1>0, <1>4 DEF vars, lifecycleVars, callVars, semaphore, bodyVars, TypeOK
  <2> QED BY <1>1, <2>1
<1> QED BY <1>2, <1>3, <1>4, HandleStep, CallHolds, BodyHolds DEF Next

\* The inductive invariant of the event ingress: where a call and its body stand
\* tells who owns the permit, and the queue holds the calls that wait.
THEOREM EventInvariant == Spec => []IInv
BY InitHolds, NextHolds, PTL DEF Spec

\* For every number of requests, calls in dispatch and open bodies together never
\* exceed max_concurrent_requests, and every permit of the others is back
\* (handle_response, receive, cancel and drop of the body).
THEOREM ExecutionIsBounded == Spec => []ExecutionBounded
<1>1. IInv => ExecutionBounded
  BY DEF IInv, TypeOK, OwnerInv, SemaphoreInv, Owners, ExecutionBounded
<1> QED BY <1>1, EventInvariant, PTL

\* receive() reports a clean end only after the Endpoint's success, whatever order
\* its callers, cancel() and the session act in.
THEOREM EndsAreClean == Spec => []CleanEofOnly
<1>1. IInv => CleanEofOnly
  BY DEF IInv, EndInv, CleanEofOnly
<1> QED BY <1>1, EventInvariant, PTL

\* No step takes a call into dispatch while the ingress does not accept, however
\* long the call has waited for its permit (handle_response).
THEOREM NothingStartsWhileDraining == Spec => NoDispatchWhileDraining
<1> DEFINE Starts == \A r \in Requests :
                       call[r] # "dispatching" /\ call'[r] = "dispatching" => accepting
<1>1. IInv /\ [Next]_vars => [Starts]_vars
  <2> SUFFICES ASSUME IInv, Next, NEW d \in Requests, call[d] # "dispatching",
                      call'[d] = "dispatching", ~accepting
               PROVE  FALSE
    OBVIOUS
  <2>0. call \in [Requests -> CallStates]
    BY DEF IInv, TypeOK
  <2>1. call' # call
    OBVIOUS
  <2>2. ASSUME NEW r \in Requests, NEW outcome \in CallStates \ {"dispatching"},
               Return(r, outcome)
        PROVE  FALSE
    BY <2>0, <2>2 DEF Return
  <2>3. ASSUME NEW r \in Requests, ReleaseBody(r) PROVE FALSE
    BY <2>0, <2>3 DEF ReleaseBody
  <2>4. ASSUME NEW r \in Requests, NEW st \in CallStates \ {"dispatching"},
               call' = [call EXCEPT ![r] = st]
        PROVE  FALSE
    BY <2>0, <2>4
  <2>5. \A r \in Requests, tooLarge \in BOOLEAN : Admitted(r, tooLarge) = "unavailable"
    BY DEF Admitted
  <2>6. "unavailable" \in CallStates \ {"dispatching"} /\ "waiting" \in CallStates \ {"dispatching"}
        /\ "streaming" \in CallStates \ {"dispatching"}
    BY DEF CallStates
  <2>7. ASSUME NEW r \in Requests, NEW oversized \in BOOLEAN, NEW tooLarge \in BOOLEAN,
               Handle(r, oversized, tooLarge)
        PROVE  FALSE
    <3>1. Verdict(r, oversized) \in {"failed", "unavailable"}
      BY DEF Verdict
    <3>2. Verdict(r, oversized) \in CallStates \ {"dispatching"} /\ Verdict(r, oversized) # "admit"
      BY <3>1 DEF CallStates
    <3>3. call' = [call EXCEPT ![r] = Verdict(r, oversized)]
      BY <2>7, <3>2 DEF Handle
    <3> QED BY <2>4, <3>2, <3>3
  <2>8. ASSUME NEW r \in Requests, NEW tooLarge \in BOOLEAN, PermitArrives(r, tooLarge)
        PROVE  FALSE
    BY <2>2, <2>5, <2>6, <2>8 DEF PermitArrives
  <2>9. ASSUME NEW r \in Requests, WaitCancelled(r) \/ AnswerWhole(r) \/ SessionRefused(r)
                                     \/ CallDropped(r)
        PROVE  FALSE
    BY <2>2, <2>9 DEF WaitCancelled, AnswerWhole, SessionRefused, CallDropped, CallStates
  <2>10. ASSUME NEW r \in Requests, AnswerSession(r) PROVE FALSE
    BY <2>4, <2>6, <2>10 DEF AnswerSession
  <2>11. ASSUME NEW r \in Requests, SeeAppCancel(r) \/ CancelRequest(r) \/ BodyStep(r)
         PROVE  FALSE
    BY <2>1, <2>3, <2>11 DEF SeeAppCancel, CancelRequest, BodyStep, ReceiveStarts,
         ReceiveReturns, TerminalArrives, ReceiveFails, CancelBody, DropBody, callVars
  <2>12. CASE Instantiate \/ Activate \/ Deactivate \/ OpenReadiness \/ BeginDrain \/ CancelApp
    BY <2>1, <2>12 DEF Instantiate, Activate, Deactivate, OpenReadiness, BeginDrain, CancelApp,
         callVars
  <2> QED BY <2>7, <2>8, <2>9, <2>10, <2>11, <2>12 DEF Next, CallStep
<1> QED BY <1>1, EventInvariant, PTL DEF Spec, NoDispatchWhileDraining
==============================================================================
