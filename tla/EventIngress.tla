---------------------------- MODULE EventIngress ----------------------------
(***************************************************************************)
(* The event-owned Web Ingress: WebIngressEventFactory with its lifecycle  *)
(* (event.rs), and the response streams that carry the permit of their     *)
(* request on after handle_response has returned (response_stream.rs).     *)
(*                                                                         *)
(* Everything runs on one thread: a step is what happens between two       *)
(* awaits.  The host, the Kernel and the Endpoint act in between.          *)
(***************************************************************************)
EXTENDS Integers, Sequences, FiniteSets, SequencesExt

CONSTANTS Requests,       \* requests the host may hand in
          MaxConcurrent   \* max_concurrent_requests

ASSUME EventAssumption == MaxConcurrent \in Nat \ {0}

VARIABLES
  factory,       \* "fresh", "instantiated", "active" (EventState set), "inactive"
  streamsBound,  \* the Plan binds a Stream Endpoint to this ingress
  open,          \* readiness.is_open()
  accepting,     \* readiness.is_accepting()
  appCancelled,  \* readiness.cancellation()
  call,          \* where handle_response stands for each request
  token,         \* the CancellationToken the host passed with it is cancelled
  permit,        \* who owns the permit of the request
  free, queue,   \* the `concurrency` semaphore
  body,          \* the session behind a streaming answer
  receiving,     \* a receive() of the body is pending
  result,        \* how receive() ended the body for its reader, if it did
  ended          \* the Endpoint ended the session with success (history)

lifecycleVars == <<factory, streamsBound, open, accepting, appCancelled>>
callVars == <<call, token>>
bodyVars == <<body, receiving, result, ended>>
semaphore == <<permit, free, queue>>
vars == <<lifecycleVars, callVars, semaphore, bodyVars>>

CallStates == {"new", "waiting", "granted", "dispatching", "answered", "streaming",
               "rejected", "unavailable", "failed", "dropped"}
InFlight(r) == call[r] \in {"waiting", "granted", "dispatching"}

Init ==
  /\ factory = "fresh"
  /\ streamsBound \in BOOLEAN
  /\ open = FALSE
  /\ accepting = FALSE
  /\ appCancelled = FALSE
  /\ call = [r \in Requests |-> "new"]
  /\ token = [r \in Requests |-> FALSE]
  /\ permit = [r \in Requests |-> "none"]
  /\ free = MaxConcurrent
  /\ queue = <<>>
  /\ body = [r \in Requests |-> "none"]
  /\ receiving = [r \in Requests |-> FALSE]
  /\ result = [r \in Requests |-> "none"]
  /\ ended = [r \in Requests |-> FALSE]
-----------------------------------------------------------------------------
(* The factory and the Plugin lifecycle.                                   *)

\* instantiate succeeds once; a later call, of any clone, is an error.
Instantiate ==
  /\ factory = "fresh"
  /\ factory' = "instantiated"
  /\ UNCHANGED <<streamsBound, open, accepting, appCancelled, callVars, semaphore, bodyVars>>

\* activate connects the ports, Stream Endpoints included, resolves the routes
\* and publishes the EventState.
Activate ==
  /\ factory = "instantiated"
  /\ factory' = "active"
  /\ UNCHANGED <<streamsBound, open, accepting, appCancelled, callVars, semaphore, bodyVars>>

\* deactivate takes the EventState; calls in flight keep theirs.
Deactivate ==
  /\ factory \in {"instantiated", "active"}
  /\ factory' = "inactive"
  /\ UNCHANGED <<streamsBound, open, accepting, appCancelled, callVars, semaphore, bodyVars>>

\* The Kernel opens readiness, starts to drain, and cancels the App.
OpenReadiness ==
  /\ factory = "active" /\ ~open
  /\ open' = TRUE
  /\ accepting' = TRUE
  /\ UNCHANGED <<factory, streamsBound, appCancelled, callVars, semaphore, bodyVars>>

BeginDrain ==
  /\ accepting
  /\ accepting' = FALSE
  /\ UNCHANGED <<factory, streamsBound, open, appCancelled, callVars, semaphore, bodyVars>>

CancelApp ==
  /\ ~appCancelled
  /\ factory # "fresh"
  /\ appCancelled' = TRUE
  /\ UNCHANGED <<factory, streamsBound, open, accepting, callVars, semaphore, bodyVars>>
-----------------------------------------------------------------------------
(* The permits.                                                            *)

\* The permit of r goes to the first waiter, or back to the free count.
ReleasePermit(r) ==
  IF permit[r] = "none"
  THEN UNCHANGED <<free, permit>> /\ queue' = RemoveFirst(queue, r)
  ELSE IF queue = <<>>
  THEN /\ free' = free + 1
       /\ permit' = [permit EXCEPT ![r] = "none"]
       /\ UNCHANGED queue
  ELSE /\ permit' = [permit EXCEPT ![r] = "none", ![Head(queue)] = "call"]
       /\ queue' = Tail(queue)
       /\ UNCHANGED free

\* The first waiter wakes with the permit that r gives back.
Woken(r) == IF permit[r] # "none" /\ queue # <<>> THEN {Head(queue)} ELSE {}

\* handle_response of r returns, or is dropped, and its permit with it.
Return(r, outcome) ==
  /\ call' = [x \in Requests |-> IF x = r THEN outcome
                                 ELSE IF x \in Woken(r) THEN "granted" ELSE call[x]]
  /\ ReleasePermit(r)

\* The body of r lets go of its permit.
ReleaseBody(r) ==
  /\ call' = [x \in Requests |-> IF x \in Woken(r) THEN "granted" ELSE call[x]]
  /\ ReleasePermit(r)
-----------------------------------------------------------------------------
(* handle_response.                                                        *)

\* Mutant of Admitted: readiness is not looked at again after the wait.
AdmittedUnchecked(r, tooLarge) == IF tooLarge THEN "rejected" ELSE "dispatching"

\* What follows once the permit is there: the ingress may have begun to drain
\* meanwhile, and the body is held against its limit.
Admitted(r, tooLarge) ==
  IF ~accepting THEN "unavailable" ELSE IF tooLarge THEN "rejected" ELSE "dispatching"

\* The answer before a permit is asked for, or "admit".
Verdict(r, oversized) ==
  IF factory # "active" THEN "failed"
  ELSE IF ~open \/ ~accepting THEN "unavailable"
  ELSE IF oversized THEN "rejected"
  ELSE IF token[r] THEN "unavailable" ELSE "admit"

\* handle_response is called and polled for the first time.
Handle(r, oversized, tooLarge) ==
  /\ call[r] = "new"
  /\ LET verdict == Verdict(r, oversized)
         admitted == Admitted(r, tooLarge)
     IN  IF verdict # "admit"
         THEN call' = [call EXCEPT ![r] = verdict] /\ UNCHANGED semaphore
         ELSE IF free = 0
         THEN /\ call' = [call EXCEPT ![r] = "waiting"]
              /\ queue' = Append(queue, r)
              /\ UNCHANGED <<permit, free>>
         ELSE /\ call' = [call EXCEPT ![r] = admitted]
              /\ IF admitted = "dispatching"
                 THEN /\ permit' = [permit EXCEPT ![r] = "call"]
                      /\ free' = free - 1
                      /\ UNCHANGED queue
                 ELSE UNCHANGED semaphore
  /\ UNCHANGED <<lifecycleVars, token, bodyVars>>

\* A waiting call gets its permit; select looks at the permit first, so even
\* a call that was cancelled meanwhile takes it.
PermitArrives(r, tooLarge) ==
  /\ call[r] = "granted"
  /\ LET admitted == Admitted(r, tooLarge)
     IN  IF admitted = "dispatching"
         THEN call' = [call EXCEPT ![r] = admitted] /\ UNCHANGED semaphore
         ELSE Return(r, admitted)
  /\ UNCHANGED <<lifecycleVars, token, bodyVars>>

\* A cancelled call stops waiting.
WaitCancelled(r) ==
  /\ call[r] = "waiting"
  /\ token[r]
  /\ Return(r, "unavailable")
  /\ UNCHANGED <<lifecycleVars, token, bodyVars>>

\* Mutant of SeeAppCancel: only dispatched calls are cancelled with the App.
SeeAppCancelDispatched(r) ==
  /\ call[r] = "dispatching"
  /\ appCancelled
  /\ ~token[r]
  /\ token' = [token EXCEPT ![r] = TRUE]
  /\ UNCHANGED <<lifecycleVars, call, semaphore, bodyVars>>

\* The App is cancelled under a call: its token is cancelled, and the call goes
\* on until its own work has returned.
SeeAppCancel(r) ==
  /\ InFlight(r)
  /\ appCancelled
  /\ ~token[r]
  /\ token' = [token EXCEPT ![r] = TRUE]
  /\ UNCHANGED <<lifecycleVars, call, semaphore, bodyVars>>

\* The host cancels the request; nobody looks at the token once the call is over.
CancelRequest(r) ==
  /\ call[r] = "new" \/ InFlight(r)
  /\ ~token[r]
  /\ token' = [token EXCEPT ![r] = TRUE]
  /\ UNCHANGED <<lifecycleVars, call, semaphore, bodyVars>>

\* dispatch_buffered returns a whole answer, or normalize_body cuts a session
\* down to one (HEAD, 204, 304).
AnswerWhole(r) ==
  /\ call[r] = "dispatching"
  /\ Return(r, "answered")
  /\ UNCHANGED <<lifecycleVars, token, bodyVars>>

\* Mutant of AnswerSession: the permit is dropped with the call.
AnswerSessionUnpermitted(r) ==
  /\ call[r] = "dispatching"
  /\ streamsBound
  /\ Return(r, "streaming")
  /\ body' = [body EXCEPT ![r] = "open"]
  /\ UNCHANGED <<lifecycleVars, token, receiving, result, ended>>

\* dispatch_buffered returns a session: the stream takes the permit over.
AnswerSession(r) ==
  /\ call[r] = "dispatching"
  /\ streamsBound
  /\ call' = [call EXCEPT ![r] = "streaming"]
  /\ permit' = [permit EXCEPT ![r] = "body"]
  /\ body' = [body EXCEPT ![r] = "open"]
  /\ UNCHANGED <<lifecycleVars, token, free, queue, receiving, result, ended>>

\* `handle`, the buffered entry point, drops a session and fails.
SessionRefused(r) ==
  /\ call[r] = "dispatching"
  /\ streamsBound
  /\ Return(r, "failed")
  /\ UNCHANGED <<lifecycleVars, token, bodyVars>>

\* The host drops the call where it stands.
CallDropped(r) ==
  /\ InFlight(r)
  /\ Return(r, "dropped")
  /\ UNCHANGED <<lifecycleVars, token, bodyVars>>
-----------------------------------------------------------------------------
(* WebIngressResponseStream.                                               *)

\* Mutant of ReceiveStarts: `done` is looked at before `cancelled`.
ReceiveStartsDoneFirst(r) ==
  /\ body[r] \in {"open", "done", "cancelled"}
  /\ IF body[r] = "open" /\ ~receiving[r]
     THEN receiving' = [receiving EXCEPT ![r] = TRUE] /\ UNCHANGED result
     ELSE /\ result' = [result EXCEPT ![r] = IF body[r] = "open" THEN "error" ELSE "eof"]
          /\ UNCHANGED receiving
  /\ UNCHANGED <<lifecycleVars, callVars, semaphore, body, ended>>

\* receive(): a cancelled stream is an error, a finished one is at its end, a
\* second pending receive() is an error, and any other one asks the Endpoint
\* session for its next event.
ReceiveStarts(r) ==
  /\ body[r] \in {"open", "done", "cancelled"}
  /\ IF body[r] = "open" /\ ~receiving[r]
     THEN receiving' = [receiving EXCEPT ![r] = TRUE] /\ UNCHANGED result
     ELSE /\ result' = [result EXCEPT ![r] = IF body[r] = "done" THEN "eof" ELSE "error"]
          /\ UNCHANGED receiving
  /\ UNCHANGED <<lifecycleVars, callVars, semaphore, body, ended>>

\* A pending receive() returns a chunk, or the host drops it: either way the
\* next one may start.
ReceiveReturns(r) ==
  /\ receiving[r]
  /\ receiving' = [receiving EXCEPT ![r] = FALSE]
  /\ UNCHANGED <<lifecycleVars, callVars, semaphore, body, result, ended>>

\* The session ends with success, possibly after the stream was cancelled.
TerminalArrives(r) ==
  /\ receiving[r]
  /\ receiving' = [receiving EXCEPT ![r] = FALSE]
  /\ result' = [result EXCEPT ![r] = "eof"]
  /\ ended' = [ended EXCEPT ![r] = TRUE]
  /\ body' = [body EXCEPT ![r] = IF @ = "open" THEN "done" ELSE @]
  /\ ReleaseBody(r)
  /\ UNCHANGED <<lifecycleVars, token>>

\* The session fails, or sends what is not a chunk: the stream is cancelled.
ReceiveFails(r) ==
  /\ receiving[r]
  /\ receiving' = [receiving EXCEPT ![r] = FALSE]
  /\ result' = [result EXCEPT ![r] = "error"]
  /\ body' = [body EXCEPT ![r] = "cancelled"]
  /\ ReleaseBody(r)
  /\ UNCHANGED <<lifecycleVars, token, ended>>

\* cancel(), by the host, with or without a pending receive().
CancelBody(r) ==
  /\ body[r] \in {"open", "done"}
  /\ body' = [body EXCEPT ![r] = "cancelled"]
  /\ ReleaseBody(r)
  /\ UNCHANGED <<lifecycleVars, token, receiving, result, ended>>

\* The stream is dropped; no receive() can be pending on it.
DropBody(r) ==
  /\ body[r] \in {"open", "done", "cancelled"}
  /\ ~receiving[r]
  /\ body' = [body EXCEPT ![r] = "dropped"]
  /\ result' = [result EXCEPT ![r] = "none"]
  /\ ended' = [ended EXCEPT ![r] = FALSE]
  /\ ReleaseBody(r)
  /\ UNCHANGED <<lifecycleVars, token, receiving>>
-----------------------------------------------------------------------------
\* What the executor, the Kernel and a cancelled Endpoint do by themselves.
CallStep(r) ==
  \/ \E tooLarge \in BOOLEAN : PermitArrives(r, tooLarge)
  \/ WaitCancelled(r) \/ SeeAppCancel(r)
  \/ AnswerWhole(r) \/ AnswerSession(r) \/ SessionRefused(r)

BodyStep(r) ==
  \/ ReceiveStarts(r) \/ ReceiveReturns(r) \/ TerminalArrives(r) \/ ReceiveFails(r)
  \/ CancelBody(r) \/ DropBody(r)

Next ==
  \/ Instantiate \/ Activate \/ Deactivate
  \/ OpenReadiness \/ BeginDrain \/ CancelApp
  \/ \E r \in Requests :
       \/ \E oversized, tooLarge \in BOOLEAN : Handle(r, oversized, tooLarge)
       \/ CallStep(r) \/ CancelRequest(r) \/ CallDropped(r) \/ BodyStep(r)

Spec == Init /\ [][Next]_vars

\* Calls are polled; an invocation ends within request_timeout.  Hosts read,
\* cancel and drop their bodies when they like, or never.
FairSpec == Spec /\ \A r \in Requests : WF_vars(CallStep(r))
-----------------------------------------------------------------------------
TypeOK ==
  /\ factory \in {"fresh", "instantiated", "active", "inactive"}
  /\ {streamsBound, open, accepting, appCancelled} \subseteq BOOLEAN
  /\ call \in [Requests -> CallStates]
  /\ token \in [Requests -> BOOLEAN]
  /\ permit \in [Requests -> {"none", "call", "body"}]
  /\ free \in 0 .. MaxConcurrent
  /\ queue \in Seq(Requests)
  /\ body \in [Requests -> {"none", "open", "done", "cancelled", "dropped"}]
  /\ receiving \in [Requests -> BOOLEAN]
  /\ result \in [Requests -> {"none", "eof", "error"}]
  /\ ended \in [Requests -> BOOLEAN]

\* max_concurrent_requests bounds everything an Endpoint still works on: calls
\* in dispatch and open bodies together never exceed it, and the permits of
\* bodies that ended, failed, were cancelled or dropped are all back.
ExecutionBounded ==
  /\ free + Cardinality({r \in Requests : permit[r] # "none"}) = MaxConcurrent
  /\ \A r \in Requests :
       permit[r] # "none" <=> call[r] \in {"granted", "dispatching"} \/ body[r] = "open"

\* A call that waited for its permit while the ingress began to drain does not
\* reach an Endpoint any more.
NoDispatchWhileDraining ==
  [][\A r \in Requests :
       call[r] # "dispatching" /\ call'[r] = "dispatching" => accepting]_vars

\* receive() reports a clean end only of a session that ended with success: a
\* response that was cancelled or failed never looks complete.
CleanEofOnly ==
  \A r \in Requests : result[r] = "eof" => ended[r]

\* Cancelling the App frees every call, also those that wait behind bodies
\* which their hosts never finish.
CancelSettlesCalls ==
  \A r \in Requests : (appCancelled /\ InFlight(r)) ~> ~InFlight(r)

\* docs/design/event-http-ingress.md: "event activation rejects any Stream
\* Endpoint binding".
ActivationRejectsStreams == factory = "active" => ~streamsBound
=============================================================================
