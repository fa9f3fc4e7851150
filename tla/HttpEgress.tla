---------------------------- MODULE HttpEgress ----------------------------
(***************************************************************************)
(* The HTTP Egress plugin: the linked Rust provider (provider.rs, native.rs)*)
(* and the event provider with the Workers transport behind it (event.rs,   *)
(* workers.rs, js/event-fetch.mjs).  Both share the request and response    *)
(* policy (policy.rs).                                                      *)
(*                                                                          *)
(* A call of send is polled by its caller, who may cancel its context or    *)
(* drop it.  Under the event provider a call owns a JavaScript operation,   *)
(* which goes on by itself: a timer, a fetch, a reader.  reqwest, fetch and *)
(* the servers are external.                                                *)
(*                                                                          *)
(* A response is [headers, length, size, redirected]: a header field is     *)
(* [name, size, text, names] (names: what a Connection field lists), length *)
(* the declared length (optional), size the bytes of the body.              *)
(***************************************************************************)
EXTENDS Integers, Sequences, SequencesExt, FiniteSets

CONSTANTS
    Calls,
    Requests,       \* [method, parses, userinfo, origin, size, headers]
    Responses,
    Transports,     \* subset of {"native", "event"}: who may be registered
    AllowedOrigins,
    MaxConcurrent,  \* max_concurrent_requests
    HeadLimit,      \* max_request_head_bytes = max_response_head_bytes
    BodyLimit       \* max_request_body_bytes = max_response_body_bytes

ASSUME EgressAssumption ==
    /\ MaxConcurrent \in Nat /\ HeadLimit \in Nat /\ BodyLimit \in Nat
    /\ IsFiniteSet(Calls) /\ Requests # {} /\ \A r \in Responses : r.size \in Nat

VARIABLES
    transport,  \* which provider the App registered
    prepared,   \* HttpEgressPlugin.provider, or the event instance, exists
    phase,      \* of a call: idle, sent, running, over
    request,    \* of a call
    answer,     \* of a call: "none", "ok", "dropped" or an error
    cancelled,  \* the context of a call is cancelled
    permits,    \* the semaphore
    network,    \* of a call: none, fetch (no head yet), body, ended, stopped
    response,   \* of a call: the response whose head has arrived
    buffered,   \* of a call: bytes of the body kept
    js          \* of a call: the JavaScript operation

vars == <<transport, prepared, phase, request, answer, cancelled, permits, network, response, buffered, js>>

NoResponse == [headers |-> <<>>, length |-> <<>>, size |-> 0, redirected |-> FALSE]
\* stage: none, fetching, reading, unwinding (a rejection is on its way to the
\* catch block) or settled; code: what the promise settled with.
NoOperation == [stage |-> "none", timer |-> FALSE, timedOut |-> FALSE, code |-> "none"]
Started == [stage |-> "fetching", timer |-> TRUE, timedOut |-> FALSE, code |-> "none"]

Init ==
    /\ transport \in Transports
    /\ prepared = FALSE
    /\ phase = [c \in Calls |-> "idle"] /\ request = [c \in Calls |-> CHOOSE r \in Requests : TRUE]
    /\ answer = [c \in Calls |-> "none"] /\ cancelled = [c \in Calls |-> FALSE]
    /\ permits = MaxConcurrent
    /\ network = [c \in Calls |-> "none"] /\ response = [c \in Calls |-> NoResponse]
    /\ buffered = [c \in Calls |-> 0] /\ js = [c \in Calls |-> NoOperation]

(***************************************************************************)
(* policy.rs                                                                *)
(***************************************************************************)
Forbidden == {"connection", "content-length", "host", "keep-alive", "proxy-authenticate",
              "proxy-authorization", "te", "trailer", "transfer-encoding", "upgrade"}

HeadBytes(headers) == FoldLeft(LAMBDA sum, h : sum + h.size, 0, headers)

\* The first field at which a loop over header fields stops, if any.
Stops(headers) == {i \in DOMAIN headers :
                      HeadBytes(SubSeq(headers, 1, i)) > HeadLimit \/ ~headers[i].text}
FirstStop(headers) == CHOOSE i \in Stops(headers) : \A j \in Stops(headers) : i <= j

\* parse_request_headers; text stands for a valid name and value.
parse_request_headers(headers) ==
    LET bad == {i \in DOMAIN headers : ~headers[i].text \/ headers[i].name \in Forbidden} IN
    IF HeadBytes(headers) <= HeadLimit /\ bad = {} THEN "ok"
    ELSE IF \E i \in bad : \A j \in 1 .. i - 1 : HeadBytes(SubSeq(headers, 1, j)) <= HeadLimit
    THEN "InvalidRequest" ELSE "RequestTooLarge"

\* Mutant of prepare_request: a request to another origin goes out.
prepare_request_anywhere(r) ==
    IF r.method \in {"", "CONNECT", "TRACE"} \/ ~r.parses \/ r.userinfo THEN "InvalidRequest"
    ELSE IF r.size > BodyLimit THEN "RequestTooLarge"
    ELSE parse_request_headers(r.headers)

\* The outcome of preparing a request; origin is "" for a scheme without one.
prepare_request(r) ==
    IF r.method \in {"", "CONNECT", "TRACE"} \/ ~r.parses \/ r.userinfo \/ r.origin = ""
    THEN "InvalidRequest"
    ELSE IF r.origin \notin AllowedOrigins THEN "DestinationNotAllowed"
    ELSE IF r.size > BodyLimit THEN "RequestTooLarge"
    ELSE parse_request_headers(r.headers)

Kept(headers) ==
    LET owned == UNION {headers[i].names : i \in {j \in DOMAIN headers : headers[j].name = "connection"}}
    IN SelectSeq(headers, LAMBDA h : h.name \notin Forbidden \cup owned)

response_headers(headers) ==
    IF \E i \in DOMAIN headers : headers[i].name = "connection" /\ ~headers[i].text
    THEN "TransportFailure"
    ELSE LET kept == Kept(headers) IN
         IF Stops(kept) = {} THEN "ok"
         ELSE IF HeadBytes(SubSeq(kept, 1, FirstStop(kept))) > HeadLimit THEN "ResponseTooLarge"
         ELSE "TransportFailure"

Declared(r) == r.length # <<>> /\ r.length[1] > BodyLimit

\* read_response up to the body.
NativeHead(r) ==
    IF response_headers(r.headers) # "ok" THEN response_headers(r.headers)
    ELSE IF Declared(r) THEN "ResponseTooLarge" ELSE "ok"

\* event-fetch.mjs up to the body: every field counts.
FetchHead(r) ==
    IF r.redirected THEN "TransportFailure"
    ELSE IF HeadBytes(r.headers) > HeadLimit \/ Declared(r) THEN "ResponseTooLarge" ELSE "ok"

\* Mutant of Decode: the head is passed on as the transport reports it.
DecodeUnfiltered(r) == "ok"

\* decode_response and the rest of EventProvider::execute.
Decode(r) ==
    IF \E i \in DOMAIN r.headers : ~r.headers[i].text THEN "TransportFailure"
    ELSE response_headers(r.headers)

(***************************************************************************)
(* A call.                                                                  *)
(***************************************************************************)
Prepare ==
    /\ ~prepared /\ \A c \in Calls : phase[c] = "idle"
    /\ prepared' = TRUE
    /\ UNCHANGED <<transport, phase, request, answer, cancelled, permits, network, response, buffered, js>>

\* Native only; calls that have their clone of the provider go on.
Deactivate ==
    /\ prepared /\ transport = "native"
    /\ prepared' = FALSE
    /\ UNCHANGED <<transport, phase, request, answer, cancelled, permits, network, response, buffered, js>>

Send(c, r) ==
    /\ phase[c] = "idle"
    /\ request' = [request EXCEPT ![c] = r]
    /\ IF prepared THEN phase' = [phase EXCEPT ![c] = "sent"] /\ UNCHANGED answer
       ELSE /\ phase' = [phase EXCEPT ![c] = "over"]
            /\ answer' = [answer EXCEPT ![c] = "PluginFailure"]
    /\ UNCHANGED <<transport, prepared, cancelled, permits, network, response, buffered, js>>

\* Mutant of Stop: dropping the call leaves the JavaScript operation alone.
StopWithoutAbort(c) ==
    /\ IF transport = "native"
       THEN network' = [network EXCEPT ![c] = IF @ \in {"fetch", "body"} THEN "stopped" ELSE @]
       ELSE UNCHANGED network
    /\ UNCHANGED js

\* The call is over and drops its operation: the reqwest future, or AbortOnDrop,
\* which aborts a JavaScript operation that has not finished.
Stop(c) ==
    LET live == js[c].stage \in {"fetching", "reading"} IN
    /\ IF transport = "native" \/ live
       THEN network' = [network EXCEPT ![c] = IF @ \in {"fetch", "body"} THEN "stopped" ELSE @]
       ELSE UNCHANGED network
    /\ js' = IF live THEN [js EXCEPT ![c] = [@ EXCEPT !.stage = "unwinding"]] ELSE js

\* Mutant of Return: the permit is forgotten.
ReturnWithoutPermit(c, a) ==
    /\ phase' = [phase EXCEPT ![c] = "over"] /\ answer' = [answer EXCEPT ![c] = a]
    /\ UNCHANGED permits

Return(c, a) ==
    /\ phase' = [phase EXCEPT ![c] = "over"] /\ answer' = [answer EXCEPT ![c] = a]
    /\ permits' = permits + 1

\* The first poll: cancellation, permit, prepare_request, and out it goes.
Begin(c) ==
    LET verdict == prepare_request(request[c])
        Refuse(a) == /\ phase' = [phase EXCEPT ![c] = "over"]
                     /\ answer' = [answer EXCEPT ![c] = a]
                     /\ UNCHANGED <<permits, network, js>>
    IN /\ phase[c] = "sent"
       /\ IF cancelled[c] THEN Refuse("Cancelled")
          ELSE IF permits = 0 THEN Refuse("ResourceExhausted")
          ELSE IF verdict # "ok" THEN Refuse(verdict)
          ELSE /\ phase' = [phase EXCEPT ![c] = "running"] /\ permits' = permits - 1
               /\ network' = [network EXCEPT ![c] = "fetch"]
               /\ js' = IF transport = "native" THEN js
                        ELSE [js EXCEPT ![c] = Started]
               /\ UNCHANGED answer
       /\ UNCHANGED <<transport, prepared, request, cancelled, response, buffered>>

\* select(cancelled, operation) looks at the cancellation first.
SeeCancelled(c) ==
    /\ phase[c] = "running" /\ cancelled[c]
    /\ Stop(c) /\ Return(c, "Cancelled")
    /\ UNCHANGED <<transport, prepared, request, cancelled, response, buffered>>

Drop(c) ==
    /\ phase[c] = "running"
    /\ Stop(c) /\ Return(c, "dropped")
    /\ UNCHANGED <<transport, prepared, request, cancelled, response, buffered>>

Cancel(c) ==
    /\ ~cancelled[c] /\ phase[c] \in {"sent", "running"}
    /\ cancelled' = [cancelled EXCEPT ![c] = TRUE]
    /\ UNCHANGED <<transport, prepared, phase, request, answer, permits, network, response, buffered, js>>

(***************************************************************************)
(* execute and read_bounded_body over reqwest.                              *)
(***************************************************************************)
Polled(c) == phase[c] = "running" /\ transport = "native" /\ ~cancelled[c]

NativeHeadArrives(c, r) ==
    /\ Polled(c) /\ network[c] = "fetch"
    /\ response' = [response EXCEPT ![c] = r]
    /\ IF NativeHead(r) = "ok"
       THEN network' = [network EXCEPT ![c] = "body"] /\ UNCHANGED <<phase, answer, permits, js>>
       ELSE Stop(c) /\ Return(c, NativeHead(r))
    /\ UNCHANGED <<transport, prepared, request, cancelled, buffered>>

\* Mutant of Fits: the chunk is kept before it is counted.
FitsLate(c, n) == buffered[c] <= BodyLimit

Fits(c, n) == buffered[c] + n <= BodyLimit

NativeChunk(c, n) ==
    /\ Polled(c) /\ network[c] = "body" /\ buffered[c] + n <= response[c].size
    /\ IF Fits(c, n)
       THEN buffered' = [buffered EXCEPT ![c] = @ + n] /\ UNCHANGED <<phase, answer, permits, network, js>>
       ELSE Stop(c) /\ Return(c, "ResponseTooLarge") /\ UNCHANGED buffered
    /\ UNCHANGED <<transport, prepared, request, cancelled, response>>

NativeEnd(c) ==
    /\ Polled(c) /\ network[c] = "body" /\ buffered[c] = response[c].size
    /\ network' = [network EXCEPT ![c] = "ended"] /\ Return(c, "ok")
    /\ UNCHANGED <<transport, prepared, request, cancelled, response, buffered, js>>

\* classify_transport_error; reqwest's timeout covers the body too.
NativeError(c, a) ==
    /\ Polled(c) /\ network[c] \in {"fetch", "body"} /\ a \in {"Timeout", "TransportFailure"}
    /\ Stop(c) /\ Return(c, a)
    /\ UNCHANGED <<transport, prepared, request, cancelled, response, buffered>>

(***************************************************************************)
(* The JavaScript operation.                                                *)
(***************************************************************************)
Halt(c) == network' = [network EXCEPT ![c] = IF @ \in {"fetch", "body"} THEN "stopped" ELSE @]

\* Mutant of Abort: the reader is cancelled first, and a pending read is done.
AbortReaderFirst(c, j) ==
    /\ Halt(c)
    /\ js' = [js EXCEPT ![c] = IF j.stage = "reading"
                               THEN [j EXCEPT !.stage = "settled", !.code = "ok", !.timer = FALSE]
                               ELSE [j EXCEPT !.stage = "unwinding"]]

\* abort(): interrupted is rejected before the reader is cancelled, so the
\* race sees the rejection.
Abort(c, j) == Halt(c) /\ js' = [js EXCEPT ![c] = [j EXCEPT !.stage = "unwinding"]]

\* Mutant of TimerFires: the deadline covers the head only.
TimerFiresBeforeHead(c) ==
    /\ js[c].timer /\ js[c].stage = "fetching" /\ \A d \in Calls : js[d].stage # "unwinding"
    /\ Abort(c, [js[c] EXCEPT !.timer = FALSE, !.timedOut = TRUE])
    /\ UNCHANGED <<transport, prepared, phase, request, answer, cancelled, permits, response, buffered>>

\* A macrotask: it never runs while a rejection is on its way.
TimerFires(c) ==
    /\ js[c].timer /\ \A d \in Calls : js[d].stage # "unwinding"
    /\ Abort(c, [js[c] EXCEPT !.timer = FALSE, !.timedOut = TRUE])
    /\ UNCHANGED <<transport, prepared, phase, request, answer, cancelled, permits, response, buffered>>

\* What was thrown inside try: abort() and the catch block, with the timer's
\* verdict first; finally clears the timer.
Caught(j, thrown) ==
    [j EXCEPT !.stage = "settled", !.timer = FALSE,
              !.code = IF j.timedOut THEN "Timeout"
                       ELSE IF thrown = "ResponseTooLarge" THEN thrown ELSE "TransportFailure"]

\* Mutant of Throw: the catch block does not abort.
ThrowWithoutAbort(c, thrown) == UNCHANGED network /\ js' = [js EXCEPT ![c] = Caught(js[c], thrown)]

Throw(c, thrown) == Halt(c) /\ js' = [js EXCEPT ![c] = Caught(js[c], thrown)]

Unwind(c) ==
    /\ js[c].stage = "unwinding"
    /\ Throw(c, "interrupted")
    /\ UNCHANGED <<transport, prepared, phase, request, answer, cancelled, permits, response, buffered>>

FetchResolves(c, r) ==
    /\ js[c].stage = "fetching"
    /\ response' = [response EXCEPT ![c] = r]
    /\ IF FetchHead(r) # "ok" THEN Throw(c, FetchHead(r))
       ELSE /\ network' = [network EXCEPT ![c] = "body"]
            /\ js' = [js EXCEPT ![c] = [@ EXCEPT !.stage = "reading"]]
    /\ UNCHANGED <<transport, prepared, phase, request, answer, cancelled, permits, buffered>>

ReadResolves(c, n) ==
    /\ js[c].stage = "reading" /\ buffered[c] + n <= response[c].size
    /\ IF Fits(c, n)
       THEN buffered' = [buffered EXCEPT ![c] = @ + n] /\ UNCHANGED <<network, js>>
       ELSE Throw(c, "ResponseTooLarge") /\ UNCHANGED buffered
    /\ UNCHANGED <<transport, prepared, phase, request, answer, cancelled, permits, response>>

ReadDone(c) ==
    /\ js[c].stage = "reading" /\ buffered[c] = response[c].size
    /\ network' = [network EXCEPT ![c] = "ended"]
    /\ js' = [js EXCEPT ![c] = [@ EXCEPT !.stage = "settled", !.code = "ok", !.timer = FALSE]]
    /\ UNCHANGED <<transport, prepared, phase, request, answer, cancelled, permits, response, buffered>>

\* Mutant of FetchRejects: a read that fails counts as the end of the body.
FetchRejectsAsEnd(c) ==
    /\ js[c].stage \in {"fetching", "reading"}
    /\ Halt(c)
    /\ js' = [js EXCEPT ![c] = IF @.stage = "fetching" THEN Caught(@, "rejected")
                               ELSE [@ EXCEPT !.stage = "settled", !.code = "ok", !.timer = FALSE]]
    /\ UNCHANGED <<transport, prepared, phase, request, answer, cancelled, permits, response, buffered>>

FetchRejects(c) ==
    /\ js[c].stage \in {"fetching", "reading"}
    /\ Throw(c, "rejected")
    /\ UNCHANGED <<transport, prepared, phase, request, answer, cancelled, permits, response, buffered>>

\* The promise has settled and the caller polls the call again.
Deliver(c) ==
    /\ phase[c] = "running" /\ js[c].stage = "settled" /\ ~cancelled[c]
    /\ Return(c, IF js[c].code = "ok" THEN Decode(response[c]) ELSE js[c].code)
    /\ UNCHANGED <<transport, prepared, request, cancelled, network, response, buffered, js>>

(***************************************************************************)
Native(c) ==
    \/ \E r \in Responses : NativeHeadArrives(c, r)
    \/ \E n \in 1..2 : NativeChunk(c, n)
    \/ NativeEnd(c)
    \/ \E a \in {"Timeout", "TransportFailure"} : NativeError(c, a)

Script(c) ==
    \/ TimerFires(c) \/ Unwind(c) \/ FetchRejects(c) \/ ReadDone(c)
    \/ \E r \in Responses : FetchResolves(c, r)
    \/ \E n \in 1..2 : ReadResolves(c, n)

Next ==
    \/ Prepare \/ Deactivate
    \/ \E c \in Calls :
          \/ \E r \in Requests : Send(c, r)
          \/ Begin(c) \/ SeeCancelled(c) \/ Drop(c) \/ Cancel(c) \/ Deliver(c)
          \/ Native(c) \/ Script(c)

\* A call in progress is polled when woken, timers fire, microtasks run.
Fairness ==
    \A c \in Calls :
        /\ WF_vars(Begin(c)) /\ WF_vars(SeeCancelled(c)) /\ WF_vars(Deliver(c))
        /\ WF_vars(NativeError(c, "Timeout")) /\ WF_vars(Unwind(c))
        /\ WF_vars(TimerFires(c))

Spec == Init /\ [][Next]_vars /\ Fairness

(***************************************************************************)
(* Properties.                                                              *)
(***************************************************************************)
Errors == {"PluginFailure", "Cancelled", "ResourceExhausted", "InvalidRequest", "DestinationNotAllowed",
           "RequestTooLarge", "ResponseTooLarge", "Timeout", "TransportFailure"}

Operations ==
    [stage : {"none", "fetching", "reading", "unwinding", "settled"}, timer : BOOLEAN, timedOut : BOOLEAN,
     code : {"none", "ok", "Timeout", "ResponseTooLarge", "TransportFailure"}]

\* The variables have the types their comments give them.
TypeOK ==
    /\ transport \in Transports /\ prepared \in BOOLEAN
    /\ phase \in [Calls -> {"idle", "sent", "running", "over"}]
    /\ request \in [Calls -> Requests]
    /\ answer \in [Calls -> Errors \cup {"none", "ok", "dropped"}]
    /\ cancelled \in [Calls -> BOOLEAN]
    /\ permits \in 0..MaxConcurrent
    /\ network \in [Calls -> {"none", "fetch", "body", "ended", "stopped"}]
    /\ response \in [Calls -> Responses \cup {NoResponse}]
    /\ buffered \in [Calls -> Nat]
    /\ js \in [Calls -> Operations]

Running == {c \in Calls : phase[c] = "running"}

\* Permits are free or held by a running call, through errors, cancellation and
\* drops (execute's _permit, EventProvider::send).
EgressPermitsConserved == permits + Cardinality(Running) = MaxConcurrent

\* A transfer is in progress only for a running call, so never more than
\* max_concurrent_requests at a time: whatever ends a call stops its transfer
\* (the dropped reqwest future; AbortOnDrop and abort in event-fetch.mjs).
NoOrphanTransfer == \A c \in Calls : network[c] \in {"fetch", "body"} => phase[c] = "running"

\* No response is collected beyond the body limit (read_bounded_body, the
\* reader loop), however the body is cut into chunks.
BufferIsBounded == \A c \in Calls : buffered[c] <= BodyLimit

\* Success means the whole body has arrived: an abort or a deadline during the
\* read never passes off what had arrived as the response.
SuccessIsComplete ==
    \A c \in Calls : answer[c] = "ok" => network[c] = "ended" /\ buffered[c] = response[c].size

\* A caller is told Timeout if and only if the timer fired before the promise
\* settled, whatever the abort and the end of the body race to (event-fetch.mjs).
TimeoutIsTold ==
    \A c \in Calls : js[c].stage = "settled" /\ phase[c] = "over" /\ answer[c] \notin {"Cancelled", "dropped"}
        => (js[c].timedOut <=> answer[c] = "Timeout")

\* When the promise settles its timer is cleared and its transfer is over, on
\* every path through try, catch and finally (event-fetch.mjs).
SettledIsQuiet ==
    \A c \in Calls : js[c].stage = "settled" => ~js[c].timer /\ network[c] \in {"ended", "stopped"}

\* A response the event provider delivers is one the linked provider would
\* deliver: its head passes the same policy.
EventAgreesWithNative ==
    \A c \in Calls : transport = "event" /\ answer[c] = "ok" => NativeHead(response[c]) = "ok"

\* Only what the policy allows goes out, and to an allowed origin.
OnlyAllowedDestinations ==
    \A c \in Calls : network[c] # "none" =>
        /\ request[c].origin \in AllowedOrigins /\ ~request[c].userinfo
        /\ \A i \in DOMAIN request[c].headers : request[c].headers[i].name \notin Forbidden

\* A call that was begun is answered, also when the server never answers.
EveryCallSettles == \A c \in Calls : phase[c] \in {"sent", "running"} ~> phase[c] = "over"

\* max_concurrent_requests bounds the work, not only the calls: permits, transfers
\* and timers belong to calls in progress and go with them, by whichever of the
\* racing ends (execute, AbortOnDrop, event-fetch.mjs).
TransfersHavePermits == EgressPermitsConserved /\ NoOrphanTransfer /\ SettledIsQuiet

\* A caller can rely on the answer: success is the whole body within its limit,
\* Timeout is said if and only if the deadline ended the transfer.
AnswersAreTrue == BufferIsBounded /\ SuccessIsComplete /\ TimeoutIsTold

\* Both providers keep one policy, for what goes out and for what comes in
\* (prepare_request, response_headers).
PolicyIsShared == EventAgreesWithNative /\ OnlyAllowedDestinations
=============================================================================
