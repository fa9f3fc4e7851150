------------------------- MODULE HttpEgress_proofs -------------------------
(***************************************************************************)
(* What HTTP Egress promises, for every number of calls and permits, every  *)
(* limit and every set of requests and responses.                           *)
(***************************************************************************)
EXTENDS HttpEgress, FiniteSetTheorems, TLAPS

\* Where the JavaScript operation stands tells what its transfer, its timer and
\* its verdict are.
OperationInv(c) ==
    /\ transport = "native" => js[c] = NoOperation
    /\ js[c].stage = "none" => js[c] = NoOperation
    /\ js[c].stage = "fetching" => phase[c] = "running" /\ network[c] = "fetch" /\ ~js[c].timedOut
    /\ js[c].stage = "reading" => phase[c] = "running" /\ network[c] = "body" /\ ~js[c].timedOut
    /\ js[c].stage = "unwinding" => network[c] = "stopped"
    /\ js[c].stage = "settled" =>
          /\ network[c] \in {"ended", "stopped"} /\ ~js[c].timer
          /\ js[c].timedOut <=> js[c].code = "Timeout"
          /\ js[c].code = "ok" => network[c] = "ended" /\ buffered[c] = response[c].size
    /\ js[c].stage = "reading" \/ js[c].code = "ok" => FetchHead(response[c]) = "ok"
    /\ js[c].code # "none" <=> js[c].stage = "settled"

\* Where the call stands tells what it owns and what it was answered.
CallInv(c) ==
    /\ phase[c] \in {"idle", "sent"} => network[c] = "none"
    /\ network[c] = "none" => js[c] = NoOperation
    /\ network[c] \in {"fetch", "body"} => phase[c] = "running"
    /\ phase[c] = "running" /\ transport # "native" => js[c].stage # "none"
    /\ phase[c] = "over" <=> answer[c] # "none"
    /\ answer[c] = "ok" => network[c] = "ended" /\ buffered[c] = response[c].size
    /\ answer[c] \notin {"none", "Cancelled", "dropped"} /\ js[c].stage # "none" =>
          /\ js[c].stage = "settled"
          /\ answer[c] = IF js[c].code = "ok" THEN Decode(response[c]) ELSE js[c].code
    /\ answer[c] = "ok" /\ transport # "native" => js[c].stage = "settled" /\ js[c].code = "ok"
    /\ network[c] # "none" => prepare_request(request[c]) = "ok"
    /\ buffered[c] <= BodyLimit

IInv == TypeOK /\ EgressPermitsConserved /\ \A c \in Calls : OperationInv(c) /\ CallInv(c)
-----------------------------------------------------------------------------
\* What the policy can answer: a head is passed, refused as broken or as too large.
LEMMA Verdicts ==
  /\ \A r : prepare_request(r) \in {"ok", "InvalidRequest", "DestinationNotAllowed", "RequestTooLarge"}
  /\ \A r : {NativeHead(r), FetchHead(r), Decode(r)} \subseteq {"ok", "TransportFailure", "ResponseTooLarge"}
<1>1. \A h : parse_request_headers(h) \in {"ok", "InvalidRequest", "RequestTooLarge"}
  BY DEF parse_request_headers
<1>2. \A h : response_headers(h) \in {"ok", "TransportFailure", "ResponseTooLarge"}
  BY DEF response_headers
<1>3. \A r : prepare_request(r) \in {"ok", "InvalidRequest", "DestinationNotAllowed", "RequestTooLarge"}
  BY <1>1 DEF prepare_request
<1>4. \A r : {NativeHead(r), FetchHead(r), Decode(r)} \subseteq {"ok", "TransportFailure", "ResponseTooLarge"}
  BY <1>2 DEF NativeHead, FetchHead, Decode
<1> QED BY <1>3, <1>4

\* The event provider checks no less of a head than the linked one: what passes
\* both event-fetch.mjs and decode_response passes read_response.
LEMMA EventHeadIsNative ==
  ASSUME NEW r, FetchHead(r) = "ok", Decode(r) = "ok"
  PROVE  NativeHead(r) = "ok"
BY DEF FetchHead, Decode, NativeHead

\* A prepared request is one the policy allows.
LEMMA PreparedIsAllowed ==
  ASSUME NEW r, prepare_request(r) = "ok"
  PROVE  /\ r.origin \in AllowedOrigins /\ ~r.userinfo
         /\ \A i \in DOMAIN r.headers : r.headers[i].name \notin Forbidden
<1>1. /\ r.origin \in AllowedOrigins /\ ~r.userinfo
      /\ parse_request_headers(r.headers) = "ok"
  BY DEF prepare_request
<1>2. {i \in DOMAIN r.headers : ~r.headers[i].text \/ r.headers[i].name \in Forbidden} = {}
  BY <1>1 DEF parse_request_headers
<1> QED BY <1>1, <1>2

-----------------------------------------------------------------------------
\* The permits count the running calls through every step that starts or ends one.
LEMMA RunningIsFinite == IsFiniteSet(Running) /\ Cardinality(Running) \in Nat
BY EgressAssumption, FS_Subset, FS_CardinalityType DEF Running

\* A call that begins takes one free permit.
LEMMA PermitTaken ==
  ASSUME TypeOK, EgressPermitsConserved, NEW c \in Calls, phase[c] # "running", permits # 0,
         phase' = [phase EXCEPT ![c] = "running"], permits' = permits - 1
  PROVE  EgressPermitsConserved' /\ permits' \in 0..MaxConcurrent
<1>1. Running' = Running \cup {c} /\ c \notin Running
  BY DEF Running, TypeOK
<1>2. Cardinality(Running') = Cardinality(Running) + 1
  BY <1>1, RunningIsFinite, FS_AddElement
<1> QED BY <1>2, RunningIsFinite, EgressAssumption DEF EgressPermitsConserved, TypeOK

\* A call that ends gives its permit back.
LEMMA PermitReturned ==
  ASSUME TypeOK, EgressPermitsConserved, NEW c \in Calls, phase[c] = "running",
         phase' = [phase EXCEPT ![c] = "over"], permits' = permits + 1
  PROVE  EgressPermitsConserved' /\ permits' \in 0..MaxConcurrent
<1>1. Running' = Running \ {c} /\ c \in Running
  BY DEF Running, TypeOK
<1>2. Cardinality(Running') = Cardinality(Running) - 1
  BY <1>1, RunningIsFinite, FS_RemoveElement
<1>3. Cardinality(Running') \in Nat
  BY <1>1, RunningIsFinite, FS_Subset, FS_CardinalityType
<1> QED BY <1>2, <1>3, RunningIsFinite, EgressAssumption DEF EgressPermitsConserved, TypeOK

\* A step that neither begins nor ends a call moves no permit.
LEMMA PermitKept ==
  ASSUME TypeOK, EgressPermitsConserved, Running' = Running, permits' = permits
  PROVE  EgressPermitsConserved' /\ permits' \in 0..MaxConcurrent
BY DEF EgressPermitsConserved, TypeOK
-----------------------------------------------------------------------------
\* A step changes one call and leaves the others as they are.
Untouched(d) ==
    /\ phase'[d] = phase[d] /\ request'[d] = request[d] /\ answer'[d] = answer[d]
    /\ network'[d] = network[d] /\ response'[d] = response[d]
    /\ buffered'[d] = buffered[d] /\ js'[d] = js[d]

\* A call whose state a step does not touch keeps its invariant.
LEMMA UntouchedKeeps ==
  ASSUME NEW d, OperationInv(d), CallInv(d), Untouched(d), transport' = transport
  PROVE  OperationInv(d)' /\ CallInv(d)'
BY DEF OperationInv, CallInv, Untouched

\* Whatever ends a call before its time stops its transfer: the reqwest future is
\* dropped, or AbortOnDrop starts to unwind the JavaScript operation.
LEMMA StoppedCall ==
  ASSUME TypeOK, NEW c \in Calls, OperationInv(c), CallInv(c), phase[c] = "running",
         NEW a, a \in {"Cancelled", "dropped"} \/ (transport = "native" /\ a \in Errors),
         Stop(c), phase' = [phase EXCEPT ![c] = "over"], answer' = [answer EXCEPT ![c] = a],
         request' = request, buffered' = buffered, transport' = transport,
         response' \in [Calls -> Responses \cup {NoResponse}],
         transport = "native" \/ response' = response
  PROVE  /\ network' \in [Calls -> {"none", "fetch", "body", "ended", "stopped"}]
         /\ js' \in [Calls -> Operations]
         /\ OperationInv(c)' /\ CallInv(c)'
<1>1. CASE js[c].stage \in {"fetching", "reading"}
  <2>1. /\ network' = [network EXCEPT ![c] = "stopped"]
        /\ js' = [js EXCEPT ![c] = [@ EXCEPT !.stage = "unwinding"]]
    BY <1>1 DEF Stop, OperationInv, TypeOK
  <2>2. /\ js'[c].stage = "unwinding" /\ js'[c].code = js[c].code /\ js'[c].timer = js[c].timer
        /\ js'[c].timedOut = js[c].timedOut
    BY <2>1 DEF TypeOK
  <2>3. transport # "native" /\ a \in {"Cancelled", "dropped"} /\ js[c].code = "none"
    BY <1>1 DEF OperationInv, NoOperation
  <2>4. network'[c] = "stopped" /\ phase'[c] = "over" /\ answer'[c] = a
    BY <2>1 DEF TypeOK
  <2>5. OperationInv(c)' /\ CallInv(c)'
    <3>1. OperationInv(c)'
      BY <2>2, <2>3, <2>4 DEF OperationInv, NoOperation
    <3>2. CallInv(c)'
      BY <2>2, <2>3, <2>4 DEF CallInv, NoOperation
    <3> QED BY <3>1, <3>2
  <2>6. [js[c] EXCEPT !.stage = "unwinding"] \in Operations
    <3>1. js[c] \in Operations
      BY DEF TypeOK
    <3> QED BY <3>1 DEF Operations
  <2> QED BY <2>1, <2>5, <2>6 DEF TypeOK
<1>2. CASE js[c].stage \notin {"fetching", "reading"}
  <2>1. /\ js' = js
        /\ network' \in [Calls -> {"none", "fetch", "body", "ended", "stopped"}]
        /\ network'[c] = IF transport = "native" /\ network[c] \in {"fetch", "body"} THEN "stopped" ELSE network[c]
    BY <1>2 DEF Stop, TypeOK
  <2>2. phase'[c] = "over" /\ answer'[c] = a
    BY DEF TypeOK
  <2>3. OperationInv(c)'
    BY <1>2, <2>1, <2>2 DEF OperationInv, NoOperation
  <2>4. /\ a \notin {"ok", "none"}
        /\ transport = "native" => js[c].stage = "none"
        /\ transport # "native" => network[c] \in {"ended", "stopped"} /\ a \in {"Cancelled", "dropped"}
    <3>1. a \notin {"ok", "none"}
      BY DEF Errors
    <3>2. transport = "native" => js[c].stage = "none"
      BY DEF OperationInv, NoOperation
    <3>3. transport # "native" => network[c] \in {"ended", "stopped"}
      <4>1. js[c] \in Operations
        BY DEF TypeOK
      <4>2. js[c].stage \in {"none", "fetching", "reading", "unwinding", "settled"}
        BY <4>1 DEF Operations
      <4> QED BY <1>2, <4>2 DEF OperationInv, CallInv
    <3> QED BY <3>1, <3>2, <3>3
  <2>5. CallInv(c)'
    BY <2>1, <2>2, <2>4 DEF CallInv
  <2> QED BY <2>1, <2>3, <2>5 DEF TypeOK
<1> QED BY <1>1, <1>2

\* A call without a JavaScript operation has nothing to show of it.
LEMMA NoOperationHolds ==
  ASSUME NEW c, js'[c] = NoOperation
  PROVE  OperationInv(c)'
<1>1. js'[c].stage = "none" /\ js'[c].code = "none"
  BY DEF NoOperation
<1> QED BY <1>1 DEF OperationInv

\* An operation that fetches or reads has no verdict yet, and its call no answer.
LEMMA PendingOperation ==
  ASSUME NEW c, OperationInv(c), CallInv(c), js[c].stage \in {"fetching", "reading"}
  PROVE  /\ network[c] \in {"fetch", "body"} /\ phase[c] = "running" /\ ~js[c].timedOut
         /\ transport # "native" /\ js[c].code = "none" /\ answer[c] = "none"
<1>1. network[c] \in {"fetch", "body"} /\ phase[c] = "running" /\ ~js[c].timedOut
  BY DEF OperationInv
<1>2. transport # "native" /\ js[c].code = "none"
  BY DEF OperationInv, NoOperation
<1>3. answer[c] = "none"
  BY <1>1 DEF CallInv
<1> QED BY <1>1, <1>2, <1>3

\* What has to be shown of a step that concerns one call.
LEMMA OneCall ==
  ASSUME IInv, NEW c \in Calls, TypeOK', EgressPermitsConserved', transport' = transport,
         \A d \in Calls \ {c} : Untouched(d), OperationInv(c)', CallInv(c)'
  PROVE  IInv'
<1>1. ASSUME NEW d \in Calls PROVE OperationInv(d)' /\ CallInv(d)'
  BY UntouchedKeeps DEF IInv
<1> QED BY <1>1 DEF IInv

\* A call is sent, begun, cancelled.
LEMMA CallBegins ==
  ASSUME IInv, NEW c \in Calls, (\E r \in Requests : Send(c, r)) \/ Begin(c) \/ Cancel(c)
  PROVE  IInv'
<1>0. TypeOK /\ EgressPermitsConserved /\ OperationInv(c) /\ CallInv(c)
  BY DEF IInv
<1>1. ASSUME NEW r \in Requests, Send(c, r) PROVE IInv'
  <2>0. \/ phase' = [phase EXCEPT ![c] = "sent"] /\ answer' = answer
        \/ phase' = [phase EXCEPT ![c] = "over"] /\ answer' = [answer EXCEPT ![c] = "PluginFailure"]
    BY <1>1, Zenon DEF Send
  <2>1. TypeOK' /\ Running' = Running
    <3>1. phase[c] = "idle" /\ request' = [request EXCEPT ![c] = r]
          /\ UNCHANGED <<transport, prepared, cancelled, permits, network, response, buffered, js>>
      BY <1>1 DEF Send
    <3>2. "PluginFailure" \in Errors
      BY DEF Errors
    <3>3. Running' = Running
      BY <1>0, <2>0, <3>1 DEF TypeOK, Running
    <3> QED BY <1>0, <2>0, <3>1, <3>2, <3>3 DEF TypeOK
  <2>2. EgressPermitsConserved'
    BY <1>0, <1>1, <2>1, PermitKept DEF Send
  <2>3. \A d \in Calls \ {c} : Untouched(d)
    BY <1>0, <1>1 DEF Send, TypeOK, Untouched
  <2>4. network[c] = "none" /\ js[c] = NoOperation /\ phase'[c] # "running" /\ phase'[c] # "idle"
    BY <1>0, <1>1 DEF Send, TypeOK, CallInv
  <2>5. \/ phase'[c] = "over" /\ answer'[c] = "PluginFailure"
        \/ phase'[c] = "sent" /\ answer'[c] = "none"
    <3>1. answer[c] = "none"
      BY <1>0, <1>1 DEF Send, CallInv
    <3>2. DOMAIN phase = Calls /\ DOMAIN answer = Calls
      BY <1>0 DEF TypeOK
    <3> QED BY <2>0, <3>1, <3>2
  <2>6. OperationInv(c)'
    BY <1>0, <1>1, <2>4 DEF Send, OperationInv, NoOperation
  <2>7. CallInv(c)'
    BY <1>0, <1>1, <2>4, <2>5 DEF Send, CallInv, NoOperation
  <2> QED BY <1>1, <2>1, <2>2, <2>3, <2>6, <2>7, OneCall DEF Send
<1>2. CASE Begin(c) /\ phase'[c] = "over"
  <2>0. PICK a \in Errors : phase' = [phase EXCEPT ![c] = "over"] /\ answer' = [answer EXCEPT ![c] = a]
    <3>1. /\ prepare_request(request[c]) \in {"ok", "InvalidRequest", "DestinationNotAllowed", "RequestTooLarge"}
          /\ {"Cancelled", "ResourceExhausted", "InvalidRequest", "DestinationNotAllowed", "RequestTooLarge"}
               \subseteq Errors
      BY Verdicts DEF Errors
    <3> QED BY <1>0, <1>2, <3>1 DEF Begin, TypeOK
  <2>1. /\ permits' = permits /\ network' = network /\ js' = js /\ response' = response
        /\ buffered' = buffered /\ transport' = transport /\ request' = request
    BY <1>0, <1>2 DEF Begin, TypeOK
  <2>2. TypeOK' /\ Running' = Running /\ answer'[c] \in Errors
    BY <1>0, <1>2, <2>0, <2>1 DEF Begin, TypeOK, Running
  <2>3. \A d \in Calls \ {c} : Untouched(d)
    BY <1>0, <2>0, <2>1 DEF TypeOK, Untouched
  <2>4. network[c] = "none" /\ js[c] = NoOperation
    BY <1>0, <1>2 DEF Begin, CallInv
  <2>5. OperationInv(c)' /\ CallInv(c)'
    <3>1. OperationInv(c)'
      BY <1>0, <1>2, <2>1, <2>2, <2>4 DEF OperationInv, NoOperation
    <3>2. CallInv(c)'
      BY <1>0, <1>2, <2>1, <2>2, <2>4 DEF CallInv, NoOperation, Errors
    <3> QED BY <3>1, <3>2
  <2> QED BY <1>0, <2>1, <2>2, <2>3, <2>5, OneCall, PermitKept
<1>3. CASE Begin(c) /\ phase'[c] # "over"
  <2>1. /\ phase[c] = "sent" /\ phase' = [phase EXCEPT ![c] = "running"] /\ permits # 0 /\ permits' = permits - 1
        /\ network' = [network EXCEPT ![c] = "fetch"] /\ prepare_request(request[c]) = "ok"
        /\ js' = IF transport = "native" THEN js
                 ELSE [js EXCEPT ![c] = Started]
        /\ UNCHANGED <<transport, prepared, request, cancelled, response, buffered, answer>>
    BY <1>0, <1>3 DEF Begin, TypeOK
  <2>2. EgressPermitsConserved' /\ permits' \in 0..MaxConcurrent
    BY <1>0, <2>1, PermitTaken
  <2>3. TypeOK'
    <3>1. Started \in Operations
      BY DEF Started, Operations
    <3>2. js' \in [Calls -> Operations] /\ network' \in [Calls -> {"none", "fetch", "body", "ended", "stopped"}]
      BY <1>0, <2>1, <3>1 DEF TypeOK
    <3>3. phase' \in [Calls -> {"idle", "sent", "running", "over"}]
      BY <1>0, <2>1 DEF TypeOK
    <3> QED BY <1>0, <2>1, <2>2, <3>2, <3>3 DEF TypeOK
  <2>4. \A d \in Calls \ {c} : Untouched(d)
    BY <1>0, <2>1 DEF TypeOK, Untouched
  <2>5. /\ phase'[c] = "running" /\ network'[c] = "fetch" /\ js[c] = NoOperation /\ answer'[c] = "none"
        /\ js'[c] = IF transport = "native" THEN NoOperation ELSE Started
    BY <1>0, <2>1 DEF TypeOK, CallInv
  <2>6. OperationInv(c)' /\ CallInv(c)'
    <3>1. OperationInv(c)'
      <4>1. CASE transport = "native"
        BY <2>5, <4>1, NoOperationHolds
      <4>2. CASE transport # "native"
        <5>1. js'[c].stage = "fetching" /\ js'[c].code = "none" /\ ~js'[c].timedOut
          BY <2>5, <4>2 DEF Started
        <5>2. transport' # "native"
          BY <2>1, <4>2
        <5> QED BY <2>5, <5>1, <5>2 DEF OperationInv
      <4> QED BY <4>1, <4>2
    <3>2. CallInv(c)'
      BY <1>0, <2>1, <2>5 DEF CallInv, NoOperation, Started
    <3> QED BY <3>1, <3>2
  <2> QED BY <2>1, <2>2, <2>3, <2>4, <2>6, OneCall
<1>4. CASE Cancel(c)
  <2>1. TypeOK' /\ Running' = Running
    BY <1>0, <1>4 DEF Cancel, TypeOK, Running
  <2>2. \A d \in Calls : Untouched(d)
    BY <1>4 DEF Cancel, Untouched
  <2> QED BY <1>0, <1>4, <2>1, <2>2, OneCall, UntouchedKeeps, PermitKept DEF Cancel
<1> QED BY <1>1, <1>2, <1>3, <1>4

\* A call is cancelled, dropped, refused by the native reader or fails.
LEMMA CallStops ==
  ASSUME IInv, NEW c \in Calls, phase[c] = "running", NEW a,
         a \in {"Cancelled", "dropped"} \/ (transport = "native" /\ a \in Errors),
         Stop(c), Return(c, a), UNCHANGED <<transport, prepared, request, cancelled, buffered>>,
         response' \in [Calls -> Responses \cup {NoResponse}],
         transport = "native" \/ response' = response,
         \A d \in Calls \ {c} : response'[d] = response[d]
  PROVE  IInv'
<1>1. TypeOK /\ EgressPermitsConserved /\ OperationInv(c) /\ CallInv(c)
  BY DEF IInv
<1>2. /\ phase' = [phase EXCEPT ![c] = "over"] /\ answer' = [answer EXCEPT ![c] = a] /\ permits' = permits + 1
  BY DEF Return
<1>3. EgressPermitsConserved' /\ permits' \in 0..MaxConcurrent
  BY <1>1, <1>2, PermitReturned
<1>4. /\ network' \in [Calls -> {"none", "fetch", "body", "ended", "stopped"}]
      /\ js' \in [Calls -> Operations]
      /\ OperationInv(c)' /\ CallInv(c)'
  BY <1>1, <1>2, StoppedCall
<1>5. TypeOK'
  BY <1>1, <1>2, <1>3, <1>4 DEF TypeOK, Errors
<1>6. \A d \in Calls \ {c} : Untouched(d)
  BY <1>1, <1>2 DEF TypeOK, Untouched, Stop
<1> QED BY <1>3, <1>4, <1>5, <1>6, OneCall
\* The linked provider reads the head and the body.
LEMMA NativeSteps ==
  ASSUME IInv, NEW c \in Calls, Native(c)
  PROVE  IInv'
<1>0. TypeOK /\ EgressPermitsConserved /\ OperationInv(c) /\ CallInv(c)
  BY DEF IInv
<1>1. phase[c] = "running" /\ transport = "native" /\ js[c] = NoOperation /\ answer[c] = "none"
  BY <1>0 DEF Native, NativeHeadArrives, NativeChunk, NativeEnd, NativeError, Polled, OperationInv, CallInv
<1>2. ASSUME NEW r \in Responses, NativeHeadArrives(c, r) PROVE IInv'
  <2>1. /\ response' \in [Calls -> Responses \cup {NoResponse}] /\ response'[c] = r
        /\ \A d \in Calls \ {c} : response'[d] = response[d]
    BY <1>0, <1>2 DEF NativeHeadArrives, TypeOK
  <2>2. CASE NativeHead(r) = "ok"
    <3>1. /\ network[c] = "fetch" /\ network' = [network EXCEPT ![c] = "body"]
          /\ UNCHANGED <<phase, answer, permits, js, transport, prepared, request, cancelled, buffered>>
      BY <1>2, <2>2 DEF NativeHeadArrives
    <3>2. TypeOK' /\ Running' = Running
      BY <1>0, <2>1, <3>1 DEF TypeOK, Running
    <3>3. \A d \in Calls \ {c} : Untouched(d)
      BY <1>0, <2>1, <3>1 DEF TypeOK, Untouched
    <3>4. network'[c] = "body" /\ js'[c] = NoOperation
      BY <1>0, <1>1, <3>1 DEF TypeOK
    <3>5. OperationInv(c)' /\ CallInv(c)'
      <4>1. OperationInv(c)'
        BY <1>1, <3>1, NoOperationHolds
      <4>2. CallInv(c)'
        BY <1>0, <1>1, <3>1, <3>4 DEF CallInv, NoOperation
      <4> QED BY <4>1, <4>2
    <3> QED BY <1>0, <3>1, <3>2, <3>3, <3>5, OneCall, PermitKept
  <2>3. CASE NativeHead(r) # "ok"
    <3>1. NativeHead(r) \in Errors
      BY <2>3, Verdicts DEF Errors
    <3>2. Stop(c) /\ Return(c, NativeHead(r)) /\ UNCHANGED <<transport, prepared, request, cancelled, buffered>>
      BY <1>2, <2>3 DEF NativeHeadArrives
    <3> QED BY <1>1, <2>1, <3>1, <3>2, CallStops
  <2> QED BY <2>2, <2>3
<1>3. ASSUME NEW n \in 1..2, NativeChunk(c, n) PROVE IInv'
  <2>1. CASE Fits(c, n)
    <3>1. /\ network[c] = "body" /\ buffered' = [buffered EXCEPT ![c] = @ + n] /\ buffered[c] + n <= BodyLimit
          /\ UNCHANGED <<phase, answer, permits, network, js, transport, prepared, request, cancelled, response>>
      BY <1>3, <2>1 DEF NativeChunk, Fits
    <3>2. TypeOK' /\ Running' = Running
      BY <1>0, <3>1 DEF TypeOK, Running
    <3>3. \A d \in Calls \ {c} : Untouched(d)
      BY <1>0, <3>1 DEF TypeOK, Untouched
    <3>4. buffered'[c] <= BodyLimit /\ js'[c] = NoOperation
      BY <1>0, <1>1, <3>1 DEF TypeOK
    <3>5. OperationInv(c)' /\ CallInv(c)'
      <4>1. OperationInv(c)'
        BY <3>4, NoOperationHolds
      <4>2. CallInv(c)'
        BY <1>0, <1>1, <3>1, <3>4 DEF CallInv, NoOperation
      <4> QED BY <4>1, <4>2
    <3> QED BY <1>0, <3>1, <3>2, <3>3, <3>5, OneCall, PermitKept
  <2>2. CASE ~Fits(c, n)
    <3>1. Stop(c) /\ Return(c, "ResponseTooLarge")
          /\ UNCHANGED <<transport, prepared, request, cancelled, buffered, response>>
      BY <1>3, <2>2 DEF NativeChunk
    <3>2. "ResponseTooLarge" \in Errors /\ response' \in [Calls -> Responses \cup {NoResponse}]
      BY <1>0, <3>1 DEF Errors, TypeOK
    <3> QED BY <1>1, <3>1, <3>2, CallStops
  <2> QED BY <2>1, <2>2
<1>4. CASE NativeEnd(c)
  <2>1. /\ network' = [network EXCEPT ![c] = "ended"] /\ buffered[c] = response[c].size /\ network[c] = "body"
        /\ phase' = [phase EXCEPT ![c] = "over"] /\ answer' = [answer EXCEPT ![c] = "ok"] /\ permits' = permits + 1
        /\ UNCHANGED <<transport, prepared, request, cancelled, response, buffered, js>>
    BY <1>4 DEF NativeEnd, Return
  <2>2. EgressPermitsConserved' /\ permits' \in 0..MaxConcurrent
    BY <1>0, <1>1, <2>1, PermitReturned
  <2>3. TypeOK'
    BY <1>0, <2>1, <2>2 DEF TypeOK
  <2>4. \A d \in Calls \ {c} : Untouched(d)
    BY <1>0, <2>1 DEF TypeOK, Untouched
  <2>5. network'[c] = "ended" /\ phase'[c] = "over" /\ answer'[c] = "ok"
    BY <1>0, <2>1 DEF TypeOK
  <2>6. OperationInv(c)' /\ CallInv(c)'
    <3>1. OperationInv(c)'
      BY <1>1, <2>1, NoOperationHolds
    <3>2. CallInv(c)'
      <4>1. network'[c] = "ended" /\ phase'[c] = "over" /\ answer'[c] = "ok" /\ js'[c] = NoOperation
            /\ buffered'[c] = response'[c].size /\ transport' = "native" /\ buffered'[c] <= BodyLimit
            /\ prepare_request(request'[c]) = "ok" /\ js'[c].stage = "none"
        BY <1>0, <1>1, <2>1, <2>5 DEF CallInv, NoOperation
      <4> QED BY <4>1 DEF CallInv
    <3> QED BY <3>1, <3>2
  <2> QED BY <2>1, <2>2, <2>3, <2>4, <2>6, OneCall
<1>5. ASSUME NEW a \in {"Timeout", "TransportFailure"}, NativeError(c, a) PROVE IInv'
  <2>1. Stop(c) /\ Return(c, a) /\ UNCHANGED <<transport, prepared, request, cancelled, buffered, response>>
    BY <1>5 DEF NativeError
  <2>2. a \in Errors /\ response' \in [Calls -> Responses \cup {NoResponse}]
    BY <1>0, <2>1 DEF Errors, TypeOK
  <2> QED BY <1>1, <2>1, <2>2, CallStops
<1> QED BY <1>2, <1>3, <1>4, <1>5 DEF Native
\* The catch block: whatever was thrown, the transfer is over, the timer is cleared
\* and the verdict is the timer's if it fired.
LEMMA Settles ==
  ASSUME IInv, NEW c \in Calls, js[c].stage \in {"fetching", "reading", "unwinding"}, NEW thrown,
         Throw(c, thrown),
         UNCHANGED <<transport, prepared, phase, request, answer, cancelled, permits, buffered>>,
         response' \in [Calls -> Responses \cup {NoResponse}],
         \A d \in Calls \ {c} : response'[d] = response[d]
  PROVE  IInv'
<1>0. TypeOK /\ EgressPermitsConserved /\ OperationInv(c) /\ CallInv(c)
  BY DEF IInv
<1>00. js[c] \in Operations
  BY <1>0 DEF TypeOK
<1>1. /\ network' = [network EXCEPT ![c] = IF @ \in {"fetch", "body"} THEN "stopped" ELSE @]
      /\ js' = [js EXCEPT ![c] = Caught(js[c], thrown)]
  BY DEF Throw, Halt
<1>2. network'[c] = "stopped" /\ network[c] # "none"
  BY <1>0, <1>1 DEF TypeOK, OperationInv
<1>3. /\ js'[c].stage = "settled" /\ js'[c].timer = FALSE /\ js'[c].timedOut = js[c].timedOut
      /\ js'[c].code = IF js[c].timedOut THEN "Timeout"
                       ELSE IF thrown = "ResponseTooLarge" THEN "ResponseTooLarge" ELSE "TransportFailure"
  BY <1>0, <1>1 DEF TypeOK, Caught
<1>4. js[c].timedOut \in BOOLEAN /\ transport # "native" /\ answer[c] \in {"none", "Cancelled", "dropped"}
  <2>1. js[c].timedOut \in BOOLEAN
    BY <1>00 DEF Operations
  <2>2. transport # "native" /\ answer[c] \in {"none", "Cancelled", "dropped"}
    BY <1>0 DEF OperationInv, CallInv, NoOperation
  <2> QED BY <2>1, <2>2
<1>5. TypeOK'
  <2>1. js'[c] \in Operations
    BY <1>0, <1>00, <1>1 DEF TypeOK, Caught, Operations
  <2>2. js' \in [Calls -> Operations]
    BY <1>0, <1>1, <2>1 DEF TypeOK
  <2> QED BY <1>0, <1>1, <2>2 DEF TypeOK
<1>6. \A d \in Calls \ {c} : Untouched(d)
  BY <1>0, <1>1 DEF TypeOK, Untouched
<1>7. OperationInv(c)'
  BY <1>2, <1>3, <1>4 DEF OperationInv, NoOperation
<1>8. CallInv(c)'
  BY <1>0, <1>2, <1>3, <1>4 DEF CallInv, NoOperation
<1>9. EgressPermitsConserved'
  BY <1>0 DEF EgressPermitsConserved, Running
<1> QED BY <1>5, <1>6, <1>7, <1>8, <1>9, OneCall

\* The JavaScript operation goes on by itself.
LEMMA ScriptSteps ==
  ASSUME IInv, NEW c \in Calls, Script(c)
  PROVE  IInv'
<1>0. TypeOK /\ EgressPermitsConserved /\ OperationInv(c) /\ CallInv(c)
  BY DEF IInv
<1>00. js[c] \in Operations
  BY <1>0 DEF TypeOK
<1>1. CASE TimerFires(c)
  <2>1. /\ js[c].timer /\ js[c].stage # "unwinding"
        /\ network' = [network EXCEPT ![c] = IF @ \in {"fetch", "body"} THEN "stopped" ELSE @]
        /\ js' = [js EXCEPT ![c] = [[js[c] EXCEPT !.timer = FALSE, !.timedOut = TRUE] EXCEPT !.stage = "unwinding"]]
        /\ UNCHANGED <<transport, prepared, phase, request, answer, cancelled, permits, response, buffered>>
    BY <1>1 DEF TimerFires, Abort, Halt
  <2>2. js[c].stage \in {"fetching", "reading"}
    BY <1>0, <1>00, <2>1 DEF Operations, OperationInv, NoOperation
  <2>3. network[c] \in {"fetch", "body"} /\ phase[c] = "running" /\ transport # "native" /\ js[c].code = "none"
        /\ answer[c] = "none"
    BY <1>0, <2>2, PendingOperation
  <2>4. /\ network'[c] = "stopped" /\ js'[c].stage = "unwinding" /\ js'[c].timedOut = TRUE
        /\ js'[c].code = "none"
    BY <1>0, <2>1, <2>3 DEF TypeOK
  <2>5. TypeOK'
    <3>1. [[js[c] EXCEPT !.timer = FALSE, !.timedOut = TRUE] EXCEPT !.stage = "unwinding"]
            \in Operations
      BY <1>00 DEF Operations
    <3> QED BY <1>0, <2>1, <3>1 DEF TypeOK
  <2>6. \A d \in Calls \ {c} : Untouched(d)
    BY <1>0, <2>1 DEF TypeOK, Untouched
  <2>7. OperationInv(c)' /\ CallInv(c)'
    <3>1. OperationInv(c)'
      BY <1>0, <2>1, <2>3, <2>4 DEF OperationInv, NoOperation
    <3>2. CallInv(c)'
      BY <1>0, <2>1, <2>3, <2>4 DEF CallInv, NoOperation
    <3> QED BY <3>1, <3>2
  <2>8. EgressPermitsConserved'
    BY <1>0, <2>1 DEF EgressPermitsConserved, Running
  <2> QED BY <2>1, <2>5, <2>6, <2>7, <2>8, OneCall
<1>2. CASE Unwind(c) \/ FetchRejects(c)
  <2>1. PICK thrown : Throw(c, thrown)
    BY <1>2 DEF Unwind, FetchRejects
  <2>2. /\ js[c].stage \in {"fetching", "reading", "unwinding"}
        /\ UNCHANGED <<transport, prepared, phase, request, answer, cancelled, permits, response, buffered>>
    BY <1>2 DEF Unwind, FetchRejects
  <2>3. response' \in [Calls -> Responses \cup {NoResponse}]
    BY <1>0, <2>2 DEF TypeOK
  <2> QED BY <2>1, <2>2, <2>3, Settles
<1>3. CASE ReadDone(c)
  <2>1. /\ js[c].stage = "reading" /\ buffered[c] = response[c].size
        /\ network' = [network EXCEPT ![c] = "ended"]
        /\ js' = [js EXCEPT ![c] = [@ EXCEPT !.stage = "settled", !.code = "ok", !.timer = FALSE]]
        /\ UNCHANGED <<transport, prepared, phase, request, answer, cancelled, permits, response, buffered>>
    BY <1>3 DEF ReadDone
  <2>2. network[c] = "body" /\ phase[c] = "running" /\ ~js[c].timedOut /\ FetchHead(response[c]) = "ok"
        /\ answer[c] = "none" /\ transport # "native"
    BY <1>0, <2>1 DEF OperationInv, CallInv, NoOperation
  <2>3. /\ network'[c] = "ended" /\ js'[c].stage = "settled" /\ js'[c].code = "ok" /\ js'[c].timer = FALSE
        /\ js'[c].timedOut = js[c].timedOut
    BY <1>0, <2>1 DEF TypeOK
  <2>4. TypeOK'
    <3>1. [js[c] EXCEPT !.stage = "settled", !.code = "ok", !.timer = FALSE]
            \in Operations
      BY <1>00 DEF Operations
    <3> QED BY <1>0, <2>1, <3>1 DEF TypeOK
  <2>5. \A d \in Calls \ {c} : Untouched(d)
    BY <1>0, <2>1 DEF TypeOK, Untouched
  <2>6. OperationInv(c)' /\ CallInv(c)'
    <3>1. OperationInv(c)'
      BY <1>0, <2>1, <2>2, <2>3 DEF OperationInv, NoOperation
    <3>2. CallInv(c)'
      BY <1>0, <2>1, <2>2, <2>3 DEF CallInv, NoOperation
    <3> QED BY <3>1, <3>2
  <2>7. EgressPermitsConserved'
    BY <1>0, <2>1 DEF EgressPermitsConserved, Running
  <2> QED BY <2>1, <2>4, <2>5, <2>6, <2>7, OneCall
<1>4. ASSUME NEW r \in Responses, FetchResolves(c, r) PROVE IInv'
  <2>1. /\ js[c].stage = "fetching" /\ response' = [response EXCEPT ![c] = r]
        /\ UNCHANGED <<transport, prepared, phase, request, answer, cancelled, permits, buffered>>
    BY <1>4 DEF FetchResolves
  <2>2. /\ response' \in [Calls -> Responses \cup {NoResponse}] /\ response'[c] = r
        /\ \A d \in Calls \ {c} : response'[d] = response[d]
    BY <1>0, <2>1 DEF TypeOK
  <2>3. CASE FetchHead(r) # "ok"
    <3>1. Throw(c, FetchHead(r))
      BY <1>4, <2>3 DEF FetchResolves
    <3> QED BY <2>1, <2>2, <3>1, Settles
  <2>4. CASE FetchHead(r) = "ok"
    <3>1. network' = [network EXCEPT ![c] = "body"] /\ js' = [js EXCEPT ![c] = [@ EXCEPT !.stage = "reading"]]
      BY <1>4, <2>4 DEF FetchResolves
    <3>2. phase[c] = "running" /\ network[c] = "fetch" /\ ~js[c].timedOut /\ answer[c] = "none"
          /\ transport # "native" /\ js[c].code = "none"
      <4>1. phase[c] = "running" /\ network[c] = "fetch" /\ ~js[c].timedOut
        BY <1>0, <2>1 DEF OperationInv
      <4> QED BY <1>0, <2>1, <4>1, PendingOperation
    <3>3. /\ network'[c] = "body" /\ js'[c].stage = "reading" /\ js'[c].timedOut = js[c].timedOut
          /\ js'[c].code = "none"
      BY <1>0, <3>1, <3>2 DEF TypeOK
    <3>4. TypeOK'
      <4>1. [js[c] EXCEPT !.stage = "reading"]
              \in Operations
        BY <1>00 DEF Operations
      <4> QED BY <1>0, <2>1, <2>2, <3>1, <4>1 DEF TypeOK
    <3>5. \A d \in Calls \ {c} : Untouched(d)
      BY <1>0, <2>1, <3>1 DEF TypeOK, Untouched
    <3>6. OperationInv(c)' /\ CallInv(c)'
      <4>1. OperationInv(c)'
        BY <1>0, <2>1, <2>2, <2>4, <3>2, <3>3 DEF OperationInv, NoOperation
      <4>2. CallInv(c)'
        BY <1>0, <2>1, <2>2, <2>4, <3>2, <3>3 DEF CallInv, NoOperation
      <4> QED BY <4>1, <4>2
    <3>7. EgressPermitsConserved'
      BY <1>0, <2>1 DEF EgressPermitsConserved, Running
    <3> QED BY <2>1, <3>4, <3>5, <3>6, <3>7, OneCall
  <2> QED BY <2>3, <2>4
<1>5. ASSUME NEW n \in 1..2, ReadResolves(c, n) PROVE IInv'
  <2>1. /\ js[c].stage = "reading"
        /\ UNCHANGED <<transport, prepared, phase, request, answer, cancelled, permits, response>>
    BY <1>5 DEF ReadResolves
  <2>2. CASE ~Fits(c, n)
    <3>1. Throw(c, "ResponseTooLarge") /\ buffered' = buffered
      BY <1>5, <2>2 DEF ReadResolves
    <3>2. response' \in [Calls -> Responses \cup {NoResponse}]
      BY <1>0, <2>1 DEF TypeOK
    <3> QED BY <2>1, <3>1, <3>2, Settles
  <2>3. CASE Fits(c, n)
    <3>1. buffered' = [buffered EXCEPT ![c] = @ + n] /\ buffered[c] + n <= BodyLimit /\ UNCHANGED <<network, js>>
      BY <1>5, <2>3 DEF ReadResolves, Fits
    <3>2. TypeOK' /\ buffered'[c] <= BodyLimit
      BY <1>0, <2>1, <3>1 DEF TypeOK
    <3>3. \A d \in Calls \ {c} : Untouched(d)
      BY <1>0, <2>1, <3>1 DEF TypeOK, Untouched
    <3>4. answer[c] = "none" /\ js[c].code = "none"
      BY <1>0, <2>1 DEF OperationInv, CallInv
    <3>5. OperationInv(c)' /\ CallInv(c)'
      <4>1. OperationInv(c)'
        BY <1>0, <2>1, <3>1, <3>2, <3>4 DEF OperationInv
      <4>2. CallInv(c)'
        BY <1>0, <2>1, <3>1, <3>2, <3>4 DEF CallInv
      <4> QED BY <4>1, <4>2
    <3>6. EgressPermitsConserved'
      BY <1>0, <2>1 DEF EgressPermitsConserved, Running
    <3> QED BY <2>1, <3>2, <3>3, <3>5, <3>6, OneCall
  <2> QED BY <2>2, <2>3
<1> QED BY <1>1, <1>2, <1>3, <1>4, <1>5 DEF Script
\* The promise has settled and its verdict is the answer.
LEMMA Delivered ==
  ASSUME IInv, NEW c \in Calls, Deliver(c)
  PROVE  IInv'
<1>0. TypeOK /\ EgressPermitsConserved /\ OperationInv(c) /\ CallInv(c)
  BY DEF IInv
<1> DEFINE a == IF js[c].code = "ok" THEN Decode(response[c]) ELSE js[c].code
<1>1. /\ phase[c] = "running" /\ js[c].stage = "settled"
      /\ phase' = [phase EXCEPT ![c] = "over"] /\ answer' = [answer EXCEPT ![c] = a] /\ permits' = permits + 1
      /\ UNCHANGED <<transport, prepared, request, cancelled, network, response, buffered, js>>
  BY DEF Deliver, Return
<1>2. a \in Errors \cup {"none", "ok", "dropped"}
  <2>1. Decode(response[c]) \in Errors \cup {"none", "ok", "dropped"}
    BY Verdicts DEF Errors
  <2>2. js[c].code \in Errors \cup {"none", "ok", "dropped"}
    <3>1. js[c] \in Operations
      BY <1>0 DEF TypeOK
    <3> QED BY <3>1 DEF Operations, Errors
  <2> QED BY <2>1, <2>2
<1> HIDE DEF a
<1>3. EgressPermitsConserved' /\ permits' \in 0..MaxConcurrent
  BY <1>0, <1>1, PermitReturned
<1>4. TypeOK'
  BY <1>0, <1>1, <1>2, <1>3 DEF TypeOK
<1>5. \A d \in Calls \ {c} : Untouched(d)
  BY <1>0, <1>1 DEF TypeOK, Untouched
<1>6. phase'[c] = "over" /\ answer'[c] = a
  BY <1>0, <1>1 DEF TypeOK
<1>7. OperationInv(c)'
  BY <1>0, <1>1, <1>6 DEF OperationInv
<1>8. CallInv(c)'
  <2>1. (a = "ok" => js[c].code = "ok") /\ a # "none"
    <3>1. js[c].code # "none" /\ Decode(response[c]) # "none"
      BY <1>0, <1>1, Verdicts DEF OperationInv
    <3> QED BY <3>1 DEF a
  <2>2. network[c] \in {"ended", "stopped"} /\ (js[c].code = "ok" => network[c] = "ended" /\ buffered[c] = response[c].size)
    BY <1>0, <1>1 DEF OperationInv
  <2> QED BY <1>0, <1>1, <1>6, <2>1, <2>2 DEF CallInv, a
<1> QED BY <1>1, <1>3, <1>4, <1>5, <1>7, <1>8, OneCall

-----------------------------------------------------------------------------
\* Before the first call nothing runs and all permits are free.
LEMMA InitHolds == Init => IInv
<1> SUFFICES ASSUME Init PROVE IInv
  OBVIOUS
<1>1. TypeOK
  <2>1. (CHOOSE r \in Requests : TRUE) \in Requests
    BY EgressAssumption
  <2>2. NoOperation \in Operations
    BY DEF NoOperation, Operations
  <2>3. /\ request \in [Calls -> Requests] /\ js \in [Calls -> Operations]
        /\ response \in [Calls -> Responses \cup {NoResponse}]
    <3> HIDE DEF Operations
    <3> QED BY <2>1, <2>2 DEF Init
  <2>4. /\ phase \in [Calls -> {"idle", "sent", "running", "over"}]
        /\ answer \in [Calls -> Errors \cup {"none", "ok", "dropped"}]
        /\ cancelled \in [Calls -> BOOLEAN] /\ permits \in 0..MaxConcurrent
        /\ network \in [Calls -> {"none", "fetch", "body", "ended", "stopped"}] /\ buffered \in [Calls -> Nat]
    BY EgressAssumption DEF Init
  <2> QED BY <2>3, <2>4 DEF Init, TypeOK
<1>2. Running = {}
  BY DEF Init, Running
<1>3. EgressPermitsConserved
  BY <1>2, FS_EmptySet, EgressAssumption DEF Init, EgressPermitsConserved
<1>4. ASSUME NEW c \in Calls PROVE OperationInv(c) /\ CallInv(c)
  BY EgressAssumption DEF Init, OperationInv, CallInv, NoOperation
<1> QED BY <1>1, <1>3, <1>4 DEF IInv

\* Every step of the native and of the event transport keeps the invariant.
LEMMA NextHolds == IInv /\ [Next]_vars => IInv'
<1> SUFFICES ASSUME IInv, [Next]_vars PROVE IInv'
  OBVIOUS
<1>0. TypeOK /\ EgressPermitsConserved
  BY DEF IInv
<1>1. ASSUME UNCHANGED <<transport, phase, request, answer, cancelled, permits, network, response, buffered, js>>,
             prepared' \in BOOLEAN
      PROVE  IInv'
  <2>1. TypeOK'
    BY <1>0, <1>1 DEF TypeOK
  <2>2. Running' = Running
    BY <1>1 DEF Running
  <2>3. EgressPermitsConserved'
    BY <1>0, <1>1, <2>2 DEF EgressPermitsConserved
  <2>4. ASSUME NEW c \in Calls PROVE OperationInv(c)' /\ CallInv(c)'
    <3>1. OperationInv(c) /\ CallInv(c)
      BY DEF IInv
    <3>2. OperationInv(c)'
      BY <1>1, <3>1 DEF OperationInv
    <3>3. CallInv(c)'
      BY <1>1, <3>1 DEF CallInv
    <3> QED BY <3>2, <3>3
  <2> QED BY <2>1, <2>3, <2>4 DEF IInv
<1>2. CASE Prepare \/ Deactivate
  BY <1>1, <1>2 DEF Prepare, Deactivate
<1>3. ASSUME NEW c \in Calls, SeeCancelled(c) \/ Drop(c) PROVE IInv'
  <2>1. PICK a \in {"Cancelled", "dropped"} : Stop(c) /\ Return(c, a)
    BY <1>3 DEF SeeCancelled, Drop
  <2>2. phase[c] = "running" /\ UNCHANGED <<transport, prepared, request, cancelled, response, buffered>>
    BY <1>3 DEF SeeCancelled, Drop
  <2>3. response' \in [Calls -> Responses \cup {NoResponse}]
    BY <1>0, <2>2 DEF TypeOK
  <2> QED BY <2>1, <2>2, <2>3, CallStops
<1>4. CASE UNCHANGED vars
  BY <1>0, <1>1, <1>4 DEF vars, TypeOK
<1> QED BY <1>2, <1>3, <1>4, CallBegins, NativeSteps, ScriptSteps, Delivered DEF Next

\* The invariant of a call, which the theorems below are read off: for every number
\* of calls, permits and bytes, whatever clients, servers and timers do.
THEOREM EgressInvariant == Spec => []IInv
BY InitHolds, NextHolds, PTL DEF Spec

\* Permits, transfers and timers belong to calls in progress, by whichever end a
\* call comes to (execute, AbortOnDrop, event-fetch.mjs).
THEOREM TransfersArePermitted == Spec => []TransfersHavePermits
<1>1. IInv => TransfersHavePermits
  BY DEF IInv, OperationInv, CallInv, TransfersHavePermits, NoOrphanTransfer, SettledIsQuiet
<1> QED BY <1>1, EgressInvariant, PTL

\* Success is the whole body within its limit, and Timeout is said exactly when the
\* deadline ended the transfer (read_bounded_body, event-fetch.mjs).
THEOREM AnswersCanBeTrusted == Spec => []AnswersAreTrue
<1>1. ASSUME IInv, NEW c \in Calls, js[c].stage = "settled", phase[c] = "over",
             answer[c] \notin {"Cancelled", "dropped"}
      PROVE  js[c].timedOut <=> answer[c] = "Timeout"
  <2>1. OperationInv(c) /\ CallInv(c) /\ Decode(response[c]) # "Timeout"
    BY <1>1, Verdicts DEF IInv
  <2> QED BY <1>1, <2>1 DEF OperationInv, CallInv
<1>2. IInv => BufferIsBounded /\ SuccessIsComplete
  BY DEF IInv, CallInv, BufferIsBounded, SuccessIsComplete
<1>3. IInv => AnswersAreTrue
  BY <1>1, <1>2 DEF AnswersAreTrue, TimeoutIsTold
<1> QED BY <1>3, EgressInvariant, PTL

\* Only allowed requests go out, and what the event provider delivers the linked one
\* would deliver (prepare_request, response_headers, decode_response).
THEOREM OnePolicy == Spec => []PolicyIsShared
<1>1. ASSUME IInv, NEW c \in Calls, transport = "event", answer[c] = "ok"
      PROVE  NativeHead(response[c]) = "ok"
  <2>1. OperationInv(c) /\ CallInv(c)
    BY <1>1 DEF IInv
  <2>2. FetchHead(response[c]) = "ok" /\ Decode(response[c]) = "ok"
    BY <1>1, <2>1 DEF OperationInv, CallInv
  <2> QED BY <2>2, EventHeadIsNative
<1>2. IInv => OnlyAllowedDestinations
  BY PreparedIsAllowed DEF IInv, CallInv, OnlyAllowedDestinations
<1>3. IInv => PolicyIsShared
  BY <1>1, <1>2 DEF PolicyIsShared, EventAgreesWithNative
<1> QED BY <1>3, EgressInvariant, PTL
=============================================================================
