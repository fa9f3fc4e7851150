-------------------------- MODULE RequestDispatch --------------------------
(***************************************************************************)
(* One request inside the Web Ingress, from its head to the transport:      *)
(* dispatch_buffered and its helpers (ingress.rs), the global middleware    *)
(* (middleware.rs), RouteTable::dispatch (routing.rs), the dispatch arm of   *)
(* an authored Endpoint with its middleware and extractors, and the         *)
(* hand-over to the native or the event transport (server.rs, event.rs).    *)
(*                                                                          *)
(* A step is what happens between two awaits.  At each of them the App may  *)
(* be cancelled and the client may go away, which drops the whole future.   *)
(***************************************************************************)
EXTENDS RequestHead, RouteTable, EndpointAuthoring

CONSTANTS
    Cases,      \* [head, handler, layers, cookies, sockets, transport]: one request
                \* and the App it meets (sockets: a WebSocket policy is configured)
    StreamEndpoints, SocketEndpoints, \* descriptions of the other providers
    Statuses,   \* statuses middleware and Endpoints answer with
    Rewrites(_),\* what a layer of middleware makes of a request
    ActorKinds  \* kinds of identity an Auth provider asserts

VARIABLES
    case,      \* what Init chose
    table,     \* the route table the App's activation resolved
    phase,     \* where the request is
    request,   \* the normalized request, as middleware left it
    entered,   \* middleware::run: layers entered
    begun,     \* history: layers whose before_request was called
    hooks,     \* history: layers whose after_response was called, in order
    step,      \* the next step of the Endpoint's dispatch arm
    response,  \* [status, headers, body, by]: the response so far
    slot,      \* stream_slot: what with_session will find
    session,   \* the session the Endpoint opened
    protocol,  \* the subprotocol the accept frame selected
    actor,     \* the identity attached to the invocation context
    told,      \* the invocation's token was cancelled
    cancelled  \* the App was cancelled

vars == <<case, table, phase, request, entered, begun, hooks, step, response, slot, session, protocol,
          actor, told, cancelled>>

Sent == case.head
NoResponse == [status |-> 0, headers |-> {}, body |-> "buffered", by |-> "none"]
Answer(status) == [status |-> status, headers |-> {}, body |-> "buffered", by |-> "ingress"]
Upgrading == GetAll(Sent.fields, "upgrade") # <<>>
Invoking == phase \in {"endpoint", "connect", "open", "stream", "accept"}

Init ==
    /\ case \in Cases
    /\ table = Resolve(<<describe(<<case.handler>>)>>, StreamEndpoints,
                       IF case.sockets THEN SocketEndpoints ELSE <<>>, case.sockets)
    /\ phase = "head" /\ request = <<>> /\ entered = 0 /\ begun = 0 /\ hooks = <<>> /\ step = 1
    /\ response = NoResponse /\ slot = "none" /\ session = "none" /\ protocol = "none"
    /\ actor = "none" /\ told = FALSE /\ cancelled = FALSE

Goto(p) == phase' = p
Reply(r, p) == response' = r /\ Goto(p)

\* dispatch_buffered up to the middleware; middleware_request shows the
\* request's identifier to middleware.
Status(error) == IF error = "CsrfForbidden" THEN 403 ELSE 400

ReadHead ==
    LET inbound == inbound_request(Sent, case.cookies) IN
    /\ phase = "head"
    /\ IF Sent.method = "CONNECT" \/ (Upgrading /\ ~case.sockets)
       THEN Reply(Answer(501), "transport") /\ UNCHANGED request
       ELSE IF Upgrading /\ ( \/ Sent.method # "GET" \/ Sent.version # "1.1" \/ Sent.body # ""
                              \/ ~Handshake(Sent.fields).ok )
       THEN Reply(Answer(400), "transport") /\ UNCHANGED request
       ELSE IF ~inbound.ok THEN Reply(Answer(Status(inbound.error)), "transport") /\ UNCHANGED request
       ELSE /\ request' = [inbound.value EXCEPT !.fields =
                              Append(@, [name |-> "x-request-id", text |-> TRUE, value |-> inbound.value.id])]
            /\ Goto("before") /\ UNCHANGED response
    /\ UNCHANGED <<case, table, entered, begun, hooks, step, slot, session, protocol, actor, told, cancelled>>

\* Mutant of Unavailable: the slot outlives the request.
UnavailableKept ==
    Reply(Answer(503), "transport") /\ UNCHANGED <<slot, session>>

\* dispatch_buffered's map_or_else(unavailable, ..): middleware failed or
\* panicked.  The slot goes out of scope with whatever is in it.
Unavailable ==
    /\ Reply(Answer(503), "transport")
    /\ slot' = "none"
    /\ session' = IF slot = "none" THEN session ELSE "dropped"

\* Mutant of Enter: a layer counts as entered only once it has continued.
EnterLate(responded) == entered' = IF responded THEN entered ELSE entered + 1

Enter(responded) == entered' = entered + 1

\* One layer before the route; it may rewrite the request or answer itself.
BeforeContinues(rewritten) ==
    /\ phase = "before" /\ entered < case.layers
    /\ Enter(FALSE) /\ begun' = begun + 1
    /\ request' = rewritten
    /\ UNCHANGED <<case, table, phase, hooks, step, response, slot, session, protocol, actor, told, cancelled>>

BeforeResponds(status) ==
    /\ phase = "before" /\ entered < case.layers
    /\ Enter(TRUE) /\ begun' = begun + 1
    /\ Reply([Answer(status) EXCEPT !.by = "middleware"], "after")
    /\ UNCHANGED <<case, table, request, hooks, step, slot, session, protocol, actor, told, cancelled>>

BeforeFails ==
    /\ phase = "before" /\ entered < case.layers
    /\ Enter(FALSE) /\ begun' = begun + 1
    /\ Unavailable
    /\ UNCHANGED <<case, table, request, hooks, step, protocol, actor, told, cancelled>>

(***************************************************************************)
(* RouteTable::dispatch                                                     *)
(***************************************************************************)
Found == Lookup(table, request.method, request.path)

\* Mutant of Restored: the head middleware left is delivered as it is.
RestoredAsIs == Ok(request.fields)

\* restore_inbound_request filters again what middleware may have added.
Restored == FilterHeaders(request.fields, case.cookies)

DispatchStatus ==
    IF ~Restored.ok THEN 400
    ELSE IF ~Found.found THEN IF Found.error = "NotFound" THEN 404 ELSE 405
    ELSE IF Found.route.kind # "WebSocket" THEN 0
    ELSE IF ~Upgrading THEN 426 ELSE IF request.body # "" THEN 400 ELSE 0

DispatchRefuses ==
    /\ phase = "before" /\ entered = case.layers /\ DispatchStatus # 0
    /\ Reply(Answer(DispatchStatus), "after")
    /\ UNCHANGED <<case, table, request, entered, begun, hooks, step, slot, session, protocol, actor, told,
                   cancelled>>

\* The Kernel makes no invocation context any more.
ContextRefused ==
    /\ phase = "before" /\ entered = case.layers /\ Restored.ok /\ Found.found
    /\ Reply(Answer(503), "after")
    /\ UNCHANGED <<case, table, request, entered, begun, hooks, step, slot, session, protocol, actor, told,
                   cancelled>>

DispatchInvokes ==
    /\ phase = "before" /\ entered = case.layers /\ DispatchStatus = 0
    /\ request' = [request EXCEPT !.fields = Restored.value]
    /\ Goto([Buffered |-> "endpoint", Streaming |-> "open", WebSocket |-> "connect"][Found.route.kind])
    /\ UNCHANGED <<case, table, entered, begun, hooks, step, response, slot, session, protocol, actor, told,
                   cancelled>>

\* The second arm of the select: cancel the token, then await the invocation.
SeeCancellation ==
    /\ Invoking /\ cancelled /\ ~told
    /\ told' = TRUE
    /\ UNCHANGED <<case, table, phase, request, entered, begun, hooks, step, response, slot, session,
                   protocol, actor, cancelled>>

\* An invocation that ends without a session: the response of dispatch_response.
Ends(r) ==
    /\ Reply(r, "after")
    /\ session' = IF session = "open" THEN "dropped" ELSE session
    /\ UNCHANGED <<case, table, request, entered, begun, hooks, slot, protocol, told, cancelled>>

\* Domain errors of an Endpoint, runtime failures and the deadline.
InvocationFails(status) ==
    /\ phase \in {"endpoint", "open", "connect"} /\ status \in {502, 503, 504}
    /\ Ends(Answer(status)) /\ UNCHANGED <<step, actor>>

(***************************************************************************)
(* The dispatch arm of an authored handler.                                 *)
(***************************************************************************)
Handler == case.handler
Middlewares == Len(Handler.middlewares)
Arguments == Extractors(Handler)
Argument == Arguments[step - Middlewares]
Inbound == [body |-> request.body, json |-> GetAll(request.fields, "content-type") # <<>>]

Advance == step' = step + 1 /\ UNCHANGED <<phase, response, session, slot, protocol, told, cancelled,
                                             case, table, request, entered, begun, hooks>>

EndpointMiddlewareNext == phase = "endpoint" /\ step <= Middlewares /\ Advance /\ UNCHANGED actor

EndpointMiddlewareResponds ==
    /\ phase = "endpoint" /\ step <= Middlewares
    /\ Ends([Answer(401) EXCEPT !.by = "endpoint middleware"]) /\ UNCHANGED <<step, actor>>

AtExtractor == phase = "endpoint" /\ step > Middlewares /\ step <= Middlewares + Len(Arguments)

\* A typed extractor; its rejection is a response.
Extract(fits) ==
    LET value == FromRequest(Argument, Inbound, fits) IN
    /\ AtExtractor /\ Argument # "Actor"
    /\ IF value.ok THEN Advance /\ UNCHANGED actor
       ELSE /\ Ends([Answer(value.problem.status) EXCEPT !.by = value.problem.code])
            /\ UNCHANGED <<step, actor>>

\* extract_authenticated_actor.
\* Mutant of Authenticate: the identity is attached before its kind is checked.
AuthenticateEarly(kind) ==
    /\ AtExtractor /\ Argument = "Actor"
    /\ actor' = kind
    /\ IF kind = Handler.actor THEN Advance
       ELSE Ends([Answer(403) EXCEPT !.by = "unexpected_actor_kind"]) /\ UNCHANGED step

Authenticate(kind) ==
    /\ AtExtractor /\ Argument = "Actor"
    /\ IF kind = Handler.actor THEN actor' = kind /\ Advance
       ELSE /\ Ends([Answer(403) EXCEPT !.by = "unexpected_actor_kind"])
            /\ UNCHANGED <<step, actor>>

AuthenticateRefuses ==
    /\ AtExtractor /\ Argument = "Actor"
    /\ Ends([Answer(401) EXCEPT !.by = "authentication_required"]) /\ UNCHANGED <<step, actor>>

\* The handler's value, or a response from_endpoint cannot pass on.
HandlerReturns(status) ==
    /\ phase = "endpoint" /\ step = Middlewares + Len(Arguments) + 1
    /\ Ends([Answer(status) EXCEPT !.by = "handler"]) /\ UNCHANGED <<step, actor>>

HandlerInvalid ==
    /\ phase = "endpoint" /\ step = Middlewares + Len(Arguments) + 1
    /\ Ends(Answer(502)) /\ UNCHANGED <<step, actor>>

(***************************************************************************)
(* Stream and WebSocket Endpoints.                                          *)
(***************************************************************************)
SessionOpens ==
    /\ phase \in {"open", "connect"}
    /\ session' = "open"
    /\ Goto(IF phase = "open" THEN "stream" ELSE "accept")
    /\ UNCHANGED <<case, table, request, entered, begun, hooks, step, response, slot, protocol, actor, told,
                   cancelled>>

\* connect_websocket's domain errors.
ConnectRefused(status) ==
    /\ phase = "connect" /\ status \in {400, 401, 403}
    /\ Ends(Answer(status)) /\ UNCHANGED <<step, actor>>

\* The head frame of a stream, turned into a response by from_stream_endpoint.
StreamHead(status) ==
    /\ phase = "stream"
    /\ slot' = "stream" /\ Reply([Answer(status) EXCEPT !.by = "stream"], "after")
    /\ UNCHANGED <<case, table, request, entered, begun, hooks, step, session, protocol, actor, told, cancelled>>

\* A frame out of order, a malformed head, an invalid status or header.
StreamRefused ==
    /\ phase = "stream"
    /\ session' = "cancelled" /\ Reply(Answer(502), "after")
    /\ UNCHANGED <<case, table, request, entered, begun, hooks, step, slot, protocol, actor, told, cancelled>>

StreamFails(status) ==
    /\ phase = "stream" /\ status \in {503, 504}
    /\ Ends(Answer(status)) /\ UNCHANGED <<step, actor>>

\* Mutant of AcceptFrame: any selected subprotocol passes.
AcceptFrameAny(selected) ==
    /\ phase = "accept"
    /\ protocol' = selected /\ slot' = "socket"
    /\ Reply([Answer(101) EXCEPT !.by = "socket"], "after") /\ UNCHANGED session
    /\ UNCHANGED <<case, table, request, entered, begun, hooks, step, actor, told, cancelled>>

\* WebSocketSession::accept.
AcceptFrame(selected) ==
    /\ phase = "accept"
    /\ IF selected \in {"none"} \cup ToSet(Handshake(Sent.fields).value)
       THEN /\ protocol' = selected /\ slot' = "socket"
            /\ Reply([Answer(101) EXCEPT !.by = "socket"], "after") /\ UNCHANGED session
       ELSE /\ session' = "cancelled" /\ Reply(Answer(502), "after")
            /\ UNCHANGED <<protocol, slot>>
    /\ UNCHANGED <<case, table, request, entered, begun, hooks, step, actor, told, cancelled>>

AcceptRefused ==
    /\ phase = "accept"
    /\ session' = "cancelled" /\ Reply(Answer(502), "after")
    /\ UNCHANGED <<case, table, request, entered, begun, hooks, step, slot, protocol, actor, told, cancelled>>

(***************************************************************************)
(* The way back.                                                            *)
(***************************************************************************)
Unwinding == phase = "after" /\ Len(hooks) < entered

\* A layer may change the status and set header fields.
AfterResponse(status, added) ==
    /\ Unwinding
    /\ hooks' = Append(hooks, entered - Len(hooks))
    /\ response' = [response EXCEPT !.status = status, !.headers = @ \cup added]
    /\ UNCHANGED <<case, table, phase, request, entered, begun, step, slot, session, protocol, actor, told,
                   cancelled>>

AfterFails ==
    /\ Unwinding
    /\ hooks' = Append(hooks, entered - Len(hooks))
    /\ Unavailable
    /\ UNCHANGED <<case, table, request, entered, begun, step, protocol, actor, told, cancelled>>

\* Mutant of FromMiddleware: header fields pass as they are.
FromMiddlewareUnfiltered == response

FromMiddleware == [response EXCEPT !.headers = @ \ IngressOwnedResponseHeaders]

\* A WebSocket whose status middleware changed is cancelled instead.
with_session(r) ==
    IF slot = "none" \/ (slot = "socket" /\ r.status # 101) THEN r
    ELSE [r EXCEPT !.body = slot,
                   !.headers = IF slot = "socket" THEN @ \cup {"upgrade", "connection"} ELSE @]

\* Mutant of Finish: the answer waits until the session is over.
FinishCollected ==
    LET final == with_session(FromMiddleware) IN
    /\ phase = "after" /\ Len(hooks) = entered /\ session # "open"
    /\ Reply(final, "transport") /\ slot' = "none"
    /\ UNCHANGED <<case, table, request, entered, begun, hooks, step, session, protocol, actor, told,
                   cancelled>>

Finish ==
    LET final == with_session(FromMiddleware) IN
    /\ phase = "after" /\ Len(hooks) = entered
    /\ Reply(final, "transport") /\ slot' = "none"
    /\ session' = IF session = "open" /\ final.body = "buffered" THEN "cancelled" ELSE session
    /\ UNCHANGED <<case, table, request, entered, begun, hooks, step, protocol, actor, told, cancelled>>

\* Mutant of Silent: 304 is taken for a status with a body.
SilentButNotModified(method, r) ==
    \/ method = "HEAD" \/ r.status = 204
    \/ r.status \in 100..199 /\ r.body # "socket"

\* normalize_body: the answers that have no body.
Silent(method, r) ==
    \/ method = "HEAD" \/ r.status \in {204, 304}
    \/ r.status \in 100..199 /\ r.body # "socket"

\* The native transport takes the WebSocket out of the response first.  A
\* request that was upgraded always has on_upgrade.
HandOver ==
    LET native == case.transport = "native" /\ response.body = "socket"
        silent == ~native /\ Silent(Sent.method, response)
    IN /\ phase = "transport" /\ Goto("done")
       /\ response' = IF silent THEN [response EXCEPT !.body = "buffered"] ELSE response
       /\ session' = IF session # "open" THEN session
                     ELSE IF silent THEN "cancelled"
                     ELSE IF response.body = "buffered" THEN session ELSE "handed"
       /\ UNCHANGED <<case, table, request, entered, begun, hooks, step, slot, protocol, actor, told, cancelled>>

\* The client goes away: the call is dropped at an await, with the invocation,
\* the slot and the response.
CallDropped ==
    /\ Invoking \/ Unwinding \/ (phase = "before" /\ entered < case.layers)
    /\ Goto("dropped") /\ slot' = "none"
    /\ session' = IF session = "open" THEN "dropped" ELSE session
    /\ UNCHANGED <<case, table, request, entered, begun, hooks, step, response, protocol, actor, told, cancelled>>

CancelApp ==
    /\ ~cancelled /\ phase \notin {"done", "dropped"}
    /\ cancelled' = TRUE
    /\ UNCHANGED <<case, table, phase, request, entered, begun, hooks, step, response, slot, session,
                   protocol, actor, told>>

(***************************************************************************)
AddedHeaders == {{}, {"content-length", "x-app"}}
Protocols == {"none", "chat", "other"}

MiddlewareStep ==
    \/ phase = "before" /\ \E r \in Rewrites(request) : BeforeContinues(r)
    \/ \E s \in Statuses : BeforeResponds(s)
    \/ BeforeFails
    \/ \E s \in Statuses \cup {response.status}, added \in AddedHeaders : AfterResponse(s, added)
    \/ AfterFails
    \/ Finish

EndpointStep ==
    \/ EndpointMiddlewareNext \/ EndpointMiddlewareResponds
    \/ \E fits \in BOOLEAN : Extract(fits)
    \/ \E kind \in ActorKinds : Authenticate(kind)
    \/ AuthenticateRefuses
    \/ \E s \in Statuses : HandlerReturns(s)
    \/ HandlerInvalid
    \/ \E s \in {502, 503, 504} : InvocationFails(s)
    \/ SessionOpens
    \/ \E s \in {400, 401, 403} : ConnectRefused(s)
    \/ \E s \in Statuses : StreamHead(s)
    \/ StreamRefused
    \/ \E s \in {503, 504} : StreamFails(s)
    \/ \E p \in Protocols : AcceptFrame(p)
    \/ AcceptRefused

IngressStep == ReadHead \/ DispatchRefuses \/ ContextRefused \/ DispatchInvokes \/ HandOver

Next == MiddlewareStep \/ EndpointStep \/ IngressStep \/ SeeCancellation \/ CallDropped \/ CancelApp

\* The executor polls what can go on; global middleware is assumed to return;
\* an invocation has a deadline.
Fairness ==
    /\ WF_vars(IngressStep) /\ WF_vars(MiddlewareStep) /\ WF_vars(EndpointStep)
    /\ WF_vars(SeeCancellation)

Spec == Init /\ [][Next]_vars /\ Fairness

(***************************************************************************)
(* Properties.                                                              *)
(***************************************************************************)
\* Every session an Endpoint opened is handed to the transport or ended by the
\* time the request is over: also when middleware fails or panics after the
\* Endpoint has put its session into the stream slot (ingress.rs, dispatch_buffered).
NoSessionLost ==
    phase \in {"done", "dropped"} => session # "open" /\ slot = "none"

\* A WebSocket reaches the transport only with status 101, only for a GET over
\* HTTP/1.1 without a body whose handshake was valid, and with no subprotocol
\* the client did not offer (with_session, Handshake::parse, accept).
SocketsAreNegotiated ==
    phase = "done" /\ response.body = "socket" =>
        /\ response.status = 101 /\ session = "handed"
        /\ Sent.method = "GET" /\ Sent.version = "1.1" /\ Sent.body = ""
        /\ Handshake(Sent.fields).ok
        /\ protocol \in {"none"} \cup ToSet(Handshake(Sent.fields).value)

\* An answer without a body (to HEAD, 204, 304, informational) never leaves with
\* a live stream behind it (normalize_body), whatever middleware did to the status.
SilentAnswersEndStreams ==
    phase = "done" /\ (Sent.method = "HEAD" \/ response.status \in {204, 304} \cup 100..199)
        => response.body # "stream" /\ (session = "handed" => response.body = "socket")

\* A layer of middleware that began sees the response exactly once, the layers
\* in reverse order, unless a layer fails on the way (middleware::run).
MiddlewareUnwinds ==
    /\ \A i \in DOMAIN hooks : hooks[i] = entered + 1 - i
    /\ phase = "done" /\ begun > 0 /\ Len(hooks) < begun => response.status = 503

\* No Endpoint is handed a credential header, a hop-by-hop header or one the
\* client's Connection header names, even if middleware set it again
\* (inbound_request, restore_inbound_request).
EndpointsSeeNoOwnedHeaders ==
    Invoking => \A i \in DOMAIN request.fields :
        /\ request.fields[i].name \notin FilteredRequestHeaders
        /\ case.cookies => request.fields[i].name # "x-csrf"
        /\ request.fields[i].name = "x-private" =>
              \A j \in DOMAIN GetAll(Sent.fields, "connection") :
                  "x-private" \notin GetAll(Sent.fields, "connection")[j].value

\* What middleware says of framing and identification never reaches the client
\* (from_middleware_response); only an upgrade sets its own two fields.
FramingIsIngressOwned ==
    phase = "done" => response.headers \cap IngressOwnedResponseHeaders
                        = IF response.body = "socket" THEN {"upgrade", "connection"} ELSE {}

Occurrences(name) ==
    LET cookies == GetAll(Sent.fields, "cookie") IN
    {<<i, j>> \in UNION {{i} \X DOMAIN cookies[i].value : i \in DOMAIN cookies} :
        cookies[i].value[j].name = name}

\* A request that passes its head carried at most one credential, and the Endpoint
\* is handed evidence exactly when it carried one (select_credential): no two
\* sources, no repeated cookie, no folded header decides silently.
OneCredential ==
    request # <<>> =>
        LET count == Len(GetAll(Sent.fields, "authorization"))
                     + IF case.cookies THEN Cardinality(Occurrences("session")) ELSE 0
        IN count <= 1 /\ Len(request.credential) = count

\* A session cookie stands for the client on an unsafe method only if the request
\* also carries one CSRF cookie and one header with the same token.
UnsafeNeedsToken ==
    request # <<>> /\ request.credential # <<>> =>
        \/ request.credential[1].scheme # "session"
        \/ Uppercase(Sent.method) \in {"GET", "HEAD", "OPTIONS", "TRACE", "QUERY"}
        \/ \E at \in Occurrences("csrf") :
              /\ Occurrences("csrf") = {at}
              /\ LET pair == GetAll(Sent.fields, "cookie")[at[1]].value[at[2]]
                     headers == GetAll(Sent.fields, "x-csrf")
                 IN Len(headers) = 1 /\ headers[1].value = pair.value /\ pair.value # ""

\* Whatever a typed extractor of a strict handler answers with is among the
\* problems the macro put into its contract (derive_strict_request_shape against
\* extract_json, extract_path and extract_query).
ProblemsAreDeclared ==
    Handler.contract # <<>> /\ phase = "after" /\ hooks = <<>> =>
        \/ response.by \in {"none", "ingress", "middleware", "endpoint middleware", "handler", "stream", "socket"}
        \/ Problem(response.status, response.by) \in derive_endpoint_contract(Handler).value.problems

\* An identity is attached to the invocation only if it is of the kind the
\* handler asks for (extract_authenticated_actor).
ActorIsExpected == actor # "none" => actor = Handler.actor

\* Every request is answered unless its client left.
EveryRequestEnds == <>(phase \in {"done", "dropped"})

\* What an Endpoint session becomes: handed to a transport that can carry it, as a
\* negotiated WebSocket or as the stream of an answer that has a body, or ended
\* (dispatch_buffered, normalize_body, with_session).
SessionsAreAccounted == NoSessionLost /\ SocketsAreNegotiated /\ SilentAnswersEndStreams

\* Headers that belong to the ingress cross it in neither direction, however often
\* middleware puts them back (inbound_request, restore_inbound_request,
\* from_middleware_response).
HeadersStayOwned == EndpointsSeeNoOwnedHeaders /\ FramingIsIngressOwned

\* An Endpoint acts for a client only on one unambiguous credential, with a CSRF
\* token where a cookie stands for the client, and for an actor of the kind it asked
\* for (select_credential, extract_authenticated_actor).
CredentialsAreSound == OneCredential /\ UnsafeNeedsToken /\ ActorIsExpected
=============================================================================
