--------------------------- MODULE IngressConfig ---------------------------
(***************************************************************************)
(* WebIngressConfig (config.rs): the policy of one Web Ingress Instance and *)
(* the builders that replace parts of it.                                   *)
(*                                                                          *)
(* A config is [bind, limits, cookie, websocket].  limits gives each of the *)
(* nine bounded numbers of the code, of which Limits names representatives; *)
(* a cookie policy is [name, csrf, header], a WebSocket policy [message,    *)
(* session, origins], both optional (a sequence of length at most one).     *)
(* Deserializing a config checks none of this, a builder everything.        *)
(***************************************************************************)
EXTENDS Integers, Sequences, FiniteSets

CONSTANTS
    Limits,           \* names of limits and timeouts
    MaxLimit,         \* their largest legal value (MAX_CONNECTIONS, MAX_TIMEOUT_MILLIS, ...)
    MaxMessage,       \* largest WebSocket message a policy may allow
    MaxTransfer,      \* largest WebSocket session (MAX_TRANSFER_BYTES)
    HostCookieNames,  \* the names host_cookie_name accepts
    HeaderNames,      \* the valid header names of bounded length
    ExactOrigins      \* the exact serialized HTTP origins

DefaultConfig == [bind |-> "loopback", limits |-> [l \in Limits |-> 1], cookie |-> <<>>, websocket |-> <<>>]

ReservedHeaders == {"authorization", "connection", "content-length", "cookie", "host", "keep-alive",
                    "proxy-connection", "te", "trailer", "transfer-encoding", "upgrade", "x-request-id"}

validate_cookie(policy) ==
    /\ policy.name \in HostCookieNames /\ policy.csrf \in HostCookieNames
    /\ policy.name # policy.csrf
    /\ policy.header \in HeaderNames \ ReservedHeaders

validate_websocket(policy) ==
    /\ policy.message \in 1 .. MaxMessage
    /\ policy.session \in policy.message .. MaxTransfer
    /\ policy.origins \subseteq ExactOrigins

validate(config) ==
    /\ \A l \in Limits : config.limits[l] \in 1 .. MaxLimit
    /\ config.websocket # <<>> => validate_websocket(config.websocket[1])
    /\ config.cookie # <<>> => validate_cookie(config.cookie[1])

\* The builders: the config they make, which the caller keeps only if they
\* return Ok.  with_websocket looks at the new policy alone.
with_bind_address(config, address) ==
    LET next == [config EXCEPT !.bind = address] IN [ok |-> validate(next), value |-> next]

with_limit(config, limit, value) ==
    LET next == [config EXCEPT !.limits[limit] = value] IN [ok |-> validate(next), value |-> next]

with_session_cookie(config, policy) ==
    LET next == [config EXCEPT !.cookie = <<policy>>] IN [ok |-> validate(next), value |-> next]

with_websocket(config, policy) ==
    [ok |-> validate_websocket(policy), value |-> [config EXCEPT !.websocket = <<policy>>]]

\* The binding limits a Host applies: no second queue, the same ceiling.
endpoint_admission_limits(config) == <<0, config.limits["max_concurrent_requests"]>>
=============================================================================
