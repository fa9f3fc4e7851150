---------------------------- MODULE RequestHead ----------------------------
(***************************************************************************)
(* The decisions the Web Ingress takes from a request's head alone: which   *)
(* credential it carries (session_cookie.rs), whether it is a WebSocket     *)
(* opening handshake (websocket_handshake.rs), and which header fields may  *)
(* cross to an Endpoint (ingress.rs).                                       *)
(*                                                                          *)
(* A head is a record with the method, the HTTP version, the path (a        *)
(* sequence of segments), the header fields in order and the body that was   *)
(* read with it.  A field is                                                *)
(* [name, text, value]: text tells whether its bytes are readable as text,  *)
(* and value is the field value as its grammar splits it:                   *)
(*   authorization    [scheme, space, value], split at the first space      *)
(*   cookie           a sequence of pairs [name, eq, open, close, octets,   *)
(*                    value]: eq is the "=", open and close the quotes,     *)
(*                    octets that all bytes are cookie octets               *)
(*   connection       the set of names it lists                             *)
(*   sec-websocket-protocol   the sequence of names it lists                *)
(*   anything else    a string                                              *)
(* An optional value is a sequence of length at most one.                   *)
(***************************************************************************)
EXTENDS Integers, Sequences, SequencesExt, FiniteSets

Ok(value) == [ok |-> TRUE, value |-> value]
Err(error) == [ok |-> FALSE, error |-> error]

\* The fields called name, in order (HeaderMap::get_all).
GetAll(fields, name) == SelectSeq(fields, LAMBDA f : f.name = name)

(***************************************************************************)
(* session_cookie.rs                                                        *)
(***************************************************************************)
Lowercase(scheme) == IF scheme = "Bearer" THEN "bearer" ELSE scheme

Uppercase(method) ==
    CASE method = "get" -> "GET" [] method = "post" -> "POST"
      [] method = "query" -> "QUERY" [] OTHER -> method

single_header(fields, name) ==
    LET values == GetAll(fields, name) IN
    CASE values = <<>> -> Ok(<<>>)
      [] Len(values) > 1 -> Err("BadRequest")
      [] OTHER -> IF values[1].text THEN Ok(<<values[1].value>>) ELSE Err("BadRequest")

authorization_credential(fields) ==
    LET field == single_header(fields, "authorization") IN
    IF ~field.ok \/ field.value = <<>> THEN field
    ELSE LET a == field.value[1] IN
         IF \/ ~a.space
            \/ a.scheme = "" \/ a.value = ""
            \/ Lowercase(a.scheme) \in {"bearer", "basic"} /\ a.value = "a,b"
         THEN Err("BadRequest")
         ELSE Ok(<<[scheme |-> Lowercase(a.scheme), value |-> a.value]>>)

normalized_cookie_value(pair) ==
    IF pair.open # pair.close \/ ~pair.octets THEN Err("BadRequest") ELSE Ok(pair.value)

insert_cookie(target, pair) ==
    LET value == normalized_cookie_value(pair) IN
    IF target # <<>> \/ ~value.ok \/ value.value = "" THEN Err("BadRequest")
    ELSE Ok(<<value.value>>)

NoCookies == [session |-> <<>>, csrf |-> <<>>]

\* One pair of a Cookie header; a failure stays.
SelectCookie(selected, pair) ==
    IF ~selected.ok \/ pair.name \notin {"session", "csrf"} THEN selected
    ELSE IF ~pair.eq THEN Err("BadRequest")
    ELSE LET inserted == insert_cookie(selected.value[pair.name], pair) IN
         IF inserted.ok THEN Ok([selected.value EXCEPT ![pair.name] = inserted.value])
         ELSE inserted

selected_cookies(fields) ==
    LET cookies == GetAll(fields, "cookie")
        OneHeader(selected, field) ==
            IF ~selected.ok THEN selected
            ELSE IF field.text THEN FoldLeft(SelectCookie, selected, field.value)
            ELSE Err("BadRequest")
    IN FoldLeft(OneHeader, Ok(NoCookies), cookies)

safe_method(method) ==
    method \in {"GET", "HEAD", "OPTIONS", "TRACE"} \/ Uppercase(method) = "QUERY"

\* Mutant of CsrfAccepted: a request without the header passes.
CsrfAcceptedBlind(cookie, header) == header = <<>> \/ cookie = header

CsrfAccepted(cookie, header) == cookie # <<>> /\ header # <<>> /\ header # <<"">> /\ cookie = header

\* The evidence of a request that carries a session cookie and nothing else.
SessionEvidence(method, fields, cookies) ==
    LET header == single_header(fields, "x-csrf")
        evidence == Ok(<<[scheme |-> "session", value |-> cookies.session[1]]>>) IN
    IF safe_method(method) THEN evidence
    ELSE IF cookies.csrf = <<>> THEN Err("CsrfForbidden")
    ELSE IF ~header.ok THEN header
    ELSE IF CsrfAccepted(cookies.csrf, header.value) THEN evidence ELSE Err("CsrfForbidden")

\* Mutant of select_credential: Authorization silently wins over the cookie.
select_credential_lenient(method, fields, policy) ==
    LET authorization == authorization_credential(fields)
        cookies == selected_cookies(fields) IN
    IF ~authorization.ok \/ ~policy THEN authorization
    ELSE IF ~cookies.ok THEN cookies
    ELSE IF cookies.value.session = <<>> \/ authorization.value # <<>> THEN authorization
    ELSE SessionEvidence(method, fields, cookies.value)

select_credential(method, fields, policy) ==
    LET authorization == authorization_credential(fields)
        cookies == selected_cookies(fields) IN
    IF ~authorization.ok \/ ~policy THEN authorization
    ELSE IF ~cookies.ok THEN cookies
    ELSE IF cookies.value.session = <<>> THEN authorization
    ELSE IF authorization.value # <<>> THEN Err("BadRequest")
    ELSE SessionEvidence(method, fields, cookies.value)

(***************************************************************************)
(* websocket_handshake.rs.  A key is "key16" (the canonical encoding of 16   *)
(* bytes), "short" or "loose" (decodes to 16 bytes but not canonically).    *)
(***************************************************************************)
CONSTANTS AllowedOrigins, MaxProtocols
Token(name) == name \notin {"", "bad token"}

\* What parse returns when it accepts: the protocols offered.
Handshake(fields) ==
    LET Single(name) == single_header(fields, name)
        Is(name, value) == Single(name).ok /\ Single(name).value = <<value>>
        connection == GetAll(fields, "connection")
        origin == Single("origin")
        offered == Single("sec-websocket-protocol")
        protocols == IF offered.ok /\ offered.value # <<>> THEN offered.value[1] ELSE <<>>
    IN IF /\ Is("upgrade", "websocket")
          /\ Is("sec-websocket-version", "13")
          /\ \A i \in DOMAIN connection : connection[i].text
          /\ \E i \in DOMAIN connection : "upgrade" \in connection[i].value
          /\ origin.ok /\ \A i \in DOMAIN origin.value : origin.value[i] \in AllowedOrigins
          /\ Is("sec-websocket-key", "key16")
          /\ offered.ok
          /\ Len(protocols) <= MaxProtocols
          /\ \A i \in DOMAIN protocols : Token(protocols[i])
          /\ IsInjective(protocols)
       THEN Ok(protocols) ELSE Err("BadRequest")

(***************************************************************************)
(* ingress.rs: the header fields that belong to one hop or to the Ingress.  *)
(***************************************************************************)
HopByHop == {"connection", "te", "trailer", "transfer-encoding", "upgrade", "keep-alive",
             "proxy-connection"}
FilteredRequestHeaders ==
    HopByHop \cup {"authorization", "cookie", "content-length", "host", "x-request-id"}
IngressOwnedResponseHeaders ==
    HopByHop \cup {"content-length", "x-content-type-options", "x-request-id"}

connection_owned_headers(fields) ==
    LET connection == GetAll(fields, "connection")
        names == UNION {connection[i].value : i \in DOMAIN connection} \ (HopByHop \cup {""})
    IN IF (\E i \in DOMAIN connection : ~connection[i].text) \/ "bad name" \in names
       THEN Err("BadRequest") ELSE Ok(names)

\* The fields that stay of a head: shared by inbound_request and by
\* restore_inbound_request, which sees the head as middleware left it.
FilterHeaders(fields, policy) ==
    LET owned == connection_owned_headers(fields)
        kept == SelectSeq(fields, LAMBDA f :
                    /\ f.name \notin FilteredRequestHeaders
                    /\ ~(policy /\ f.name = "x-csrf")
                    /\ f.name \notin owned.value)
    IN IF ~owned.ok THEN owned
       ELSE IF \E i \in DOMAIN kept : ~kept[i].text THEN Err("BadRequest") ELSE Ok(kept)

request_id(fields) ==
    LET values == GetAll(fields, "x-request-id") IN
    IF values = <<>> \/ ~values[1].text \/ values[1].value \in {"", "too long"}
    THEN Err("BadRequest") ELSE Ok(values[1].value)

inbound_request(head, policy) ==
    LET id == request_id(head.fields)
        credential == select_credential(head.method, head.fields, policy)
        headers == FilterHeaders(head.fields, policy)
    IN CASE ~id.ok -> id
         [] id.ok /\ ~credential.ok -> credential
         [] id.ok /\ credential.ok /\ ~headers.ok -> headers
         [] OTHER -> Ok([method |-> Uppercase(head.method), path |-> head.path,
                         fields |-> headers.value, credential |-> credential.value,
                         id |-> id.value, body |-> head.body])
=============================================================================
