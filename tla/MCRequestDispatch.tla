------------------------- MODULE MCRequestDispatch -------------------------
(***************************************************************************)
(* Requests and Apps for RequestDispatch: heads that differ in credentials, *)
(* opening handshakes, and heads for each kind of Endpoint under two layers  *)
(* of middleware.                                                           *)
(***************************************************************************)
EXTENDS RequestDispatch

Field(name, value) == [name |-> name, text |-> TRUE, value |-> value]
Binary(field) == [field EXCEPT !.text = FALSE]
Id == Field("x-request-id", "id")

HeadOf(method, path, fields, body) ==
    [method |-> method, version |-> "1.1", path |-> path, fields |-> fields, body |-> body]

Schemas == [path |-> {[name |-> "p", schema |-> "s", required |-> TRUE]},
            query |-> {[name |-> "q", schema |-> "s", required |-> FALSE]},
            body |-> "s", response |-> "s"]
HandlerOf(middlewares, arguments, contract) ==
    [id |-> "items", method |-> "POST", path |-> <<Lit("items"), Par("p")>>, wellformed |-> TRUE,
     middlewares |-> middlewares, arguments |-> arguments, success |-> "Json",
     error |-> IF contract = <<>> THEN "EndpointHandleInvocationError" ELSE "Problem",
     openapi |-> <<[operationId |-> <<>>]>>, contract |-> contract, types |-> Schemas, actor |-> "user"]
Strict == <<[success |-> <<>>, errors |-> <<Problem(404, "missing")>>]>>
Plain == HandlerOf(<<>>, <<"HandleRequest", "InvocationContext">>, <<>>)
Handlers ==
    {h \in {HandlerOf(m, a, c) :
              m \in {<<>>, <<"audit">>},
              a \in {<<"Path", "Option<Json>">>, <<"QueryParams", "Json">>, <<"InvocationContext", "Actor", "Json">>},
              c \in {<<>>, Strict}} : Compiles(h)}

Socket(path) == [id |-> "chat", method |-> "GET", path |-> path, wellformed |-> TRUE]
MCSocketEndpoints == <<[described |-> TRUE, routes |-> <<Socket(<<Lit("chat")>>)>>]>>
MCStreamEndpoints ==
    <<[described |-> TRUE,
       routes |-> <<[id |-> "feed", method |-> "GET", path |-> <<Lit("feed")>>, wellformed |-> TRUE],
                    [id |-> "probe", method |-> "HEAD", path |-> <<Lit("feed")>>, wellformed |-> TRUE]>>]>>

\* Middleware leaves the request, or sets one of the fields, or replaces a part.
MCRewrites(r) ==
    {r, [r EXCEPT !.fields = Append(@, Field("cookie", <<>>))],
        [r EXCEPT !.fields = Append(@, Binary(Field("x-app", "")))],
        [r EXCEPT !.method = "GET"], [r EXCEPT !.body = "json"]}

App(head, handler, layers, cookies, sockets, transport) ==
    [head |-> head, handler |-> handler, layers |-> layers, cookies |-> cookies, sockets |-> sockets,
     transport |-> transport]

(***************************************************************************)
(* Heads that differ in the credentials they carry.                         *)
(***************************************************************************)
Pair(name, value, eq, close, octets) ==
    [name |-> name, eq |-> eq, open |-> TRUE, close |-> close, octets |-> octets, value |-> value]
Good(name, value) == Pair(name, value, TRUE, TRUE, TRUE)
CookieHeaders ==
    {<<>>,
     <<Field("cookie", <<Good("session", "s")>>)>>,
     <<Field("cookie", <<Good("session", "s"), Good("csrf", "t")>>)>>,
     <<Field("cookie", <<Good("other", "o"), Good("csrf", "t")>>), Field("cookie", <<Good("session", "s")>>)>>,
     <<Field("cookie", <<Good("session", "s"), Good("session", "s2"), Good("csrf", "t")>>)>>,
     <<Field("cookie", <<Good("session", "s"), Good("csrf", "t")>>), Field("cookie", <<Good("csrf", "u")>>)>>,
     <<Field("cookie", <<Good("session", ""), Good("csrf", "t")>>)>>,
     <<Field("cookie", <<Pair("session", "s", FALSE, TRUE, TRUE)>>)>>,
     <<Field("cookie", <<Pair("session", "s", TRUE, FALSE, TRUE)>>)>>,
     <<Field("cookie", <<Pair("session", "s", TRUE, TRUE, FALSE)>>)>>,
     <<Binary(Field("cookie", <<>>))>>}
Authorization(scheme, space, value) ==
    Field("authorization", [scheme |-> scheme, space |-> space, value |-> value])
AuthorizationHeaders ==
    {<<>>, <<Authorization("Bearer", TRUE, "a")>>, <<Authorization("Bearer", TRUE, "a,b")>>,
     <<Authorization("custom", TRUE, "a,b")>>, <<Authorization("Bearer", FALSE, "")>>,
     <<Authorization("Bearer", TRUE, "")>>, <<Binary(Authorization("Bearer", TRUE, "a"))>>,
     <<Authorization("Bearer", TRUE, "a"), Authorization("basic", TRUE, "b")>>}
CsrfHeaders ==
    {<<>>, <<Field("x-csrf", "t")>>, <<Field("x-csrf", "u")>>, <<Field("x-csrf", "")>>,
     <<Field("x-csrf", "t"), Field("x-csrf", "t")>>}
CredentialCases ==
    {App(HeadOf(method, <<"none">>, <<Id>> \o cookies \o authorization \o csrf, ""),
         Plain, 0, policy, FALSE, "native") :
       method \in {"GET", "get", "post", "query", "DELETE"}, cookies \in CookieHeaders,
       authorization \in AuthorizationHeaders, csrf \in CsrfHeaders, policy \in BOOLEAN}

(***************************************************************************)
(* Opening handshakes: the valid one with one field replaced, repeated or   *)
(* left out.                                                                *)
(***************************************************************************)
Opening == <<Id, Field("upgrade", "websocket"), Field("connection", {"upgrade", "x-private"}),
             Field("x-private", "1"), Field("sec-websocket-version", "13"),
             Field("sec-websocket-key", "key16"), Field("origin", "allowed"),
             Field("sec-websocket-protocol", <<"chat">>)>>
Openings ==
    {Opening}
    \cup {SelectSeq(Opening, LAMBDA f : f.name # name) : name \in {Opening[i].name : i \in DOMAIN Opening}}
    \cup {Append(Opening, f) : f \in {Opening[i] : i \in 2..8} \cup {Binary(Opening[3]), Binary(Opening[7])}}
    \cup {[Opening EXCEPT ![i].value = v] : <<i, v>> \in
            {<<1, "too long">>, <<2, "h2c">>, <<3, {"bad name", "upgrade"}>>, <<3, {"close"}>>, <<5, "12">>,
             <<6, "short">>, <<6, "loose">>, <<7, "foreign">>, <<8, <<>>>>, <<8, <<"chat", "chat">>>>,
             <<8, <<"bad token">>>>, <<8, <<"chat", "a", "b">>>>}}
OpeningHeads ==
    {HeadOf("GET", <<"chat">>, fields, "") : fields \in Openings}
    \cup {[HeadOf("GET", <<"chat">>, Opening, "") EXCEPT !.version = "1.0"],
          HeadOf("POST", <<"chat">>, Opening, ""), HeadOf("CONNECT", <<"chat">>, Opening, ""),
          HeadOf("GET", <<"chat">>, Opening, "json"), HeadOf("GET", <<"feed">>, Opening, "")}
HandshakeCases ==
    {App(head, Plain, 0, FALSE, sockets, "native") : head \in OpeningHeads, sockets \in BOOLEAN}
    \cup {App(HeadOf("GET", <<"chat">>, Opening, ""), Plain, layers, FALSE, TRUE, transport) :
            layers \in {1, 2}, transport \in {"native", "event"}}

(***************************************************************************)
(* Heads for the Endpoints.                                                 *)
(***************************************************************************)
Json == Field("content-type", "application/json")
Bearer == Authorization("Bearer", TRUE, "a")
EndpointCases ==
    {App(HeadOf("post", <<"items", "1">>, fields, body), handler, layers, TRUE, FALSE, "native") :
        fields \in {<<Id, Bearer>>, <<Id, Json, Field("x-csrf", "t")>>}, body \in {"", "json"},
        handler \in Handlers, layers \in {0, 1}}
    \cup {App(HeadOf(method, path, <<Id>>, ""), Plain, layers, FALSE, TRUE, transport) :
            method \in {"GET", "HEAD"}, path \in {<<"feed">>, <<"items", "1">>},
            layers \in {0, 2}, transport \in {"native", "event"}}

MCCases == CredentialCases \cup HandshakeCases \cup EndpointCases
=============================================================================
