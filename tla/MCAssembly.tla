---------------------------- MODULE MCAssembly ----------------------------
(***************************************************************************)
(* Host and OpenAPI document for TLC: a behaviour is one of the two, and    *)
(* the other keeps its initial state.                                       *)
(***************************************************************************)
EXTENDS WebHost, OpenApi

CONSTANT Parts  \* the components of this instance

VARIABLE part

(***************************************************************************)
(* Hosts.                                                                   *)
(***************************************************************************)
MCProvides(p) == CASE p = "orders" -> {"http"} [] p = "feed" -> {"stream"}
                   [] p = "chat" -> {"http", "websocket"} [] OTHER -> {}
MCSlotOf(p) == CASE p = Ingress -> "ingress" [] p = "chat" -> "chat" [] OTHER -> "app"

MCLaneOrder == <<"main", "web">>

Cookie(name, csrf, header) == [name |-> name, csrf |-> csrf, header |-> header]
MCCookiePolicies == {Cookie("__Host-s", "__Host-c", "x-csrf"), Cookie("__Host-s", "__Host-s", "x-csrf"),
                     Cookie("__Host-s", "__Host-c", "cookie")}
SocketPolicy(message, session, origins) == [message |-> message, session |-> session, origins |-> origins]
MCSocketPolicies == {SocketPolicy(1, 2, {"exact"}), SocketPolicy(2, 1, {"exact"}), SocketPolicy(1, 1, {"with path"})}

\* Deserialized configurations: one too large a limit, one bad policy.
MCConfigs == {[DefaultConfig EXCEPT !.limits["max_concurrent_requests"] = MaxLimit + 1],
              [DefaultConfig EXCEPT !.websocket = <<SocketPolicy(2, 1, {})>>]}

\* Loaded roots: an adopted dependency choice, and a disabled instance.
MCRoots == {[EmptyRoot EXCEPT !.instances = <<Instance("orders", "default", <<"web">>, <<>>)>>,
                              !.choices = <<"clock">>],
            [EmptyRoot EXCEPT !.disabled = {<<"orders", "default">>}]}
MCExtraBindings == {[from |-> <<"orders", "default">>, capability |-> "clock",
                     to |-> {<<"feed", "default">>}, admission |-> <<0, 1>>]}

(***************************************************************************)
(* Providers: routes without an operation, and strict handlers whose author *)
(* wrote the derived operation with at most one change.                     *)
(***************************************************************************)
Text == Obj([type |-> Str("string")])
Number == Obj([type |-> Str("integer")])
Struct(properties, required) ==
    Obj([type |-> Str("object"), properties |-> Obj(properties), required |-> Arr(required)])
Plain == Struct([a |-> Text, b |-> Text], <<Str("a"), Str("b")>>)
Local == Obj([type |-> Str("object"), properties |-> Obj([a |-> Obj("$ref" :> Ref("$defs", "T")), b |-> Text]),
              required |-> Arr(<<Str("a"), Str("b")>>)] @@ "$defs" :> Obj("T" :> Text))
Titled == Struct([title |-> Text], <<Str("title")>>)
MCComponents ==
    [schemas |-> "Item" :> Plain @@ "Loop" :> Obj("$ref" :> Ref("schemas", "Loop")),
     parameters |-> "P" :> PathParameter("p"),
     requestBodies |-> "B" :> [ref |-> <<>>, required |-> TRUE, media |-> {"application/json"}, schema |-> Plain],
     responses |-> <<>>]
AuthoredSchemas ==
    {Plain, Local, Titled, Struct([b |-> Text, a |-> Text], <<Str("b"), Str("a")>>),
     Struct([a |-> Number, b |-> Text], <<Str("a"), Str("b")>>), Struct([a |-> Text, b |-> Text], <<Str("a")>>),
     Struct([title |-> Number], <<Str("title")>>), Obj("$ref" :> Ref("schemas", "Item")),
     Obj("$ref" :> Ref("schemas", "Loop")), Obj("$ref" :> Ref("schemas", "Missing")),
     Obj("$ref" :> Ref("schemas", "Item") @@ "required" :> Arr(<<Str("a")>>)),
     Obj("$ref" :> Ref("schemas", "Item") @@ "title" :> Str("An item"))}
MCSampleBodies ==
    {Obj([a |-> x, b |-> Str("y")]) : x \in {Str("x"), Int_(1)}} \cup
    {Obj([title |-> x]) : x \in {Str("x"), Int_(1)}} \cup {Obj([a |-> Str("x")]), Obj(<<>>), Str("x")}

HandlerWith(body) ==
    [id |-> "items", method |-> "POST", path |-> <<Lit("items"), Par("p")>>, wellformed |-> TRUE,
     middlewares |-> <<>>, arguments |-> <<"Path", "Json">>, success |-> "Json", error |-> "Problem",
     openapi |-> <<NoOperationObject>>, actor |-> "none",
     contract |-> <<[success |-> <<>>, errors |-> <<Problem(404, "missing")>>]>>,
     types |-> [path |-> {[name |-> "p", schema |-> Text, required |-> TRUE]}, query |-> {},
                body |-> body, response |-> Plain]]
Derived(body) == describe(<<HandlerWith(body)>>).routes[1]
Complete(body) ==
    LET e == Expected(Derived(body).contract[1]) IN
    [NoOperationObject EXCEPT !.parameters = e.parameters, !.body = e.body, !.responses = <<e.responses>>]
Changes(operation) ==
    {[operation EXCEPT !.body = <<[@[1] EXCEPT !.schema = s]>>] : s \in AuthoredSchemas} \cup
    {[operation EXCEPT !.body = b] : b \in
        {<<>>, <<[operation.body[1] EXCEPT !.required = FALSE]>>, <<[operation.body[1] EXCEPT !.ref = <<"B">>]>>,
         <<[operation.body[1] EXCEPT !.media = {"text/plain"}]>>}} \cup
    {[operation EXCEPT !.parameters = p] : p \in
        {<<>>, <<[PathParameter("p") EXCEPT !.ref = <<"P">>]>>, <<PathParameter("p"), PathParameter("p")>>,
         <<[PathParameter("p") EXCEPT !.required = "unstated"]>>, <<[PathParameter("p") EXCEPT !.serialization = "matrix"]>>,
         <<PathParameter("p"), [PathParameter("h") EXCEPT !.in = "header", !.required = "unstated"]>>,
         <<PathParameter("p"), [PathParameter("q") EXCEPT !.in = "query", !.required = "no"]>>}} \cup
    {[operation EXCEPT !.responses = r] : r \in
        {<<>>, <<[s \in {200, 400, 415} |-> operation.responses[1][s]]>>,
         <<operation.responses[1] @@ 500 :> operation.responses[1][404]>>}} \cup
    {[operation EXCEPT !.operationId = <<"mine">>]} \cup
    {[operation EXCEPT !.malformed = {m}] : m \in {"parameters", "responses"}}

RouteOf(id, method, path) == [id |-> id, method |-> method, path |-> path, wellformed |-> TRUE,
                              openapi |-> <<>>, contract |-> <<>>]
Bare == {RouteOf(id, method, path) : id \in {"", "items", "list"}, method \in {"get ", "post", "QUERY"},
                                     path \in {<<Lit("items")>>, <<Lit("items"), Par("q")>>, <<Lit("items"), Rest("r")>>,
                                               <<Par("x"), Par("x")>>, <<Lit("items"), Lit("new")>>}}
        \cup {[RouteOf("bad", "get ", <<>>) EXCEPT !.wellformed = FALSE]}
StrictRoutes ==
    UNION {{[Derived(body) EXCEPT !.openapi = <<o>>, !.contract = c] :
               o \in Changes(Complete(body)), c \in {<<>>, Derived(body).contract}} : body \in {Plain, Local, Titled}}
    \cup {[Derived(Plain) EXCEPT !.openapi = <<Complete(Plain)>>, !.contract[1].method = "PUT"]}
\* Handlers whose success and problems are declared rightly or wrongly, with
\* path and query types that have fields or none.
SmallHandlers ==
    {[HandlerWith(Plain) EXCEPT !.id = id, !.path = path, !.arguments = a, !.types.query = fields,
                                !.contract = <<[success |-> s, errors |-> <<Problem(404, "missing")>>]>>,
                                !.openapi = <<[Complete(Plain) EXCEPT !.operationId = o]>>] :
        id \in {"items", "list"}, path \in {<<Lit("items"), Par("p")>>, <<Lit("items"), Par("q")>>},
        a \in {<<"Path", "Json">>, <<"QueryParams">>}, s \in {<<>>, <<201>>}, o \in {<<>>, <<"mine">>},
        fields \in {{}, {[name |-> "q", schema |-> Text, required |-> FALSE]}}}
Provider(routes) == [described |-> TRUE, routes |-> routes]
Silent == [described |-> FALSE]
MCBoundEndpoints ==
    {<<>>, <<Silent>>, <<Provider(<<RouteOf("items", "get ", <<Lit("items")>>)>>), Silent>>}
    \cup {<<Provider(<<r>>)>> : r \in StrictRoutes}
    \cup {<<Provider(<<r>>), Provider(<<s>>)>> : r, s \in Bare}
    \cup {<<Provider(<<r, RouteOf("list", "get ", <<Lit("items"), Par("p")>>)>>)>> : r \in Bare}
    \cup {<<describe(handlers)>> : handlers \in {<<g, h>> \in SmallHandlers \X SmallHandlers : Authors(<<g, h>>)}}

(***************************************************************************)
(* The two parts.                                                           *)
(***************************************************************************)
AssemblyInit ==
    /\ part \in Parts /\ HostInit
    /\ IF part = "openapi" THEN OpenApiInit
       ELSE bound = <<>> /\ activation = "inactive" /\ descriptions = <<>> /\ document = <<>> /\ answered = "none"

AssemblyNext ==
    /\ UNCHANGED part
    /\ \/ part = "host" /\ HostNext /\ UNCHANGED openApiVars
       \/ part = "openapi" /\ OpenApiNext /\ UNCHANGED hostVars

AssemblySpec == AssemblyInit /\ [][AssemblyNext]_<<hostVars, openApiVars, part>>
=============================================================================
