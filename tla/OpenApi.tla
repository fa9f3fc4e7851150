------------------------------ MODULE OpenApi ------------------------------
(***************************************************************************)
(* The OpenAPI plugin (lenso-openapi-plugin): at activation it asks every   *)
(* bound Endpoint for its routes, checks the operations their authors wrote *)
(* against the contracts derived from the handlers' types, assembles one    *)
(* document, and serves it until deactivation.                              *)
(*                                                                          *)
(* JSON is <<"obj", function>>, <<"arr", sequence>> or a leaf; a $ref is a  *)
(* leaf <<"ref", section, name>>.  An authored operation is                 *)
(* [operationId, parameters, body, responses, malformed]: an optional id, a *)
(* sequence of parameters, an optional body [ref, required, media, schema], *)
(* optional responses by status, and the fields that have a wrong JSON type.*)
(***************************************************************************)
EXTENDS RouteTable, EndpointAuthoring, TLC

CONSTANTS
    Components,       \* the configured components: section -> name -> value
    BoundEndpoints,   \* the sequences of providers an App may bind
    SampleBodies      \* JSON values that tell schemas apart

VARIABLES bound, activation, descriptions, document, answered

openApiVars == <<bound, activation, descriptions, document, answered>>

Obj(f) == <<"obj", f>>
Arr(s) == <<"arr", s>>
Str(s) == <<"str", s>>
Int_(n) == <<"int", n>>
Bool(b) == <<"bool", b>>
Ref(section, name) == <<"ref", section, name>>

(***************************************************************************)
(* canonical_schema: references resolved, annotations dropped, unordered    *)
(* arrays sorted.  A sorted array is the bag of its elements.               *)
(***************************************************************************)
Annotations == {"$schema", "$id", "title", "description", "examples", "example", "default", "deprecated",
                "readOnly", "writeOnly"}

\* Mutant of ignored_schema_keyword: what is required counts as annotation.
ignored_schema_keyword_wide(key) == key \in Annotations \cup {"required"}

ignored_schema_keyword(key) == key \in Annotations

sort_json_array(value) ==
    IF value[1] # "arr" THEN value
    ELSE <<"bag", [e \in ToSet(value[2]) |-> Cardinality({i \in DOMAIN value[2] : value[2][i] = e})]>>

\* The target of a reference and the root of its local definitions.
resolve_schema_reference(ref, root) ==
    IF ref[2] = "$defs"
    THEN IF "$defs" \in DOMAIN root[2] /\ ref[3] \in DOMAIN root[2]["$defs"][2]
         THEN [ok |-> TRUE, target |-> root[2]["$defs"][2][ref[3]], root |-> root] ELSE Refused
    ELSE IF ref[2] = "schemas" /\ ref[3] \in DOMAIN Components["schemas"]
         THEN [ok |-> TRUE, target |-> Components["schemas"][ref[3]], root |-> Components["schemas"][ref[3]]]
         ELSE Refused

IsRef(schema) == schema[1] = "obj" /\ "$ref" \in DOMAIN schema[2]

\* What canonical_schema_with_root descends into; $defs only through references.
Within(schema) ==
    CASE schema[1] = "obj" -> {k \in DOMAIN schema[2] : ~ignored_schema_keyword(k) /\ (IsRef(schema) \/ k # "$defs")}
      [] schema[1] = "arr" -> DOMAIN schema[2]
      [] OTHER -> {}

\* Where the part k is found, and the references on the way to it.
PartOf(schema, root, seen, k) ==
    IF IsRef(schema) /\ k = "$ref"
    THEN LET found == resolve_schema_reference(schema[2]["$ref"], root) IN
         [schema |-> found.target, root |-> found.root, seen |-> seen \cup {schema[2]["$ref"]}]
    ELSE [schema |-> schema[2][k], root |-> root, seen |-> seen]

\* A schema from its canonical parts.  The keywords beside a $ref overlay its
\* target; they are not sorted.
Compose(schema, parts) ==
    LET value == [k \in DOMAIN parts |-> parts[k].value]
        Sorted(k) == IF k \in {"required", "enum"} THEN sort_json_array(value[k]) ELSE value[k] IN
    IF \E k \in DOMAIN parts : ~parts[k].ok \/ (IsRef(schema) /\ k = "$ref" /\ value[k][1] # "obj") THEN Refused
    ELSE Accepted(CASE IsRef(schema) -> Obj([k \in DOMAIN parts \ {"$ref"} |-> value[k]] @@ value["$ref"][2])
                    [] schema[1] = "obj" /\ ~IsRef(schema) -> Obj([k \in DOMAIN parts |-> Sorted(k)])
                    [] schema[1] = "arr" -> Arr(value)
                    [] OTHER -> schema)

Broken(schema, root, seen) ==
    IsRef(schema) /\ (schema[2]["$ref"] \in seen \/ ~resolve_schema_reference(schema[2]["$ref"], root).ok)

RECURSIVE canonical_schema_with_root(_)
canonical_schema_with_root(p) ==
    IF Broken(p.schema, p.root, p.seen) THEN Refused
    ELSE Compose(p.schema, [k \in Within(p.schema) |->
                              canonical_schema_with_root(PartOf(p.schema, p.root, p.seen, k))])

canonical_schema(schema) == canonical_schema_with_root([schema |-> schema, root |-> schema, seen |-> {}])

(***************************************************************************)
(* contract::validate.                                                      *)
(***************************************************************************)
\* resolve_component: a value, or the component its reference names.
resolve_component(value, section) ==
    IF value.ref = <<>> THEN Accepted(value)
    ELSE IF section \in DOMAIN Components /\ value.ref[1] \in DOMAIN Components[section]
         THEN Accepted(Components[section][value.ref[1]]) ELSE Refused

Key(p) == <<p.in, p.name>>

\* A strict parameter: required is stated, its serialization is the default.
StrictParameter(p) ==
    /\ p.required # "unstated" /\ (p.in = "path" => p.required = "yes")
    /\ p.serialization = "default" /\ canonical_schema(p.schema).ok

parameter_map(parameters) ==
    LET resolved == [i \in DOMAIN parameters |-> resolve_component(parameters[i], "parameters")]
        Located == {i \in DOMAIN parameters : resolved[i].value.in \in {"path", "query"}}
        Keys == {Key(resolved[i].value) : i \in Located} IN
    IF \/ \E i \in DOMAIN parameters : ~resolved[i].ok
       \/ \E i \in Located : ~StrictParameter(resolved[i].value)
       \/ Cardinality(Keys) # Cardinality(Located)
    THEN Refused
    ELSE Accepted([k \in Keys |-> LET p == resolved[CHOOSE i \in Located : Key(resolved[i].value) = k].value IN
                                  [required |-> p.required, schema |-> canonical_schema(p.schema).value]])

\* media_schema: exactly the expected media type.
media_schema(value, expected) ==
    IF value.media = {expected} THEN canonical_schema(value.schema) ELSE Refused

request_body(body) ==
    LET value == resolve_component(body, "requestBodies") IN
    IF ~value.ok THEN Refused
    ELSE LET schema == media_schema(value.value, "application/json") IN
         IF schema.ok THEN Accepted([required |-> value.value.required, schema |-> schema.value]) ELSE Refused

\* Equal bodies, or none on both sides.
BodiesAgree(expected, actual) ==
    \/ expected = <<>> /\ actual = <<>>
    \/ /\ expected # <<>> /\ actual # <<>>
       /\ request_body(expected[1]).ok /\ request_body(expected[1]) = request_body(actual[1])

Media(status) == IF status \in 200 .. 299 THEN "application/json" ELSE "application/problem+json"

\* responses: a function of statuses; 0 stands for a key that is no status.
response_map(responses) ==
    LET value == [s \in DOMAIN responses |-> resolve_component(responses[s], "responses")]
        schema == [s \in DOMAIN responses |->
                     IF value[s].ok THEN media_schema(value[s].value, Media(s)) ELSE Refused] IN
    IF \A s \in DOMAIN responses : s \in 100 .. 599 /\ schema[s].ok
    THEN Accepted([s \in DOMAIN responses |-> schema[s].value]) ELSE Refused

\* Mutant of ResponsesAgree: the author may leave out responses.
ResponsesAgreeInPart(expected, actual) ==
    /\ expected.ok /\ actual.ok
    /\ \A s \in DOMAIN actual.value : s \in DOMAIN expected.value /\ actual.value[s] = expected.value[s]

ResponsesAgree(expected, actual) == expected.ok /\ actual.ok /\ expected.value = actual.value

\* The operation of a derived contract (OpenApiContract::build).
problem_schema(status, codes) ==
    LET Text_ == Obj([type |-> Str("string")]) IN
    Obj([type |-> Str("object"), additionalProperties |-> Bool(FALSE),
         required |-> Arr(<<Str("type"), Str("title"), Str("status"), Str("detail"), Str("code")>>),
         properties |-> Obj([type |-> Text_, title |-> Text_, detail |-> Text_,
                             status |-> Obj([const |-> Int_(status)]),
                             code |-> Obj([type |-> Str("string"),
                                           enum |-> Arr(SetToSeq({Str(c) : c \in codes}))])])])

Expected(contract) ==
    LET statuses == {p.status : p \in contract.problems}
        Response(media, schema) == [ref |-> <<>>, media |-> {media}, schema |-> schema] IN
    [parameters |-> SetToSeq({[ref |-> <<>>, in |-> p.in, name |-> p.name, schema |-> p.schema,
                               required |-> IF p.required THEN "yes" ELSE "no",
                               serialization |-> "default"] : p \in contract.parameters}),
     body |-> IF contract.body = <<>> THEN <<>>
              ELSE <<[ref |-> <<>>, media |-> {"application/json"},
                      required |-> contract.body[1].required, schema |-> contract.body[1].schema]>>,
     responses |-> [s \in statuses |->
                      Response("application/problem+json",
                               problem_schema(s, {p.code : p \in {q \in contract.problems : q.status = s}}))]
                   @@ (contract.success.status :> Response("application/json", contract.success.schema))]

validate_contract(route, operation) ==
    LET contract == route.contract[1]
        expected == Expected(contract) IN
    /\ <<contract.id, contract.method, contract.path>> = <<route.id, route.method, route.path>>
    /\ "parameters" \notin operation.malformed
    /\ parameter_map(expected.parameters).ok
    /\ parameter_map(expected.parameters) = parameter_map(operation.parameters)
    /\ BodiesAgree(expected.body, operation.body)
    /\ ResponsesAgree(response_map(expected.responses), response_map(operation.responses[1]))

(***************************************************************************)
(* assemble: every route of every description, in order.                    *)
(***************************************************************************)
Methods == {"DELETE", "GET", "HEAD", "OPTIONS", "PATCH", "POST", "PUT", "TRACE"}

\* openapi_path: a catch-all is written like a parameter.
Parameters(path) == SelectSeq(path, LAMBDA segment : segment.k # "lit")
openapi_path(route) ==
    IF route.wellformed /\ IsInjective([i \in DOMAIN Parameters(route.path) |-> Parameters(route.path)[i].v])
    THEN Accepted([i \in DOMAIN route.path |->
                     IF route.path[i].k = "lit" THEN route.path[i] ELSE Par(route.path[i].v)])
    ELSE Refused

PathParameter(name) == [ref |-> <<>>, in |-> "path", name |-> name, required |-> "yes",
                        serialization |-> "default", schema |-> Obj([type |-> Str("string")])]

\* Mutant of ensure_path_parameters: every parameter of the path is appended.
ensure_path_parameters_again(path, operation) ==
    Accepted([operation EXCEPT !.parameters =
                @ \o [i \in DOMAIN Parameters(path) |-> PathParameter(Parameters(path)[i].v)]])

\* The path parameters the author left out are appended; a reference is not
\* looked into.
ensure_path_parameters(path, operation) ==
    LET names == [i \in DOMAIN Parameters(path) |-> Parameters(path)[i].v]
        declared == {p \in ToSet(operation.parameters) : p.ref = <<>> /\ p.in = "path"}
        missing == SelectSeq(names, LAMBDA n : \A p \in declared : p.name # n) IN
    IF names = <<>> THEN Accepted(operation)
    ELSE IF "parameters" \in operation.malformed \/ \E p \in declared : p.required # "yes" THEN Refused
    ELSE Accepted([operation EXCEPT !.parameters = @ \o [i \in DOMAIN missing |-> PathParameter(missing[i])]])

NoOperationObject == [operationId |-> <<>>, parameters |-> <<>>, body |-> <<>>, responses |-> <<>>, malformed |-> {}]
Undocumented == <<0 :> [ref |-> <<>>, media |-> {}, schema |-> Obj(<<>>)]>>

\* The operation before its path parameters are completed.
Authored(route) ==
    LET operation == IF route.openapi = <<>> THEN NoOperationObject ELSE route.openapi[1] IN
    IF operation.responses = <<>> THEN [operation EXCEPT !.responses = Undocumented] ELSE operation

\* Mutant of OperationOf: an id the author wrote is kept.
OperationOfOverridden(route) ==
    LET operation == Authored(route) IN
    IF \/ "responses" \in operation.malformed
       \/ route.contract # <<>> /\ ~validate_contract(route, operation) THEN Refused
    ELSE LET complete == ensure_path_parameters(route.path, operation) IN
         IF complete.ok
         THEN Accepted([complete.value EXCEPT !.operationId = IF @ = <<>> THEN <<route.id>> ELSE @])
         ELSE Refused

OperationOf(route) ==
    LET operation == Authored(route) IN
    IF \/ operation.operationId # <<>> \/ "responses" \in operation.malformed
       \/ route.contract # <<>> /\ ~validate_contract(route, operation) THEN Refused
    ELSE LET complete == ensure_path_parameters(route.path, operation) IN
         IF complete.ok THEN Accepted([complete.value EXCEPT !.operationId = <<route.id>>]) ELSE Refused

AssembleRoute(doc, route) ==
    LET path == openapi_path(route)
        method == Uppercased(route.method) IN
    IF \/ ~path.ok \/ method \notin Methods \/ route.id = "" \/ route.id \in doc.ids THEN [doc EXCEPT !.ok = FALSE]
    ELSE LET operation == OperationOf(route) IN
         IF ~operation.ok \/ \E o \in doc.paths : <<o.path, o.method>> = <<path.value, method>>
         THEN [doc EXCEPT !.ok = FALSE]
         ELSE [doc EXCEPT !.ids = @ \cup {route.id},
                          !.paths = @ \cup {[path |-> path.value, method |-> method, operation |-> operation.value,
                                             route |-> route]}]

assemble(described) ==
    LET routes == FlattenSeq([i \in DOMAIN described |-> described[i].routes])
        doc == FoldLeft(LAMBDA d, r : IF d.ok THEN AssembleRoute(d, r) ELSE d,
                        [ok |-> TRUE, ids |-> {}, paths |-> {}], routes) IN
    [doc EXCEPT !.ok = @ /\ doc.paths # {}]

(***************************************************************************)
(* The plugin's lifecycle.  activate awaits one description after another.  *)
(***************************************************************************)
OpenApiInit ==
    /\ bound \in BoundEndpoints
    /\ activation = "inactive" /\ descriptions = <<>> /\ document = <<>> /\ answered = "none"

Describe ==
    /\ activation \in {"inactive", "describing"} /\ Len(descriptions) < Len(bound)
    /\ LET next == bound[Len(descriptions) + 1] IN
       IF next.described
       THEN activation' = "describing" /\ descriptions' = Append(descriptions, next)
       ELSE activation' = "failed" /\ UNCHANGED descriptions
    /\ UNCHANGED <<bound, document, answered>>

Assemble ==
    /\ activation \in {"inactive", "describing"} /\ Len(descriptions) = Len(bound)
    /\ LET doc == assemble(descriptions) IN
       IF doc.ok THEN activation' = "active" /\ document' = <<doc.paths>>
       ELSE activation' = "failed" /\ UNCHANGED document
    /\ UNCHANGED <<bound, descriptions, answered>>

\* Mutant of OpenApiDeactivate: the document stays.
OpenApiDeactivateKept ==
    /\ activation = "active" /\ activation' = "stopped"
    /\ UNCHANGED <<bound, descriptions, document, answered>>

OpenApiDeactivate ==
    /\ activation = "active" /\ activation' = "stopped"
    /\ document' = <<>>
    /\ UNCHANGED <<bound, descriptions, answered>>

\* handle, whenever the Kernel lets a call through.
HandleDocument(route) ==
    /\ answered = "none"
    /\ answered' = IF route # "lenso.openapi.document" THEN "Rejected"
                   ELSE IF document = <<>> THEN "Internal" ELSE "ok " \o activation
    /\ UNCHANGED <<bound, activation, descriptions, document>>

OpenApiNext ==
    \/ Describe \/ Assemble \/ OpenApiDeactivate
    \/ \E route \in {"lenso.openapi.document", "other"} : HandleDocument(route)

(***************************************************************************)
(* What a schema means: a reference definition for the keywords of use.     *)
(***************************************************************************)
Subgoals(g) ==
    LET f == g.schema[2]
        Ref_ == IF "$ref" \in DOMAIN f THEN {resolve_schema_reference(f["$ref"], g.root)} ELSE {}
        Fields == IF "properties" \in DOMAIN f /\ g.value[1] = "obj"
                  THEN DOMAIN f["properties"][2] \cap DOMAIN g.value[2] ELSE {} IN
    {[schema |-> r.target, root |-> r.root, value |-> g.value] : r \in Ref_} \cup
    {[schema |-> f["properties"][2][n], root |-> g.root, value |-> g.value[2][n]] : n \in Fields}

Admits(f, value) ==
    /\ "type" \in DOMAIN f => value[1] = [object |-> "obj", string |-> "str", integer |-> "int"][f["type"][2]]
    /\ "required" \in DOMAIN f /\ value[1] = "obj" =>
          \A i \in DOMAIN f["required"][2] : f["required"][2][i][2] \in DOMAIN value[2]

RECURSIVE Valid(_)
Valid(g) == Admits(g.schema[2], g.value) /\ \A h \in Subgoals(g) : Valid(h)

SameMeaning(s, t) ==
    LET Of_(schema, v) == [schema |-> schema, root |-> schema, value |-> v] IN
    \A v \in SampleBodies : Valid(Of_(s, v)) = Valid(Of_(t, v))

\* Property names that are also annotations of a schema.
Masked(schema) ==
    "properties" \in DOMAIN schema[2] /\ DOMAIN schema[2]["properties"][2] \cap Annotations # {}

(***************************************************************************)
(* Properties.                                                              *)
(***************************************************************************)
Published == IF document = <<>> THEN {} ELSE document[1]
Strict_(o) == o.route.contract # <<>>
BodyOf(o) == o.operation.body

\* In a published strict operation the authored JSON body accepts what the
\* handler's type accepts, whatever references, order and annotations the
\* author used (contract.rs, canonical_schema), as long as no field has the
\* name of an annotation.
StrictBodiesAgree ==
    \A o \in Published : Strict_(o) /\ BodyOf(o) # <<>> =>
        LET authored == resolve_component(BodyOf(o)[1], "requestBodies").value.schema
            derived == o.route.contract[1].body[1].schema IN
        ~Masked(derived) => SameMeaning(authored, derived)

\* The same without the exception: README.md:434-437, "rejects drift in the
\* route ID, method, path, path/query parameters, JSON request body, ...".
StrictMeansNoDrift ==
    \A o \in Published : Strict_(o) /\ BodyOf(o) # <<>> =>
        SameMeaning(resolve_component(BodyOf(o)[1], "requestBodies").value.schema,
                    o.route.contract[1].body[1].schema)

\* A published strict operation documents the success and every problem its
\* handler's extractors and errors can answer with (validate_responses).
RejectionsAreDocumented ==
    \A o \in Published : Strict_(o) =>
        {p.status : p \in o.route.contract[1].problems} \cup {o.route.contract[1].success.status}
            \subseteq DOMAIN o.operation.responses[1]

InPlaceOnce(parameters) ==
    /\ \A p \in ToSet(parameters) : p.ref = <<>>
    /\ \A i, j \in DOMAIN parameters : Key(parameters[i]) = Key(parameters[j]) => i = j

\* A client generator finds every parameter of a documented path declared once
\* and required: of what the author declared in place, nothing is declared
\* again and nothing is left out (ensure_path_parameters).
PathParametersDeclaredOnce ==
    \A o \in Published : InPlaceOnce(Authored(o.route).parameters) =>
        \A i \in DOMAIN Parameters(o.path) :
            Cardinality({j \in DOMAIN o.operation.parameters :
                            LET p == o.operation.parameters[j] IN
                            p.in = "path" /\ p.name = Parameters(o.path)[i].v /\ p.required = "yes"}) = 1

\* Document and dispatch agree: if the Ingress resolves the same providers,
\* a request for a documented path and method reaches the route the document
\* names (assemble, RouteTable::resolve).
DocumentedIsServed ==
    \A o \in Published :
        LET table == Resolve(bound, <<>>, <<>>, FALSE)
            found == Lookup(table, o.method, [i \in DOMAIN o.path |-> IF o.path[i].k = "lit" THEN o.path[i].v ELSE "?"]) IN
        table.ok => found.found /\ <<found.route.id>> = o.operation.operationId

\* The document is served only between activation and deactivation, and a
\* failed activation leaves none (lib.rs, activate, deactivate, handle).
ServedWhileActive ==
    /\ document # <<>> => activation = "active"
    /\ answered \in {"none", "Rejected", "Internal", "ok active"}

(***************************************************************************)
(* RouteTable over the same providers.                                      *)
(***************************************************************************)
Concrete(path) == [i \in DOMAIN path |-> IF path[i].k = "lit" THEN path[i].v ELSE "?"]
Reversed == Reverse(bound)

\* Replicas compare manifests, so a Plan's order of providers must not show:
\* resolution succeeds or fails alike, with one manifest (RouteTable::resolve,
\* WebIngressRouteManifest::new).
ManifestIgnoresOrder ==
    LET there == Resolve(bound, <<>>, <<>>, FALSE)
        back == Resolve(Reversed, <<>>, <<>>, FALSE) IN
    there.ok = back.ok /\ (there.ok => Manifest(there) = Manifest(back))

\* Every route of a resolved table can be reached: some path leads to it and to
\* no other (RouteTable::resolve, dispatch).
EveryRouteReachable ==
    LET table == Resolve(bound, <<>>, <<>>, FALSE) IN
    table.ok => \A r \in table.routes : At(Of(table.routes, r.method), Concrete(r.path)) = {r}

\* What the document says of an operation is what the App does: its bodies,
\* answers and path parameters are those of the handler, and the path leads to it;
\* and no document outlives its activation (assemble, contract.rs, handle).
DocumentIsTrue ==
    /\ StrictBodiesAgree /\ RejectionsAreDocumented /\ PathParametersDeclaredOnce
    /\ DocumentedIsServed /\ ServedWhileActive

\* Replicas that bind the same providers resolve one table, whatever the order, and
\* no route of it hides another (RouteTable::resolve).
RoutesAreUnambiguous == ManifestIgnoresOrder /\ EveryRouteReachable
=============================================================================
