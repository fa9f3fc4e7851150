------------------------- MODULE EndpointAuthoring -------------------------
(***************************************************************************)
(* How an HTTP Endpoint is authored.  The #[endpoint] macro expands a       *)
(* handler into a route, a dispatch arm and, when it is marked strict, a    *)
(* contract derived from its types (lenso-capability-http-endpoint-macros); *)
(* validate_endpoint_routes checks the table at compile time; the           *)
(* extractors decode a request at run time (extract.rs, response.rs).       *)
(*                                                                          *)
(* A handler is [id, method, path, middlewares, arguments, success, error,  *)
(* openapi, contract, types].  An argument is the last identifier of its    *)
(* type; "Actor" stands for an extractor of the application's own, as       *)
(* lenso-http-auth provides.  types gives the schemas of the types: the     *)
(* names of the path and query fields and the body's and response's schema. *)
(***************************************************************************)
EXTENDS Integers, Sequences, SequencesExt, FiniteSets

Problem(status, code) == [status |-> status, code |-> code]
Accepted(value) == [ok |-> TRUE, value |-> value]
Refused == [ok |-> FALSE]

CountArguments(arguments, kinds) == Cardinality({i \in DOMAIN arguments : arguments[i] \in kinds})

(***************************************************************************)
(* Expansion.                                                               *)
(***************************************************************************)
\* The problems a typed extractor can answer with, as the macro lists them.
ContractProblems(argument) ==
    CASE argument = "Path" -> {Problem(400, "invalid_path_parameters")}
      [] argument = "QueryParams" -> {Problem(400, "invalid_query")}
      [] argument \in {"Json", "Option<Json>"} ->
            {Problem(400, "invalid_json_body"), Problem(415, "json_content_type_required")}
      [] OTHER -> {}

\* Mutant of derive_strict_request_shape: an optional body lists no problems.
derive_strict_request_shape_optional(arguments) ==
    IF /\ \A i \in DOMAIN arguments : arguments[i] \in
             {"InvocationContext", "RequestId", "Path", "QueryParams", "Json", "Option<Json>"}
       /\ \A kinds \in {{"Path"}, {"QueryParams"}, {"Json", "Option<Json>"}} :
             CountArguments(arguments, kinds) <= 1
    THEN Accepted(UNION {ContractProblems(arguments[i]) :
                         i \in {j \in DOMAIN arguments : arguments[j] # "Option<Json>"}})
    ELSE Refused

derive_strict_request_shape(arguments) ==
    IF /\ \A i \in DOMAIN arguments : arguments[i] \in
             {"InvocationContext", "RequestId", "Path", "QueryParams", "Json", "Option<Json>"}
       /\ \A kinds \in {{"Path"}, {"QueryParams"}, {"Json", "Option<Json>"}} :
             CountArguments(arguments, kinds) <= 1
    THEN Accepted(UNION {ContractProblems(arguments[i]) : i \in DOMAIN arguments})
    ELSE Refused

strict_success_type(success, declared) ==
    CASE success = "Json" /\ declared \in {<<>>, <<200>>} -> Accepted(200)
      [] success = "(StatusCode, Json)" /\ declared # <<>> ->
            IF declared[1] \in 200..299 THEN Accepted(declared[1]) ELSE Refused
      [] OTHER -> Refused

extend_problem_contract(error, errors, problems) ==
    IF \/ /\ error = "Problem"
          /\ errors # <<>>
          /\ \A i \in DOMAIN errors : errors[i].status \in 400..599 /\ errors[i].code # ""
          /\ IsInjective(errors) /\ ToSet(errors) \cap problems = {}
       \/ error = "EndpointHandleInvocationError" /\ errors = <<>>
    THEN Accepted(problems \cup ToSet(errors)) ELSE Refused

\* OpenApiContract: the fragment the generated factory builds.
Has(handler, kind) == \E i \in DOMAIN handler.arguments : handler.arguments[i] = kind

add_parameters(location, fields) ==
    {[in |-> location, name |-> f.name, schema |-> f.schema, required |-> location = "path" \/ f.required] :
        f \in fields}

set_json_body(handler) ==
    IF Has(handler, "Json") \/ Has(handler, "Option<Json>")
    THEN <<[required |-> Has(handler, "Json"), schema |-> handler.types.body]>> ELSE <<>>

contract_factory(handler, status, problems) ==
    LET path == IF Has(handler, "Path") THEN handler.types.path ELSE {}
        query == IF Has(handler, "QueryParams") THEN handler.types.query ELSE {} IN
    IF (Has(handler, "Path") /\ path = {}) \/ (Has(handler, "QueryParams") /\ query = {}) THEN Refused
    ELSE Accepted([id |-> handler.id, method |-> handler.method, path |-> handler.path,
                   parameters |-> add_parameters("path", path) \cup add_parameters("query", query),
                   body |-> set_json_body(handler),
                   success |-> [status |-> status, schema |-> handler.types.response],
                   problems |-> problems])

derive_endpoint_contract(handler) ==
    LET shape == derive_strict_request_shape(handler.arguments)
        success == strict_success_type(handler.success, handler.contract[1].success) IN
    IF ~shape.ok \/ ~success.ok THEN Refused
    ELSE LET problems == extend_problem_contract(handler.error, handler.contract[1].errors, shape.value) IN
         IF problems.ok THEN contract_factory(handler, success.value, problems.value) ELSE Refused

handler_arguments(arguments) ==
    /\ CountArguments(arguments, {"InvocationContext"}) <= 1
    /\ CountArguments(arguments, {"HandleRequest"}) <= 1

\* The HTTP attributes of a handler.
http_method == {"GET", "POST", "PUT", "PATCH", "DELETE", "HEAD", "OPTIONS", "QUERY"}

\* The route's id is the only operationId.
validate_openapi_operation(operation) == operation.operationId = <<>>

\* The loop of expand_endpoint_with_registration; a contract's own failure is
\* reported by describe, the rest by the compiler.
Compiles(handler) ==
    /\ handler.method \in http_method /\ handler_arguments(handler.arguments)
    /\ \A i \in DOMAIN handler.openapi : validate_openapi_operation(handler.openapi[i])
    /\ handler.contract # <<>> =>
          /\ handler.openapi # <<>>
          /\ derive_strict_request_shape(handler.arguments).ok
          /\ strict_success_type(handler.success, handler.contract[1].success).ok
          /\ extend_problem_contract(handler.error, handler.contract[1].errors,
                 derive_strict_request_shape(handler.arguments).value).ok

\* A token without lower-case letters.
valid_method(method) == method \notin {"", "get ", "post", "bad method"}

\* validate_endpoint_routes, over paths as text (two templates that differ only
\* in a parameter's name are different here).
validate_endpoint_routes(handlers) ==
    /\ handlers # <<>>
    /\ \A i \in DOMAIN handlers :
          /\ handlers[i].id # "" /\ valid_method(handlers[i].method) /\ handlers[i].wellformed
          /\ \A j \in 1 .. i - 1 :
                /\ handlers[j].id # handlers[i].id
                /\ <<handlers[j].method, handlers[j].path>> # <<handlers[i].method, handlers[i].path>>

\* What #[endpoint] accepts as one provider.
Authors(handlers) == validate_endpoint_routes(handlers) /\ \A i \in DOMAIN handlers : Compiles(handlers[i])

\* A route's contract is built when it is described.
into_description(handler) ==
    LET contract == IF handler.contract = <<>> THEN Accepted(<<>>) ELSE derive_endpoint_contract(handler) IN
    IF ~contract.ok THEN Refused
    ELSE Accepted([id |-> handler.id, method |-> handler.method, path |-> handler.path,
                   wellformed |-> handler.wellformed, openapi |-> handler.openapi,
                   contract |-> IF handler.contract = <<>> THEN <<>> ELSE <<contract.value>>])

describe(handlers) ==
    LET routes == [i \in DOMAIN handlers |-> into_description(handlers[i])] IN
    IF \E i \in DOMAIN handlers : ~routes[i].ok THEN [described |-> FALSE]
    ELSE [described |-> TRUE, routes |-> [i \in DOMAIN handlers |-> routes[i].value]]

(***************************************************************************)
(* Extraction.  fits tells whether the decoder accepts the data for the     *)
(* argument's type; the answer is a value (Accepted) or a problem.          *)
(***************************************************************************)
Rejection(status, code) == [ok |-> FALSE, problem |-> Problem(status, code)]

extract_json(request, fits) ==
    IF ~request.json THEN Rejection(415, "json_content_type_required")
    ELSE IF request.body # "" /\ fits THEN Accepted("value") ELSE Rejection(400, "invalid_json_body")

extract_path(fits) == IF fits THEN Accepted("value") ELSE Rejection(400, "invalid_path_parameters")

extract_query(fits) == IF fits THEN Accepted("value") ELSE Rejection(400, "invalid_query")

FromRequest(argument, request, fits) ==
    CASE argument = "Json" -> extract_json(request, fits)
      [] argument = "Option<Json>" ->
            IF request.body = "" THEN Accepted("none") ELSE extract_json(request, fits)
      [] argument = "Path" -> extract_path(fits)
      [] argument = "QueryParams" -> extract_query(fits)
      [] OTHER -> Accepted("value")

\* The steps of a dispatch arm: the provider's middleware, the route's, then the
\* extractors in the order of the arguments.
Extractors(handler) ==
    SelectSeq(handler.arguments, LAMBDA a : a \notin {"InvocationContext", "HandleRequest"})
=============================================================================
