---------------------------- MODULE RouteTable ----------------------------
(***************************************************************************)
(* RouteTable::resolve and the lookup of a request in it (routing.rs).      *)
(*                                                                          *)
(* A route is [id, method, path, wellformed]; wellformed says that the path *)
(* starts with "/" and has neither "?" nor "#".  A path template is a       *)
(* sequence of segments: a literal, a parameter {p} or a final catch-all    *)
(* {*p}.  The matchit router is external: it is given by when insert        *)
(* refuses a template and which template at returns.                        *)
(***************************************************************************)
EXTENDS Integers, Sequences, SequencesExt, FiniteSets

Lit(v) == [k |-> "lit", v |-> v]
Par(v) == [k |-> "par", v |-> v]
Rest(v) == [k |-> "rest", v |-> v]

\* Parameter names do not tell templates apart.
Shape(template) == [i \in DOMAIN template |->
                      IF template[i].k = "lit" THEN template[i] ELSE [k |-> template[i].k, v |-> ""]]

\* Router::insert refuses a template of a known shape, and a catch-all where
\* another template has a parameter.
Conflicts(s, t) ==
    \/ Shape(s) = Shape(t)
    \/ \E i \in DOMAIN s \cap DOMAIN t :
          /\ SubSeq(Shape(s), 1, i - 1) = SubSeq(Shape(t), 1, i - 1)
          /\ {s[i].k, t[i].k} = {"par", "rest"}

Matches(template, path) ==
    /\ \A i \in DOMAIN template : i \in DOMAIN path /\ (template[i].k = "lit" => template[i].v = path[i])
    /\ Len(path) > Len(template) => template # <<>> /\ Last(template).k = "rest"

\* Router::at prefers a literal at the first segment in which two templates differ.
Preferred(s, t) ==
    \/ s = t
    \/ \E i \in DOMAIN s \cap DOMAIN t :
          /\ SubSeq(Shape(s), 1, i - 1) = SubSeq(Shape(t), 1, i - 1)
          /\ s[i].k = "lit" /\ t[i].k # "lit"

Of(table, method) == {r \in table : r.method = method}

\* Router::at: the target of a path, as a set of at most one route.
At(router, path) ==
    LET matching == {r \in router : Matches(r.path, path)} IN
    {r \in matching : \A s \in matching : Preferred(r.path, s.path)}

Uppercased(method) == IF method = "get " THEN "GET" ELSE IF method = "post" THEN "POST" ELSE method

\* Mutant of InsertRoute: the methods share one collision domain only by name.
InsertRouteByText(table, route, kind, provider) ==
    LET target == [id |-> route.id, path |-> route.path, kind |-> kind, provider |-> provider,
                   method |-> IF kind = "WebSocket" THEN "GET" ELSE Uppercased(route.method)] IN
    IF \/ Uppercased(route.method) = "bad method" \/ route.id = "" \/ ~route.wellformed
       \/ \E r \in Of(table.routes, target.method) : r.path = target.path
    THEN [ok |-> FALSE, routes |-> table.routes]
    ELSE [ok |-> TRUE, routes |-> table.routes \cup {target}]

\* Mutant of InsertRoute: a conflicting route is skipped.
InsertRouteFirstWins(table, route, kind, provider) ==
    LET target == [id |-> route.id, path |-> route.path, kind |-> kind, provider |-> provider,
                   method |-> IF kind = "WebSocket" THEN "GET" ELSE Uppercased(route.method)] IN
    IF Uppercased(route.method) = "bad method" \/ route.id = "" \/ ~route.wellformed
    THEN [ok |-> FALSE, routes |-> table.routes]
    ELSE IF \E r \in Of(table.routes, target.method) : Conflicts(r.path, target.path) THEN table
    ELSE [ok |-> TRUE, routes |-> table.routes \cup {target}]

\* One iteration of the loops over a description's routes.
InsertRoute(table, route, kind, provider) ==
    LET target == [id |-> route.id, path |-> route.path, kind |-> kind, provider |-> provider,
                   method |-> IF kind = "WebSocket" THEN "GET" ELSE Uppercased(route.method)] IN
    IF \/ Uppercased(route.method) = "bad method" \/ route.id = "" \/ ~route.wellformed
       \/ \E r \in Of(table.routes, target.method) : Conflicts(r.path, target.path)
    THEN [ok |-> FALSE, routes |-> table.routes]
    ELSE [ok |-> TRUE, routes |-> table.routes \cup {target}]

\* The providers of one kind in order; a provider that cannot describe itself
\* is [described |-> FALSE].
InsertProviders(table, providers, kind) ==
    FoldLeft(LAMBDA t, i :
               IF ~t.ok THEN t
               ELSE IF ~providers[i].described THEN [t EXCEPT !.ok = FALSE]
               ELSE FoldLeft(LAMBDA u, route :
                               IF u.ok THEN InsertRoute(u, route, kind, i) ELSE u,
                             t, providers[i].routes),
             table, [i \in DOMAIN providers |-> i])

Resolve(buffered, streams, sockets, policy) ==
    LET http == InsertProviders(InsertProviders([ok |-> TRUE, routes |-> {}], buffered, "Buffered"),
                                streams, "Streaming") IN
    IF ~http.ok \/ http.routes = {} \/ (sockets # <<>> /\ ~policy) THEN [http EXCEPT !.ok = FALSE]
    ELSE InsertProviders(http, sockets, "WebSocket")

\* WebIngressRouteManifest::new sorts, so a manifest is a set.
Manifest(table) == {[method |-> r.method, path |-> r.path, id |-> r.id] : r \in table.routes}

AllowedMethods(table, path) == {m \in {r.method : r \in table.routes} : At(Of(table.routes, m), path) # {}}

\* The first lines of dispatch: a target, or the error.
Lookup(table, method, path) ==
    LET target == At(Of(table.routes, method), path) IN
    IF target # {} THEN [found |-> TRUE, route |-> CHOOSE r \in target : TRUE]
    ELSE IF AllowedMethods(table, path) = {} THEN [found |-> FALSE, error |-> "NotFound"]
    ELSE [found |-> FALSE, error |-> "MethodNotAllowed"]
=============================================================================
