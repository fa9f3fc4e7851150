------------------------------ MODULE WebHost ------------------------------
(***************************************************************************)
(* NativeWebHost (lenso-web-host/src/lib.rs): an App is written as a chain  *)
(* of builder calls, resolved into one Plan, and started as a single        *)
(* Kernel, as one Kernel per lane behind one listener, in event mode, or    *)
(* prepared for the socket-free requests of simulated.rs.                   *)
(*                                                                          *)
(* An instance is [plugin, key, lane, config]; lane is optional.  A root is *)
(* the Plugin Root snapshot [instances, disabled, choices], choices being   *)
(* the adopted dependency selection if any; config is optional as well: no  *)
(* configuration overlays nothing.  What the Kernel's planner does with a   *)
(* catalog (resolve_plugin_root) is external.                               *)
(***************************************************************************)
EXTENDS IngressConfig, SequencesExt

CONSTANTS
    Ingress,      \* the package of the Web Ingress
    Plugins,      \* packages an App may select
    Linked,       \* those the inventory finds linked into the binary
    Provides(_),  \* capabilities of a package
    SlotOf(_),    \* its root slot
    LaneOrder,    \* the lane names in the order of a BTreeSet
    InstanceKeys, \* instance keys an App writes
    Configs,      \* ingress configurations an App deserializes
    Roots,        \* Plugin Root snapshots an App loads
    ExtraBindings, \* bindings an App adds itself
    CookiePolicies, \* session Cookie policies an App writes
    SocketPolicies, \* WebSocket policies an App writes
    Identities,   \* middleware identities
    Classes,      \* execution classes of extra Adapters; "native" is built in
    MaxHostCalls, \* bound: builder calls before the start
    MaxSimulatedCalls, \* bound: builder calls of a Host whose requests are followed
    Clones        \* holders of one simulated request

VARIABLES host, calls, outcome, simulated

hostVars == <<host, calls, outcome, simulated>>

Main == "main"
Default == "default"
ReplicaKey(lane) == "replica-" \o lane
Instance(plugin, key, lane, config) == [plugin |-> plugin, key |-> key, lane |-> lane, config |-> config]
Id(i) == <<i.plugin, i.key>>
EmptyRoot == [instances |-> <<>>, disabled |-> {}, choices |-> <<>>]

NewHost == [bind |-> <<>>, config |-> DefaultConfig, root |-> EmptyRoot, defaults |-> <<>>,
            releases |-> {}, factories |-> <<>>, middleware |-> <<>>, diagnostics |-> <<>>,
            adapters |-> <<>>, bindings |-> {}]
Building == [kind |-> "building", error |-> "none"]

HostInit ==
    /\ host = NewHost /\ calls = 0 /\ outcome = Building
    /\ simulated = [request |-> "some", token |-> FALSE, dispatched |-> 0, session |-> "none",
                    answer |-> [c \in Clones |-> "none"]]

(***************************************************************************)
(* The Plugin Root.                                                         *)
(***************************************************************************)
\* An instance selected again is replaced where it stands, and keeps its lane
\* unless the call names one; the rest of the root is rebuilt as it was.
push_instance(root, plugin, key, config, lane) ==
    LET known == {i \in DOMAIN root.instances : Id(root.instances[i]) = <<plugin, key>>}
        Replacement(old) == Instance(plugin, key, IF lane # <<>> THEN lane ELSE old, config) IN
    [root EXCEPT !.instances =
        IF known # {} THEN [i \in DOMAIN @ |-> IF i \in known THEN Replacement(@[i].lane) ELSE @[i]]
        ELSE Append(@, Replacement(<<>>))]

(***************************************************************************)
(* Plan resolution.                                                         *)
(***************************************************************************)
\* The ingress configuration a Host plans: .bind overrides the address.
PlannedConfig(h) == IF h.bind = <<>> THEN [ok |-> TRUE, value |-> h.config]
                    ELSE with_bind_address(h.config, h.bind[1])

Releases(h) == {Ingress} \cup Linked \cup ToSet(h.factories) \cup h.releases

endpoint_ids_for(ids, releases, capability) ==
    SelectSeq(ids, LAMBDA id : id[1] \in releases /\ capability \in Provides(id[1]))

\* The bindings of one ingress: HTTP always, the others when there is a provider.
BindingsOf(ingress, ids, releases, admission) ==
    LET To(capability) == endpoint_ids_for(ids, releases, capability)
        Binding(capability) == [from |-> ingress, capability |-> capability,
                                to |-> ToSet(To(capability)), admission |-> admission] IN
    {Binding("http")} \cup {Binding(c) : c \in {d \in {"stream", "websocket"} : To(d) # <<>>}}

resolve_web_plan(h, config, replicated) ==
    LET releases == Releases(h)
        defaults == <<Instance(Ingress, Default, <<>>, <<config>>)>> \o h.defaults
        ids == [i \in DOMAIN (defaults \o h.root.instances) |-> Id((defaults \o h.root.instances)[i])]
        http == endpoint_ids_for(ids, releases, "http")
        ingresses == {id \in ToSet(ids) : id[1] = Ingress}
        single == {s \in {SlotOf(p) : p \in releases} :
                      Cardinality({p \in releases : SlotOf(p) = s}) = 1
                      /\ ~(replicated /\ s = SlotOf(Ingress))}
    IN IF http = <<>> THEN [ok |-> FALSE, error |-> "MissingEndpoint"]
       ELSE [ok |-> TRUE,
             catalog |-> [single |-> single, releases |-> releases, defaults |-> defaults,
                          bindings |-> UNION {BindingsOf(i, ids, releases, endpoint_admission_limits(config)) :
                                              i \in ingresses} \cup h.bindings,
                          lanes |-> {Main} \cup {i.lane[1] : i \in {j \in ToSet(h.root.instances) : j.lane # <<>>}}]]

\* resolve_plugin_root (external): a root instance overlays the default of its
\* id; an instance without a lane runs on "main"; a slot for one holds one.
Overlay(catalog, root) ==
    LET all == catalog.defaults \o root.instances
        Last_(id) == CHOOSE i \in DOMAIN all : Id(all[i]) = id /\ \A j \in DOMAIN all : Id(all[j]) = id => j <= i
        Configured(id) == {i \in DOMAIN all : Id(all[i]) = id /\ all[i].config # <<>>}
    IN {[id |-> id,
         lane |-> IF all[Last_(id)].lane = <<>> THEN Main ELSE all[Last_(id)].lane[1],
         config |-> IF Configured(id) = {} THEN <<>>
                    ELSE all[CHOOSE i \in Configured(id) : \A j \in Configured(id) : j <= i].config] :
        id \in {Id(all[i]) : i \in DOMAIN all} \ root.disabled}

Accepts(catalog, instances) ==
    /\ \A i \in instances : i.id[1] \in catalog.releases /\ i.lane \in catalog.lanes
    /\ \A s \in catalog.single : Cardinality({i \in instances : SlotOf(i.id[1]) = s}) <= 1
    /\ \A b \in catalog.bindings : b.to \cup {b.from} \subseteq {i.id : i \in instances}

resolve_plan_with_replication(h, replicated) ==
    LET config == PlannedConfig(h) IN
    IF ~config.ok THEN [ok |-> FALSE, error |-> "Bind"]
    ELSE LET resolved == resolve_web_plan(h, config.value, replicated) IN
         IF ~resolved.ok THEN resolved
         ELSE LET instances == Overlay(resolved.catalog, h.root) IN
              IF ~Accepts(resolved.catalog, instances) THEN [ok |-> FALSE, error |-> "Plan"]
              ELSE [ok |-> TRUE, plan |-> [instances |-> instances, bindings |-> resolved.catalog.bindings,
                                           lanes |-> resolved.catalog.lanes]]

(***************************************************************************)
(* Starting.                                                                *)
(***************************************************************************)
Failed(error) == [kind |-> "failed", error |-> error]

IngressesOf(plan) == {i \in plan.instances : i.id[1] = Ingress}

\* Mutant of Instantiates: a deserialized configuration is taken as it is.
InstantiatesUnchecked(plan, middleware, coordinator) ==
    /\ \A i \in IngressesOf(plan) :
          /\ coordinator # <<>> => i.config = coordinator
          /\ \A j \in IngressesOf(plan) : j.lane = i.lane => j = i
    /\ \A m \in ToSet(middleware) : m # ""

\* NativePluginFactory::instantiate for every ingress of a Plan; replicas must
\* have the coordinator's configuration, and a slot or factory serves one.
Instantiates(plan, middleware, coordinator) ==
    /\ \A i \in IngressesOf(plan) :
          /\ i.config # <<>> /\ validate(i.config[1])
          /\ coordinator # <<>> => i.config = coordinator
          /\ \A j \in IngressesOf(plan) : j.lane = i.lane => j = i
    /\ \A m \in ToSet(middleware) : m # ""

Catalogued(adapters) == IsInjective(<<"native">> \o adapters)

Running(h, mode, plan) ==
    [kind |-> "running", error |-> "none", mode |-> mode, plan |-> plan,
     middleware |-> h.middleware, diagnostics |-> h.diagnostics, factories |-> h.factories,
     adapters |-> h.adapters, slots |-> <<>>, replicas |-> 0]

\* start and start_event: one Kernel, every extra Adapter in its catalog.
StartSingle(h, mode) ==
    LET resolved == resolve_plan_with_replication(h, FALSE) IN
    IF ~resolved.ok THEN Failed(resolved.error)
    ELSE IF ~Catalogued(h.adapters) THEN Failed("Adapter")
    ELSE IF ~Instantiates(resolved.plan, h.middleware, <<>>) THEN Failed("Runtime")
    ELSE Running(h, mode, resolved.plan)

\* Mutant of prepare_simulated: extra Adapters are left out of the test App.
prepare_simulated_without_adapters(h) == StartSingle([h EXCEPT !.adapters = <<>>], "simulated")

\* The test runtime boots the parts with no Adapter but the native one.
prepare_simulated(h) ==
    IF resolve_plan_with_replication(h, FALSE).ok /\ h.adapters # <<>> THEN Failed("SimulationUnsupported")
    ELSE StartSingle(h, "simulated")

\* One Ingress replica for every lane but "main", whose Ingress is the default.
WithReplicas(h, lanes, config) ==
    FoldLeft(LAMBDA g, lane : [g EXCEPT !.root = push_instance(@, Ingress, ReplicaKey(lane), <<config>>, <<lane>>)],
             h, SelectSeq(LaneOrder, LAMBDA lane : lane \in lanes \ {Main}))

\* Mutant of ReplicaConfig: the replicas miss the overridden address.
ReplicaConfigUnbound(h) == h.config

ReplicaConfig(h) == PlannedConfig(h).value

\* Mutant of FinalPlan: the bindings are those resolved before the replicas.
FinalPlanUnbound(h, initial) ==
    LET resolved == resolve_plan_with_replication(WithReplicas(h, initial.lanes, ReplicaConfig(h)), TRUE) IN
    IF resolved.ok THEN [resolved EXCEPT !.plan.bindings = initial.bindings] ELSE resolved

\* The replicas are selected and the Plan resolved again.
FinalPlan(h, initial) ==
    resolve_plan_with_replication(WithReplicas(h, initial.lanes, ReplicaConfig(h)), TRUE)

\* Mutant of LaneIndex: places count from one.
LaneIndexFromOne(lanes, lane) ==
    Cardinality({l \in lanes : \E i, j \in DOMAIN LaneOrder : LaneOrder[i] = l /\ LaneOrder[j] = lane /\ i <= j})

\* lane_indexes: the place of a lane among the Plan's lanes.
LaneIndex(lanes, lane) ==
    Cardinality({l \in lanes : \E i, j \in DOMAIN LaneOrder : LaneOrder[i] = l /\ LaneOrder[j] = lane /\ i < j})

\* start_replicated, up to the start of the lanes; single-lane values are
\* refused rather than shared between lanes.
start_replicated(h) ==
    LET initial == resolve_plan_with_replication(h, TRUE)
        final == FinalPlan(h, initial.plan)
        lanes == final.plan.lanes
        config == PlannedConfig(h).value IN
    IF h.factories # <<>> \/ h.middleware # <<>> \/ h.diagnostics # <<>> \/ h.adapters # <<>>
    THEN Failed("ReplicationUnsupported")
    ELSE IF ~initial.ok THEN Failed(initial.error)
    ELSE IF ~final.ok THEN Failed(final.error)
    ELSE IF ~validate(config) \/ ~Instantiates(final.plan, <<>>, <<config>>) THEN Failed("Runtime")
    ELSE [Running(h, "replicated", final.plan) EXCEPT
            !.slots = [lane \in lanes |-> LaneIndex(lanes, lane)], !.replicas = Cardinality(lanes)]

(***************************************************************************)
(* The App's calls.                                                         *)
(***************************************************************************)
Builds(next) ==
    /\ outcome = Building /\ calls < MaxHostCalls
    /\ calls' = calls + 1
    /\ host' = next
    /\ UNCHANGED <<outcome, simulated>>

Bind(address) == Builds([host EXCEPT !.bind = <<address>>])
WithIngressConfig(config) == Builds([host EXCEPT !.config = config])

\* A builder of WebIngressConfig that returned Ok.
Configure(built) == built.ok /\ Builds([host EXCEPT !.config = built.value])

\* plugin, plugin_with, instance, enable and their forms that name a lane.
Select(plugin, key, config, lane) ==
    Builds([host EXCEPT !.root = push_instance(@, plugin, key, config, lane)])

Factory(plugin) ==
    Builds([host EXCEPT !.factories = Append(@, plugin),
                        !.root = push_instance(@, plugin, Default, <<>>, <<>>)])
Release(plugin) == Builds([host EXCEPT !.releases = @ \cup {plugin}])
Root(root) == Builds([host EXCEPT !.root = root])
WithDefault(plugin) == Builds([host EXCEPT !.defaults = Append(@, Instance(plugin, Default, <<>>, <<>>))])
WithBinding(binding) == Builds([host EXCEPT !.bindings = @ \cup {binding}])
WithMiddleware(identity) == Builds([host EXCEPT !.middleware = Append(@, identity)])
WithDiagnostics == Builds([host EXCEPT !.diagnostics = <<"observer">>])
WithAdapter(class) == Builds([host EXCEPT !.adapters = Append(@, class)])

Starts(mode) ==
    /\ outcome = Building
    /\ outcome' = CASE mode = "replicated" -> start_replicated(host)
                     [] mode = "simulated" -> prepare_simulated(host)
                     [] OTHER -> StartSingle(host, mode)
    /\ UNCHANGED <<host, calls, simulated>>

(***************************************************************************)
(* A simulated request (simulated.rs): its clones share the request and the *)
(* token.                                                                   *)
(***************************************************************************)
Simulating == outcome.kind = "running" /\ outcome.mode = "simulated" /\ calls <= MaxSimulatedCalls

\* Mutant of Take: the request is cloned out of its cell.
TakeCloned(s) == s

Take(s) == [s EXCEPT !.request = "none"]

\* send_response: the first clone to send takes the request.
SendSimulated(clone, expected) ==
    /\ Simulating /\ simulated.answer[clone] = "none"
    /\ simulated' = IF simulated.request = "none"
                    THEN [simulated EXCEPT !.answer[clone] = "AlreadyDispatched"]
                    ELSE [Take(simulated) EXCEPT !.answer[clone] = expected, !.dispatched = @ + 1]
    /\ UNCHANGED <<host, calls, outcome>>

Waiting(clone) == simulated.answer[clone] \in {"buffered", "stream", "websocket"}

\* The event ingress answers; a body of another kind is dropped, which ends it.
AnswerSimulated(clone, body) ==
    /\ Simulating /\ Waiting(clone)
    /\ simulated' = [simulated EXCEPT
          !.answer[clone] = IF body = @ THEN "Ok" ELSE IF body = "failed" THEN "Runtime" ELSE "UnexpectedBody",
          !.session = IF body \in {"stream", "websocket"}
                      THEN (IF body = simulated.answer[clone] THEN "held" ELSE "dropped") ELSE @]
    /\ UNCHANGED <<host, calls, outcome>>

\* disconnect, on any clone.
Disconnect ==
    /\ Simulating /\ ~simulated.token
    /\ simulated' = [simulated EXCEPT !.token = TRUE]
    /\ UNCHANGED <<host, calls, outcome>>

BuildStep ==
    \/ Bind("public")
    \/ \E config \in Configs : WithIngressConfig(config)
    \/ \E l \in Limits, v \in 0 .. MaxLimit + 1 : Configure(with_limit(host.config, l, v))
    \/ \E policy \in CookiePolicies : Configure(with_session_cookie(host.config, policy))
    \/ \E policy \in SocketPolicies : Configure(with_websocket(host.config, policy))
    \/ \E p \in Plugins, k \in InstanceKeys, lane \in {<<>>} \cup {<<l>> : l \in ToSet(LaneOrder)} : Select(p, k, <<>>, lane)
    \/ \E p \in Plugins : Factory(p) \/ Release(p) \/ WithDefault(p)
    \/ \E root \in Roots : Root(root)
    \/ \E binding \in ExtraBindings : WithBinding(binding)
    \/ \E identity \in Identities : WithMiddleware(identity)
    \/ WithDiagnostics
    \/ \E class \in Classes : WithAdapter(class)

HostNext ==
    \/ BuildStep
    \/ \E mode \in {"native", "event", "simulated", "replicated"} : Starts(mode)
    \/ \E clone \in Clones :
          \/ \E expected \in {"buffered", "stream", "websocket"} : SendSimulated(clone, expected)
          \/ \E body \in {"buffered", "stream", "websocket", "failed"} : AnswerSimulated(clone, body)
    \/ Disconnect

(***************************************************************************)
(* Properties.                                                              *)
(***************************************************************************)
Ready == outcome.kind = "running"
LeavesIngressToHost ==
    \A i \in ToSet(host.root.instances) \cup ToSet(host.defaults) : i.plugin # Ingress

\* A Plan that the Host assembled itself is one its own Ingress accepts: with a
\* valid configuration, and Ingress left to the Host, no mode fails because a
\* replica disagrees with the coordinator or shares a slot (start_replicated,
\* validate_config).
OwnPlanIsAccepted ==
    outcome.error = "Runtime" /\ LeavesIngressToHost
        => ~validate(PlannedConfig(host).value) \/ "" \in ToSet(host.middleware)

\* The coordinator's slots are exactly the Plan's lanes, each with one Ingress:
\* otherwise the Ready Gate would never open (lane_indexes, lane_count).
SlotsAreExact ==
    Ready /\ outcome.mode = "replicated" =>
        /\ {outcome.slots[l] : l \in DOMAIN outcome.slots} = 0 .. outcome.replicas - 1
        /\ LeavesIngressToHost =>
              \A l \in outcome.plan.lanes : \E i \in IngressesOf(outcome.plan) : i.lane = l

\* Every Ingress of a started Plan, the replicas included, is bound to every
\* enabled provider of each Endpoint kind, with the ceiling of its own
\* configuration (resolve_web_plan).
EveryEndpointIsBound ==
    Ready => \A i \in IngressesOf(outcome.plan), c \in {"http", "stream", "websocket"} :
        LET providers == {j.id : j \in {k \in outcome.plan.instances : c \in Provides(k.id[1])}} IN
        providers # {} => \E b \in outcome.plan.bindings :
            /\ b.from = i.id /\ b.capability = c /\ b.to = providers
            /\ LeavesIngressToHost => b.admission = endpoint_admission_limits(i.config[1])

\* What an App configured is either running or refused, never left out without
\* a word: middleware, diagnostics, factories and Adapters (start_replicated,
\* prepare_simulated).
NothingIsDropped ==
    Ready =>
        /\ outcome.middleware = host.middleware /\ outcome.diagnostics = host.diagnostics
        /\ outcome.factories = host.factories /\ outcome.adapters = host.adapters
        /\ outcome.mode = "simulated" => host.adapters = <<>>
        /\ outcome.mode = "replicated" =>
              <<host.middleware, host.diagnostics, host.factories>> = <<<<>>, <<>>, <<>>>>

\* No Ingress runs with a configuration that validate refuses, although a
\* deserialized one is checked by no builder (instantiate, bind).
RunningConfigIsValid == Ready => \A i \in IngressesOf(outcome.plan) : validate(i.config[1])

\* A simulated request reaches the Ingress once, whatever its clones do: at
\* most one of them has an answer or waits for one (send_response).
DispatchedOnce ==
    /\ simulated.dispatched <= 1
    /\ Cardinality({c \in Clones : simulated.answer[c] \notin {"none", "AlreadyDispatched"}}) <= 1

\* A Host that started, in whichever mode and after whichever calls, runs all that
\* it was given: an accepted Plan with exact slots, every Ingress bound to every
\* Endpoint under a valid configuration, and nothing left out (resolve_web_plan,
\* start_replicated, prepare_simulated).
StartedWhole ==
    /\ OwnPlanIsAccepted /\ SlotsAreExact /\ EveryEndpointIsBound
    /\ NothingIsDropped /\ RunningConfigIsValid
=============================================================================
