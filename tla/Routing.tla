------------------------------- MODULE Routing -------------------------------
(***************************************************************************)
(* RouteMatcher: the ordered route table, the selector each route keeps    *)
(* for choosing among its backends, and what a match hands to a request.   *)
(* One behaviour is the life of one matcher.  A route's two globs are      *)
(* abstracted to the set of models they match on the chat path.            *)
(***************************************************************************)
EXTENDS Integers, SequencesExt

CONSTANTS Models,            \* model names a client may send
          Backends,          \* moaxy.backends: the names in the adapter registry
          Routes,            \* the RouteConfigs of this deployment
          Configs,           \* candidates for moaxy.routes: sequences of Routes
          DefaultFallbacks, DefaultRetry,   \* moaxy.models: functions on Models
          NoBackend,         \* RouteConfig.backend is None
          Unset              \* a field absent from RouteConfig.model_fields_set

ASSUME RoutesAssumption ==
    \A r \in Routes :
        /\ r.models \subseteq Models
        /\ \A m \in DOMAIN r.aliases : r.aliases[m] \in Models
        /\ r.strategy \in {"single", "weighted", "round_robin"}
        /\ Len(r.backends) \in Nat
        /\ DOMAIN r.backends = 1..Len(r.backends)
        /\ \A p \in DOMAIN r.backends : r.backends[p].weight \in Nat

ASSUME ConfigsAssumption == Configs \subseteq Seq(Routes)

VARIABLES
    routes,      \* RouteMatcher._routes
    selectors,   \* RouteMatcher._selectors: route name -> its _BackendSelector
    served       \* history: how often each entry of a route's `backends' was
                 \* chosen since the route entered the table

routingVars == <<routes, selectors, served>>

Positions == 1..Len(routes)
Names == {routes[i].name : i \in Positions}

(***************************************************************************)
(* MoaxyConfig's validators.  A configuration they refuse never becomes a  *)
(* matcher; a route created at run time does not pass the second one.      *)
(***************************************************************************)
UniquelyNamed(config) ==
    \A i, j \in 1..Len(config) : config[i].name = config[j].name => i = j

KnowsItsBackends(route) ==
    /\ route.backend \in Backends \cup {NoBackend}
    /\ \A i \in 1..Len(route.backends) : route.backends[i].name \in Backends

ValidConfig_NamesOnly(config) == UniquelyNamed(config)        \* variant

ValidConfig(config) ==
    /\ UniquelyNamed(config)
    /\ \A i \in 1..Len(config) : KnowsItsBackends(config[i])

(***************************************************************************)
(* _BackendSelector.  The round-robin index grows for ever in the code and *)
(* is read modulo the length of the list: the model keeps the remainder.   *)
(***************************************************************************)
FreshSelector(route) == [route |-> route, index |-> 0]

CumulativeWeight(refs) ==
    LET cumulative[p \in 0..Len(refs)] ==
            IF p = 0 THEN 0 ELSE cumulative[p - 1] + refs[p].weight
    IN  cumulative

\* random.uniform(0, total) never reaches an integral total, and weights are
\* integers: the whole part of the target decides.
WeightedPositions_AtMost(refs) ==      \* variant
    {p \in 1..Len(refs) :
        \E target \in 0..CumulativeWeight(refs)[Len(refs)] :
            /\ target <= CumulativeWeight(refs)[p]
            /\ \A q \in 1..(p - 1) : target > CumulativeWeight(refs)[q]}

WeightedPositions(refs) ==
    IF CumulativeWeight(refs)[Len(refs)] = 0 THEN {1}
    ELSE {p \in 1..Len(refs) :
            \E target \in 0..(CumulativeWeight(refs)[Len(refs)] - 1) :
                /\ target < CumulativeWeight(refs)[p]
                /\ \A q \in 1..(p - 1) : target >= CumulativeWeight(refs)[q]}

Selections_Unwrapped(selector) ==      \* variant
    LET route == selector.route
        refs  == route.backends
        Entry(p, index) ==
            [backend |-> refs[p].name, entry |-> p, index |-> index]
    IN  IF route.strategy = "single" \/ Len(refs) = 0
        THEN {[backend |-> route.backend, entry |-> 0, index |-> selector.index]}
        ELSE IF route.strategy = "weighted"
        THEN {Entry(p, selector.index) : p \in WeightedPositions(refs)}
        ELSE {Entry(selector.index + 1, selector.index + 1)}

\* What select() may return, the entry it took (0: the route's own backend) and
\* the index it leaves behind.
Selections(selector) ==
    LET route == selector.route
        refs  == route.backends
        next  == selector.index + 1
        Entry(p, index) ==
            [backend |-> refs[p].name, entry |-> p, index |-> index]
    IN  IF route.strategy = "single" \/ Len(refs) = 0
        THEN {[backend |-> route.backend, entry |-> 0, index |-> selector.index]}
        ELSE IF route.strategy = "weighted"
        THEN {Entry(p, selector.index) : p \in WeightedPositions(refs)}
        ELSE {Entry(next, IF next = Len(refs) THEN 0 ELSE next)}

(***************************************************************************)
(* _build_route_match, for the chain and the budget the walker is given.   *)
(***************************************************************************)
Resolved(route, model) ==
    IF model \in DOMAIN route.aliases THEN route.aliases[model] ELSE model

Declared(own, default) == IF own = Unset THEN default ELSE own

RouteMatch_ByAlias(route, model, backend) ==      \* variant
    [route |-> route, model |-> model, backend |-> backend,
     chain |-> <<Resolved(route, model)>>
                 \o Declared(route.fallbacks, DefaultFallbacks[model]),
     retry |-> Declared(route.retry, DefaultRetry[model])]

\* Overrides are looked up under the resolved name, never the client's.
RouteMatch(route, model, backend) ==
    LET resolved == Resolved(route, model)
    IN  [route |-> route, model |-> model, backend |-> backend,
         chain |-> <<resolved>>
                     \o Declared(route.fallbacks, DefaultFallbacks[resolved]),
         retry |-> Declared(route.retry, DefaultRetry[resolved])]

-----------------------------------------------------------------------------
NoneServed(route) == [p \in 1..Len(route.backends) |-> 0]

RoutingInit ==
    /\ routes \in {c \in Configs : ValidConfig(c)}
    /\ selectors = [n \in {} |-> 0]
    /\ served = [n \in Names |->
                    NoneServed(routes[CHOOSE i \in Positions : routes[i].name = n])]

With(f, n, value) == [m \in DOMAIN f \cup {n} |-> IF m = n THEN value ELSE f[m]]
Without(f, n) == [m \in DOMAIN f \ {n} |-> f[m]]

AddRoute_InFront(route) ==      \* variant
    /\ route.name \notin Names
    /\ routes' = <<route>> \o routes
    /\ selectors' = With(selectors, route.name, FreshSelector(route))
    /\ served' = With(served, route.name, NoneServed(route))

AddRoute_ResetAll(route) ==      \* variant
    /\ route.name \notin Names
    /\ routes' = Append(routes, route)
    /\ selectors' = [n \in {route.name} |-> FreshSelector(route)]
    /\ served' = With(served, route.name, NoneServed(route))

\* A taken name is refused before anything changes; a new route goes last.
AddRoute(route) ==
    /\ route.name \notin Names
    /\ routes' = Append(routes, route)
    /\ selectors' = With(selectors, route.name, FreshSelector(route))
    /\ served' = With(served, route.name, NoneServed(route))

RemoveRoute_KeepSelector(name) ==      \* variant
    \E i \in Positions :
        /\ routes[i].name = name
        /\ routes' = RemoveAt(routes, i)
        /\ served' = Without(served, name)
        /\ UNCHANGED selectors

RemoveRoute(name) ==
    \E i \in Positions :
        /\ routes[i].name = name
        /\ \A j \in 1..(i - 1) : routes[j].name # name
        /\ routes' = RemoveAt(routes, i)
        /\ selectors' = Without(selectors, name)
        /\ served' = Without(served, name)

\* The first route of the table that matches the model is the one at i.
FirstMatch(i, model) ==
    /\ model \in routes[i].models
    /\ \A j \in 1..(i - 1) : model \notin routes[j].models

SelectorOf(route) ==
    IF route.name \in DOMAIN selectors THEN selectors[route.name]
                                       ELSE FreshSelector(route)

\* The selector is made at the first match, asked once, and answers for the
\* route it was made for; `found' is what the request is given.
Match(model, found) ==
    \E i \in Positions : \E pick \in Selections(SelectorOf(routes[i])) :
        LET route == routes[i]
            name  == route.name
        IN  /\ FirstMatch(i, model)
            /\ found = RouteMatch(route, model, pick.backend)
            /\ selectors' = With(selectors, name,
                                 [SelectorOf(route) EXCEPT !.index = pick.index])
            /\ served' = IF pick.entry = 0 THEN served
                         ELSE [served EXCEPT ![name][pick.entry] = @ + 1]
            /\ UNCHANGED routes

NoMatch(model) == \A i \in Positions : model \notin routes[i].models

RoutingNext ==
    \/ \E route \in Routes : AddRoute(route)
    \/ \E i \in Positions : RemoveRoute(routes[i].name)
    \/ \E model \in Models, i \in Positions :
          \E pick \in Selections(SelectorOf(routes[i])) :
              Match(model, RouteMatch(routes[i], model, pick.backend))

RoutingSpec == RoutingInit /\ [][RoutingNext]_routingVars

-----------------------------------------------------------------------------
(***************************************************************************)
(* Properties                                                              *)
(***************************************************************************)
\* The table holds routes of the deployment, a selector's index stays inside its
\* list, and the history counts the entries of the routes of the table.
RoutingTypeOK ==
    /\ routes \in Seq(Routes)
    /\ \A n \in DOMAIN selectors :
          /\ selectors[n] \in [route : Routes, index : Nat]
          /\ selectors[n].index < Len(selectors[n].route.backends)
                \/ selectors[n].index = 0
    /\ DOMAIN served = Names
    /\ \A i \in Positions :
          served[routes[i].name] \in [1..Len(routes[i].backends) -> Nat]

\* A selector is kept only for a route of the table, and it chooses among the
\* backends of that very route: after a route is removed and another one
\* created under its name, no request is served from the old list or from the
\* middle of the old cycle (match reads selectors by name,
\* matcher.py:315-318).
SelectorsFollowRoutes ==
    /\ UniquelyNamed(routes)
    /\ \A n \in DOMAIN selectors :
          \E i \in Positions : routes[i].name = n /\ selectors[n].route = routes[i]

\* Whatever requests match and whatever routes come and go in between, a
\* round-robin route has used each entry of its list equally often, give or
\* take one (_select_round_robin, and the docstring of add_route: existing
\* cycles continue uninterrupted).
RoundRobinFair ==
    \A i \in Positions :
        routes[i].strategy = "round_robin" =>
            LET counts == served[routes[i].name]
            IN  \A p, q \in DOMAIN counts : counts[p] <= counts[q] + 1

\* A weighted route never uses an entry of weight zero while another entry has
\* weight (_select_weighted compares with a strict "less than").
WeightlessIdle ==
    \A i \in Positions :
        LET refs == routes[i].backends
        IN  routes[i].strategy = "weighted"
                /\ (\E p \in 1..Len(refs) : refs[p].weight > 0)
            => \A p \in 1..Len(refs) :
                  refs[p].weight = 0 => served[routes[i].name][p] = 0

MatchedBy(model, route) ==
    \E i \in Positions : routes[i] = route /\ FirstMatch(i, model)

\* A model stays with the route that serves it for as long as that route is in
\* the table: no creation or removal of another route takes it over
\* (add_route: "a new route never preempts an existing one").
NeverPreempted ==
    [][\A model \in Models, route \in Routes :
          MatchedBy(model, route) /\ (\E i \in Positions' : routes'[i] = route)
              => MatchedBy(model, route)']_routingVars
=============================================================================
