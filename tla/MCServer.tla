------------------------------ MODULE MCServer ------------------------------
(***************************************************************************)
(* Two requests in flight, MaxRequests in all.  The table may hold a       *)
(* round-robin route with an alias, a weighted catch-all with a weightless *)
(* entry, a route that redefines the first one with an unknown backend and *)
(* one that redefines the second with none.  Two of the configurations are *)
(* ones the validators refuse.                                             *)
(***************************************************************************)
EXTENDS Server

CONSTANTS coder, alias, other,       \* models
          cloud, local, ghost,       \* backends; ghost is not configured
          front, back,               \* route names
          key, wrong                 \* header values

MCModels == {coder, alias, other}
MCBackends == {cloud, local}
NoAliases == [m \in {} |-> other]

Cycling ==
    [name |-> front, models |-> {coder, alias}, strategy |-> "round_robin",
     backend |-> NoBackend,
     backends |-> <<[name |-> cloud, weight |-> 1], [name |-> local, weight |-> 1]>>,
     aliases |-> [m \in {alias} |-> coder],
     fallbacks |-> Unset, retry |-> Unset]

Weighted ==
    [name |-> back, models |-> {coder, other}, strategy |-> "weighted",
     backend |-> NoBackend,
     backends |-> <<[name |-> local, weight |-> 0], [name |-> cloud, weight |-> 2]>>,
     aliases |-> NoAliases, fallbacks |-> << >>, retry |-> 0]

Ghostly ==
    [name |-> front, models |-> {coder}, strategy |-> "single", backend |-> ghost,
     backends |-> << >>, aliases |-> NoAliases,
     fallbacks |-> <<other>>, retry |-> 1]

Bare ==
    [name |-> back, models |-> {other}, strategy |-> "round_robin",
     backend |-> NoBackend, backends |-> << >>, aliases |-> NoAliases,
     fallbacks |-> Unset, retry |-> Unset]

MCRoutes == {Cycling, Weighted, Ghostly, Bare}
MCConfigs == {<<Cycling, Weighted>>, <<Weighted>>, <<Bare>>, <<Ghostly>>,
              <<Cycling, Ghostly>>}
MCDefaultFallbacks == [m \in MCModels |-> IF m = coder THEN <<other>> ELSE << >>]
MCDefaultRetry == [m \in MCModels |-> IF m = coder THEN 1 ELSE 0]

MCApiKeys == <<[key_id |-> "operator", key_value |-> key]>>
MCHeaderNames == {"x-api-key", "authorization"}
MCHeaderLists ==
    {<<[name |-> "authorization", bearer |-> FALSE, token |-> key]>>,
     <<[name |-> "x-api-key", bearer |-> FALSE, token |-> wrong],
       [name |-> "authorization", bearer |-> TRUE, token |-> key]>>}
MCGates == {[enabled |-> FALSE, exempt |-> {}], [enabled |-> TRUE, exempt |-> {}],
            [enabled |-> TRUE, exempt |-> {"create", "delete"}]}
MCStatuses == {200, 404, 500}

InFlight == Permutations(Slots)
=============================================================================
