---------------------------- MODULE ServerProofs ----------------------------
(***************************************************************************)
(* For any number of requests in flight and every deployment: the server   *)
(* is a matcher used by interleaved requests (so all that RoutingProofs    *)
(* shows of a matcher holds under them), its answers add up, its table     *)
(* changes for key holders only, and what it tells chat clients is true.   *)
(***************************************************************************)
EXTENDS Server, RoutingProofs

(***************************************************************************)
(* The inductive invariant.  A request in a handler has the principal the  *)
(* gate found in its headers, or none; one that waits for the body of a    *)
(* creation has one; one in the pipeline has a match of the matcher's.     *)
(***************************************************************************)
Principals == {MatchPrincipal(h) : h \in HeaderLists} \cup {Nobody}

InHandler(r) ==
    /\ r \in [phase : {"handler", "body"}, kind : Kinds,
              headers : HeaderLists, principal : Principals]
    /\ r.principal # Nobody => r.principal = MatchPrincipal(r.headers)
    /\ r.phase = "body" /\ r.kind = "create" => r.principal # Nobody

InPipeline(r) ==
    /\ r.phase = "pipeline" /\ r.kind = "chat"
    /\ r.match = RouteMatch(r.match.route, r.match.model, r.match.backend)

RequestOK(r) == r = Idle \/ InHandler(r) \/ InPipeline(r)

RequestsOK ==
    /\ DOMAIN requests = Slots
    /\ \A s \in Slots : RequestOK(requests[s])

LedgerOK == ledger \in [RouteNames -> Int] /\ TableAddsUp

ConfiguredOK ==
    /\ Len(configured) \in Nat /\ DOMAIN configured = 1..Len(configured)
    /\ ValidConfig(configured)

SInv ==
    /\ RInv /\ RequestsOK /\ LedgerOK /\ ConfiguredOK /\ UnknownBackendIsRuntime
    /\ gate \in Gates /\ arrivals \in 0..MaxRequests

-----------------------------------------------------------------------------
\* A principal stands for a configured key that came in a header the gate reads.
LEMMA PrincipalHasKey ==
    ASSUME NEW headers, MatchPrincipal(headers) # Nobody
    PROVE  \E h \in 1..Len(headers) :
              /\ Carries(headers[h])
              /\ \E k \in 1..Len(ApiKeys) :
                    /\ ApiKeys[k].key_value = headers[h].token
                    /\ ApiKeys[k].key_id = MatchPrincipal(headers)
<1> DEFINE known == {h \in 1..Len(headers) :
                        Carries(headers[h]) /\ PrincipalOf(headers[h].token) # Nobody}
           first == {h \in known : \A g \in known : h <= g}
<1>1. /\ first # {}
      /\ MatchPrincipal(headers) = PrincipalOf(headers[CHOOSE h \in first : TRUE].token)
  BY DEF MatchPrincipal
<1>2. PICK h \in first : MatchPrincipal(headers) = PrincipalOf(headers[h].token)
  BY <1>1
<1>3. h \in 1..Len(headers) /\ Carries(headers[h])
  BY <1>2
<1>4. ASSUME NEW token, PrincipalOf(token) # Nobody
      PROVE  \E k \in 1..Len(ApiKeys) :
                /\ ApiKeys[k].key_value = token
                /\ ApiKeys[k].key_id = PrincipalOf(token)
  <2> DEFINE owners == {i \in KeysWithValue(token) :
                           \A j \in KeysWithValue(token) : j <= i}
  <2>1. /\ owners # {}
        /\ PrincipalOf(token) = ApiKeys[CHOOSE i \in owners : TRUE].key_id
    BY <1>4 DEF PrincipalOf
  <2>2. PICK k \in owners : PrincipalOf(token) = ApiKeys[k].key_id
    BY <2>1
  <2>3. k \in 1..Len(ApiKeys) /\ ApiKeys[k].key_value = token
    BY <2>2 DEF KeysWithValue
  <2>4. QED BY <2>2, <2>3
<1>5. QED BY <1>2, <1>3, <1>4

\* Most handlers leave the matcher alone.
LEMMA TableUntouched ==
    ASSUME NEW s \in Slots,
           \/ GateRejects(s) \/ GateAdmits(s) \/ AdminRefused(s) \/ ListRoutes(s)
           \/ GetRoute(s) \/ CreateStarts(s) \/ BodyRefused(s) \/ BodyLost(s)
           \/ ChatMediaRefused(s) \/ ChatStarts(s) \/ ChatNoRoute(s) \/ PipelineEnds(s)
    PROVE  UNCHANGED routingVars
BY DEF GateRejects, GateAdmits, AdminRefused, ListRoutes, GetRoute, CreateStarts,
   BodyRefused, BodyLost, ChatMediaRefused, ChatStarts, ChatNoRoute, PipelineEnds,
   Answer, WaitForBody

\* Whatever a step of the server does to the table is a step of the matcher.
LEMMA RoutingStep == [Next]_vars => [RoutingNext]_routingVars
<1> SUFFICES ASSUME [Next]_vars PROVE [RoutingNext]_routingVars
  OBVIOUS
<1>1. CASE UNCHANGED vars
  BY <1>1 DEF vars
<1>2. ASSUME NEW name, RemoveRoute(name) PROVE RoutingNext
  <2>1. PICK i \in Positions : routes[i].name = name
    BY <1>2 DEF RemoveRoute
  <2>2. RemoveRoute(routes[i].name)
    BY <1>2, <2>1
  <2>3. QED BY <2>2 DEF RoutingNext
<1>3. ASSUME NEW s \in Slots, CreateRoute(s) PROVE [RoutingNext]_routingVars
  BY <1>3 DEF CreateRoute, Answer, RoutingNext
<1>4. ASSUME NEW s \in Slots, DeleteRoute(s) PROVE [RoutingNext]_routingVars
  BY <1>4, <1>2 DEF DeleteRoute, Answer
<1>5. ASSUME NEW s \in Slots, ChatMatched(s) PROVE RoutingNext
  <2>1. PICK model \in Models, i \in Positions :
            \E pick \in Selections(SelectorOf(routes[i])) :
                Match(model, RouteMatch(routes[i], model, pick.backend))
    BY <1>5 DEF ChatMatched
  <2>2. QED BY <2>1 DEF RoutingNext
<1>6. QED BY <1>1, <1>3, <1>4, <1>5, TableUntouched DEF Next

-----------------------------------------------------------------------------
\* The server starts inside the invariant.
LEMMA ServerStarts == Init => SInv
<1> SUFFICES ASSUME Init PROVE SInv
  OBVIOUS
<1>1. RInv
  BY InitEstablishes DEF Init
<1>2. RequestsOK
  BY DEF Init, RequestsOK, RequestOK
<1>3. LedgerOK
  BY DEF Init, LedgerOK, TableAddsUp
<1>4. ConfiguredOK
  <2>1. configured \in Seq(Routes) /\ ValidConfig(configured)
    BY ConfigsAssumption DEF Init, RoutingInit
  <2>2. QED BY <2>1 DEF ConfiguredOK
<1>5. UnknownBackendIsRuntime
  BY DEF Init, NoReply, UnknownBackendIsRuntime
<1>6. QED BY <1>1, <1>2, <1>3, <1>4, <1>5, ServerAssumption DEF Init, SInv

\* A step that leaves the table and the ledger alone keeps the invariant when it
\* keeps the requests well formed and tells no chat client of a backend.
LEMMA QuietStep ==
    ASSUME SInv, UNCHANGED <<routingVars, gate, configured, ledger>>,
           RequestsOK', arrivals' \in 0..MaxRequests,
           \/ reply' = reply \/ reply'.about = Nobody \/ reply'.status # 503
    PROVE  SInv'
<1>1. RInv'
  BY StepPreserves DEF SInv
<1>2. LedgerOK'
  BY DEF SInv, LedgerOK, TableAddsUp, Names, Positions, routingVars
<1>3. ConfiguredOK'
  BY DEF SInv, ConfiguredOK, ValidConfig, UniquelyNamed, KnowsItsBackends
<1>4. UnknownBackendIsRuntime'
  BY DEF SInv, UnknownBackendIsRuntime, Range
<1>5. QED BY <1>1, <1>2, <1>3, <1>4 DEF SInv

\* Replacing one request by a well-formed one keeps them all well formed.
LEMMA OneRequest ==
    ASSUME SInv, NEW s \in Slots, NEW r, RequestOK(r),
           requests' = [requests EXCEPT ![s] = r]
    PROVE  RequestsOK'
BY DEF SInv, RequestsOK

\* Every step that leaves the table alone keeps the invariant.
LEMMA QuietActions ==
    ASSUME SInv, NEW s \in Slots,
           \/ GateRejects(s) \/ GateAdmits(s) \/ AdminRefused(s) \/ ListRoutes(s)
           \/ GetRoute(s) \/ CreateStarts(s) \/ BodyRefused(s) \/ BodyLost(s)
           \/ ChatMediaRefused(s) \/ ChatStarts(s) \/ ChatNoRoute(s) \/ PipelineEnds(s)
    PROVE  SInv'
<1>1. RequestOK(Idle) /\ DOMAIN requests = Slots /\ RequestOK(requests[s])
  BY DEF SInv, RequestsOK, RequestOK
<1>2. arrivals \in 0..MaxRequests
  BY DEF SInv
<1>3. ASSUME NEW status, NEW about, Answer(s, status, about),
             about = Nobody \/ status # 503
      PROVE  SInv'
  <2>1. RequestsOK'
    BY <1>1, <1>3, OneRequest DEF Answer, Send
  <2>2. QED BY <1>2, <1>3, <2>1, QuietStep DEF Answer, Send, Keep
<1>4. ASSUME Handling(s, Kinds), WaitForBody(s),
             requests[s].kind = "create" => requests[s].principal # Nobody
      PROVE  SInv'
  <2> DEFINE r == [requests[s] EXCEPT !.phase = "body"]
  <2>1. InHandler(requests[s])
    BY <1>1, <1>4 DEF Handling, RequestOK, InPipeline, Idle
  <2>2. /\ requests[s] \in [phase : {"handler", "body"}, kind : Kinds,
                            headers : HeaderLists, principal : Principals]
        /\ requests[s].principal # Nobody =>
              requests[s].principal = MatchPrincipal(requests[s].headers)
    BY <2>1 DEF InHandler
  <2>3. /\ r \in [phase : {"handler", "body"}, kind : Kinds,
                  headers : HeaderLists, principal : Principals]
        /\ r.kind = requests[s].kind /\ r.headers = requests[s].headers
        /\ r.principal = requests[s].principal
    BY <2>2
  <2>4. InHandler(r)
    BY <1>4, <2>2, <2>3 DEF InHandler
  <2>5. RequestsOK'
    BY <1>4, <2>4, OneRequest DEF WaitForBody, Proceed, RequestOK
  <2>6. QED BY <1>2, <1>4, <2>5, QuietStep DEF WaitForBody, Proceed, Keep
<1>5. CASE GateRejects(s)
  <2>1. RequestsOK' /\ arrivals' \in 0..MaxRequests
    BY <1>2, <1>5, ServerAssumption DEF GateRejects, Arrive, SInv, RequestsOK
  <2>2. QED BY <1>5, <2>1, QuietStep DEF GateRejects
<1>6. CASE GateAdmits(s)
  <2>1. PICK kind \in Kinds, headers \in HeaderLists :
            requests' = [requests EXCEPT ![s] =
                [phase |-> "handler", kind |-> kind, headers |-> headers,
                 principal |-> IF Guarded(kind) THEN MatchPrincipal(headers) ELSE Nobody]]
    BY <1>6 DEF GateAdmits
  <2> DEFINE r == [phase |-> "handler", kind |-> kind, headers |-> headers,
                   principal |-> IF Guarded(kind) THEN MatchPrincipal(headers) ELSE Nobody]
  <2>2. InHandler(r)
    BY DEF InHandler, Principals
  <2>3. RequestsOK'
    BY <2>1, <2>2, OneRequest DEF RequestOK
  <2>4. arrivals' \in 0..MaxRequests
    BY <1>2, <1>6, ServerAssumption DEF GateAdmits, Arrive
  <2>5. QED BY <1>6, <2>3, <2>4, QuietStep DEF GateAdmits
<1>7. CASE AdminRefused(s) \/ ListRoutes(s) \/ GetRoute(s)
  BY <1>3, <1>7 DEF AdminRefused, ListRoutes, GetRoute
<1>8. CASE CreateStarts(s)
  BY <1>4, <1>8 DEF CreateStarts, Handling, Authenticated, Kinds
<1>9. CASE ChatStarts(s)
  BY <1>4, <1>9 DEF ChatStarts, Handling, Kinds
<1>10. CASE BodyRefused(s) \/ BodyLost(s) \/ ChatMediaRefused(s) \/ ChatNoRoute(s)
  BY <1>3, <1>10 DEF BodyRefused, BodyLost, ChatMediaRefused, ChatNoRoute
<1>11. CASE PipelineEnds(s)
  BY <1>3, <1>11 DEF PipelineEnds
<1>12. QED BY <1>5, <1>6, <1>7, <1>8, <1>9, <1>10, <1>11

\* A creation or removal that takes effect is entered in the ledger; one that is
\* refused is a quiet step.
LEMMA AdminStep ==
    ASSUME SInv, NEW s \in Slots, CreateRoute(s) \/ DeleteRoute(s)
    PROVE  SInv'
<1>1. RequestOK(Idle)
  BY DEF RequestOK
<1>2. ASSUME NEW status, NEW about, Answer(s, status, about), status # 503
      PROVE  SInv'
  <2>1. RequestsOK'
    BY <1>1, <1>2, OneRequest DEF Answer, Send
  <2>2. QED BY <1>2, <2>1, QuietStep DEF Answer, Send, Keep, SInv
<1>3. ASSUME NEW status, NEW name, Send(s, status, name), status # 503, Keep, RInv',
             LedgerOK'
      PROVE  SInv'
  <2>1. RequestsOK'
    BY <1>1, <1>3, OneRequest DEF Send
  <2>2. ConfiguredOK'
    BY <1>3 DEF SInv, Keep, ConfiguredOK, ValidConfig, UniquelyNamed, KnowsItsBackends
  <2>3. UnknownBackendIsRuntime'
    BY <1>3 DEF Send, UnknownBackendIsRuntime
  <2>4. QED BY <1>3, <2>1, <2>2, <2>3 DEF SInv, Keep
<1>4. Names = DOMAIN served /\ (RInv' => Names' = DOMAIN served')
  BY DEF SInv, RInv, RoutingTypeOK
<1>5. ASSUME NEW route \in Routes, AddRoute(route), Send(s, 201, route.name),
             ledger' = [ledger EXCEPT ![route.name] = @ + 1], Keep
      PROVE  SInv'
  <2>1. RInv'
    BY <1>5, AddPreserves DEF SInv
  <2>2. route.name \notin Names /\ Names' = Names \cup {route.name}
    BY <1>4, <1>5, <2>1 DEF AddRoute, With
  <2>3. route.name \in RouteNames
    BY DEF RouteNames
  <2>4. LedgerOK'
    BY <1>5, <2>2, <2>3 DEF SInv, LedgerOK, TableAddsUp
  <2>5. QED BY <1>3, <1>5, <2>1, <2>4
<1>6. ASSUME NEW name \in RouteNames, RemoveRoute(name), Send(s, 204, name),
             ledger' = [ledger EXCEPT ![name] = @ - 1], Keep
      PROVE  SInv'
  <2>1. RInv'
    BY <1>6, RemovePreserves DEF SInv
  <2>2. name \in Names /\ Names' = Names \ {name}
    BY <1>4, <1>6, <2>1 DEF RemoveRoute, Without, Names
  <2>3. LedgerOK'
    BY <1>6, <2>2 DEF SInv, LedgerOK, TableAddsUp
  <2>4. QED BY <1>3, <1>6, <2>1, <2>3
<1>7. CASE CreateRoute(s)
  BY <1>2, <1>5, <1>7 DEF CreateRoute
<1>8. CASE DeleteRoute(s)
  BY <1>2, <1>6, <1>8 DEF DeleteRoute
<1>9. QED BY <1>7, <1>8

\* A match hands out a backend the registry does not know only for a route that
\* no validator has seen, or one that names none.
LEMMA ChatStep ==
    ASSUME SInv, NEW s \in Slots, ChatMatched(s)
    PROVE  SInv'
<1>1. PICK model \in Models, i \in Positions :
          \E pick \in Selections(SelectorOf(routes[i])) :
              LET found == RouteMatch(routes[i], model, pick.backend)
              IN  /\ Match(model, found)
                  /\ IF found.backend \notin Backends
                     THEN /\ Send(s, 503, found)
                          /\ UNCHANGED ledger
                          /\ Keep
                     ELSE \/ Proceed(s, [phase |-> "pipeline", kind |-> "chat",
                                         match |-> found])
                          \/ /\ Send(s, 200, Nobody)
                             /\ UNCHANGED ledger
                             /\ Keep
  BY DEF ChatMatched
<1>2. PICK pick \in Selections(SelectorOf(routes[i])) :
          LET found == RouteMatch(routes[i], model, pick.backend)
          IN  /\ Match(model, found)
              /\ IF found.backend \notin Backends
                 THEN /\ Send(s, 503, found)
                      /\ UNCHANGED ledger
                      /\ Keep
                 ELSE \/ Proceed(s, [phase |-> "pipeline", kind |-> "chat",
                                     match |-> found])
                      \/ /\ Send(s, 200, Nobody)
                         /\ UNCHANGED ledger
                         /\ Keep
  BY <1>1
<1> DEFINE found == RouteMatch(routes[i], model, pick.backend)
<1>3. /\ found.route = routes[i] /\ found.backend = pick.backend
      /\ found = RouteMatch(found.route, found.model, found.backend)
  BY DEF RouteMatch
<1>4. Match(model, found) /\ UNCHANGED <<ledger, gate, configured, arrivals, routes>>
  BY <1>2 DEF Proceed, Keep, Match
<1>5. RInv'
  BY <1>4, MatchPreserves DEF SInv
<1>6. RequestsOK'
  <2>1. RequestOK(Idle) /\ RequestOK([phase |-> "pipeline", kind |-> "chat", match |-> found])
    BY <1>3 DEF RequestOK, InPipeline
  <2>2. QED BY <1>2, <2>1, OneRequest DEF Send, Proceed
<1>7. LedgerOK'
  BY <1>4 DEF SInv, LedgerOK, TableAddsUp, Names, Positions
<1>8. ConfiguredOK'
  BY <1>4 DEF SInv, ConfiguredOK, ValidConfig, UniquelyNamed, KnowsItsBackends
<1>9. ASSUME found.backend \notin Backends, routes[i] \in Range(configured)
      PROVE  found.backend = NoBackend /\ routes[i].backend = NoBackend
  <2>1. /\ routes[i] \in Routes
        /\ SelectorOf(routes[i]) = [route |-> routes[i], index |-> SelectorOf(routes[i]).index]
        /\ SelectorOf(routes[i]).index \in Nat
        /\ \/ SelectorOf(routes[i]).index < Len(routes[i].backends)
           \/ SelectorOf(routes[i]).index = 0
    BY TableFacts DEF SInv
  <2>2. \/ pick.backend = routes[i].backend
        \/ \E p \in 1..Len(routes[i].backends) :
              pick.backend = routes[i].backends[p].name
    BY <2>1, PicksAreEntries
  <2>3. KnowsItsBackends(routes[i])
    BY <1>9 DEF SInv, ConfiguredOK, ValidConfig, Range
  <2>4. QED BY <1>3, <1>9, <2>2, <2>3 DEF KnowsItsBackends
<1>10. UnknownBackendIsRuntime'
  <2>1. CASE reply' = reply
    BY <1>4, <2>1 DEF SInv, UnknownBackendIsRuntime
  <2>2. CASE reply'.status = 200
    BY <2>2 DEF UnknownBackendIsRuntime
  <2>3. CASE found.backend \notin Backends /\ reply'.about = found
    <3>1. \/ reply'.about.route \notin Range(configured')
          \/ /\ reply'.about.backend = NoBackend
             /\ reply'.about.route.backend = NoBackend
      BY <1>3, <1>4, <1>9, <2>3
    <3>2. QED BY <3>1 DEF UnknownBackendIsRuntime
  <2>4. QED BY <1>2, <2>1, <2>2, <2>3 DEF Send, Proceed
<1>11. QED BY <1>4, <1>5, <1>6, <1>7, <1>8, <1>10 DEF SInv

\* Every step of the server stays inside the invariant.
LEMMA ServerStep == SInv /\ [Next]_vars => SInv'
<1> SUFFICES ASSUME SInv, [Next]_vars PROVE SInv'
  OBVIOUS
<1>1. CASE UNCHANGED vars
  <2>1. RequestsOK'
    BY <1>1 DEF vars, SInv, RequestsOK
  <2>2. QED BY <1>1, <2>1, QuietStep DEF vars, SInv
<1>2. CASE Next
  BY <1>2, QuietActions, AdminStep, ChatStep DEF Next
<1>3. QED BY <1>1, <1>2

\* The invariant holds in every reachable state.
LEMMA ServerInvariance == Spec => []SInv
<1>1. QED BY ServerStarts, ServerStep, PTL DEF Spec

-----------------------------------------------------------------------------
\* The server, with any number of requests in flight, implements the matcher:
\* what it does to the table between two awaits is one operation of the matcher.
THEOREM ServerIsMatcher == Spec => RoutingSpec
<1>1. Init => RoutingInit
  BY DEF Init
<1>2. QED BY <1>1, RoutingStep, PTL DEF Spec, RoutingSpec

\* Under interleaved requests a selector still belongs to the route of its name.
THEOREM ServerSelectors == Spec => []SelectorsFollowRoutes
<1>1. QED BY ServerIsMatcher, SelectorsBelong

\* Under interleaved requests round robin is still fair.
THEOREM ServerRoundRobin == Spec => []RoundRobinFair
<1>1. QED BY ServerIsMatcher, RoundRobinIsFair

\* Under interleaved requests a weightless entry still serves nobody.
THEOREM ServerWeights == Spec => []WeightlessIdle
<1>1. QED BY ServerIsMatcher, WeightlessStaysIdle

\* Under interleaved requests no route is pre-empted by a later one.
THEOREM ServerPreemptsNobody == Spec => NeverPreempted
<1>1. QED BY ServerIsMatcher, NobodyPreempted

\* The types of the server's state hold in every reachable state.
THEOREM ServerTypes == Spec => []ServerTypeOK
<1>1. SInv => ServerTypeOK
  <2> SUFFICES ASSUME SInv PROVE ServerTypeOK
    OBVIOUS
  <2>1. ASSUME NEW s \in Slots
        PROVE  /\ requests[s].phase \in {"idle", "handler", "body", "pipeline"}
               /\ requests[s] # Idle => requests[s].kind \in Kinds
    <3>1. RequestOK(requests[s])
      BY DEF SInv, RequestsOK
    <3>2. QED BY <3>1 DEF RequestOK, InHandler, InPipeline, Idle, Kinds
  <2>2. QED BY <2>1 DEF SInv, RInv, ServerTypeOK
<1>2. QED BY <1>1, ServerInvariance, PTL

\* The answers to creations and removals add up to the table.
THEOREM ServerAddsUp == Spec => []TableAddsUp
<1>1. SInv => TableAddsUp
  BY DEF SInv, LedgerOK
<1>2. QED BY <1>1, ServerInvariance, PTL

\* A chat client is refused for want of a backend only because of a route that
\* was created at run time or that names none.
THEOREM ServerBackends == Spec => []UnknownBackendIsRuntime
<1>1. SInv => UnknownBackendIsRuntime
  BY DEF SInv
<1>2. QED BY <1>1, ServerInvariance, PTL

\* An alias and the real name get the same chain and the same budget from a route.
THEOREM ServerAliases == Spec => []AliasTransparent
<1>1. ASSUME SInv, NEW s \in Slots, requests[s].phase = "pipeline"
      PROVE  requests[s].match = RouteMatch(requests[s].match.route,
                                    requests[s].match.model, requests[s].match.backend)
  <2>1. RequestOK(requests[s])
    BY <1>1 DEF SInv, RequestsOK
  <2>2. QED BY <1>1, <2>1 DEF RequestOK, InHandler, InPipeline, Idle
<1>2. ASSUME NEW route, NEW m, NEW n, NEW b, NEW c, Resolved(route, m) = Resolved(route, n)
      PROVE  /\ RouteMatch(route, m, b).chain = RouteMatch(route, n, c).chain
             /\ RouteMatch(route, m, b).retry = RouteMatch(route, n, c).retry
  BY <1>2 DEF RouteMatch
<1>3. SInv => AliasTransparent
  BY <1>1, <1>2 DEF AliasTransparent
<1>4. QED BY <1>3, ServerInvariance, PTL

\* The table changes only in the step that acknowledges an admin request whose
\* headers carry a configured key, whatever the gate is told to exempt.
THEOREM ServerKeyHolders == Spec => OnlyKeyHoldersChangeRoutes
<1> DEFINE Acknowledged(s) ==
        /\ Busy(s) /\ requests[s].kind \in {"create", "delete"}
        /\ ~Busy(s)' /\ reply'.status \in {201, 204}
        /\ \E h \in 1..Len(requests[s].headers) :
              LET header == requests[s].headers[h]
              IN  /\ header.name \in HeaderNames
                  /\ header.name = "authorization" => header.bearer
                  /\ \E k \in 1..Len(ApiKeys) :
                        /\ ApiKeys[k].key_value = header.token
                        /\ ApiKeys[k].key_id = requests[s].principal
<1>1. ASSUME SInv, NEW s \in Slots, InHandler(requests[s]),
             requests[s].principal # Nobody, requests[s].kind \in {"create", "delete"},
             NEW status \in {201, 204}, NEW name, Send(s, status, name)
      PROVE  Acknowledged(s)
  <2>1. Busy(s) /\ ~Busy(s)' /\ reply'.status \in {201, 204}
    BY <1>1 DEF Busy, Send, InHandler, Idle, SInv, RequestsOK
  <2>2. requests[s].principal = MatchPrincipal(requests[s].headers)
    BY <1>1 DEF InHandler
  <2>3. PICK h \in 1..Len(requests[s].headers) :
            /\ Carries(requests[s].headers[h])
            /\ \E k \in 1..Len(ApiKeys) :
                  /\ ApiKeys[k].key_value = requests[s].headers[h].token
                  /\ ApiKeys[k].key_id = MatchPrincipal(requests[s].headers)
    BY <1>1, <2>2, PrincipalHasKey
  <2>4. QED BY <1>1, <2>1, <2>2, <2>3 DEF Carries
<1>2. ASSUME SInv, Next, routes' # routes PROVE \E s \in Slots : Acknowledged(s)
  <2>1. PICK s \in Slots : CreateRoute(s) \/ DeleteRoute(s)
    <3>1. \A s \in Slots : ChatMatched(s) => routes' = routes
      BY DEF ChatMatched, Match
    <3>2. UNCHANGED routingVars => routes' = routes
      BY DEF routingVars
    <3>3. QED BY <1>2, <3>1, <3>2, TableUntouched DEF Next
  <2>2. /\ requests[s].phase \in {"handler", "body"}
        /\ requests[s].phase = "handler" => requests[s].principal # Nobody
        /\ requests[s].phase = "body" => requests[s].kind = "create"
        /\ requests[s].kind \in {"create", "delete"}
    BY <2>1 DEF CreateRoute, DeleteRoute, Handling, Authenticated
  <2>3. RequestOK(requests[s])
    BY <1>2 DEF SInv, RequestsOK
  <2>4. InHandler(requests[s])
    BY <2>2, <2>3 DEF RequestOK, InPipeline, Idle
  <2>5. requests[s].principal # Nobody
    BY <2>2, <2>4 DEF InHandler
  <2>6. \E status \in {201, 204}, name \in RouteNames : Send(s, status, name)
    BY <1>2, <2>1 DEF CreateRoute, DeleteRoute, Answer, routingVars, RouteNames
  <2>7. Acknowledged(s)
    BY <1>1, <1>2, <2>2, <2>4, <2>5, <2>6
  <2>8. QED BY <2>7
<1>3. SInv /\ [Next]_vars =>
          [routes' # routes => \E s \in Slots : Acknowledged(s)]_vars
  BY <1>2
<1>4. QED BY <1>3, ServerInvariance, PTL DEF Spec, OnlyKeyHoldersChangeRoutes
=============================================================================
