------------------------------- MODULE Server -------------------------------
(***************************************************************************)
(* The HTTP surface of the proxy: requests of several clients, interleaved *)
(* at every await, share one route matcher.  A request passes the key gate *)
(* (when the configuration installs one), then its handler; handlers that  *)
(* read a body suspend there, the chat handler once more while the pipeline*)
(* runs.  Between two awaits a handler is one step.                        *)
(***************************************************************************)
EXTENDS Routing, AuthGate, Upstream

CONSTANTS Slots,          \* requests in flight at a time
          HeaderLists,    \* what clients send in the headers the gate reads
          Gates,          \* AuthConfigs: [enabled, exempt], exempt a set of kinds
          Unparsed,       \* a "model" that is not a string
          MaxRequests     \* bound: requests a behaviour serves

ASSUME ServerAssumption == MaxRequests \in Nat

Kinds == {"chat", "create", "delete", "list", "get"}
AdminKinds == Kinds \ {"chat"}
RouteNames == {r.name : r \in Routes}

VARIABLES
    gate,         \* AuthConfig, as create_app captured it
    configured,   \* the routes of the configuration file
    requests,     \* slot -> the request it is serving
    reply,        \* the last HTTP response sent
    arrivals,     \* how many requests have come so far (bounded)
    ledger        \* history: name -> 1 if configured, + created, - deleted,
                  \* as the responses told the clients

vars == <<routingVars, gate, configured, requests, reply, arrivals, ledger>>

Idle == [phase |-> "idle"]
NoReply == [to |-> "nobody", status |-> 0, about |-> Nobody]

Init ==
    /\ RoutingInit
    /\ gate \in Gates
    /\ configured = routes
    /\ requests = [s \in Slots |-> Idle]
    /\ reply = NoReply
    /\ arrivals = 0
    /\ ledger = [n \in RouteNames |-> IF n \in Names THEN 1 ELSE 0]

(***************************************************************************)
(* Responses.  `about' is the route name an admin call concerns and the    *)
(* match a chat request was refused with.                                  *)
(***************************************************************************)
Send(s, status, about) ==
    /\ requests' = [requests EXCEPT ![s] = Idle]
    /\ reply' = [to |-> requests[s].kind, status |-> status, about |-> about]

Keep == UNCHANGED <<gate, configured, arrivals>>

\* A response that changes nothing in the route table.
Answer(s, status, about) ==
    /\ Send(s, status, about)
    /\ UNCHANGED <<routingVars, ledger>>
    /\ Keep

Proceed(s, request) ==
    /\ requests' = [requests EXCEPT ![s] = request]
    /\ UNCHANGED <<reply, ledger>>
    /\ Keep

-----------------------------------------------------------------------------
(***************************************************************************)
(* Arrival and the gate                                                    *)
(***************************************************************************)
Guarded(kind) == gate.enabled /\ kind \notin gate.exempt

Arrive(s) == requests[s] = Idle /\ arrivals < MaxRequests /\ arrivals' = arrivals + 1

\* The gate answers 401 itself; the handler never runs.
GateRejects(s) ==
    /\ Arrive(s)
    /\ \E kind \in Kinds, headers \in HeaderLists :
          /\ Guarded(kind)
          /\ MatchPrincipal(headers) = Nobody
          /\ reply' = [to |-> kind, status |-> 401, about |-> Nobody]
    /\ UNCHANGED <<routingVars, gate, configured, requests, ledger>>

\* An exempt path and a disabled gate leave request.state.principal unset.
GateAdmits(s) ==
    /\ Arrive(s)
    /\ \E kind \in Kinds, headers \in HeaderLists :
          LET principal == IF Guarded(kind) THEN MatchPrincipal(headers) ELSE Nobody
          IN  /\ Guarded(kind) => principal # Nobody
              /\ requests' = [requests EXCEPT ![s] =
                    [phase |-> "handler", kind |-> kind,
                     headers |-> headers, principal |-> principal]]
    /\ UNCHANGED <<routingVars, gate, configured, reply, ledger>>

Handling(s, kinds) == requests[s].phase = "handler" /\ requests[s].kind \in kinds

WaitForBody(s) ==
    /\ Proceed(s, [requests[s] EXCEPT !.phase = "body"])
    /\ UNCHANGED routingVars

-----------------------------------------------------------------------------
(***************************************************************************)
(* The admin handlers.  Each demands a principal of its own.               *)
(***************************************************************************)
Authenticated(s) == requests[s].principal # Nobody

AdminRefused(s) ==
    /\ Handling(s, AdminKinds)
    /\ ~Authenticated(s)
    /\ Answer(s, 401, Nobody)

ListRoutes(s) ==
    /\ Handling(s, {"list"})
    /\ Authenticated(s)
    /\ Answer(s, 200, Nobody)

GetRoute(s) ==
    /\ Handling(s, {"get"})
    /\ Authenticated(s)
    /\ \E name \in RouteNames : Answer(s, IF name \in Names THEN 200 ELSE 404, name)

CreateStarts(s) ==
    /\ Handling(s, {"create"})
    /\ Authenticated(s)
    /\ WaitForBody(s)

\* The rest of the handler runs when the body is in.  The payload is validated
\* as a RouteConfig alone: its backends are not looked up.
CreateRoute(s) ==
    /\ requests[s].phase = "body" /\ requests[s].kind = "create"
    /\ \E route \in Routes :
          \/ /\ AddRoute(route)
             /\ Send(s, 201, route.name)
             /\ ledger' = [ledger EXCEPT ![route.name] = @ + 1]
             /\ Keep
          \/ /\ route.name \in Names
             /\ Answer(s, 409, route.name)

DeleteRoute_AlwaysGone(s) ==      \* variant
    /\ Handling(s, {"delete"})
    /\ Authenticated(s)
    /\ \E name \in RouteNames :
          /\ RemoveRoute(name) \/ (name \notin Names /\ UNCHANGED routingVars)
          /\ Send(s, 204, name)
          /\ ledger' = [ledger EXCEPT ![name] = @ - 1]
          /\ Keep

DeleteRoute(s) ==
    /\ Handling(s, {"delete"})
    /\ Authenticated(s)
    /\ \E name \in RouteNames :
          \/ /\ RemoveRoute(name)
             /\ Send(s, 204, name)
             /\ ledger' = [ledger EXCEPT ![name] = @ - 1]
             /\ Keep
          \/ /\ name \notin Names
             /\ Answer(s, 404, name)

-----------------------------------------------------------------------------
(***************************************************************************)
(* The body, for both handlers that read one                               *)
(***************************************************************************)
\* Not JSON, not an object, no model, no messages; or not a RouteConfig.
BodyRefused(s) ==
    /\ requests[s].phase = "body"
    /\ Answer(s, 400, Nobody)

\* The client hangs up first: ClientDisconnect escapes the handler.
BodyLost(s) ==
    /\ requests[s].phase = "body"
    /\ Answer(s, 500, Nobody)

(***************************************************************************)
(* chat_completions                                                        *)
(***************************************************************************)
ChatMediaRefused(s) ==
    /\ Handling(s, {"chat"})
    /\ Answer(s, 415, Nobody)

ChatStarts(s) ==
    /\ Handling(s, {"chat"})
    /\ WaitForBody(s)

ChatBody(s) == requests[s].phase = "body" /\ requests[s].kind = "chat"

\* A model that is no string passes the body check and matches no route.
ChatNoRoute(s) ==
    /\ ChatBody(s)
    /\ \E model \in Models \cup {Unparsed} : model = Unparsed \/ NoMatch(model)
    /\ Answer(s, 404, Nobody)

\* The selector has moved on by the time the registry is asked.
ChatMatched(s) ==
    /\ ChatBody(s)
    /\ \E model \in Models, i \in Positions :
          \E pick \in Selections(SelectorOf(routes[i])) :
              LET found == RouteMatch(routes[i], model, pick.backend)
              IN  /\ Match(model, found)
                  /\ IF found.backend \notin Backends
                     THEN /\ Send(s, 503, found)
                          /\ UNCHANGED ledger
                          /\ Keep
                     ELSE \/ Proceed(s, [phase |-> "pipeline", kind |-> "chat",
                                         match |-> found])
                          \/ /\ Send(s, 200, Nobody)      \* stream: true
                             /\ UNCHANGED ledger
                             /\ Keep

\* The orchestrator answers, or an error escapes it: as it came, or wrapped by
\* the walker when it was transient.
PipelineEnds(s) ==
    /\ requests[s].phase = "pipeline"
    /\ \/ Answer(s, 200, Nobody)
       \/ \E e \in ChatErrors, exhausted \in BOOLEAN :
             /\ exhausted => IsTransient(e)
             /\ Answer(s, ClientStatus(e, exhausted), Nobody)

Next ==
    \E s \in Slots :
        \/ GateRejects(s) \/ GateAdmits(s)
        \/ AdminRefused(s) \/ ListRoutes(s) \/ GetRoute(s)
        \/ CreateStarts(s) \/ CreateRoute(s) \/ DeleteRoute(s)
        \/ BodyRefused(s) \/ BodyLost(s)
        \/ ChatMediaRefused(s) \/ ChatStarts(s)
        \/ ChatNoRoute(s) \/ ChatMatched(s) \/ PipelineEnds(s)

Spec == Init /\ [][Next]_vars

-----------------------------------------------------------------------------
(***************************************************************************)
(* Properties                                                              *)
(***************************************************************************)
\* The selectors and counters of the matcher keep their types and a slot is
\* idle or serves a request that is somewhere in its handler.
ServerTypeOK ==
    /\ RoutingTypeOK
    /\ gate \in Gates
    /\ \A s \in Slots :
          /\ requests[s].phase \in {"idle", "handler", "body", "pipeline"}
          /\ requests[s] # Idle => requests[s].kind \in Kinds
    /\ arrivals \in 0..MaxRequests

\* Whatever creations and deletions overlap, the answers add up: a name is in
\* the table exactly if the configuration and the 201s and 204s sent so far
\* leave one route of that name (create_route, delete_route: a refused call
\* changed nothing, an acknowledged one took effect once).
TableAddsUp ==
    \A n \in RouteNames : ledger[n] = IF n \in Names THEN 1 ELSE 0

Busy(s) == requests[s] # Idle

\* The table changes only on behalf of an admin request that carried a
\* configured key in a header the gate reads, and in the step that acknowledges
\* the change: exempting the path or disabling the gate opens nothing
\* (AuthGateMiddleware.__call__ with _require_authenticated).
OnlyKeyHoldersChangeRoutes ==
    [][routes' # routes =>
          \E s \in Slots :
              /\ Busy(s) /\ requests[s].kind \in {"create", "delete"}
              /\ ~Busy(s)' /\ reply'.status \in {201, 204}
              /\ \E h \in 1..Len(requests[s].headers) :
                    LET header == requests[s].headers[h]
                    IN  /\ header.name \in HeaderNames
                        /\ header.name = "authorization" => header.bearer
                        /\ \E k \in 1..Len(ApiKeys) :
                              /\ ApiKeys[k].key_value = header.token
                              /\ ApiKeys[k].key_id = requests[s].principal]_vars

\* A client is told that a backend does not exist only about a route created at
\* run time; a configured route is refused for want of a backend only when it
\* names none (_get_adapter against the validators of MoaxyConfig).
UnknownBackendIsRuntime ==
    reply.to = "chat" /\ reply.status = 503 /\ reply.about # Nobody
        => \/ reply.about.route \notin Range(configured)
           \/ /\ reply.about.backend = NoBackend
              /\ reply.about.route.backend = NoBackend

\* Two requests the same route serves, one under an alias and one under the
\* real name, run the same chain of models on the same budget, even if the
\* table changed between their matches (_build_route_match).
AliasTransparent ==
    \A s, t \in Slots :
        LET a == requests[s].match
            b == requests[t].match
        IN  /\ requests[s].phase = "pipeline" /\ requests[t].phase = "pipeline"
            /\ a.route = b.route
            /\ Resolved(a.route, a.model) = Resolved(b.route, b.model)
            => a.chain = b.chain /\ a.retry = b.retry
=============================================================================
