---------------------------- MODULE RoutingProofs ----------------------------
(***************************************************************************)
(* For every set of routes and models: the types of the matcher, that a    *)
(* selector belongs to the route of its name, that round robin is fair     *)
(* across creations, removals and matches of other routes, that no route   *)
(* is pre-empted by a later one and that a weightless backend stays idle.  *)
(***************************************************************************)
EXTENDS Routing, SequenceTheorems, FiniteSetTheorems, TLAPS

(***************************************************************************)
(* The inductive invariant.  Fairness is tied to the selector: while the   *)
(* index stands at k, the first k entries are one ahead of the others.     *)
(***************************************************************************)
IndexInRange ==
    \A n \in DOMAIN selectors :
        \/ selectors[n].index < Len(selectors[n].route.backends)
        \/ selectors[n].index = 0

Ahead(p, index) == IF p <= index THEN 1 ELSE 0

InCycle(route, index) ==
    \E round \in Nat : \A p \in 1..Len(route.backends) :
        served[route.name][p] = round + Ahead(p, index)

Cycles ==
    \A i \in Positions :
        routes[i].strategy = "round_robin" =>
            InCycle(routes[i], SelectorOf(routes[i]).index)

RInv == RoutingTypeOK /\ SelectorsFollowRoutes /\ Cycles

-----------------------------------------------------------------------------
\* Induction along the natural numbers, for a set: one that has 0 and with every
\* number the next one has them all.
LEMMA CountingUp ==
    ASSUME NEW K, 0 \in K, \A k \in Nat : k \in K => k + 1 \in K
    PROVE  Nat \subseteq K
<1> DEFINE missed == {0..k : k \in Nat \ K}
<1>1. missed \subseteq FiniteSubsetsOf(Nat)
  <2>1. ASSUME NEW k \in Nat PROVE 0..k \in FiniteSubsetsOf(Nat)
    <3>1. IsFiniteSet(0..k)
      BY FS_Interval
    <3>2. QED BY <3>1 DEF FiniteSubsetsOf
  <2>2. QED BY <2>1
<1>2. ASSUME NEW n \in Nat \ K PROVE FALSE
  <2>1. missed # {}
    BY <1>2
  <2>2. IsWellFoundedOn(StrictSubsetOrdering(Nat), FiniteSubsetsOf(Nat))
    BY FS_StrictSubsetOrderingWellFounded
  <2>3. PICK x \in missed : \A y \in missed : ~(<<y, x>> \in StrictSubsetOrdering(Nat))
    <3> HIDE DEF missed
    <3>1. QED BY <1>1, <2>1, <2>2, WFMin
  <2>4. PICK k \in Nat \ K : x = 0..k
    BY <2>3
  <2>5. k # 0 /\ k - 1 \in Nat \ K
    BY <2>4
  <2>6. 0..(k - 1) \in missed /\ 0..(k - 1) \subseteq x /\ 0..(k - 1) # x
    BY <2>4, <2>5
  <2>7. <<0..(k - 1), x>> \in StrictSubsetOrdering(Nat)
    BY <2>4, <2>6 DEF StrictSubsetOrdering
  <2>8. QED BY <2>3, <2>6, <2>7
<1>3. QED BY <1>2

\* The running sum of _select_weighted exists, starts at nothing and grows by one
\* weight at a time.
LEMMA CumulativeWeights ==
    ASSUME NEW refs, Len(refs) \in Nat,
           \A p \in 1..Len(refs) : refs[p].weight \in Nat
    PROVE  /\ CumulativeWeight(refs) \in [0..Len(refs) -> Nat]
           /\ CumulativeWeight(refs)[0] = 0
           /\ \A p \in 1..Len(refs) :
                 CumulativeWeight(refs)[p] = CumulativeWeight(refs)[p - 1] + refs[p].weight
<1> DEFINE n == Len(refs)
           w(p) == refs[p].weight
           Sums(g, k) == /\ g \in [0..k -> Nat] /\ g[0] = 0
                         /\ \A p \in 1..k : g[p] = g[p - 1] + w(p)
           summed == {k \in Nat : k <= n => \E g \in [0..k -> Nat] : Sums(g, k)}
<1>1. 0 \in summed
  <2>1. Sums([p \in 0..0 |-> 0], 0)
    OBVIOUS
  <2>2. QED BY <2>1
<1>2. ASSUME NEW k \in Nat, k \in summed PROVE k + 1 \in summed
  <2>1. ASSUME k + 1 <= n PROVE \E g \in [0..(k + 1) -> Nat] : Sums(g, k + 1)
    <3>a. \E g \in [0..k -> Nat] : Sums(g, k)
      <4>1. k <= n
        BY <2>1
      <4>2. QED BY <1>2, <4>1
    <3>1. PICK g \in [0..k -> Nat] : Sums(g, k)
      BY <3>a
    <3> DEFINE more == [p \in 0..(k + 1) |-> IF p <= k THEN g[p] ELSE g[k] + w(k + 1)]
    <3>2. more \in [0..(k + 1) -> Nat] /\ more[0] = 0
      BY <2>1, <3>1
    <3>3. \A p \in 1..(k + 1) : more[p] = more[p - 1] + w(p)
      BY <3>1
    <3> HIDE DEF more
    <3>4. Sums(more, k + 1)
      BY <3>2, <3>3
    <3>5. QED BY <3>2, <3>4
  <2> HIDE DEF Sums
  <2>2. QED BY <2>1
<1>3. n \in summed
  <2> HIDE DEF summed
  <2>1. QED BY <1>1, <1>2, CountingUp
<1>4. PICK g \in [0..n -> Nat] : Sums(g, n)
  BY <1>3
<1> DEFINE Step(f) == [p \in 0..n |-> IF p = 0 THEN 0 ELSE f[p - 1] + w(p)]
<1>5. g = Step(g)
  BY <1>4
<1>6. CumulativeWeight(refs) = CHOOSE f : f = Step(f)
  BY DEF CumulativeWeight
<1>7. CumulativeWeight(refs) = Step(CumulativeWeight(refs))
  BY <1>5, <1>6
<1> DEFINE agree == {k \in Nat : k <= n => CumulativeWeight(refs)[k] = g[k]}
<1>8. 0 \in agree
  BY <1>4, <1>7
<1>9. ASSUME NEW k \in Nat, k \in agree PROVE k + 1 \in agree
  BY <1>4, <1>7, <1>9
<1>10. \A k \in 0..n : CumulativeWeight(refs)[k] = g[k]
  <2> HIDE DEF agree
  <2>1. Nat \subseteq agree
    BY <1>8, <1>9, CountingUp
  <2>2. QED BY <2>1 DEF agree
<1>11. QED
  <2>1. CumulativeWeight(refs) = g
    BY <1>4, <1>7, <1>10
  <2>2. QED BY <1>4, <2>1

\* An entry of weight zero takes up no room on the way to the total: the weighted
\* choice passes it over unless nothing has weight.
LEMMA WeightlessPassedOver ==
    ASSUME NEW refs, Len(refs) \in Nat,
           \A p \in 1..Len(refs) : refs[p].weight \in Nat,
           NEW heavy \in 1..Len(refs), refs[heavy].weight > 0,
           NEW picked \in WeightedPositions(refs)
    PROVE  picked \in 1..Len(refs) /\ refs[picked].weight # 0
<1> DEFINE n == Len(refs)
           sum == CumulativeWeight(refs)
<1>1. /\ sum \in [0..n -> Nat] /\ sum[0] = 0
      /\ \A p \in 1..n : sum[p] = sum[p - 1] + refs[p].weight
  BY CumulativeWeights
<1> HIDE DEF sum
<1>2. sum[n] > 0
  <2> DEFINE grown == {k \in Nat : heavy + k <= n => sum[heavy + k] > 0}
  <2>1. 0 \in grown
    BY <1>1
  <2>2. ASSUME NEW k \in Nat, k \in grown PROVE k + 1 \in grown
    <3>1. ASSUME heavy + (k + 1) <= n PROVE sum[heavy + (k + 1)] > 0
      <4>1. heavy + k <= n /\ sum[heavy + k] > 0 /\ sum[heavy + k] \in Nat
        BY <1>1, <2>2, <3>1
      <4>2. heavy + (k + 1) \in 1..n /\ (heavy + (k + 1)) - 1 = heavy + k
        BY <3>1
      <4>3. sum[heavy + (k + 1)] = sum[heavy + k] + refs[heavy + (k + 1)].weight
        BY <1>1, <4>2
      <4>4. QED BY <4>1, <4>2, <4>3
    <3>2. QED BY <3>1
  <2>3. Nat \subseteq grown
    <3> HIDE DEF grown
    <3>1. QED BY <2>1, <2>2, CountingUp
  <2>4. n - heavy \in Nat /\ heavy + (n - heavy) = n
    OBVIOUS
  <2>5. n - heavy \in grown
    <3> HIDE DEF grown
    <3>1. QED BY <2>3, <2>4
  <2>6. QED BY <2>4, <2>5
<1>3. PICK target \in 0..(sum[n] - 1) :
          /\ picked \in 1..n /\ target < sum[picked]
          /\ \A q \in 1..(picked - 1) : target >= sum[q]
  <2>1. sum[n] # 0
    BY <1>1, <1>2
  <2>2. QED BY <2>1 DEF WeightedPositions, sum
<1>4. sum[picked - 1] <= target
  BY <1>1, <1>3
<1>5. sum[picked] = sum[picked - 1] + refs[picked].weight
  BY <1>1, <1>3
<1>6. /\ sum[picked] \in Nat /\ sum[picked - 1] \in Nat /\ sum[n] \in Nat
      /\ refs[picked].weight \in Nat
  <2>1. picked \in 0..n /\ picked - 1 \in 0..n /\ n \in 0..n
    BY <1>3
  <2>2. refs[picked].weight \in Nat
    BY <1>3
  <2>3. QED BY <1>1, <2>1, <2>2
<1> HIDE DEF n
<1>7. refs[picked].weight # 0
  BY <1>3, <1>4, <1>5, <1>6
<1>8. QED BY <1>3, <1>7 DEF n

\* What removing an element leaves of a sequence.
LEMMA RemoveAtProperties ==
    ASSUME NEW S, NEW s \in Seq(S), NEW i \in 1..Len(s)
    PROVE  /\ RemoveAt(s, i) \in Seq(S)
           /\ Len(RemoveAt(s, i)) = Len(s) - 1
           /\ \A j \in 1..(Len(s) - 1) :
                 RemoveAt(s, i)[j] = s[IF j < i THEN j ELSE j + 1]
<1> DEFINE front == SubSeq(s, 1, i - 1)
           back  == SubSeq(s, i + 1, Len(s))
<1>1. Len(s) \in Nat /\ i \in Nat
  OBVIOUS
<1>2. /\ front \in Seq(S) /\ Len(front) = i - 1
      /\ \A j \in 1..(i - 1) : front[j] = s[j]
  BY SMT
<1>3. /\ back \in Seq(S) /\ Len(back) = Len(s) - i
      /\ \A j \in 1..(Len(s) - i) : back[j] = s[i + j]
  BY SMT
<1>4. RemoveAt(s, i) = front \o back
  BY DEF RemoveAt
<1> HIDE DEF front, back
<1>5. /\ front \o back \in Seq(S)
      /\ Len(front \o back) = Len(front) + Len(back)
      /\ \A j \in 1..(Len(front) + Len(back)) :
            (front \o back)[j] = IF j <= Len(front) THEN front[j]
                                 ELSE back[j - Len(front)]
  BY <1>2, <1>3, ConcatProperties
<1>6. ASSUME NEW j \in 1..(Len(s) - 1)
      PROVE  (front \o back)[j] = s[IF j < i THEN j ELSE j + 1]
  <2>1. CASE j < i
    BY <2>1, <1>1, <1>2, <1>3, <1>5
  <2>2. CASE ~(j < i)
    <3>1. j - (i - 1) \in 1..(Len(s) - i)
      BY <2>2, <1>1
    <3>2. (front \o back)[j] = back[j - (i - 1)]
      BY <2>2, <1>1, <1>2, <1>3, <1>5
    <3>3. back[j - (i - 1)] = s[i + (j - (i - 1))] /\ i + (j - (i - 1)) = j + 1
      BY <3>1, <1>1, <1>3
    <3>4. QED BY <2>2, <3>2, <3>3, <1>1
  <2>3. QED BY <2>1, <2>2
<1>7. QED BY <1>1, <1>2, <1>3, <1>4, <1>5, <1>6

\* A route's list of backends is a list, and a match in a weighted or cyclic
\* route takes one of its entries.
LEMMA PicksAreEntries ==
    ASSUME NEW route \in Routes, NEW k \in Nat,
           k < Len(route.backends) \/ k = 0,
           NEW pick \in Selections([route |-> route, index |-> k])
    PROVE  \/ /\ pick.entry = 0 /\ pick.index = k /\ pick.backend = route.backend
              /\ route.strategy = "single" \/ Len(route.backends) = 0
           \/ /\ pick.entry \in 1..Len(route.backends)
              /\ pick.backend = route.backends[pick.entry].name
              /\ route.strategy = "weighted" /\ pick.index = k
           \/ /\ pick.entry = k + 1 /\ k + 1 \in 1..Len(route.backends)
              /\ pick.backend = route.backends[pick.entry].name
              /\ pick.index = IF k + 1 = Len(route.backends) THEN 0 ELSE k + 1
              /\ route.strategy = "round_robin"
<1>1. /\ Len(route.backends) \in Nat
      /\ route.strategy \in {"single", "weighted", "round_robin"}
  BY RoutesAssumption
<1>2. ASSUME Len(route.backends) > 0
      PROVE  WeightedPositions(route.backends) \subseteq 1..Len(route.backends)
  BY <1>1, <1>2 DEF WeightedPositions
<1>3. CASE route.strategy = "single" \/ Len(route.backends) = 0
  BY <1>3 DEF Selections
<1>4. CASE route.strategy = "weighted" /\ Len(route.backends) # 0
  <2>1. PICK p \in WeightedPositions(route.backends) :
            pick = [backend |-> route.backends[p].name, entry |-> p, index |-> k]
    BY <1>4 DEF Selections
  <2>2. p \in 1..Len(route.backends)
    BY <2>1, <1>1, <1>2, <1>4
  <2>3. QED BY <2>1, <2>2, <1>4
<1>5. CASE route.strategy = "round_robin" /\ Len(route.backends) # 0
  <2>1. pick = [backend |-> route.backends[k + 1].name, entry |-> k + 1,
                index |-> IF k + 1 = Len(route.backends) THEN 0 ELSE k + 1]
    BY <1>5 DEF Selections
  <2>2. k + 1 \in 1..Len(route.backends)
    BY <1>1, <1>5
  <2>3. QED BY <2>1, <2>2, <1>5
<1>6. QED BY <1>1, <1>3, <1>4, <1>5

-----------------------------------------------------------------------------
\* What the invariant says of the table.
LEMMA TableFacts ==
    ASSUME RInv
    PROVE  /\ routes \in Seq(Routes) /\ Len(routes) \in Nat
           /\ \A i \in Positions : routes[i] \in Routes /\ routes[i].name \in Names
           /\ \A i, j \in Positions : routes[i].name = routes[j].name => i = j
           /\ \A i \in Positions :
                 /\ Len(routes[i].backends) \in Nat
                 /\ SelectorOf(routes[i]) =
                       [route |-> routes[i], index |-> SelectorOf(routes[i]).index]
                 /\ SelectorOf(routes[i]).index \in Nat
                 /\ \/ SelectorOf(routes[i]).index < Len(routes[i].backends)
                    \/ SelectorOf(routes[i]).index = 0
<1> USE DEF RInv
<1>1. routes \in Seq(Routes) /\ Len(routes) \in Nat
  BY DEF RoutingTypeOK
<1>2. \A i \in Positions : routes[i] \in Routes /\ routes[i].name \in Names
  BY <1>1 DEF Positions, Names
<1>3. \A i, j \in Positions : routes[i].name = routes[j].name => i = j
  BY DEF SelectorsFollowRoutes, UniquelyNamed, Positions
<1>4. ASSUME NEW i \in Positions
      PROVE  /\ SelectorOf(routes[i]) =
                   [route |-> routes[i], index |-> SelectorOf(routes[i]).index]
             /\ SelectorOf(routes[i]).index \in Nat
             /\ \/ SelectorOf(routes[i]).index < Len(routes[i].backends)
                \/ SelectorOf(routes[i]).index = 0
  <2>1. CASE routes[i].name \in DOMAIN selectors
    <3>1. PICK j \in Positions : /\ routes[j].name = routes[i].name
                                 /\ selectors[routes[i].name].route = routes[j]
      BY <2>1 DEF SelectorsFollowRoutes
    <3>2. selectors[routes[i].name].route = routes[i]
      BY <3>1, <1>3
    <3>3. /\ selectors[routes[i].name] \in [route : Routes, index : Nat]
          /\ \/ selectors[routes[i].name].index < Len(selectors[routes[i].name].route.backends)
             \/ selectors[routes[i].name].index = 0
      BY <2>1 DEF RoutingTypeOK
    <3>4. QED BY <2>1, <3>2, <3>3 DEF SelectorOf
  <2>2. CASE routes[i].name \notin DOMAIN selectors
    BY <2>2 DEF SelectorOf, FreshSelector
  <2>3. QED BY <2>1, <2>2
<1>5. \A i \in Positions : Len(routes[i].backends) \in Nat
  BY <1>2, RoutesAssumption
<1>6. QED BY <1>1, <1>2, <1>3, <1>4, <1>5

-----------------------------------------------------------------------------
\* A matcher starts inside the invariant.
LEMMA InitEstablishes == RoutingInit => RInv
<1> SUFFICES ASSUME RoutingInit PROVE RInv
  OBVIOUS
<1>1. /\ routes \in Seq(Routes) /\ Len(routes) \in Nat /\ UniquelyNamed(routes)
      /\ selectors = [n \in {} |-> 0]
  BY ConfigsAssumption DEF RoutingInit, ValidConfig
<1>2. \A i, j \in Positions : routes[i].name = routes[j].name => i = j
  BY <1>1 DEF UniquelyNamed, Positions
<1>3. DOMAIN selectors = {} /\ DOMAIN served = Names
  BY <1>1 DEF RoutingInit
<1>4. ASSUME NEW i \in Positions
      PROVE  /\ served[routes[i].name] \in [1..Len(routes[i].backends) -> Nat]
             /\ \A p \in 1..Len(routes[i].backends) : served[routes[i].name][p] = 0
  <2>1. routes[i].name \in Names /\ routes[i] \in Routes
    BY <1>1 DEF Names, Positions
  <2>2. (CHOOSE j \in Positions : routes[j].name = routes[i].name) = i
    BY <1>2
  <2>3. served[routes[i].name] = NoneServed(routes[i])
    BY <2>1, <2>2 DEF RoutingInit
  <2>4. QED BY <2>1, <2>3, RoutesAssumption DEF NoneServed
<1>5. RoutingTypeOK
  BY <1>1, <1>3, <1>4 DEF RoutingTypeOK
<1>6. SelectorsFollowRoutes
  BY <1>1, <1>3 DEF SelectorsFollowRoutes
<1>7. Cycles
  <2> SUFFICES ASSUME NEW i \in Positions
               PROVE  InCycle(routes[i], SelectorOf(routes[i]).index)
    BY DEF Cycles
  <2>1. SelectorOf(routes[i]).index = 0
    BY <1>3 DEF SelectorOf, FreshSelector
  <2>2. \A p \in 1..Len(routes[i].backends) :
            served[routes[i].name][p] = 0 + Ahead(p, 0)
    <3>1. Len(routes[i].backends) \in Nat
      BY <1>1, RoutesAssumption DEF Positions
    <3>2. QED BY <1>4, <3>1 DEF Ahead
  <2>3. QED BY <2>1, <2>2 DEF InCycle
<1>8. QED BY <1>5, <1>6, <1>7 DEF RInv

\* Creating a route keeps the invariant: no other selector moves.
LEMMA AddPreserves ==
    ASSUME RInv, NEW new \in Routes, AddRoute(new)
    PROVE  RInv'
<1> DEFINE last == Len(routes) + 1
<1>1. /\ routes' = Append(routes, new) /\ new.name \notin Names
      /\ selectors' = With(selectors, new.name, FreshSelector(new))
      /\ served' = With(served, new.name, NoneServed(new))
  BY DEF AddRoute
<1>2. /\ routes' \in Seq(Routes) /\ Positions' = Positions \cup {last}
      /\ \A i \in Positions : routes'[i] = routes[i] /\ routes[i].name # new.name
      /\ routes'[last] = new /\ last \notin Positions
  <2>1. /\ Len(routes') = last /\ routes' \in Seq(Routes)
        /\ \A i \in 1..Len(routes) : routes'[i] = routes[i]
        /\ routes'[last] = new
    BY <1>1, TableFacts, AppendProperties
  <2>2. QED BY <1>1, <2>1, TableFacts DEF Positions, Names
<1> HIDE DEF last
<1>3. Len(new.backends) \in Nat
  BY RoutesAssumption
<1>4. /\ DOMAIN selectors' = DOMAIN selectors \cup {new.name}
      /\ selectors'[new.name] = [route |-> new, index |-> 0]
      /\ \A n \in DOMAIN selectors : n # new.name => selectors'[n] = selectors[n]
  BY <1>1 DEF With, FreshSelector
<1>5. /\ DOMAIN served' = Names \cup {new.name}
      /\ served'[new.name] = [p \in 1..Len(new.backends) |-> 0]
      /\ \A n \in Names : served'[n] = served[n]
  BY <1>1 DEF With, NoneServed, RInv, RoutingTypeOK
<1>6. Names' = Names \cup {new.name}
  BY <1>2 DEF Names
<1>7. ASSUME NEW i \in Positions'
      PROVE  \/ i \in Positions /\ routes'[i] = routes[i]
             \/ i = last /\ routes'[i] = new
  BY <1>2
<1>8. RoutingTypeOK'
  <2>1. ASSUME NEW n \in DOMAIN selectors'
        PROVE  /\ selectors'[n] \in [route : Routes, index : Nat]
               /\ \/ selectors'[n].index < Len(selectors'[n].route.backends)
                  \/ selectors'[n].index = 0
    BY <1>4 DEF RInv, RoutingTypeOK
  <2>2. ASSUME NEW i \in Positions'
        PROVE  served'[routes'[i].name] \in [1..Len(routes'[i].backends) -> Nat]
    <3>1. CASE i \in Positions
      <4>1. routes[i].name \in Names
        BY <3>1 DEF Names
      <4>2. QED BY <1>2, <1>5, <3>1, <4>1 DEF RInv, RoutingTypeOK
    <3>2. CASE i = last
      BY <1>2, <1>3, <1>5, <3>2
    <3>3. QED BY <1>7, <3>1, <3>2
  <2>3. QED BY <1>2, <1>5, <1>6, <2>1, <2>2 DEF RoutingTypeOK
<1>9. SelectorsFollowRoutes'
  <2>1. \A i, j \in Positions' : routes'[i].name = routes'[j].name => i = j
    BY <1>2, TableFacts
  <2>2. ASSUME NEW n \in DOMAIN selectors'
        PROVE  \E i \in Positions' :
                  routes'[i].name = n /\ selectors'[n].route = routes'[i]
    <3>1. CASE n = new.name
      BY <1>2, <1>4, <3>1
    <3>2. CASE n # new.name
      <4>1. PICK i \in Positions : routes[i].name = n /\ selectors[n].route = routes[i]
        BY <2>2, <3>2, <1>4 DEF RInv, SelectorsFollowRoutes
      <4>2. QED BY <2>2, <3>2, <4>1, <1>2, <1>4
    <3>3. QED BY <3>1, <3>2
  <2>3. QED BY <2>1, <2>2 DEF SelectorsFollowRoutes, UniquelyNamed, Positions
<1>10. Cycles'
  <2> SUFFICES ASSUME NEW i \in Positions', routes'[i].strategy = "round_robin"
               PROVE  InCycle(routes[i], SelectorOf(routes[i]).index)'
    BY DEF Cycles
  <2>1. CASE i \in Positions
    <3>1. routes'[i] = routes[i] /\ routes[i].name \in Names /\ routes[i].name # new.name
      BY <2>1, <1>2 DEF Names
    <3>2. InCycle(routes[i], SelectorOf(routes[i]).index)
      BY <2>1, <3>1 DEF RInv, Cycles
    <3>3. SelectorOf(routes[i])' = SelectorOf(routes[i])
      BY <3>1, <1>4 DEF SelectorOf
    <3>4. served'[routes[i].name] = served[routes[i].name]
      BY <3>1, <1>5
    <3>5. QED BY <3>1, <3>2, <3>3, <3>4 DEF InCycle
  <2>2. CASE i = last
    <3>1. routes'[i] = new
      BY <2>2, <1>2
    <3>2. (SelectorOf(routes[i]).index)' = 0
      BY <3>1, <1>4 DEF SelectorOf
    <3>3. \A p \in 1..Len(new.backends) : served'[new.name][p] = 0 + Ahead(p, 0)
      BY <1>5, <1>3 DEF Ahead
    <3>4. QED BY <3>1, <3>2, <3>3 DEF InCycle
  <2>3. QED BY <1>7, <2>1, <2>2
<1>11. QED BY <1>8, <1>9, <1>10 DEF RInv

\* Removing a route keeps the invariant: the others shift, their selectors stay.
LEMMA RemovePreserves ==
    ASSUME RInv, NEW name, RemoveRoute(name)
    PROVE  RInv'
<1>1. PICK k \in Positions :
          /\ routes[k].name = name
          /\ routes' = RemoveAt(routes, k)
          /\ selectors' = Without(selectors, name)
          /\ served' = Without(served, name)
  BY DEF RemoveRoute
<1> DEFINE old(i) == IF i < k THEN i ELSE i + 1
<1>2. /\ routes' \in Seq(Routes) /\ Positions' = 1..(Len(routes) - 1)
      /\ \A i \in Positions' : routes'[i] = routes[old(i)] /\ old(i) \in Positions
      /\ \A i \in Positions' : routes'[i].name # name
      /\ \A i \in Positions : i # k => \E j \in Positions' : old(j) = i
  <2>1. routes \in Seq(Routes) /\ Len(routes) \in Nat /\ k \in 1..Len(routes)
    BY TableFacts DEF Positions
  <2>2. /\ routes' \in Seq(Routes) /\ Positions' = 1..(Len(routes) - 1)
        /\ \A i \in 1..(Len(routes) - 1) : routes'[i] = routes[old(i)]
    BY <1>1, <2>1, RemoveAtProperties DEF Positions
  <2>3. \A i \in Positions' : old(i) \in Positions /\ old(i) # k
    BY <2>1, <2>2 DEF Positions
  <2>4. \A i \in Positions' : routes'[i].name # name
    BY <1>1, <2>2, <2>3, TableFacts
  <2>5. ASSUME NEW i \in Positions, i # k PROVE \E j \in Positions' : old(j) = i
    <3>1. CASE i < k
      BY <3>1, <2>1, <2>2 DEF Positions
    <3>2. CASE ~(i < k)
      <4>1. i - 1 \in Positions' /\ old(i - 1) = i
        BY <3>2, <2>1, <2>2, <2>5 DEF Positions
      <4>2. QED BY <4>1
    <3>3. QED BY <3>1, <3>2
  <2>6. QED BY <2>2, <2>3, <2>4, <2>5
<1>3. \A i, j \in Positions' : old(i) = old(j) => i = j
  BY <1>2, TableFacts DEF Positions
<1> HIDE DEF old
<1>4. /\ DOMAIN selectors' = DOMAIN selectors \ {name}
      /\ \A n \in DOMAIN selectors' : selectors'[n] = selectors[n]
  BY <1>1 DEF Without
<1>5. Names' = Names \ {name}
  <2>1. ASSUME NEW i \in Positions' PROVE routes'[i].name \in Names \ {name}
    BY <1>2 DEF Names
  <2>2. ASSUME NEW i \in Positions, routes[i].name # name
        PROVE  \E j \in Positions' : routes'[j].name = routes[i].name
    BY <2>2, <1>1, <1>2
  <2>3. QED BY <2>1, <2>2 DEF Names
<1>6. /\ DOMAIN served' = Names'
      /\ \A n \in Names' : served'[n] = served[n]
  BY <1>1, <1>5 DEF Without, RInv, RoutingTypeOK
<1>7. ASSUME NEW i \in Positions'
      PROVE  routes'[i].name \in Names' /\ routes'[i] = routes[old(i)] /\ old(i) \in Positions
  BY <1>2 DEF Names
<1>8. RoutingTypeOK'
  <2>1. \A i \in Positions' :
            served'[routes'[i].name] \in [1..Len(routes'[i].backends) -> Nat]
    BY <1>6, <1>7 DEF RInv, RoutingTypeOK
  <2>2. \A n \in DOMAIN selectors' :
            /\ selectors'[n] \in [route : Routes, index : Nat]
            /\ \/ selectors'[n].index < Len(selectors'[n].route.backends)
               \/ selectors'[n].index = 0
    BY <1>4 DEF RInv, RoutingTypeOK
  <2>3. QED BY <1>2, <1>6, <2>1, <2>2 DEF RoutingTypeOK
<1>9. SelectorsFollowRoutes'
  <2>1. \A i, j \in Positions' : routes'[i].name = routes'[j].name => i = j
    BY <1>3, <1>7, TableFacts
  <2>2. ASSUME NEW n \in DOMAIN selectors'
        PROVE  \E i \in Positions' :
                  routes'[i].name = n /\ selectors'[n].route = routes'[i]
    <3>1. PICK i \in Positions : routes[i].name = n /\ selectors[n].route = routes[i]
      BY <2>2, <1>4 DEF RInv, SelectorsFollowRoutes
    <3>2. i # k
      BY <1>1, <1>4, <2>2, <3>1
    <3>3. PICK j \in Positions' : old(j) = i
      BY <1>2, <3>2
    <3>4. QED BY <1>4, <1>7, <2>2, <3>1, <3>3
  <2>3. QED BY <2>1, <2>2 DEF SelectorsFollowRoutes, UniquelyNamed, Positions
<1>10. Cycles'
  <2> SUFFICES ASSUME NEW i \in Positions', routes'[i].strategy = "round_robin"
               PROVE  InCycle(routes[i], SelectorOf(routes[i]).index)'
    BY DEF Cycles
  <2>1. /\ routes'[i] = routes[old(i)] /\ old(i) \in Positions
        /\ routes'[i].name \in Names'
    BY <1>7
  <2>2. InCycle(routes[old(i)], SelectorOf(routes[old(i)]).index)
    BY <2>1 DEF RInv, Cycles
  <2>3. SelectorOf(routes[i])' = SelectorOf(routes[old(i)])
    BY <2>1, <1>4, <1>5 DEF SelectorOf
  <2>4. served'[routes'[i].name] = served[routes'[i].name]
    BY <2>1, <1>6
  <2>5. QED BY <2>1, <2>2, <2>3, <2>4 DEF InCycle
<1>11. QED BY <1>8, <1>9, <1>10 DEF RInv

\* A match keeps the invariant: it moves the selector of its own route only, and
\* counts the entry the selector took.
LEMMA MatchPreserves ==
    ASSUME RInv, NEW model, NEW found, Match(model, found)
    PROVE  RInv'
<1>a. PICK i \in Positions : \E pick \in Selections(SelectorOf(routes[i])) :
          /\ selectors' = With(selectors, routes[i].name,
                               [SelectorOf(routes[i]) EXCEPT !.index = pick.index])
          /\ served' = IF pick.entry = 0 THEN served
                       ELSE [served EXCEPT ![routes[i].name][pick.entry] = @ + 1]
          /\ routes' = routes
  BY DEF Match
<1>1. PICK pick \in Selections(SelectorOf(routes[i])) :
          /\ selectors' = With(selectors, routes[i].name,
                               [SelectorOf(routes[i]) EXCEPT !.index = pick.index])
          /\ served' = IF pick.entry = 0 THEN served
                       ELSE [served EXCEPT ![routes[i].name][pick.entry] = @ + 1]
          /\ routes' = routes
  BY <1>a
<1> DEFINE name == routes[i].name
           refs == routes[i].backends
           k    == SelectorOf(routes[i]).index
<1>2. /\ routes[i] \in Routes /\ name \in Names /\ Len(refs) \in Nat
      /\ SelectorOf(routes[i]) = [route |-> routes[i], index |-> k]
      /\ k \in Nat /\ (k < Len(refs) \/ k = 0)
  BY TableFacts
<1>3. \/ /\ pick.entry = 0 /\ pick.index = k
         /\ routes[i].strategy = "single" \/ Len(refs) = 0
      \/ /\ pick.entry \in 1..Len(refs)
         /\ routes[i].strategy = "weighted" /\ pick.index = k
      \/ /\ pick.entry = k + 1 /\ k + 1 \in 1..Len(refs)
         /\ pick.index = IF k + 1 = Len(refs) THEN 0 ELSE k + 1
         /\ routes[i].strategy = "round_robin"
  BY <1>1, <1>2, PicksAreEntries
<1>4. /\ DOMAIN selectors' = DOMAIN selectors \cup {name}
      /\ selectors'[name] = [route |-> routes[i], index |-> pick.index]
      /\ \A n \in DOMAIN selectors : n # name => selectors'[n] = selectors[n]
  BY <1>1, <1>2 DEF With
<1>5. /\ DOMAIN served' = Names
      /\ \A n \in Names : n # name => served'[n] = served[n]
      /\ served[name] \in [1..Len(refs) -> Nat]
      /\ served'[name] = IF pick.entry = 0 THEN served[name]
                         ELSE [served[name] EXCEPT ![pick.entry] = @ + 1]
  BY <1>1, <1>2 DEF RInv, RoutingTypeOK
<1>6. Positions' = Positions /\ Names' = Names /\ routes' = routes
  BY <1>1 DEF Positions, Names
<1>7. \A j \in Positions : j # i => routes[j].name \in Names \ {name}
  BY TableFacts
<1> HIDE DEF name, refs, k
<1>8. pick.index \in Nat /\ (pick.index < Len(refs) \/ pick.index = 0)
  BY <1>2, <1>3
<1>9. served'[name] \in [1..Len(refs) -> Nat]
  BY <1>2, <1>3, <1>5
<1>10. RoutingTypeOK'
  <2>1. ASSUME NEW n \in DOMAIN selectors'
        PROVE  /\ selectors'[n] \in [route : Routes, index : Nat]
               /\ \/ selectors'[n].index < Len(selectors'[n].route.backends)
                  \/ selectors'[n].index = 0
    <3>1. CASE n = name
      BY <3>1, <1>2, <1>4, <1>8 DEF refs
    <3>2. CASE n # name
      BY <3>2, <1>4, <2>1 DEF RInv, RoutingTypeOK
    <3>3. QED BY <3>1, <3>2
  <2>2. ASSUME NEW j \in Positions
        PROVE  served'[routes[j].name] \in [1..Len(routes[j].backends) -> Nat]
    <3>1. CASE j = i
      BY <3>1, <1>9 DEF name, refs
    <3>2. CASE j # i
      BY <3>2, <1>5, <1>7 DEF RInv, RoutingTypeOK
    <3>3. QED BY <3>1, <3>2
  <2>3. QED BY <1>5, <1>6, <2>1, <2>2 DEF RInv, RoutingTypeOK
<1>11. SelectorsFollowRoutes'
  <2>1. UniquelyNamed(routes')
    BY <1>6 DEF RInv, SelectorsFollowRoutes
  <2>2. ASSUME NEW n \in DOMAIN selectors'
        PROVE  \E j \in Positions : routes[j].name = n /\ selectors'[n].route = routes[j]
    <3>1. CASE n = name
      BY <3>1, <1>4 DEF name
    <3>2. CASE n # name
      BY <3>2, <1>4, <2>2 DEF RInv, SelectorsFollowRoutes
    <3>3. QED BY <3>1, <3>2
  <2>3. QED BY <2>1, <2>2, <1>6 DEF SelectorsFollowRoutes
<1>12. Cycles'
  <2> SUFFICES ASSUME NEW j \in Positions, routes[j].strategy = "round_robin"
               PROVE  InCycle(routes[j], SelectorOf(routes[j]).index)'
    BY <1>6 DEF Cycles
  <2>1. InCycle(routes[j], SelectorOf(routes[j]).index)
    BY DEF RInv, Cycles
  <2>2. CASE j # i
    <3>1. SelectorOf(routes[j])' = SelectorOf(routes[j])
      BY <2>2, <1>4, <1>6, <1>7 DEF SelectorOf
    <3>2. served'[routes[j].name] = served[routes[j].name]
      BY <2>2, <1>5, <1>7
    <3>3. QED BY <2>1, <3>1, <3>2, <1>6 DEF InCycle
  <2>3. CASE j = i
    <3>1. (SelectorOf(routes[i]).index)' = pick.index
      BY <1>4, <1>6 DEF SelectorOf, name
    <3>a. SUFFICES \E round \in Nat : \A p \in 1..Len(refs) :
                      served'[name][p] = round + Ahead(p, pick.index)
      BY <2>3, <3>1, <1>6 DEF InCycle, name, refs
    <3>2. PICK round \in Nat :
              \A p \in 1..Len(refs) : served[name][p] = round + Ahead(p, k)
      BY <2>1, <2>3 DEF InCycle, name, refs, k
    <3>3. CASE pick.entry = 0
      <4>1. Len(refs) = 0
        BY <3>3, <2>3, <1>2, <1>3
      <4>2. \A p \in 1..Len(refs) : served'[name][p] = 0 + Ahead(p, pick.index)
        BY <4>1
      <4>3. QED BY <4>2
    <3>4. CASE pick.entry # 0
      <4>1. /\ pick.entry = k + 1 /\ k + 1 \in 1..Len(refs)
            /\ pick.index = IF k + 1 = Len(refs) THEN 0 ELSE k + 1
        BY <3>4, <2>3, <1>3
      <4>2. \A p \in 1..Len(refs) :
                served'[name][p] = IF p = k + 1 THEN served[name][p] + 1
                                                ELSE served[name][p]
        BY <3>4, <4>1, <1>5
      <4>3. \A p \in 1..Len(refs) : served'[name][p] = round + Ahead(p, k + 1)
        BY <4>2, <3>2, <1>2 DEF Ahead
      <4>4. CASE k + 1 = Len(refs)
        <5>1. \A p \in 1..Len(refs) : served'[name][p] = (round + 1) + Ahead(p, 0)
          BY <4>3, <4>4, <1>2 DEF Ahead
        <5>2. round + 1 \in Nat /\ pick.index = 0
          BY <4>1, <4>4
        <5>3. QED BY <5>1, <5>2
      <4>5. CASE k + 1 # Len(refs)
        BY <4>3, <4>1, <4>5
      <4>6. QED BY <4>4, <4>5
    <3>5. QED BY <3>3, <3>4
  <2>4. QED BY <2>2, <2>3
<1>13. QED BY <1>10, <1>11, <1>12 DEF RInv

\* Every step of the matcher stays inside the invariant.
LEMMA StepPreserves == RInv /\ [RoutingNext]_routingVars => RInv'
<1> SUFFICES ASSUME RInv, [RoutingNext]_routingVars PROVE RInv'
  OBVIOUS
<1>1. CASE UNCHANGED routingVars
  BY <1>1 DEF routingVars, RInv, RoutingTypeOK, SelectorsFollowRoutes, UniquelyNamed,
     Cycles, InCycle, SelectorOf, Positions, Names
<1>2. CASE \E route \in Routes : AddRoute(route)
  BY <1>2, AddPreserves
<1>3. CASE \E i \in Positions : RemoveRoute(routes[i].name)
  BY <1>3, RemovePreserves
<1>4. CASE \E model \in Models, i \in Positions :
              \E pick \in Selections(SelectorOf(routes[i])) :
                  Match(model, RouteMatch(routes[i], model, pick.backend))
  BY <1>4, MatchPreserves
<1>5. QED BY <1>1, <1>2, <1>3, <1>4 DEF RoutingNext

\* The invariant holds in every reachable state.
LEMMA Invariance == RoutingSpec => []RInv
<1>1. QED BY InitEstablishes, StepPreserves, PTL DEF RoutingSpec

-----------------------------------------------------------------------------
\* What a step does to the count of a route that is in the table after it: none
\* of the three ways gives weight to an entry that has none.
LEMMA CountsMove ==
    ASSUME RInv, RoutingNext, NEW i \in Positions'
    PROVE  \/ served'[routes'[i].name] = NoneServed(routes'[i])
           \/ \E j \in Positions :
                 /\ routes'[i] = routes[j]
                 /\ \/ served'[routes'[i].name] = served[routes[j].name]
                    \/ \E pick \in Selections(SelectorOf(routes[j])) :
                          served'[routes'[i].name] =
                              [served[routes[j].name] EXCEPT ![pick.entry] = @ + 1]
<1>1. /\ routes \in Seq(Routes) /\ Len(routes) \in Nat /\ DOMAIN served = Names
      /\ \A j \in Positions : routes[j].name \in Names
  BY TableFacts DEF RInv, RoutingTypeOK
<1>2. ASSUME NEW new \in Routes, AddRoute(new) PROVE
          \/ served'[routes'[i].name] = NoneServed(routes'[i])
          \/ i \in Positions /\ routes'[i] = routes[i]
                /\ served'[routes'[i].name] = served[routes[i].name]
  <2>1. /\ routes' = Append(routes, new) /\ new.name \notin Names
        /\ served' = With(served, new.name, NoneServed(new))
    BY <1>2 DEF AddRoute
  <2>2. /\ Len(routes') = Len(routes) + 1 /\ routes'[Len(routes) + 1] = new
        /\ \A j \in 1..Len(routes) : routes'[j] = routes[j]
    BY <1>1, <2>1, AppendProperties
  <2>3. CASE i = Len(routes) + 1
    BY <2>1, <2>2, <2>3 DEF With
  <2>4. CASE i # Len(routes) + 1
    <3>1. i \in Positions /\ routes'[i] = routes[i]
      BY <1>1, <2>2, <2>4 DEF Positions
    <3>2. routes[i].name \in Names /\ routes[i].name # new.name
      BY <1>1, <2>1, <3>1
    <3>3. QED BY <1>1, <2>1, <3>1, <3>2 DEF With
  <2>5. QED BY <2>3, <2>4
<1>3. ASSUME NEW k \in Positions, RemoveRoute(routes[k].name) PROVE
          \E j \in Positions : /\ routes'[i] = routes[j]
                               /\ served'[routes'[i].name] = served[routes[j].name]
  <2>1. PICK l \in Positions : /\ routes[l].name = routes[k].name
                               /\ routes' = RemoveAt(routes, l)
                               /\ served' = Without(served, routes[k].name)
    BY <1>3 DEF RemoveRoute
  <2>2. /\ Len(routes') = Len(routes) - 1 /\ l \in 1..Len(routes)
        /\ \A j \in 1..(Len(routes) - 1) :
              routes'[j] = routes[IF j < l THEN j ELSE j + 1]
    BY <1>1, <2>1, RemoveAtProperties DEF Positions
  <2>3. PICK j \in Positions : j # l /\ routes'[i] = routes[j]
    BY <1>1, <2>2, SMTT(20) DEF Positions
  <2>4. routes[j].name # routes[k].name /\ routes[j].name \in Names
    BY <1>1, <2>1, <2>3, TableFacts
  <2>5. QED BY <1>1, <2>1, <2>3, <2>4 DEF Without
<1>4. ASSUME NEW model, NEW found, Match(model, found) PROVE
          \E j \in Positions :
              /\ routes'[i] = routes[j]
              /\ \/ served'[routes'[i].name] = served[routes[j].name]
                 \/ \E pick \in Selections(SelectorOf(routes[j])) :
                       served'[routes'[i].name] =
                           [served[routes[j].name] EXCEPT ![pick.entry] = @ + 1]
  <2>a. PICK k \in Positions : \E pick \in Selections(SelectorOf(routes[k])) :
            /\ served' = IF pick.entry = 0 THEN served
                         ELSE [served EXCEPT ![routes[k].name][pick.entry] = @ + 1]
            /\ routes' = routes
    BY <1>4 DEF Match
  <2>1. PICK pick \in Selections(SelectorOf(routes[k])) :
            /\ served' = IF pick.entry = 0 THEN served
                         ELSE [served EXCEPT ![routes[k].name][pick.entry] = @ + 1]
            /\ routes' = routes
    BY <2>a
  <2>2. i \in Positions /\ routes'[i] = routes[i] /\ routes[i].name \in Names
    BY <1>1, <2>1 DEF Positions
  <2>3. CASE i = k
    BY <1>1, <2>1, <2>2, <2>3
  <2>4. CASE i # k
    <3>1. routes[i].name # routes[k].name
      BY <2>2, <2>4, TableFacts
    <3>2. served'[routes[i].name] = served[routes[i].name]
      BY <1>1, <2>1, <2>2, <3>1
    <3>3. QED BY <2>2, <3>2
  <2>5. QED BY <2>3, <2>4
<1>5. QED BY <1>2, <1>3, <1>4 DEF RoutingNext

\* A route's list has a length and weights.
LEMMA ListsHaveWeights ==
    ASSUME NEW route \in Routes
    PROVE  /\ Len(route.backends) \in Nat
           /\ \A p \in 1..Len(route.backends) : route.backends[p].weight \in Nat
<1>1. QED BY RoutesAssumption

\* No step uses a weightless entry of a list that has a weight.
LEMMA StepLeavesWeightlessIdle ==
    ASSUME RInv, RInv', WeightlessIdle, RoutingNext
    PROVE  WeightlessIdle'
<1> SUFFICES ASSUME NEW i \in Positions', routes'[i].strategy = "weighted",
                    NEW heavy \in 1..Len(routes'[i].backends),
                    routes'[i].backends[heavy].weight > 0,
                    NEW p \in 1..Len(routes'[i].backends),
                    routes'[i].backends[p].weight = 0
             PROVE  served'[routes'[i].name][p] = 0
  BY DEF WeightlessIdle
<1>1. CASE served'[routes'[i].name] = NoneServed(routes'[i])
  BY <1>1 DEF NoneServed
<1>2. ASSUME NEW j \in Positions, routes'[i] = routes[j]
      PROVE  /\ served[routes[j].name][p] = 0
             /\ \A pick \in Selections(SelectorOf(routes[j])) : pick.entry # p
             /\ served[routes[j].name] \in [1..Len(routes[j].backends) -> Nat]
  <2>1. served[routes[j].name][p] = 0
    BY <1>2 DEF WeightlessIdle
  <2>2. ASSUME NEW pick \in Selections(SelectorOf(routes[j])) PROVE pick.entry # p
    <3> DEFINE refs == routes[j].backends
    <3>1. /\ SelectorOf(routes[j]).route = routes[j] /\ routes[j] \in Routes
      <4>1. /\ routes[j] \in Routes
            /\ SelectorOf(routes[j]) = [route |-> routes[j],
                                        index |-> SelectorOf(routes[j]).index]
        BY TableFacts
      <4> DEFINE k == SelectorOf(routes[j]).index
      <4>2. [route |-> routes[j], index |-> k].route = routes[j]
        OBVIOUS
      <4>3. QED BY <4>1, <4>2
    <3>2. /\ Len(refs) \in Nat /\ \A q \in 1..Len(refs) : refs[q].weight \in Nat
          /\ heavy \in 1..Len(refs) /\ p \in 1..Len(refs)
          /\ refs[heavy].weight > 0 /\ refs[p].weight = 0
      BY <1>2, <3>1, ListsHaveWeights
    <3>3. pick.entry \in WeightedPositions(refs)
      <4>1. Len(refs) # 0 /\ routes[j].strategy = "weighted"
        BY <1>2, <3>2
      <4>2. QED BY <3>1, <4>1 DEF Selections
    <3> HIDE DEF refs
    <3>4. refs[pick.entry].weight # 0
      BY <3>2, <3>3, WeightlessPassedOver
    <3>5. QED BY <3>2, <3>4
  <2>3. served[routes[j].name] \in [1..Len(routes[j].backends) -> Nat]
    BY DEF RInv, RoutingTypeOK
  <2>4. QED BY <2>1, <2>2, <2>3
<1>3. ASSUME NEW j \in Positions, routes'[i] = routes[j],
             \/ served'[routes'[i].name] = served[routes[j].name]
             \/ \E pick \in Selections(SelectorOf(routes[j])) :
                   served'[routes'[i].name] =
                       [served[routes[j].name] EXCEPT ![pick.entry] = @ + 1]
      PROVE  served'[routes'[i].name][p] = 0
  BY <1>2, <1>3
<1>4. QED BY <1>1, <1>3, CountsMove

\* A weightless entry of a weighted list serves nobody while another entry has
\* weight, for every list of weights.
THEOREM WeightlessStaysIdle == RoutingSpec => []WeightlessIdle
<1>1. RoutingInit => WeightlessIdle
  <2> SUFFICES ASSUME RoutingInit, NEW i \in Positions,
                      NEW p \in 1..Len(routes[i].backends)
               PROVE  served[routes[i].name][p] = 0
    BY DEF WeightlessIdle
  <2>1. \A k, j \in Positions : routes[k].name = routes[j].name => k = j
    BY InitEstablishes, TableFacts
  <2>2. (CHOOSE j \in Positions : routes[j].name = routes[i].name) = i
    BY <2>1
  <2>3. QED BY <2>2 DEF RoutingInit, NoneServed, Names
<1>2. RInv /\ RInv' /\ WeightlessIdle /\ [RoutingNext]_routingVars => WeightlessIdle'
  <2>1. CASE UNCHANGED routingVars
    BY <2>1 DEF routingVars, WeightlessIdle, Positions
  <2>2. QED BY <2>1, StepLeavesWeightlessIdle
<1>3. QED BY <1>1, <1>2, Invariance, PTL DEF RoutingSpec

-----------------------------------------------------------------------------
\* The types of the matcher's state hold in every reachable state.
THEOREM RoutingTypes == RoutingSpec => []RoutingTypeOK
<1>1. RInv => RoutingTypeOK
  BY DEF RInv
<1>2. QED BY <1>1, Invariance, PTL

\* Names are unique and a selector belongs to the route that has its name now,
\* whatever was removed and created under that name before.
THEOREM SelectorsBelong == RoutingSpec => []SelectorsFollowRoutes
<1>1. RInv => SelectorsFollowRoutes
  BY DEF RInv
<1>2. QED BY <1>1, Invariance, PTL

\* Entries at most one ahead of each other have been used equally often, give or
\* take one.
LEMMA CyclesAreFair == RInv => RoundRobinFair
<1> SUFFICES ASSUME RInv, NEW i \in Positions, routes[i].strategy = "round_robin",
                    NEW p \in DOMAIN served[routes[i].name],
                    NEW q \in DOMAIN served[routes[i].name]
             PROVE  served[routes[i].name][p] <= served[routes[i].name][q] + 1
  BY DEF RoundRobinFair
<1>1. /\ p \in 1..Len(routes[i].backends) /\ q \in 1..Len(routes[i].backends)
      /\ SelectorOf(routes[i]).index \in Nat /\ Len(routes[i].backends) \in Nat
  BY TableFacts DEF RInv, RoutingTypeOK
<1>2. PICK round \in Nat : \A x \in 1..Len(routes[i].backends) :
          served[routes[i].name][x] = round + Ahead(x, SelectorOf(routes[i]).index)
  BY DEF RInv, Cycles, InCycle
<1>3. QED BY <1>1, <1>2 DEF Ahead

\* Round robin is fair for every list of backends, whatever else happens to the
\* table and whatever other routes serve in between.
THEOREM RoundRobinIsFair == RoutingSpec => []RoundRobinFair
<1>1. QED BY CyclesAreFair, Invariance, PTL

\* No step takes a model away from a route it leaves in the table.
LEMMA StepPreemptsNobody ==
    ASSUME RInv, RInv', RoutingNext,
           NEW model \in Models, NEW route \in Routes,
           MatchedBy(model, route), \E i \in Positions' : routes'[i] = route
    PROVE  MatchedBy(model, route)'
<1>1. PICK i \in Positions : routes[i] = route /\ FirstMatch(i, model)
  BY DEF MatchedBy
<1>2. /\ routes \in Seq(Routes) /\ Len(routes) \in Nat
      /\ \A j, l \in Positions : routes[j].name = routes[l].name => j = l
  BY TableFacts
<1>3. i \in 1..Len(routes) /\ model \in route.models
      /\ \A j \in 1..(i - 1) : model \notin routes[j].models
  BY <1>1 DEF FirstMatch, Positions
<1>4. SUFFICES \E j \in 1..Len(routes') :
                  /\ routes'[j] = route
                  /\ \A l \in 1..(j - 1) : model \notin routes'[l].models
  BY <1>3 DEF MatchedBy, FirstMatch, Positions
<1>5. CASE \E new \in Routes : AddRoute(new)
  <2>1. PICK new \in Routes : routes' = Append(routes, new)
    BY <1>5 DEF AddRoute
  <2>2. Len(routes') = Len(routes) + 1 /\ \A j \in 1..Len(routes) : routes'[j] = routes[j]
    BY <2>1, <1>2, AppendProperties
  <2>3. i \in 1..Len(routes') /\ routes'[i] = route
        /\ \A l \in 1..(i - 1) : routes'[l] = routes[l]
    BY <1>1, <1>2, <1>3, <2>2
  <2>4. QED BY <1>3, <2>3
<1>6. CASE \E j \in Positions : RemoveRoute(routes[j].name)
  <2>1. PICK k \in Positions : routes' = RemoveAt(routes, k)
    BY <1>6 DEF RemoveRoute
  <2>2. /\ k \in 1..Len(routes) /\ Len(routes') = Len(routes) - 1
        /\ \A j \in 1..(Len(routes) - 1) :
              routes'[j] = routes[IF j < k THEN j ELSE j + 1]
    BY <2>1, <1>2, RemoveAtProperties DEF Positions
  <2>3. i # k
    <3>1. PICK j \in 1..Len(routes') : routes'[j] = route
      BY DEF Positions
    <3>2. PICK l \in 1..Len(routes) : l # k /\ routes[l] = route
      BY <3>1, <2>2, <1>2
    <3>3. QED BY <3>2, <1>1, <1>2, <1>3 DEF Positions
  <2>4. CASE i < k
    <3>1. i \in 1..Len(routes') /\ routes'[i] = routes[i]
          /\ \A l \in 1..(i - 1) : routes'[l] = routes[l]
      BY <2>2, <2>4, <1>2, <1>3
    <3>2. QED BY <3>1, <1>1, <1>3
  <2>5. CASE ~(i < k)
    <3>1. i - 1 \in 1..Len(routes') /\ routes'[i - 1] = routes[i]
      BY <2>2, <2>3, <2>5, <1>2, <1>3
    <3>2. ASSUME NEW l \in 1..((i - 1) - 1) PROVE model \notin routes'[l].models
      <4>1. PICK m \in 1..(i - 1) : routes'[l] = routes[m]
        BY <2>2, <2>3, <2>5, <1>2, <1>3
      <4>2. QED BY <4>1, <1>3
    <3>3. QED BY <3>1, <3>2, <1>1
  <2>6. QED BY <2>4, <2>5
<1>7. CASE routes' = routes
  BY <1>1, <1>3, <1>7
<1>8. QED BY <1>5, <1>6, <1>7 DEF RoutingNext, Match

\* While a route is in the table, the models it serves stay with it.
THEOREM NobodyPreempted == RoutingSpec => NeverPreempted
<1> DEFINE Kept == \A model \in Models, route \in Routes :
              MatchedBy(model, route) /\ (\E i \in Positions' : routes'[i] = route)
                  => MatchedBy(model, route)'
<1>1. ASSUME RInv, RInv', [RoutingNext]_routingVars PROVE [Kept]_routingVars
  BY <1>1, StepPreemptsNobody
<1>2. QED BY <1>1, Invariance, PTL DEF RoutingSpec, NeverPreempted
=============================================================================
