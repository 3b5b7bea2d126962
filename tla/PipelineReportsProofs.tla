----------------------- MODULE PipelineReportsProofs ------------------------
(***************************************************************************)
(* For every route, any number of turns and any replies: what a finished   *)
(* request reports is what happened.  Its fallbacks are those every call   *)
(* consulted, an early exit in its log is earned by a critique, and a      *)
(* skipped advisor was not needed after the last one.  A route that keeps  *)
(* the reflector away from the advisor leaves nothing running.             *)
(***************************************************************************)
EXTENDS OrchestratorProofs, FiniteSetTheorems, FunctionTheorems

-----------------------------------------------------------------------------
(***************************************************************************)
(* Counting in sequences                                                   *)
(***************************************************************************)
LEMMA TimesEmpty == \A m : Times(m, << >>) = 0
BY FS_EmptySet DEF Times

\* The positions of an element are finitely many.
LEMMA TimesType ==
    ASSUME NEW S, NEW s \in Seq(S), NEW m
    PROVE  /\ IsFiniteSet({i \in DOMAIN s : s[i] = m})
           /\ Times(m, s) \in Nat
<1> DEFINE P == {i \in DOMAIN s : s[i] = m}
<1>1. DOMAIN s = 1..Len(s) /\ Len(s) \in Nat
  BY LenProperties
<1>2. IsFiniteSet(1..Len(s)) /\ P \in SUBSET (1..Len(s))
  BY <1>1, FS_Interval
<1>3. IsFiniteSet(P)
  BY <1>2, FS_Subset
<1>4. Cardinality(P) \in Nat
  BY <1>3, FS_CardinalityType
<1>5. QED BY <1>3, <1>4 DEF Times

\* An element occurs in two sequences together as often as in both.
LEMMA TimesConcat ==
    ASSUME NEW S, NEW s \in Seq(S), NEW r \in Seq(S), NEW m
    PROVE  /\ s \o r \in Seq(S)
           /\ Times(m, s \o r) = Times(m, s) + Times(m, r)
<1> DEFINE q == s \o r
           P == {i \in DOMAIN s : s[i] = m}
           R == {i \in DOMAIN r : r[i] = m}
           Q == {i \in DOMAIN q : q[i] = m}
           shift == [i \in R |-> Len(s) + i]
           T == Q \ (1..Len(s))
<1>1. /\ q \in Seq(S) /\ Len(q) = Len(s) + Len(r) /\ Len(s) \in Nat /\ Len(r) \in Nat
      /\ \A i \in 1..Len(s) : q[i] = s[i]
      /\ \A i \in 1..Len(r) : q[Len(s) + i] = r[i]
  BY ConcatElements
<1>0. DOMAIN q = 1..Len(q) /\ DOMAIN s = 1..Len(s) /\ DOMAIN r = 1..Len(r)
  BY <1>1, LenProperties
<1> HIDE DEF q
<1>2. IsFiniteSet(P) /\ IsFiniteSet(R) /\ IsFiniteSet(Q)
  BY <1>1, TimesType
<1>3. Q = P \cup T /\ P \cap T = {}
  BY <1>0, <1>1
<1>4. \A j \in T : j - Len(s) \in R /\ shift[j - Len(s)] = j
  <2> SUFFICES ASSUME NEW j \in T
               PROVE  j - Len(s) \in R /\ shift[j - Len(s)] = j
    OBVIOUS
  <2>1. j \in 1..Len(q) /\ j \notin 1..Len(s) /\ q[j] = m
    BY <1>0, <1>1
  <2>2. j - Len(s) \in 1..Len(r) /\ Len(s) + (j - Len(s)) = j
    BY <1>0, <1>1, <2>1
  <2>3. j - Len(s) \in R
    BY <1>0, <1>1, <2>1, <2>2
  <2>4. QED BY <2>2, <2>3
<1>5. shift \in [R -> T]
  BY <1>0, <1>1
<1>6. shift \in Bijection(R, T)
  <2>1. \A a, b \in R : shift[a] = shift[b] => a = b
    BY <1>0, <1>1
  <2>2. \A t \in T : \E a \in R : shift[a] = t
    BY <1>4
  <2> HIDE DEF shift, T, R
  <2>3. QED BY <1>5, <2>1, <2>2, Fun_IsBij
<1>7. ExistsBijection(R, T)
  BY <1>6 DEF ExistsBijection
<1>8. IsFiniteSet(T) /\ Cardinality(T) = Cardinality(R)
  BY <1>2, <1>7, FS_Bijection
<1>9. Cardinality(Q) = Cardinality(P) + Cardinality(T)
  <2>1. Cardinality(P \cup T) = Cardinality(P) + Cardinality(T) - Cardinality(P \cap T)
    BY <1>2, <1>8, FS_Union
  <2>2. Cardinality(P) \in Nat /\ Cardinality(T) \in Nat
    BY <1>2, <1>8, FS_CardinalityType
  <2> HIDE DEF P, T, Q
  <2>3. Cardinality(P \cap T) = 0
    BY <1>3, FS_EmptySet
  <2>4. QED BY <1>3, <2>1, <2>2, <2>3
<1>10. /\ Times(m, q) = Cardinality(Q) /\ Times(m, s) = Cardinality(P)
       /\ Times(m, r) = Cardinality(R)
  BY DEF Times
<1>11. Times(m, q) = Times(m, s) + Times(m, r)
  BY <1>8, <1>9, <1>10
<1>12. QED BY <1>1, <1>11 DEF q

(***************************************************************************)
(* Fallbacks.  What has been consulted and is not yet among those of the   *)
(* request is with the loop or a coroutine of the stage that is open; a    *)
(* stage starts with nothing.                                              *)
(***************************************************************************)
InLoop(m) == IF stage = "reflect" THEN Times(m, fallbacks) ELSE 0
InAdvisor(m) == IF stage = "advise" THEN Times(m, advisor.fallbacks) ELSE 0
InReflector(m) == IF stage = "advise" THEN Times(m, reflector.fallbacks) ELSE 0

Counted ==
    stage \in {"initial", "reflect", "advise", "done"} =>
        \A m \in Models : Times(m, consulted) =
            Times(m, fallbacks_used) + InLoop(m) + InAdvisor(m) + InReflector(m)

Fresh ==
    /\ step = "idle" => fallbacks = << >>
    /\ stage = "initial" \/ (stage = "advise" /\ route.order = "advise_first")
           => step = "idle"
    /\ advisor.at \in {"off", "advice"} => advisor.fallbacks = << >>
    /\ reflector.at \in {"off", "critique"} => reflector.fallbacks = << >>

CountInv == OInv /\ Fresh /\ Counted

\* Nothing is consulted before the first call.
LEMMA CountInitEstablishes == PipelineInit => CountInv
<1> SUFFICES ASSUME PipelineInit PROVE CountInv
  OBVIOUS
<1>1. Fresh
  BY DEF PipelineInit, Fresh, Coroutine
<1>2. Counted
  BY TimesEmpty DEF PipelineInit, Counted, InLoop, InAdvisor, InReflector
<1>3. QED BY <1>1, <1>2, InitEstablishes DEF CountInv

\* The sequences that are counted.
LEMMA CountsTyped ==
    ASSUME OInv
    PROVE  /\ fallbacks \in Seq(Models) /\ fallbacks_used \in Seq(Models)
           /\ consulted \in Seq(Models)
           /\ advisor.fallbacks \in Seq(Models) /\ reflector.fallbacks \in Seq(Models)
           /\ \A m \in Models : \A s \in Seq(Models) : Times(m, s) \in Nat
           /\ \A m \in Models : \A s, r \in Seq(Models) :
                  Times(m, s \o r) = Times(m, s) + Times(m, r)
<1>1. \A m \in Models : \A s \in Seq(Models) : Times(m, s) \in Nat
  BY TimesType
<1>2. \A m \in Models : \A s, r \in Seq(Models) :
          Times(m, s \o r) = Times(m, s) + Times(m, r)
  BY TimesConcat
<1>3. /\ \A f \in {fallbacks, fallbacks_used, consulted} : f \in Seq(Models)
      /\ advisor.fallbacks \in Seq(Models) /\ reflector.fallbacks \in Seq(Models)
  BY DEF OInv, TypesOK, PipelineTypeOK, CoroutineOK
<1>4. QED BY <1>1, <1>2, <1>3

\* The fallbacks of the initial call are the first.
LEMMA FirstCounted ==
    ASSUME CountInv, stage = "initial", stage' = StageAfter("initial"),
           UNCHANGED <<advisor, reflector, fallbacks, step>>,
           consulted' \in Seq(Models), fallbacks_used' = consulted'
    PROVE  Fresh' /\ Counted'
<1>1. /\ UNCHANGED <<advisor, reflector, fallbacks, step>> /\ stage = "initial"
      /\ stage' \in {"reflect", "advise"}
  BY DEF StageAfter
<1>2. /\ step = "idle" /\ fallbacks = << >>
      /\ advisor.at = "off" /\ reflector.at = "off"
      /\ advisor.fallbacks = << >> /\ reflector.fallbacks = << >>
  BY <1>1 DEF CountInv, Fresh, OInv, Paths
<1>3. Fresh'
  BY <1>1, <1>2 DEF Fresh
<1>4. \A m \in Models : Times(m, consulted') \in Nat
  BY TimesType
<1>5. \A m : InLoop(m)' = 0 /\ InAdvisor(m)' = 0 /\ InReflector(m)' = 0
  BY <1>1, <1>2, TimesEmpty DEF InLoop, InAdvisor, InReflector
<1>6. Counted'
  BY <1>1, <1>4, <1>5 DEF Counted
<1>7. QED BY <1>3, <1>6

LEMMA InitialCounted ==
    ASSUME CountInv, NEW reply \in InitialReplies, InitialReturns(reply)
    PROVE  Fresh' /\ Counted'
<1>1. /\ stage = "initial" /\ stage' = StageAfter("initial")
      /\ UNCHANGED <<advisor, reflector, fallbacks, step>>
      /\ fallbacks_used' = reply.fallbacks /\ consulted' = reply.fallbacks
  BY DEF InitialReturns, advisorVars
<1>2. reply.fallbacks \in Seq(Models)
  BY PipelineRepliesAssumption
<1>3. QED BY <1>1, <1>2, FirstCounted

\* Those of a turn are with the loop.
LEMMA TurnCounted ==
    ASSUME CountInv, NEW reply,
           \/ reply \in CritiqueReplies /\ ReflectionCritique(reply)
           \/ reply \in RevisionReplies /\ ReflectionRevision(reply)
    PROVE  Fresh' /\ Counted'
<1>1. /\ UNCHANGED <<advisor, reflector, fallbacks_used, stage, route>>
      /\ stage = "reflect" /\ step' # "idle"
      /\ consulted' = consulted \o reply.fallbacks
      /\ fallbacks' = fallbacks \o reply.fallbacks
  BY DEF ReflectionCritique, ReflectionRevision, CritiqueReturns, RevisionReturns,
     advisorVars
<1>2. reply.fallbacks \in Seq(Models)
  BY RepliesAssumption
<1>3. Fresh'
  BY <1>1 DEF CountInv, Fresh
<1>4. \A m : InAdvisor(m)' = InAdvisor(m) /\ InReflector(m)' = InReflector(m)
             /\ InAdvisor(m) = 0 /\ InReflector(m) = 0
  BY <1>1 DEF InAdvisor, InReflector
<1>5. \A m \in Models :
          /\ InLoop(m) = Times(m, fallbacks)
          /\ InLoop(m)' = Times(m, fallbacks) + Times(m, reply.fallbacks)
          /\ Times(m, consulted') = Times(m, consulted) + Times(m, reply.fallbacks)
          /\ Times(m, fallbacks) \in Nat /\ Times(m, reply.fallbacks) \in Nat
          /\ Times(m, fallbacks_used) \in Nat
  BY <1>1, <1>2, CountsTyped DEF InLoop, CountInv
<1>6. \A m \in Models : Times(m, consulted) = Times(m, fallbacks_used) + Times(m, fallbacks)
  BY <1>1, <1>4, <1>5 DEF CountInv, Counted
<1>7. Counted'
  BY <1>1, <1>4, <1>5, <1>6 DEF Counted
<1>8. QED BY <1>3, <1>7

\* They are handed in where the loop ends.
LEMMA EndReflectionCounted ==
    ASSUME CountInv, EndReflection PROVE Fresh' /\ Counted'
<1>1. /\ UNCHANGED <<advisor, reflector, consulted, route, fallbacks, step>>
      /\ stage = "reflect" /\ step = "done"
      /\ fallbacks_used' = fallbacks_used \o fallbacks
      /\ stage' = IF route.order = "advise_first" THEN "done" ELSE "advise"
  BY DEF EndReflection, StageAfter, loopVars, advisorVars
<1>2. Fresh'
  BY <1>1 DEF CountInv, Fresh
<1>3. \A m : InLoop(m)' = 0 /\ InAdvisor(m)' = 0 /\ InReflector(m)' = 0
  <2>1. CASE route.order = "advise_first"
    BY <1>1, <2>1 DEF InLoop, InAdvisor, InReflector
  <2>2. CASE route.order # "advise_first"
    <3>1. route.order = "reflect_first"
      BY <2>2, RoutesAssumption DEF CountInv, OInv, TypesOK, PipelineTypeOK
    <3>2. advisor.at = "off" /\ reflector.at = "off"
      BY <1>1, <3>1 DEF CountInv, OInv, Paths
    <3>3. advisor.fallbacks = << >> /\ reflector.fallbacks = << >>
      BY <3>2 DEF CountInv, Fresh
    <3>4. QED BY <1>1, <3>3, TimesEmpty DEF InLoop, InAdvisor, InReflector
  <2>3. QED BY <2>1, <2>2
<1>4. \A m \in Models :
          /\ Times(m, consulted) = Times(m, fallbacks_used) + Times(m, fallbacks)
          /\ Times(m, fallbacks_used') = Times(m, fallbacks_used) + Times(m, fallbacks)
          /\ Times(m, fallbacks) \in Nat /\ Times(m, fallbacks_used) \in Nat
  BY <1>1, CountsTyped DEF CountInv, Counted, InLoop, InAdvisor, InReflector
<1>5. Counted'
  BY <1>1, <1>3, <1>4 DEF Counted
<1>6. QED BY <1>2, <1>5

\* An advisor that is not called consults nobody.
LEMMA NoAdvisorCounted ==
    ASSUME CountInv, AdvisorDisabled \/ SkipAdvisor PROVE Fresh' /\ Counted'
<1>1. /\ UNCHANGED <<advisor, reflector, consulted, route, fallbacks, step, fallbacks_used>>
      /\ stage = "advise" /\ (~route.advisor \/ advisor.at = "off")
      /\ stage' = IF route.order = "advise_first" THEN "reflect" ELSE "done"
  BY DEF AdvisorDisabled, SkipAdvisor, StageAfter, loopVars, advisorVars
<1>2. advisor.fallbacks = << >> /\ reflector.fallbacks = << >>
  <2>1. advisor.at = "off" /\ reflector.at = "off"
    BY <1>1 DEF CountInv, OInv, Paths
  <2>2. QED BY <2>1 DEF CountInv, Fresh
<1>3. stage' = "reflect" => fallbacks' = << >>
  BY <1>1 DEF CountInv, Fresh
<1>4. \A m : /\ InLoop(m) = 0 /\ InAdvisor(m) = 0 /\ InReflector(m) = 0
             /\ InLoop(m)' = 0 /\ InAdvisor(m)' = 0 /\ InReflector(m)' = 0
  BY <1>1, <1>2, <1>3, TimesEmpty DEF InLoop, InAdvisor, InReflector
<1>5. Fresh'
  BY <1>1 DEF CountInv, Fresh
<1>6. Counted'
  BY <1>1, <1>4 DEF CountInv, Counted
<1>7. QED BY <1>5, <1>6

\* Coroutines start with nothing.
LEMMA StartAdvisorCounted ==
    ASSUME CountInv, StartAdvisor PROVE Fresh' /\ Counted'
<1>1. /\ UNCHANGED <<consulted, route, stage, fallbacks, step, fallbacks_used>>
      /\ stage = "advise" /\ advisor.at = "off"
      /\ advisor'.fallbacks = << >> /\ reflector'.fallbacks = << >>
  BY DEF StartAdvisor, Coroutine, loopVars
<1>2. advisor.fallbacks = << >> /\ reflector.fallbacks = << >>
  BY <1>1 DEF CountInv, Fresh, OInv, Paths
<1>3. Fresh'
  BY <1>1 DEF CountInv, Fresh
<1>4. \A m : InLoop(m)' = InLoop(m) /\ InAdvisor(m)' = InAdvisor(m)
             /\ InReflector(m)' = InReflector(m)
  BY <1>1, <1>2 DEF InLoop, InAdvisor, InReflector
<1>5. Counted'
  BY <1>1, <1>4 DEF CountInv, Counted
<1>6. QED BY <1>3, <1>5

\* What a coroutine consults it keeps until the stage ends; nobody asks for it
\* when the run has failed.
LEMMA HeldIsCounted ==
    ASSUME CountInv, UNCHANGED <<stage, fallbacks, fallbacks_used>>,
           stage \in {"advise", "raised"},
           NEW more \in Seq(Models), consulted' = consulted \o more,
           \/ /\ advisor'.fallbacks = advisor.fallbacks \o more
              /\ reflector'.fallbacks = reflector.fallbacks
           \/ /\ reflector'.fallbacks = reflector.fallbacks \o more
              /\ advisor'.fallbacks = advisor.fallbacks
    PROVE  Counted'
<1>1. CASE stage = "raised"
  BY <1>1 DEF Counted
<1>2. CASE stage = "advise"
  <2>1. \A m \in Models :
            /\ Times(m, consulted') = Times(m, consulted) + Times(m, more)
            /\ Times(m, advisor.fallbacks \o more)
                   = Times(m, advisor.fallbacks) + Times(m, more)
            /\ Times(m, reflector.fallbacks \o more)
                   = Times(m, reflector.fallbacks) + Times(m, more)
            /\ Times(m, more) \in Nat /\ Times(m, fallbacks_used) \in Nat
            /\ Times(m, advisor.fallbacks) \in Nat /\ Times(m, reflector.fallbacks) \in Nat
    BY CountsTyped DEF CountInv
  <2>2. \A m \in Models : Times(m, consulted) = Times(m, fallbacks_used)
            + Times(m, advisor.fallbacks) + Times(m, reflector.fallbacks)
    BY <1>2, <2>1 DEF CountInv, Counted, InLoop, InAdvisor, InReflector
  <2>3. \A m : InLoop(m)' = 0 /\ InAdvisor(m)' = Times(m, advisor'.fallbacks)
               /\ InReflector(m)' = Times(m, reflector'.fallbacks)
    BY <1>2 DEF InLoop, InAdvisor, InReflector
  <2>4. \A m \in Models : Times(m, consulted') = Times(m, fallbacks_used')
            + InLoop(m)' + InAdvisor(m)' + InReflector(m)'
    <3> SUFFICES ASSUME NEW m \in Models
                 PROVE  Times(m, consulted') = Times(m, fallbacks_used')
                            + InLoop(m)' + InAdvisor(m)' + InReflector(m)'
      OBVIOUS
    <3>1. CASE /\ advisor'.fallbacks = advisor.fallbacks \o more
               /\ reflector'.fallbacks = reflector.fallbacks
      BY <2>1, <2>2, <2>3, <3>1
    <3>2. CASE /\ reflector'.fallbacks = reflector.fallbacks \o more
               /\ advisor'.fallbacks = advisor.fallbacks
      BY <2>1, <2>2, <2>3, <3>2
    <3>3. QED BY <3>1, <3>2
  <2>5. QED BY <2>4 DEF Counted
<1>3. QED BY <1>1, <1>2

\* A call of a coroutine leaves what it consulted with the coroutine.
LEMMA CoroutineCounted ==
    ASSUME CountInv, NEW reply,
           \/ reply \in AdvisorReplies /\ AdviceReturns(reply)
           \/ reply \in RevisionReplies /\ AdvisorRevisionReturns(reply)
           \/ reply \in CritiqueReplies /\ SelfCritiqueReturns(reply)
           \/ reply \in RevisionReplies /\ SelfRevisionReturns(reply)
    PROVE  Fresh' /\ Counted'
<1>1. reply.fallbacks \in Seq(Models)
  BY RepliesAssumption, PipelineRepliesAssumption
<1>2. << >> \o reply.fallbacks = reply.fallbacks
  BY <1>1, ConcatEmptySeq
<1>3. OInv /\ Fresh
  BY DEF CountInv
<1>4. CASE AdviceReturns(reply) \/ AdvisorRevisionReturns(reply)
  <2>1. /\ UNCHANGED <<reflector, route, stage, step, fallbacks, fallbacks_used>>
        /\ advisor.at \in {"advice", "revision"}
        /\ consulted' = consulted \o reply.fallbacks
    BY <1>4 DEF AdviceReturns, AdvisorRevisionReturns
  <2>2. stage \in {"advise", "raised"}
        /\ advisor \in [at : {"advice", "plugins", "revision"}, final : Texts,
                         fallbacks : Seq(Models)]
    BY <1>3, <2>1, AdvisorRuns DEF Awaiting
  <2>3. CASE AdviceReturns(reply)
    <3>1. advisor.at = "advice" /\ advisor' = [advisor EXCEPT !.at = "plugins", !.fallbacks = reply.fallbacks]
      BY <2>3 DEF AdviceReturns
    <3>2. advisor'.at = "plugins" /\ advisor'.fallbacks = reply.fallbacks
      BY <2>2, <3>1
    <3>3. advisor'.fallbacks = advisor.fallbacks \o reply.fallbacks
      BY <1>2, <1>3, <3>1, <3>2 DEF Fresh
    <3>4. Fresh'
      BY <1>3, <2>1, <3>2 DEF Fresh
    <3>5. QED BY <1>1, <2>1, <2>2, <3>3, <3>4, HeldIsCounted
  <2>4. CASE AdvisorRevisionReturns(reply)
    <3>1. advisor' = Finish(advisor, reply)
      BY <2>4 DEF AdvisorRevisionReturns
    <3>2. /\ advisor'.at = "finished"
          /\ advisor'.fallbacks = advisor.fallbacks \o reply.fallbacks
      BY <2>2, <3>1 DEF Finish
    <3>3. Fresh'
      BY <1>3, <2>1, <3>2 DEF Fresh
    <3>4. QED BY <1>1, <2>1, <2>2, <3>2, <3>3, HeldIsCounted
  <2>5. QED BY <1>4, <2>3, <2>4
<1>5. CASE SelfCritiqueReturns(reply) \/ SelfRevisionReturns(reply)
  <2>1. /\ UNCHANGED <<advisor, route, stage, step, fallbacks, fallbacks_used>>
        /\ reflector.at \in {"critique", "revision"}
        /\ consulted' = consulted \o reply.fallbacks
    BY <1>5 DEF SelfCritiqueReturns, SelfRevisionReturns
  <2>2. stage \in {"advise", "raised"}
        /\ reflector \in [at : {"critique", "revision"}, final : Texts,
                           fallbacks : Seq(Models)]
    BY <1>3, <2>1, ReflectorRuns DEF Awaiting
  <2>3. CASE SelfCritiqueReturns(reply)
    <3>1. /\ reflector.at = "critique"
          /\ \E at \in {"finished", "revision"} :
                reflector' = [reflector EXCEPT !.at = at, !.fallbacks = reply.fallbacks]
      BY <2>3 DEF SelfCritiqueReturns
    <3>2. reflector'.at \in {"finished", "revision"} /\ reflector'.fallbacks = reply.fallbacks
      BY <2>2, <3>1
    <3>3. reflector'.fallbacks = reflector.fallbacks \o reply.fallbacks
      BY <1>2, <1>3, <3>1, <3>2 DEF Fresh
    <3>4. Fresh'
      BY <1>3, <2>1, <3>2 DEF Fresh
    <3>5. QED BY <1>1, <2>1, <2>2, <3>3, <3>4, HeldIsCounted
  <2>4. CASE SelfRevisionReturns(reply)
    <3>1. reflector' = Finish(reflector, reply)
      BY <2>4 DEF SelfRevisionReturns
    <3>2. /\ reflector'.at = "finished"
          /\ reflector'.fallbacks = reflector.fallbacks \o reply.fallbacks
      BY <2>2, <3>1 DEF Finish
    <3>3. Fresh'
      BY <1>3, <2>1, <3>2 DEF Fresh
    <3>4. QED BY <1>1, <2>1, <2>2, <3>2, <3>3, HeldIsCounted
  <2>5. QED BY <1>5, <2>3, <2>4
<1>6. QED BY <1>4, <1>5

\* The end of the stage hands in those of both coroutines.
LEMMA EndAdvisorCounted ==
    ASSUME CountInv, EndAdvisor PROVE Fresh' /\ Counted'
<1>1. /\ UNCHANGED <<advisor, reflector, consulted, route, fallbacks, step>>
      /\ stage = "advise"
      /\ fallbacks_used' = (fallbacks_used \o advisor.fallbacks) \o reflector.fallbacks
      /\ stage' = IF route.order = "advise_first" THEN "reflect" ELSE "done"
  BY DEF EndAdvisor, StageAfter, advisorVars
<1>2. Fresh'
  BY <1>1 DEF CountInv, Fresh
<1>3. stage' = "reflect" => fallbacks' = << >>
  BY <1>1 DEF CountInv, Fresh
<1>4. \A m : InLoop(m)' = 0 /\ InAdvisor(m)' = 0 /\ InReflector(m)' = 0
  BY <1>1, <1>3, TimesEmpty DEF InLoop, InAdvisor, InReflector
<1>5. \A m \in Models :
          Times(m, consulted) = Times(m, fallbacks_used)
              + Times(m, advisor.fallbacks) + Times(m, reflector.fallbacks)
  <2>1. \A m : /\ InLoop(m) = 0 /\ InAdvisor(m) = Times(m, advisor.fallbacks)
               /\ InReflector(m) = Times(m, reflector.fallbacks)
    BY <1>1 DEF InLoop, InAdvisor, InReflector
  <2>2. \A m \in Models : Times(m, fallbacks_used) \in Nat
    BY CountsTyped DEF CountInv
  <2>3. QED BY <1>1, <2>1, <2>2 DEF CountInv, Counted
<1>6. \A m \in Models :
          Times(m, fallbacks_used') = Times(m, fallbacks_used)
              + Times(m, advisor.fallbacks) + Times(m, reflector.fallbacks)
  <2>1. fallbacks_used \o advisor.fallbacks \in Seq(Models)
    BY CountsTyped, ConcatProperties DEF CountInv
  <2>2. \A m \in Models : Times(m, fallbacks_used')
            = Times(m, fallbacks_used \o advisor.fallbacks) + Times(m, reflector.fallbacks)
    BY <1>1, <2>1, CountsTyped DEF CountInv
  <2>3. \A m \in Models : Times(m, fallbacks_used \o advisor.fallbacks)
            = Times(m, fallbacks_used) + Times(m, advisor.fallbacks)
    BY CountsTyped DEF CountInv
  <2>4. QED BY <2>2, <2>3
<1>7. Counted'
  <2>1. \A m \in Models : /\ Times(m, consulted') = Times(m, fallbacks_used')
                          /\ Times(m, fallbacks_used) \in Nat
                          /\ Times(m, advisor.fallbacks) \in Nat
                          /\ Times(m, reflector.fallbacks) \in Nat
    BY <1>1, <1>5, <1>6, CountsTyped DEF CountInv
  <2>2. \A m \in Models : Times(m, fallbacks_used') \in Nat
    BY <1>6, <2>1
  <2>3. QED BY <1>4, <2>1, <2>2 DEF Counted
<1>8. QED BY <1>2, <1>7

\* Steps at which no call ends and no stage does.
LEMMA NothingCounted ==
    ASSUME CountInv,
           \/ StartReflection \/ ReflectionRaises \/ InitialRaises
           \/ AdvisorRaises \/ ReflectorRaises \/ PluginsDone
    PROVE  Fresh' /\ Counted'
<1>1. OInv /\ Fresh
  BY DEF CountInv
<1>2. CASE StartReflection \/ ReflectionRaises \/ InitialRaises
  <2>1. /\ UNCHANGED <<advisor, reflector, consulted, route, fallbacks, fallbacks_used>>
        /\ \/ stage' = stage /\ stage = "reflect"
           \/ stage' \in {"raised", "hung"}
        /\ step' = "idle" => step = "idle"
    BY <1>2 DEF StartReflection, ReflectionRaises, InitialRaises, CallRaises, loopVars,
       advisorVars
  <2>2. Fresh'
    BY <1>1, <2>1 DEF Fresh
  <2>3. Counted'
    BY <2>1 DEF CountInv, Counted, InLoop, InAdvisor, InReflector
  <2>4. QED BY <2>2, <2>3
<1>3. CASE AdvisorRaises \/ ReflectorRaises
  <2>1. /\ UNCHANGED <<route, step, fallbacks>>
        /\ stage' = "raised"
        /\ \/ advisor' = [advisor EXCEPT !.at = "failed"] /\ reflector' = reflector
           \/ reflector' = [reflector EXCEPT !.at = "failed"] /\ advisor' = advisor
    BY <1>3 DEF AdvisorRaises, ReflectorRaises, loopVars
  <2>2. "at" \in DOMAIN advisor /\ "at" \in DOMAIN reflector
    BY <1>1 DEF OInv, TypesOK, PipelineTypeOK, CoroutineOK
  <2>3. Fresh'
    BY <1>1, <2>1, <2>2 DEF Fresh
  <2>4. Counted'
    BY <2>1 DEF Counted
  <2>5. QED BY <2>3, <2>4
<1>4. CASE PluginsDone
  <2>1. /\ UNCHANGED <<reflector, consulted, route, step, stage, fallbacks, fallbacks_used>>
        /\ advisor.at = "plugins"
        /\ \/ advisor' = [advisor EXCEPT !.at = "finished", !.final = answer]
           \/ advisor' = [advisor EXCEPT !.at = "revision"]
    BY <1>4 DEF PluginsDone
  <2>2. DOMAIN advisor = {"at", "final", "fallbacks"}
    BY <1>1 DEF OInv, TypesOK, PipelineTypeOK, CoroutineOK
  <2>3. advisor'.at \in {"finished", "revision"} /\ advisor'.fallbacks = advisor.fallbacks
    BY <2>1, <2>2
  <2>4. Fresh'
    BY <1>1, <2>1, <2>3 DEF Fresh
  <2>5. \A m : InLoop(m)' = InLoop(m) /\ InAdvisor(m)' = InAdvisor(m)
               /\ InReflector(m)' = InReflector(m)
    BY <2>1, <2>3 DEF InLoop, InAdvisor, InReflector
  <2>6. Counted'
    BY <2>1, <2>5 DEF CountInv, Counted
  <2>7. QED BY <2>4, <2>6
<1>5. QED BY <1>2, <1>3, <1>4

\* Every step keeps count.
LEMMA CountStepKeeps == CountInv /\ [PipelineNext]_vars => CountInv'
<1> SUFFICES ASSUME CountInv, [PipelineNext]_vars PROVE CountInv'
  OBVIOUS
<1>1. OInv'
  BY StepKeeps DEF CountInv
<1>2. CASE UNCHANGED vars
  BY <1>1, <1>2 DEF CountInv, Fresh, Counted, InLoop, InAdvisor, InReflector, vars, loopVars,
     advisorVars
<1>3. CASE CallOrStage
  <2>1. CASE \E reply \in InitialReplies : InitialReturns(reply)
    BY <1>1, <2>1, InitialCounted DEF CountInv
  <2>2. CASE StartReflection \/ EndReflection \/ ReflectionRaises
    BY <1>1, <2>2, NothingCounted, EndReflectionCounted DEF CountInv
  <2>3. CASE \E reply \in CritiqueReplies :
                 ReflectionCritique(reply) \/ SelfCritiqueReturns(reply)
    BY <1>1, <2>3, TurnCounted, CoroutineCounted DEF CountInv
  <2>4. CASE \E reply \in RevisionReplies :
                 \/ ReflectionRevision(reply)
                 \/ AdvisorRevisionReturns(reply)
                 \/ SelfRevisionReturns(reply)
    BY <1>1, <2>4, TurnCounted, CoroutineCounted DEF CountInv
  <2>5. CASE AdvisorDisabled \/ SkipAdvisor \/ StartAdvisor \/ EndAdvisor
    BY <1>1, <2>5, NoAdvisorCounted, StartAdvisorCounted, EndAdvisorCounted DEF CountInv
  <2>6. CASE \E reply \in AdvisorReplies : AdviceReturns(reply)
    BY <1>1, <2>6, CoroutineCounted DEF CountInv
  <2>7. CASE InitialRaises \/ AdvisorRaises \/ ReflectorRaises
    BY <1>1, <2>7, NothingCounted DEF CountInv
  <2>8. QED BY <1>3, <2>1, <2>2, <2>3, <2>4, <2>5, <2>6, <2>7 DEF CallOrStage
<1>4. CASE Plugins
  BY <1>1, <1>4, NothingCounted DEF Plugins, CountInv
<1>5. QED BY <1>2, <1>3, <1>4 DEF PipelineNext

\* A finished run has nothing left uncounted.
LEMMA AllCountedAtEnd == CountInv => FallbacksAllReported
<1> SUFFICES ASSUME CountInv, stage = "done", NEW m \in Models
             PROVE  Times(m, fallbacks_used) = Times(m, consulted)
  BY DEF FallbacksAllReported
<1>1. InLoop(m) = 0 /\ InAdvisor(m) = 0 /\ InReflector(m) = 0
  BY DEF InLoop, InAdvisor, InReflector
<1>2. Times(m, fallbacks_used) \in Nat
  BY CountsTyped DEF CountInv
<1>3. QED BY <1>1, <1>2 DEF CountInv, Counted

\* In whichever order stages and coroutines come back, a finished run reports
\* every fallback of every call, as often as it was consulted.
THEOREM FallbacksAreReported == Pipeline => []FallbacksAllReported
BY AllCountedAtEnd, CountInitEstablishes, CountStepKeeps, PTL DEF Pipeline

-----------------------------------------------------------------------------
(***************************************************************************)
(* Verdicts.  What a log says of the critiques of the loop, and how that   *)
(* changes as the log grows.                                               *)
(***************************************************************************)
IsCritique(e) == e.type = "reflect_critique" /\ ~OffPath(e)
IsExit(e) == e.type = "reflect_early_exit" /\ ~OffPath(e)

\* Before position k, c is the critique given last.
LastCritique(log, k, c) ==
    \E m \in 1..Len(log) :
        /\ m < k /\ IsCritique(log[m]) /\ log[m].text = c
        /\ \A j \in 1..Len(log) : m < j /\ j < k => ~IsCritique(log[j])

Verdict(log, c) == LastCritique(log, Len(log) + 1, c)

Earned(c) ==
    cfg.early_exit /\ (c.marked \/ c.score # NoScore) /\ Combined(cfg, c) >= 100 * cfg.threshold

ExitsEarned(log) ==
    \A i \in 1..Len(log) : IsExit(log[i]) =>
        \E c \in CritiqueTexts : LastCritique(log, i, c) /\ Earned(c)

Uncriticised(log) == \A i \in 1..Len(log) : ~IsCritique(log[i])
Unskipped(log) == \A i \in 1..Len(log) : log[i].type # "advisor_skipped"
HasAdvice(log) == \E i \in 1..Len(log) : log[i].type = "advisor"

\* From log to grown nothing has been added that changes a verdict.
SameVerdict(log, grown) ==
    /\ grown \in Seq(Entries)
    /\ ExitsEarned(log) => ExitsEarned(grown)
    /\ \A c : Verdict(log, c) => Verdict(grown, c)
    /\ Uncriticised(log) => Uncriticised(grown)
    /\ Unskipped(log) => Unskipped(grown)
    /\ HasAdvice(log) => HasAdvice(grown)

Plain(e) == ~IsCritique(e) /\ ~IsExit(e) /\ e.type # "advisor_skipped"

\* What was said of an earlier position is still true of a longer log.
LEMMA LastCritiqueStays ==
    ASSUME NEW s \in Seq(Entries), NEW e \in Entries, NEW k \in 1..(Len(s) + 1), NEW c,
           LastCritique(s, k, c)
    PROVE  LastCritique(Append(s, e), k, c)
<1> DEFINE q == Append(s, e)
<1>1. Len(s) \in Nat /\ Len(q) = Len(s) + 1 /\ \A i \in 1..Len(s) : q[i] = s[i]
  BY AppendProperties, LenProperties
<1> HIDE DEF q
<1>2. PICK m \in 1..Len(s) :
          /\ m < k /\ IsCritique(s[m]) /\ s[m].text = c
          /\ \A j \in 1..Len(s) : m < j /\ j < k => ~IsCritique(s[j])
  BY DEF LastCritique
<1>3. m \in 1..Len(q) /\ IsCritique(q[m]) /\ q[m].text = c
  BY <1>1, <1>2
<1>4. ASSUME NEW j \in 1..Len(q), m < j, j < k PROVE ~IsCritique(q[j])
  <2>1. j \in 1..Len(s)
    BY <1>1, <1>4
  <2>2. QED BY <1>1, <1>2, <1>4, <2>1
<1>5. LastCritique(q, k, c)
  BY <1>2, <1>3, <1>4 DEF LastCritique
<1>6. QED BY <1>5 DEF q

\* One more entry: what stays, and what a critique changes.
LEMMA VerdictAppended ==
    ASSUME NEW s \in Seq(Entries), NEW e \in Entries
    PROVE  LET q == Append(s, e)
           IN  /\ q \in Seq(Entries)
               /\ IsCritique(e) => Verdict(q, e.text)
               /\ ~IsCritique(e) => \A c : Verdict(s, c) => Verdict(q, c)
               /\ ~IsCritique(e) /\ Uncriticised(s) => Uncriticised(q)
               /\ e.type # "advisor_skipped" /\ Unskipped(s) => Unskipped(q)
               /\ HasAdvice(s) => HasAdvice(q)
<1> DEFINE q == Append(s, e)
<1>1. /\ q \in Seq(Entries) /\ Len(s) \in Nat /\ Len(q) = Len(s) + 1
      /\ \A i \in 1..Len(s) : q[i] = s[i]
      /\ q[Len(s) + 1] = e
  BY AppendProperties, LenProperties
<1>2. \A i \in 1..Len(q) : i \in 1..Len(s) \/ i = Len(s) + 1
  BY <1>1
<1>3. ASSUME IsCritique(e) PROVE Verdict(q, e.text)
  <2> HIDE DEF q
  <2>1. Len(q) \in 1..Len(q) /\ q[Len(q)] = e /\ Len(q) < Len(q) + 1
    BY <1>1
  <2>2. \A j \in 1..Len(q) : ~(Len(q) < j)
    BY <1>1
  <2>3. QED BY <1>3, <2>1, <2>2 DEF Verdict, LastCritique
<1>4. ASSUME ~IsCritique(e), NEW c, Verdict(s, c) PROVE Verdict(q, c)
  <2>1. LastCritique(q, Len(s) + 1, c)
    BY <1>1, <1>4, LastCritiqueStays DEF Verdict
  <2> HIDE DEF q
  <2>2. PICK m \in 1..Len(q) :
            /\ m < Len(s) + 1 /\ IsCritique(q[m]) /\ q[m].text = c
            /\ \A j \in 1..Len(q) : m < j /\ j < Len(s) + 1 => ~IsCritique(q[j])
    BY <2>1 DEF LastCritique
  <2>3. ASSUME NEW j \in 1..Len(q), m < j PROVE ~IsCritique(q[j])
    <3>1. CASE j = Len(s) + 1
      BY <1>1, <1>4, <3>1
    <3>2. CASE j \in 1..Len(s)
      BY <1>1, <2>2, <2>3, <3>2
    <3>3. QED BY <1>2, <3>1, <3>2
  <2>4. m < Len(q) + 1
    BY <1>1, <2>2
  <2>5. QED BY <2>2, <2>3, <2>4 DEF Verdict, LastCritique
<1> HIDE DEF q
<1>5. ~IsCritique(e) /\ Uncriticised(s) => Uncriticised(q)
  BY <1>1, <1>2 DEF Uncriticised
<1>6. e.type # "advisor_skipped" /\ Unskipped(s) => Unskipped(q)
  BY <1>1, <1>2 DEF Unskipped
<1>7. HasAdvice(s) => HasAdvice(q)
  <2> SUFFICES ASSUME HasAdvice(s) PROVE HasAdvice(q)
    OBVIOUS
  <2>1. PICK i \in 1..Len(s) : s[i].type = "advisor"
    BY DEF HasAdvice
  <2>2. i \in 1..Len(q) /\ q[i].type = "advisor"
    BY <1>1, <2>1
  <2>3. QED BY <2>2 DEF HasAdvice
<1>8. QED BY <1>1, <1>3, <1>4, <1>5, <1>6, <1>7 DEF q

\* Exits stay earned; one more has to be.
LEMMA ExitsAppended ==
    ASSUME NEW s \in Seq(Entries), NEW e \in Entries, ExitsEarned(s),
           IsExit(e) => \E c \in CritiqueTexts : Verdict(s, c) /\ Earned(c)
    PROVE  ExitsEarned(Append(s, e))
<1> DEFINE q == Append(s, e)
<1>1. /\ Len(s) \in Nat /\ Len(q) = Len(s) + 1
      /\ \A i \in 1..Len(s) : q[i] = s[i]
      /\ q[Len(s) + 1] = e
  BY AppendProperties, LenProperties
<1>2. ASSUME NEW i \in 1..Len(q), IsExit(q[i])
      PROVE  \E c \in CritiqueTexts : LastCritique(q, i, c) /\ Earned(c)
  <2>1. i \in 1..Len(s) \/ i = Len(s) + 1
    BY <1>1
  <2>2. \E c \in CritiqueTexts : LastCritique(s, i, c) /\ Earned(c)
    <3>1. CASE i \in 1..Len(s)
      BY <1>1, <1>2, <3>1 DEF ExitsEarned
    <3>2. CASE i = Len(s) + 1
      BY <1>1, <1>2, <3>2 DEF Verdict
    <3>3. QED BY <2>1, <3>1, <3>2
  <2>3. PICK c \in CritiqueTexts : LastCritique(s, i, c) /\ Earned(c)
    BY <2>2
  <2>4. i \in 1..(Len(s) + 1)
    BY <1>1
  <2>5. LastCritique(q, i, c)
    BY <2>3, <2>4, LastCritiqueStays
  <2>6. QED BY <2>3, <2>5
<1>3. QED BY <1>2 DEF ExitsEarned

\* A plain entry changes no verdict, nor does an optional one.
LEMMA PlainAppended ==
    ASSUME NEW s \in Seq(Entries), NEW e \in Entries, Plain(e)
    PROVE  SameVerdict(s, Append(s, e))
BY VerdictAppended, ExitsAppended DEF Plain, SameVerdict

\* An exit that is earned changes none either.
LEMMA ExitAppended ==
    ASSUME NEW s \in Seq(Entries), NEW e \in Entries, IsExit(e),
           NEW c \in CritiqueTexts, Verdict(s, c), Earned(c)
    PROVE  SameVerdict(s, Append(s, e))
<1>1. ~IsCritique(e) /\ e.type # "advisor_skipped"
  BY DEF IsExit, IsCritique
<1>2. QED BY <1>1, VerdictAppended, ExitsAppended DEF SameVerdict

\* Growth in two steps.
LEMMA SameVerdictAgain ==
    ASSUME NEW s, NEW q, NEW r, SameVerdict(s, q), SameVerdict(q, r)
    PROVE  SameVerdict(s, r)
BY DEF SameVerdict

\* An optional entry is one or none.
LEMMA OptionalAppended ==
    ASSUME NEW s \in Seq(Entries), NEW e \in Entries, NEW condition \in BOOLEAN,
           condition => SameVerdict(s, Append(s, e))
    PROVE  SameVerdict(s, s \o Optional(condition, e))
<1>1. CASE condition
  <2>1. s \o Optional(condition, e) = Append(s, e)
    BY <1>1, AppendIsConcat DEF Optional
  <2>2. QED BY <1>1, <2>1
<1>2. CASE ~condition
  <2>1. s \o Optional(condition, e) = s
    BY <1>2, ConcatEmptySeq DEF Optional
  <2>2. QED BY <2>1 DEF SameVerdict
<1>3. QED BY <1>1, <1>2

(***************************************************************************)
(* The invariant of the verdicts.  While the loop revises, the critique it *)
(* holds is the last in the log.  Before the advisor is decided upon, the  *)
(* signal of the request is that of the last critique; afterwards, the     *)
(* decision agrees with it.                                                *)
(***************************************************************************)
Confident(c) == c.confidence >= 85 \/ c.score >= 8

Untouched(log) == \A i \in 1..Len(log) : log[i].type # "reflect_critique"

Known == \E c \in CritiqueTexts : Verdict(events, c) /\ signal = Signal(c) /\ cfg.turns >= 1

LoopJudged ==
    /\ ExitsEarned(events)
    /\ step = "revision" => Verdict(events, critique)

Undecided ==
    /\ stage \in {"reflect", "advise"} /\ advisor.at = "off" => Untouched(events) \/ Known
    /\ stage = "advise" /\ route.order = "advise_first" /\ advisor.at = "off"
           => Untouched(events)
    /\ stage # "done" => Unskipped(events) /\ skip = "none"
    /\ stage = "reflect" /\ route.order = "advise_first" /\ route.advisor
           => advisor.at = "finished"

NotSpared == Uncriticised(events) \/ \E c \in CritiqueTexts : Verdict(events, c) /\ ~Confident(c)

Spared ==
    \E c \in CritiqueTexts :
        Verdict(events, c) /\ Confident(c) /\ (skip = "confidence" <=> c.confidence >= 85)

Decided ==
    /\ advisor.at \in {"plugins", "revision", "finished"} => HasAdvice(events)
    /\ route.order = "reflect_first" /\ advisor.at # "off" /\ stage \in {"advise", "done"}
           => NotSpared
    /\ stage = "done" /\ route.advisor =>
           \/ Unskipped(events) /\ advisor.at = "finished" /\ skip = "none"
           \/ /\ ~Unskipped(events) /\ advisor.at = "off"
              /\ route.order = "reflect_first" /\ Spared

ReportInv == OInv /\ LoopJudged /\ Undecided /\ Decided

\* Nothing has been judged before the first call.
LEMMA ReportInitEstablishes == PipelineInit => ReportInv
<1> SUFFICES ASSUME PipelineInit PROVE ReportInv
  OBVIOUS
<1>1. events = << >> /\ step = "idle" /\ stage = "initial" /\ advisor.at = "off" /\ skip = "none"
  BY DEF PipelineInit, Coroutine
<1>2. LoopJudged
  BY <1>1 DEF LoopJudged, ExitsEarned
<1>3. Undecided
  BY <1>1 DEF Undecided, Unskipped
<1>4. Decided
  BY <1>1 DEF Decided
<1>5. QED BY <1>2, <1>3, <1>4, InitEstablishes DEF ReportInv

\* What is earned is read off the route, which does not change.
LEMMA EarnedStays ==
    ASSUME UNCHANGED cfg, ExitsEarned(events') PROVE ExitsEarned(events)'
BY DEF ExitsEarned, Earned, Combined

\* A log with a critique in it is not untouched, nor uncriticised.
LEMMA VerdictMeansCritique ==
    ASSUME NEW log, NEW c, Verdict(log, c)
    PROVE  ~Untouched(log) /\ ~Uncriticised(log) /\ \E m \in 1..Len(log) : IsCritique(log[m])
BY DEF Verdict, LastCritique, Untouched, Uncriticised, IsCritique

\* The initial answer is not a verdict.
LEMMA FirstLogged ==
    ASSUME ReportInv, stage = "initial", stage' = StageAfter("initial"), NEW text \in Texts,
           events' = Append(events, [type |-> "initial", text |-> text]),
           UNCHANGED <<advisor, route, skip, step, cfg>>
    PROVE  LoopJudged' /\ Undecided' /\ Decided'
<1> DEFINE first == [type |-> "initial", text |-> text]
<1>1. /\ UNCHANGED <<advisor, route, skip, step, cfg>> /\ stage = "initial"
      /\ stage' \in {"advise", "reflect"} /\ events' = Append(events, first)
      /\ route.order = "advise_first" => stage' = "advise"
  BY DEF StageAfter
<1>2. /\ events = << >> /\ advisor.at = "off" /\ skip = "none" /\ events \in Seq(Entries)
  BY <1>1 DEF ReportInv, OInv, Chain, Paths, Undecided, TypesOK
<1>3. step # "revision"
  <2>1. ~Verdict(events, critique)
    BY <1>2, VerdictMeansCritique
  <2>2. QED BY <2>1 DEF ReportInv, LoopJudged
<1>4. first \in Entries /\ Plain(first) /\ first.type # "reflect_critique"
  BY DEF Entries, Plain, IsCritique, IsExit
<1> HIDE DEF first
<1>5. SameVerdict(events, events')
  BY <1>1, <1>2, <1>4, PlainAppended
<1>6. LoopJudged'
  BY <1>1, <1>3, <1>5, EarnedStays DEF ReportInv, LoopJudged, SameVerdict
<1>7. Untouched(events')
  <2>1. Len(events') = 1 /\ events'[1] = first
    BY <1>1, <1>2, <1>4, AppendProperties
  <2>2. QED BY <1>4, <2>1 DEF Untouched
<1>8. Unskipped(events')
  BY <1>1, <1>5 DEF ReportInv, Undecided, SameVerdict
<1>9. Undecided'
  BY <1>1, <1>2, <1>7, <1>8 DEF Undecided
<1>10. Decided'
  BY <1>1, <1>2 DEF Decided
<1>11. QED BY <1>6, <1>9, <1>10

LEMMA InitialJudged ==
    ASSUME ReportInv, NEW reply \in InitialReplies, InitialReturns(reply)
    PROVE  LoopJudged' /\ Undecided' /\ Decided'
<1>1. /\ stage = "initial" /\ stage' = StageAfter("initial")
      /\ events' = Append(events, [type |-> "initial", text |-> reply.text])
      /\ UNCHANGED <<advisor, route, skip, step, cfg>>
  BY DEF InitialReturns, advisorVars
<1>2. reply.text \in Texts
  BY PipelineRepliesAssumption
<1>3. QED BY <1>1, <1>2, FirstLogged

\* A critique is the new verdict, and the signal of the request.
LEMMA CritiqueJudged ==
    ASSUME ReportInv, NEW reply \in CritiqueReplies, ReflectionCritique(reply)
    PROVE  LoopJudged' /\ Undecided' /\ Decided'
<1> DEFINE c == reply.text
           first == Critiqued(turn, c, answer)
           flag == Note("reflect_fresh_context", turn)
           score == Note("reflect_score", turn)
           exit == EarlyExit(turn)
           fresh == cfg.fresh_context /\ OfType(events, "reflect_fresh_context") = {}
           scored == c.score # NoScore
           exits == ExitsUnrevised(cfg, turn, c)
           one == Append(events, first)
           two == one \o Optional(fresh, flag)
           three == two \o Optional(scored, score)
<1>1. /\ UNCHANGED <<advisor, route, skip, stage, cfg>> /\ stage = "reflect"
      /\ step = "critique" /\ critique' = c /\ signal' = Signal(c)
  BY DEF ReflectionCritique, CritiqueReturns, advisorVars
<1>2. /\ c \in CritiqueTexts /\ c.score \in Nat \cup {NoScore} /\ c.marked \in BOOLEAN
  BY RepliesAssumption DEF CritiqueTexts
<1>3. /\ OInv /\ events \in Seq(Entries) /\ turn \in Nat /\ cfg.turns \in Nat /\ answer \in Texts
      /\ cfg.fresh_context \in BOOLEAN /\ exits \in BOOLEAN /\ turn \in 0..(cfg.turns - 1)
  <2>1. OInv
    BY DEF ReportInv
  <2>2. cfg.fresh_context \in BOOLEAN /\ turn \in 0..(cfg.turns - 1)
    BY <1>1, <2>1, ConfigsAssumption DEF OInv, TypesOK, PipelineTypeOK, ReflectionConfigs
  <2>3. QED BY <1>1, <1>2, <2>1, <2>2, LoopRuns
<1>4. events' = events \o (((<<first>> \o Optional(fresh, flag))
                             \o Optional(scored, score)) \o Optional(exits, exit))
  BY DEF ReflectionCritique, CritiqueReturns, CritiqueEvents
<1>5. first \in Entries /\ IsCritique(first) /\ ~IsExit(first) /\ first.text = c
      /\ first.type # "advisor_skipped"
  BY <1>2, <1>3 DEF Entries, IsCritique, IsExit, OffPath, Critiqued, Turns
<1>6. /\ flag \in Entries /\ Plain(flag) /\ score \in Entries /\ Plain(score)
      /\ exit \in Entries /\ IsExit(exit)
  BY <1>3 DEF Entries, Plain, IsCritique, IsExit, OffPath, Note, EarlyExit, Turns
<1>7. exits => Earned(c)
  BY <1>2 DEF ExitsUnrevised, ClearsThreshold, Malformed, Earned
<1>8. fresh \in BOOLEAN /\ scored \in BOOLEAN
  BY <1>3
<1> HIDE DEF c, first, flag, score, exit, fresh, scored, exits
<1>9. events' = three \o Optional(exits, exit)
  <2>1. /\ Optional(fresh, flag) \in Seq(Entries) /\ Optional(scored, score) \in Seq(Entries)
        /\ Optional(exits, exit) \in Seq(Entries) /\ <<first>> \in Seq(Entries)
    BY <1>3, <1>5, <1>6, <1>8, OptionalIsLog
  <2>2. one = events \o <<first>>
    BY <1>3, <1>5, AppendIsConcat
  <2> DEFINE head == <<first>>
             a == Optional(fresh, flag)
             b == Optional(scored, score)
             d == Optional(exits, exit)
  <2>3. /\ events' = events \o (((head \o a) \o b) \o d)
        /\ three \o d = (((events \o head) \o a) \o b) \o d
    BY <1>4, <2>2
  <2>4. /\ head \in Seq(Entries) /\ a \in Seq(Entries) /\ b \in Seq(Entries)
        /\ d \in Seq(Entries)
    BY <2>1
  <2> HIDE DEF head, a, b, d, three, two, one
  <2>5. events' = three \o d
    <3>1. ASSUME NEW r \in Seq(Entries), NEW t \in Seq(Entries)
          PROVE  r \o t \in Seq(Entries) /\ (events \o r) \o t = events \o (r \o t)
      <4>1. events \in Seq(Entries)
        BY <1>3
      <4>2. QED BY <3>1, <4>1, LogsConcat
    <3> DEFINE pair == head \o a
               triple == pair \o b
    <3>2. pair \in Seq(Entries) /\ (events \o head) \o a = events \o pair
      BY <2>4, <3>1
    <3> HIDE DEF pair
    <3>3. triple \in Seq(Entries) /\ (events \o pair) \o b = events \o triple
      BY <2>4, <3>1, <3>2
    <3> HIDE DEF triple
    <3>4. (events \o triple) \o d = events \o (triple \o d)
      BY <2>4, <3>1, <3>3
    <3>5. QED BY <2>3, <3>2, <3>3, <3>4 DEF pair, triple
  <2>6. QED BY <2>5 DEF d
<1>10. /\ one \in Seq(Entries) /\ ExitsEarned(one) /\ Verdict(one, c)
       /\ Unskipped(events) => Unskipped(one)
       /\ HasAdvice(events) => HasAdvice(one)
  <2>1. ExitsEarned(events)
    BY DEF ReportInv, LoopJudged
  <2>2. ExitsEarned(one)
    BY <1>3, <1>5, <2>1, ExitsAppended
  <2>3. QED BY <1>3, <1>5, <2>2, VerdictAppended
<1> HIDE DEF one
<1>11. SameVerdict(one, two)
  BY <1>6, <1>8, <1>10, PlainAppended, OptionalAppended
<1> HIDE DEF two
<1>12. two \in Seq(Entries) /\ SameVerdict(two, three)
  BY <1>6, <1>8, <1>11, PlainAppended, OptionalAppended DEF SameVerdict
<1> HIDE DEF three
<1>13. three \in Seq(Entries) /\ Verdict(three, c)
  BY <1>10, <1>11, <1>12 DEF SameVerdict
<1>14. exits => SameVerdict(three, Append(three, exit))
  BY <1>2, <1>6, <1>7, <1>13, ExitAppended
<1>15. SameVerdict(three, events')
  BY <1>3, <1>6, <1>9, <1>13, <1>14, OptionalAppended
<1>16. /\ ExitsEarned(events') /\ Verdict(events', c)
       /\ Unskipped(events) => Unskipped(events')
       /\ HasAdvice(events) => HasAdvice(events')
  BY <1>10, <1>11, <1>12, <1>15 DEF SameVerdict
<1>17. LoopJudged'
  BY <1>1, <1>16, EarnedStays DEF LoopJudged
<1>18. Undecided'
  <2>1. cfg'.turns >= 1
    BY <1>1, <1>3
  <2>2. Known'
    BY <1>1, <1>2, <1>16, <2>1 DEF Known
  <2>3. QED BY <1>1, <1>16, <2>2 DEF ReportInv, Undecided
<1>19. Decided'
  BY <1>1, <1>16 DEF ReportInv, Decided
<1>20. QED BY <1>17, <1>18, <1>19

\* A revision leaves the verdict; an exit after it is earned by that verdict.
LEMMA RevisionJudged ==
    ASSUME ReportInv, NEW reply \in RevisionReplies, ReflectionRevision(reply)
    PROVE  LoopJudged' /\ Undecided' /\ Decided'
<1> DEFINE first == Revised(turn, reply.text, answer)
           exit == EarlyExit(turn)
           clears == ClearsThreshold(cfg, critique)
           one == Append(events, first)
<1>1. /\ UNCHANGED <<advisor, route, skip, stage, cfg, critique, signal>>
      /\ stage = "reflect" /\ step = "revision" /\ step' # "revision"
      /\ events' = events \o (<<first>> \o Optional(clears, exit))
  BY DEF ReflectionRevision, RevisionReturns, RevisionEvents, advisorVars
<1>2. OInv /\ ExitsEarned(events) /\ Verdict(events, critique)
  BY <1>1 DEF ReportInv, LoopJudged
<1>3. /\ events \in Seq(Entries) /\ turn \in Nat /\ answer \in Texts
      /\ critique \in CritiqueTexts /\ clears \in BOOLEAN
  <2>1. critique \in CritiqueTexts
    BY <1>2 DEF OInv, TypesOK, PipelineTypeOK
  <2>2. QED BY <1>1, <1>2, <2>1, LoopRuns
<1>4. first \in Entries /\ Plain(first) /\ exit \in Entries /\ IsExit(exit)
  BY <1>3, RepliesAssumption DEF Entries, Plain, IsCritique, IsExit, OffPath, Note,
     EarlyExit, Revised, Turns
<1>5. clears => Earned(critique)
  <2>1. critique.marked \in BOOLEAN /\ critique.score \in Nat \cup {NoScore}
    BY <1>3 DEF CritiqueTexts
  <2>2. QED BY <2>1 DEF ClearsThreshold, Malformed, Earned
<1> HIDE DEF first, exit, clears
<1>6. events' = one \o Optional(clears, exit)
  <2>1. Optional(clears, exit) \in Seq(Entries) /\ <<first>> \in Seq(Entries)
    BY <1>3, <1>4, OptionalIsLog
  <2>2. one = events \o <<first>>
    BY <1>3, <1>4, AppendIsConcat
  <2>3. QED BY <1>1, <1>3, <2>1, <2>2, LogsConcat
<1>7. SameVerdict(events, one)
  BY <1>3, <1>4, PlainAppended
<1> HIDE DEF one
<1>8. one \in Seq(Entries) /\ Verdict(one, critique)
  BY <1>2, <1>7 DEF SameVerdict
<1>9. clears => SameVerdict(one, Append(one, exit))
  BY <1>3, <1>4, <1>5, <1>8, ExitAppended
<1>10. SameVerdict(one, events')
  BY <1>3, <1>4, <1>6, <1>8, <1>9, OptionalAppended
<1>11. SameVerdict(events, events')
  BY <1>7, <1>10, SameVerdictAgain
<1>12. LoopJudged'
  BY <1>1, <1>2, <1>11, EarnedStays DEF LoopJudged, SameVerdict
<1>13. Undecided'
  <2>1. advisor.at = "off" => Known
    BY <1>1, <1>2, VerdictMeansCritique DEF ReportInv, Undecided
  <2>2. advisor.at = "off" => Known'
    BY <1>1, <1>11, <2>1 DEF Known, SameVerdict
  <2>3. QED BY <1>1, <1>11, <2>2 DEF ReportInv, Undecided, SameVerdict
<1>14. Decided'
  BY <1>1, <1>11 DEF ReportInv, Decided, SameVerdict
<1>15. QED BY <1>12, <1>13, <1>14

\* Steps that log nothing and change no verdict.
LEMMA SilentJudged ==
    ASSUME ReportInv, UNCHANGED <<events, cfg, critique>>, step' = "revision" => step = "revision"
    PROVE  /\ LoopJudged'
           /\ Unskipped(events)' <=> Unskipped(events)
           /\ Untouched(events)' <=> Untouched(events)
           /\ HasAdvice(events)' <=> HasAdvice(events)
           /\ NotSpared' <=> NotSpared
           /\ UNCHANGED signal => (Known' <=> Known)
<1>1. LoopJudged'
  BY EarnedStays DEF ReportInv, LoopJudged
<1>2. NotSpared' <=> NotSpared
  BY DEF NotSpared
<1>3. UNCHANGED signal => (Known' <=> Known)
  BY DEF Known
<1>4. QED BY <1>1, <1>2, <1>3

\* The loop starts and ends without a verdict of its own.
LEMMA LoopEndsJudged ==
    ASSUME ReportInv, StartReflection \/ EndReflection \/ ReflectionRaises \/ InitialRaises
    PROVE  LoopJudged' /\ Undecided' /\ Decided'
<1>1. /\ UNCHANGED <<events, cfg, critique, signal, advisor, route, skip>>
      /\ step' = "revision" => step = "revision"
  BY DEF StartReflection, EndReflection, ReflectionRaises, InitialRaises, CallRaises, loopVars,
     advisorVars
<1>2. /\ LoopJudged' /\ (Unskipped(events)' <=> Unskipped(events))
      /\ (Untouched(events)' <=> Untouched(events)) /\ (Known' <=> Known)
      /\ (HasAdvice(events)' <=> HasAdvice(events)) /\ (NotSpared' <=> NotSpared)
  BY <1>1, SilentJudged
<1>3. CASE StartReflection
  <2>1. stage' = stage /\ stage = "reflect"
    BY <1>3 DEF StartReflection
  <2>2. QED BY <1>1, <1>2, <2>1 DEF ReportInv, Undecided, Decided
<1>4. CASE ReflectionRaises \/ InitialRaises
  <2>1. stage' \in {"raised", "hung"} /\ stage \in {"initial", "reflect"}
    BY <1>4 DEF ReflectionRaises, InitialRaises
  <2>2. QED BY <1>1, <1>2, <2>1 DEF ReportInv, Undecided, Decided
<1>5. CASE EndReflection
  <2>1. stage = "reflect" /\ stage' = IF route.order = "advise_first" THEN "done" ELSE "advise"
    BY <1>5 DEF EndReflection, StageAfter
  <2>2. route.order = "reflect_first" => advisor.at = "off"
    BY <2>1 DEF ReportInv, OInv, Paths
  <2>3. route.order \in {"reflect_first", "advise_first"}
    BY RoutesAssumption DEF ReportInv, OInv, TypesOK, PipelineTypeOK
  <2>4. Undecided'
    BY <1>1, <1>2, <2>1, <2>3 DEF ReportInv, Undecided
  <2>5. Decided'
    BY <1>1, <1>2, <2>1, <2>2, <2>3 DEF ReportInv, Undecided, Decided
  <2>6. QED BY <1>2, <2>4, <2>5
<1>6. QED BY <1>3, <1>4, <1>5

\* What the skip check reads off a request that has been criticised.
LEMMA CheckAgrees ==
    ASSUME OInv, route.advisor, cfg.turns >= 1,
           NEW c \in CritiqueTexts, Verdict(events, c), signal = Signal(c)
    PROVE  /\ SkipReason # "insufficient_signal" <=> Confident(c)
           /\ SkipReason = "confidence" <=> c.confidence >= 85
<1>1. c.confidence \in Nat /\ c.score \in Nat \cup {NoScore} /\ cfg.turns \in Nat
  BY ConfigsAssumption DEF CritiqueTexts, OInv, TypesOK, PipelineTypeOK, ReflectionConfigs
<1>2. OfType(events, "reflect_critique") # {}
  <2>1. PICK m \in 1..Len(events) : events[m].type = "reflect_critique"
    BY VerdictMeansCritique DEF IsCritique
  <2>2. DOMAIN events = 1..Len(events)
    BY LenProperties DEF OInv, TypesOK
  <2>3. QED BY <2>1, <2>2 DEF OfType
<1>3. SkipReason = SkipReasonOf(Signal(c))
  BY <1>1, <1>2 DEF SkipReason
<1>4. SkipReason = IF c.confidence >= 85 THEN "confidence"
                   ELSE IF c.score # NoScore /\ c.score >= 8 THEN "high_score"
                   ELSE "insufficient_signal"
  BY <1>3 DEF SkipReasonOf, Signal
<1>5. c.score >= 8 => c.score # NoScore
  BY <1>1 DEF NoScore
<1>6. QED BY <1>1, <1>4, <1>5 DEF Confident

\* A log without critiques spares nobody.
LEMMA UntouchedSparesNobody ==
    ASSUME OInv, Untouched(events)
    PROVE  SkipReason = "insufficient_signal" /\ Uncriticised(events)
<1>1. DOMAIN events = 1..Len(events)
  BY LenProperties DEF OInv, TypesOK
<1>2. QED BY <1>1 DEF Untouched, Uncriticised, IsCritique, SkipReason, OfType

\* The advisor is not called where the route has none.
LEMMA DisabledJudged ==
    ASSUME ReportInv, AdvisorDisabled PROVE LoopJudged' /\ Undecided' /\ Decided'
<1>1. /\ UNCHANGED <<events, cfg, critique, signal, step, advisor, route, skip>>
      /\ stage = "advise" /\ ~route.advisor
      /\ stage' = IF route.order = "advise_first" THEN "reflect" ELSE "done"
  BY DEF AdvisorDisabled, StageAfter, loopVars, advisorVars
<1>2. advisor.at = "off"
  BY <1>1 DEF ReportInv, OInv, Paths
<1>3. /\ LoopJudged' /\ (Unskipped(events)' <=> Unskipped(events))
      /\ (Untouched(events)' <=> Untouched(events))
  BY <1>1, SilentJudged
<1>4. QED BY <1>1, <1>2, <1>3 DEF ReportInv, Undecided, Decided

\* It is called where the last critique was not confident.
LEMMA StartAdvisorJudged ==
    ASSUME ReportInv, StartAdvisor PROVE LoopJudged' /\ Undecided' /\ Decided'
<1>1. /\ UNCHANGED <<events, cfg, critique, signal, step, route, skip, stage>>
      /\ stage = "advise" /\ route.advisor /\ advisor.at = "off"
      /\ SkipReason = "insufficient_signal" /\ advisor'.at = "advice"
  BY DEF StartAdvisor, Coroutine, loopVars
<1>2. /\ LoopJudged' /\ (Unskipped(events)' <=> Unskipped(events))
      /\ (NotSpared' <=> NotSpared)
  BY <1>1, SilentJudged
<1>3. NotSpared
  <2>1. CASE Untouched(events)
    BY <2>1, UntouchedSparesNobody DEF NotSpared, ReportInv
  <2>2. CASE Known
    <3>1. PICK c \in CritiqueTexts : Verdict(events, c) /\ signal = Signal(c) /\ cfg.turns >= 1
      BY <2>2 DEF Known
    <3>2. ~Confident(c)
      BY <1>1, <3>1, CheckAgrees DEF ReportInv
    <3>3. QED BY <3>1, <3>2 DEF NotSpared
  <2>3. QED BY <1>1, <2>1, <2>2 DEF ReportInv, Undecided
<1>4. QED BY <1>1, <1>2, <1>3 DEF ReportInv, Undecided, Decided

\* It is skipped where the last critique was.
LEMMA SkipJudged ==
    ASSUME ReportInv, SkipAdvisor PROVE LoopJudged' /\ Undecided' /\ Decided'
<1> DEFINE e == [type |-> "advisor_skipped"]
<1>1. /\ UNCHANGED <<cfg, critique, signal, step, advisor, route>>
      /\ stage = "advise" /\ route.advisor /\ advisor.at = "off"
      /\ SkipReason # "insufficient_signal" /\ skip' = SkipReason
      /\ events' = Append(events, e)
      /\ stage' = IF route.order = "advise_first" THEN "reflect" ELSE "done"
  BY DEF SkipAdvisor, StageAfter
<1>2. ~Untouched(events)
  BY <1>1, UntouchedSparesNobody DEF ReportInv
<1>3. PICK c \in CritiqueTexts : Verdict(events, c) /\ signal = Signal(c) /\ cfg.turns >= 1
  BY <1>1, <1>2 DEF ReportInv, Undecided, Known
<1>4. route.order = "reflect_first"
  <2>1. route.order # "advise_first"
    BY <1>1, <1>2 DEF ReportInv, Undecided
  <2>2. QED BY <2>1, RoutesAssumption DEF ReportInv, OInv, TypesOK, PipelineTypeOK
<1>5. e \in Entries /\ ~IsCritique(e) /\ ~IsExit(e) /\ events \in Seq(Entries)
  BY DEF Entries, IsCritique, IsExit, ReportInv, OInv, TypesOK
<1>6. ExitsEarned(events') /\ \A d : Verdict(events, d) => Verdict(events', d)
  BY <1>1, <1>5, VerdictAppended, ExitsAppended DEF ReportInv, LoopJudged
<1>7. LoopJudged'
  BY <1>1, <1>6, EarnedStays DEF ReportInv, LoopJudged
<1>8. ~Unskipped(events')
  <2>1. /\ Len(events) \in Nat /\ Len(events') = Len(events) + 1
        /\ events'[Len(events) + 1] = e
    BY <1>1, <1>5, AppendProperties, LenProperties
  <2>2. QED BY <2>1 DEF Unskipped
<1>9. Spared'
  <2>1. Confident(c) /\ (skip' = "confidence" <=> c.confidence >= 85)
    BY <1>1, <1>3, CheckAgrees DEF ReportInv
  <2>2. QED BY <1>3, <1>6, <2>1 DEF Spared
<1>10. Undecided'
  BY <1>1, <1>4 DEF Undecided
<1>11. Decided'
  BY <1>1, <1>4, <1>8, <1>9 DEF Decided
<1>12. QED BY <1>7, <1>10, <1>11

\* A stage that ends has its advice.
LEMMA EndAdvisorJudged ==
    ASSUME ReportInv, EndAdvisor PROVE LoopJudged' /\ Undecided' /\ Decided'
<1>1. /\ UNCHANGED <<events, cfg, critique, signal, step, advisor, route, skip>>
      /\ stage = "advise" /\ advisor.at = "finished"
      /\ stage' = IF route.order = "advise_first" THEN "reflect" ELSE "done"
  BY DEF EndAdvisor, StageAfter, advisorVars, Joined
<1>2. /\ LoopJudged' /\ (Unskipped(events)' <=> Unskipped(events))
      /\ (HasAdvice(events)' <=> HasAdvice(events)) /\ (NotSpared' <=> NotSpared)
  BY <1>1, SilentJudged
<1>3. QED BY <1>1, <1>2 DEF ReportInv, Undecided, Decided

\* Coroutines that raise end a run without a report.
LEMMA RaisedJudged ==
    ASSUME ReportInv, AdvisorRaises \/ ReflectorRaises
    PROVE  LoopJudged' /\ Undecided' /\ Decided'
<1>1. /\ UNCHANGED <<events, cfg, critique, signal, step, route, skip>>
      /\ stage' = "raised" /\ stage \in {"advise", "raised"}
      /\ advisor' = advisor \/ advisor' = [advisor EXCEPT !.at = "failed"]
  BY DEF AdvisorRaises, ReflectorRaises, loopVars
<1>2. advisor'.at = advisor.at \/ advisor'.at = "failed"
  BY <1>1 DEF ReportInv, OInv, TypesOK, PipelineTypeOK, CoroutineOK
<1>3. /\ LoopJudged' /\ (Unskipped(events)' <=> Unskipped(events))
      /\ (HasAdvice(events)' <=> HasAdvice(events))
  BY <1>1, SilentJudged
<1>4. QED BY <1>1, <1>2, <1>3 DEF ReportInv, Undecided, Decided

\* What coroutines log beside and after the decision leaves it as it is.
LEMMA BesideJudged ==
    ASSUME ReportInv, UNCHANGED <<cfg, critique, step, route, skip, stage>>,
           stage \in {"advise", "raised"}, SameVerdict(events, events'),
           advisor.at # "off", advisor'.at # "off",
           advisor'.at \in {"plugins", "revision", "finished"} => HasAdvice(events')
    PROVE  LoopJudged' /\ Undecided' /\ Decided'
<1>1. LoopJudged'
  BY EarnedStays DEF ReportInv, LoopJudged, SameVerdict
<1>2. Undecided'
  BY DEF ReportInv, Undecided, SameVerdict
<1>3. NotSpared => NotSpared'
  BY DEF NotSpared, SameVerdict
<1>4. Decided'
  BY <1>3 DEF ReportInv, Decided
<1>5. QED BY <1>1, <1>2, <1>4

\* The advisor's advice, what becomes of it, and its revision.
LEMMA AdvisorJudged ==
    ASSUME ReportInv, NEW reply,
           \/ reply \in AdvisorReplies /\ AdviceReturns(reply)
           \/ reply \in RevisionReplies /\ AdvisorRevisionReturns(reply)
           \/ PluginsDone
    PROVE  LoopJudged' /\ Undecided' /\ Decided'
<1>1. /\ UNCHANGED <<cfg, critique, step, route, skip, stage>> /\ Awaiting(advisor)
  BY DEF AdviceReturns, AdvisorRevisionReturns, PluginsDone, Awaiting
<1>2. /\ OInv /\ stage \in {"advise", "raised"} /\ events \in Seq(Entries) /\ answer \in Texts
      /\ advisor.at # "off"
      /\ advisor \in [at : {"advice", "plugins", "revision"}, final : Texts,
                       fallbacks : Seq(Models)]
  BY <1>1, AdvisorRuns DEF ReportInv, Awaiting
<1>3. CASE reply \in AdvisorReplies /\ AdviceReturns(reply)
  <2> DEFINE e == [type |-> "advisor", text |-> reply.text, judged |-> answer]
             note == [type |-> "advisor_score"]
             scored == reply.text.score # NoScore
             one == Append(events, e)
  <2>1. /\ events' = one \o Optional(scored, note)
        /\ advisor' = [advisor EXCEPT !.at = "plugins", !.fallbacks = reply.fallbacks]
    BY <1>3 DEF AdviceReturns
  <2>2. /\ e \in Entries /\ Plain(e) /\ note \in Entries /\ Plain(note)
        /\ scored \in BOOLEAN /\ e.type = "advisor"
    BY <1>2, <1>3, PipelineRepliesAssumption DEF Entries, Plain, IsCritique, IsExit
  <2>3. advisor'.at = "plugins"
    BY <1>2, <2>1
  <2> HIDE DEF e, note, scored
  <2>4. SameVerdict(events, one)
    BY <1>2, <2>2, PlainAppended
  <2>5. HasAdvice(one)
    <3>1. /\ Len(one) = Len(events) + 1 /\ Len(events) \in Nat
          /\ one[Len(events) + 1] = e
      BY <1>2, <2>2, AppendProperties, LenProperties
    <3>2. QED BY <2>2, <3>1 DEF HasAdvice
  <2> HIDE DEF one
  <2>6. one \in Seq(Entries)
    BY <2>4 DEF SameVerdict
  <2>7. SameVerdict(one, events')
    BY <2>1, <2>2, <2>6, PlainAppended, OptionalAppended
  <2>8. SameVerdict(events, events') /\ HasAdvice(events')
    BY <2>4, <2>5, <2>7, SameVerdictAgain DEF SameVerdict
  <2>9. QED BY <1>1, <1>2, <2>3, <2>8, BesideJudged
<1>4. CASE reply \in RevisionReplies /\ AdvisorRevisionReturns(reply)
  <2> DEFINE e == [type |-> "advisor_revision", text |-> reply.text, judged |-> answer]
  <2>1. /\ events' = Append(events, e) /\ advisor.at = "revision"
        /\ advisor' = Finish(advisor, reply)
    BY <1>4 DEF AdvisorRevisionReturns
  <2>2. e \in Entries /\ Plain(e)
    BY <1>2, <1>4, RepliesAssumption DEF Entries, Plain, IsCritique, IsExit
  <2> HIDE DEF e
  <2>3. SameVerdict(events, events')
    BY <1>2, <2>1, <2>2, PlainAppended
  <2>4. HasAdvice(events')
    BY <2>1, <2>3 DEF ReportInv, Decided, SameVerdict
  <2>5. advisor'.at = "finished"
    BY <1>2, <2>1 DEF Finish
  <2>6. QED BY <1>1, <1>2, <2>3, <2>4, <2>5, BesideJudged
<1>5. CASE PluginsDone
  <2>1. PICK e \in Entries : Plain(e) /\ events' = Append(events, e)
    <3>1. Advice.feedback \in Texts
      BY <1>2, <1>5, AdviceIsText DEF PluginsDone, AdvisorTexts
    <3>2. /\ [type |-> "advisor_approve"] \in Entries
          /\ [type |-> "advisor_revised", text |-> Advice.feedback] \in Entries
          /\ Plain([type |-> "advisor_approve"])
          /\ Plain([type |-> "advisor_revised", text |-> Advice.feedback])
      BY <3>1 DEF Entries, Plain, IsCritique, IsExit
    <3>3. \/ events' = Append(events, [type |-> "advisor_approve"])
          \/ events' = Append(events, [type |-> "advisor_revised", text |-> Advice.feedback])
      BY <1>5 DEF PluginsDone
    <3>4. QED BY <3>2, <3>3
  <2>2. /\ advisor.at = "plugins"
        /\ \/ advisor' = [advisor EXCEPT !.at = "finished", !.final = answer]
           \/ advisor' = [advisor EXCEPT !.at = "revision"]
    BY <1>5 DEF PluginsDone
  <2>3. SameVerdict(events, events')
    BY <1>2, <2>1, PlainAppended
  <2>4. HasAdvice(events')
    BY <2>2, <2>3 DEF ReportInv, Decided, SameVerdict
  <2>5. advisor'.at # "off"
    BY <1>2, <2>2
  <2>6. QED BY <1>1, <1>2, <2>3, <2>4, <2>5, BesideJudged
<1>6. QED BY <1>3, <1>4, <1>5

\* The reflector's entries are beside the path.
LEMMA ReflectorJudged ==
    ASSUME ReportInv, NEW reply,
           \/ reply \in CritiqueReplies /\ SelfCritiqueReturns(reply)
           \/ reply \in RevisionReplies /\ SelfRevisionReturns(reply)
    PROVE  LoopJudged' /\ Undecided' /\ Decided'
<1>1. /\ UNCHANGED <<cfg, critique, step, route, skip, stage, advisor>> /\ Awaiting(reflector)
  BY DEF SelfCritiqueReturns, SelfRevisionReturns, Awaiting
<1>2. /\ OInv /\ stage \in {"advise", "raised"} /\ advisor.at # "off"
      /\ initial_answer \in Texts /\ events \in Seq(Entries)
  BY <1>1, ReflectorRuns DEF ReportInv
<1>3. SameVerdict(events, events')
  <2>1. CASE reply \in CritiqueReplies /\ SelfCritiqueReturns(reply)
    <3> DEFINE e == SelfEvent("reflect_critique", reply.text)
               flag == Note("reflect_fresh_context", 0)
               exit == SelfEvent("reflect_early_exit", reply.text)
               fresh == cfg.fresh_context /\ OfType(events, "reflect_fresh_context") = {}
               clears == SelfClears(reply.text)
               one == Append(events, e)
               two == one \o Optional(fresh, flag)
    <3>1. events' = two \o Optional(clears, exit)
      BY <2>1 DEF SelfCritiqueReturns
    <3>2. /\ e \in Entries /\ Plain(e) /\ flag \in Entries /\ Plain(flag)
          /\ exit \in Entries /\ Plain(exit)
      BY <1>2, <2>1, RepliesAssumption DEF Entries, Plain, IsCritique, IsExit, OffPath,
         SelfEvent, Note, Turns
    <3>3. fresh \in BOOLEAN /\ clears \in BOOLEAN
      BY <1>2, ConfigsAssumption DEF SelfClears, OInv, TypesOK, PipelineTypeOK,
         ReflectionConfigs
    <3> HIDE DEF e, flag, exit, fresh, clears
    <3>4. SameVerdict(events, one)
      BY <1>2, <3>2, PlainAppended
    <3> HIDE DEF one
    <3>5. one \in Seq(Entries) /\ SameVerdict(one, two)
      BY <3>2, <3>3, <3>4, PlainAppended, OptionalAppended DEF SameVerdict
    <3> HIDE DEF two
    <3>6. two \in Seq(Entries) /\ SameVerdict(two, events')
      BY <3>1, <3>2, <3>3, <3>5, PlainAppended, OptionalAppended DEF SameVerdict
    <3>7. QED BY <3>4, <3>5, <3>6, SameVerdictAgain
  <2>2. CASE reply \in RevisionReplies /\ SelfRevisionReturns(reply)
    <3> DEFINE e == SelfEvent("reflect_revised", reply.text)
    <3>1. events' = Append(events, e)
      BY <2>2 DEF SelfRevisionReturns
    <3>2. e \in Entries /\ Plain(e)
      BY <1>2, <2>2, RepliesAssumption DEF Entries, Plain, IsCritique, IsExit, OffPath,
         SelfEvent, Turns
    <3> HIDE DEF e
    <3>3. QED BY <1>2, <3>1, <3>2, PlainAppended
  <2>3. QED BY <2>1, <2>2
<1>4. advisor'.at \in {"plugins", "revision", "finished"} => HasAdvice(events')
  BY <1>1, <1>3 DEF ReportInv, Decided, SameVerdict
<1>5. QED BY <1>1, <1>2, <1>3, <1>4, BesideJudged

\* Every step keeps the verdicts.
LEMMA ReportStepKeeps == ReportInv /\ [PipelineNext]_vars => ReportInv'
<1> SUFFICES ASSUME ReportInv, [PipelineNext]_vars PROVE ReportInv'
  OBVIOUS
<1>1. OInv'
  BY StepKeeps DEF ReportInv
<1> SUFFICES LoopJudged' /\ Undecided' /\ Decided'
  BY <1>1 DEF ReportInv
<1>2. CASE UNCHANGED vars
  <2>1. UNCHANGED <<events, cfg, critique, step, signal, stage, advisor, route, skip>>
    BY <1>2 DEF vars, loopVars, advisorVars
  <2>2. /\ LoopJudged' /\ (Unskipped(events)' <=> Unskipped(events))
        /\ (Untouched(events)' <=> Untouched(events)) /\ (Known' <=> Known)
        /\ (HasAdvice(events)' <=> HasAdvice(events)) /\ (NotSpared' <=> NotSpared)
    BY <2>1, SilentJudged
  <2>3. Spared' <=> Spared
    BY <2>1 DEF Spared
  <2>4. QED BY <2>1, <2>2, <2>3 DEF ReportInv, Undecided, Decided
<1>3. CASE CallOrStage
  <2>1. CASE \E reply \in InitialReplies : InitialReturns(reply)
    BY <2>1, InitialJudged
  <2>2. CASE StartReflection \/ EndReflection \/ ReflectionRaises
    BY <2>2, LoopEndsJudged
  <2>3. CASE \E reply \in CritiqueReplies :
                 ReflectionCritique(reply) \/ SelfCritiqueReturns(reply)
    BY <2>3, CritiqueJudged, ReflectorJudged
  <2>4. CASE \E reply \in RevisionReplies :
                 \/ ReflectionRevision(reply)
                 \/ AdvisorRevisionReturns(reply)
                 \/ SelfRevisionReturns(reply)
    BY <2>4, RevisionJudged, AdvisorJudged, ReflectorJudged
  <2>5. CASE AdvisorDisabled \/ SkipAdvisor \/ StartAdvisor \/ EndAdvisor
    BY <2>5, DisabledJudged, SkipJudged, StartAdvisorJudged, EndAdvisorJudged
  <2>6. CASE \E reply \in AdvisorReplies : AdviceReturns(reply)
    BY <2>6, AdvisorJudged
  <2>7. CASE InitialRaises \/ AdvisorRaises \/ ReflectorRaises
    BY <2>7, LoopEndsJudged, RaisedJudged
  <2>8. QED BY <1>3, <2>1, <2>2, <2>3, <2>4, <2>5, <2>6, <2>7 DEF CallOrStage
<1>4. CASE Plugins
  BY <1>4, AdvisorJudged, RaisedJudged DEF Plugins
<1>5. QED BY <1>2, <1>3, <1>4 DEF PipelineNext

\* The invariant holds all through a run.
LEMMA ReportInvariance == Pipeline => []ReportInv
BY ReportInitEstablishes, ReportStepKeeps, PTL DEF Pipeline

\* The two ways of saying which critique was given last agree.
LEMMA VerdictIsLast ==
    ASSUME events \in Seq(Entries), NEW k, NEW c, LastCritique(events, k, c)
    PROVE  /\ {j \in Critiques : j < k} # {}
           /\ events[Max({j \in Critiques : j < k})].text = c
<1>1. PICK m \in 1..Len(events) :
          /\ m < k /\ IsCritique(events[m]) /\ events[m].text = c
          /\ \A j \in 1..Len(events) : m < j /\ j < k => ~IsCritique(events[j])
  BY DEF LastCritique
<1> DEFINE before == {j \in Critiques : j < k}
<1>2. /\ DOMAIN events = 1..Len(events) /\ Len(events) \in Nat
      /\ \A j : j \in Critiques <=> j \in 1..Len(events) /\ IsCritique(events[j])
  BY LenProperties DEF Critiques, OfType, OnPath, IsCritique, OffPath
<1>3. m \in before /\ \A j \in before : j \in Nat /\ m >= j
  BY <1>1, <1>2
<1>4. Max(before) = m
  <2>1. \A n \in before : (\A j \in before : n >= j) => n = m
    BY <1>3
  <2> HIDE DEF before
  <2>2. QED BY <1>3, <2>1 DEF Max
<1>5. QED BY <1>1, <1>3, <1>4

\* The invariant keeps what the properties say of the log.
LEMMA ExitsEarnedInLog == ReportInv => EarlyExitEarned
<1> SUFFICES ASSUME ReportInv, NEW i \in OfType(events, "reflect_early_exit"), OnPath(i)
             PROVE  LET c == events[Max({j \in Critiques : j < i})].text
                    IN  /\ cfg.early_exit
                        /\ c.marked \/ c.score # NoScore
                        /\ Combined(cfg, c) >= 100 * cfg.threshold
  BY DEF EarlyExitEarned
<1>1. events \in Seq(Entries) /\ DOMAIN events = 1..Len(events)
  BY LenProperties DEF ReportInv, OInv, TypesOK
<1>2. i \in 1..Len(events) /\ IsExit(events[i])
  BY <1>1 DEF OfType, OnPath, IsExit, OffPath
<1>3. PICK c \in CritiqueTexts : LastCritique(events, i, c) /\ Earned(c)
  BY <1>2 DEF ReportInv, LoopJudged, ExitsEarned
<1>4. events[Max({j \in Critiques : j < i})].text = c
  BY <1>1, <1>3, VerdictIsLast
<1>5. QED BY <1>3, <1>4 DEF Earned

LEMMA SkipsFollowInLog == ReportInv => SkipFollowsLastCritique
<1> SUFFICES ASSUME ReportInv, stage = "done", route.advisor
             PROVE  /\ Skipped <=> ~Advised
                    /\ IF route.order = "reflect_first" /\ Critiques # {}
                       THEN LET last == events[Max(Critiques)].text
                            IN  /\ Skipped <=> last.confidence >= 85 \/ last.score >= 8
                                /\ skip = "confidence" <=> last.confidence >= 85
                       ELSE Advised
  BY DEF SkipFollowsLastCritique
<1>1. /\ OInv /\ events \in Seq(Entries) /\ DOMAIN events = 1..Len(events)
      /\ Len(events) \in Nat
  BY LenProperties DEF ReportInv, OInv, TypesOK
<1>2. (Unskipped(events) <=> ~Skipped) /\ (HasAdvice(events) <=> Advised)
  BY <1>1 DEF Unskipped, Skipped, HasAdvice, Advised, OfType
<1>3. \A c : Verdict(events, c) => Critiques # {} /\ events[Max(Critiques)].text = c
  <2> SUFFICES ASSUME NEW c, Verdict(events, c)
               PROVE  Critiques # {} /\ events[Max(Critiques)].text = c
    OBVIOUS
  <2>1. {j \in Critiques : j < Len(events) + 1} = Critiques
    BY <1>1 DEF Critiques, OfType
  <2>2. QED BY <1>1, <2>1, VerdictIsLast DEF Verdict
<1>4. CASE Unskipped(events)
  <2>1. advisor.at = "finished" /\ skip = "none"
    BY <1>4 DEF ReportInv, Decided
  <2>2. ~Skipped /\ Advised
    BY <1>2, <1>4, <2>1 DEF ReportInv, Decided
  <2>3. ASSUME route.order = "reflect_first", Critiques # {}
        PROVE  LET last == events[Max(Critiques)].text IN ~Confident(last)
    <3>1. NotSpared
      BY <2>1, <2>3 DEF ReportInv, Decided
    <3>2. ~Uncriticised(events)
      BY <1>1, <2>3 DEF Uncriticised, Critiques, OfType, OnPath, IsCritique, OffPath
    <3>3. QED BY <1>3, <3>1, <3>2 DEF NotSpared
  <2>4. QED BY <2>1, <2>2, <2>3 DEF Confident
<1>5. CASE ~Unskipped(events)
  <2>1. advisor.at = "off" /\ route.order = "reflect_first" /\ Spared
    BY <1>5 DEF ReportInv, Decided
  <2>2. Skipped /\ ~Advised
    BY <1>1, <1>2, <1>5, <2>1 DEF OInv, AdviceLogged, Advised
  <2>3. PICK c \in CritiqueTexts :
            Verdict(events, c) /\ Confident(c) /\ (skip = "confidence" <=> c.confidence >= 85)
    BY <2>1 DEF Spared
  <2>4. Critiques # {} /\ events[Max(Critiques)].text = c
    BY <1>3, <2>3
  <2>5. QED BY <2>1, <2>2, <2>3, <2>4 DEF Confident
<1>6. QED BY <1>4, <1>5

\* However many turns a loop takes, an early exit in the log stands behind a
\* critique that gave a signal, and a signal that reaches the threshold.
THEOREM ExitsAreEarned == Pipeline => []EarlyExitEarned
BY ReportInvariance, ExitsEarnedInLog, PTL

\* A finished run has skipped a configured advisor exactly if the last critique
\* was confident or scored high, and called it otherwise; with advice first it
\* never skips.
THEOREM SkipsFollowCritiques == Pipeline => []SkipFollowsLastCritique
BY ReportInvariance, SkipsFollowInLog, PTL

-----------------------------------------------------------------------------
(***************************************************************************)
(* An advisor without a reflector beside it.  It is the only coroutine of  *)
(* its stage, a failed run has none left, and once it has been called the  *)
(* request keeps saying that there was no reason to skip it.               *)
(***************************************************************************)
Alone ==
    /\ ~route.advisor => skip = "none"
    /\ ~Together =>
          /\ reflector.at = "off"
          /\ stage = "raised" => ~Awaiting(advisor)
          /\ /\ route.order = "reflect_first" /\ advisor.at # "off"
             /\ stage \in {"advise", "done"}
             => SkipReason = "insufficient_signal"

\* What is not a critique leaves the critiques as they are.
LEMMA OthersAppended ==
    ASSUME NEW s \in Seq(Entries), NEW e \in Entries, e.type # "reflect_critique"
    PROVE  OfType(Append(s, e), "reflect_critique") = OfType(s, "reflect_critique")
<1> DEFINE q == Append(s, e)
<1>1. /\ Len(s) \in Nat /\ Len(q) = Len(s) + 1 /\ \A i \in 1..Len(s) : q[i] = s[i]
      /\ q[Len(s) + 1] = e /\ DOMAIN s = 1..Len(s) /\ DOMAIN q = 1..Len(q)
  BY AppendProperties, LenProperties
<1> HIDE DEF q
<1>2. \A i \in 1..Len(q) : i \in 1..Len(s) \/ i = Len(s) + 1
  BY <1>1
<1>3. \A i \in 1..Len(s) : i \in 1..Len(q)
  BY <1>1
<1>4. OfType(q, "reflect_critique") = OfType(s, "reflect_critique")
  BY <1>1, <1>2, <1>3 DEF OfType
<1>5. QED BY <1>4 DEF q

\* The advisor adds none.
LEMMA AdvisorNoCritique ==
    ASSUME OInv, NEW reply,
           \/ reply \in AdvisorReplies /\ AdviceReturns(reply)
           \/ reply \in RevisionReplies /\ AdvisorRevisionReturns(reply)
           \/ PluginsDone
    PROVE  OfType(events', "reflect_critique") = OfType(events, "reflect_critique")
<1>1. events \in Seq(Entries) /\ answer \in Texts
  BY DEF OInv, TypesOK, PipelineTypeOK
<1>2. CASE reply \in AdvisorReplies /\ AdviceReturns(reply)
  <2> DEFINE e == [type |-> "advisor", text |-> reply.text, judged |-> answer]
             note == [type |-> "advisor_score"]
             one == Append(events, e)
  <2>1. events' = one \o Optional(reply.text.score # NoScore, note)
    BY <1>2 DEF AdviceReturns
  <2>2. /\ e \in Entries /\ e.type # "reflect_critique"
        /\ note \in Entries /\ note.type # "reflect_critique"
    BY <1>1, <1>2, PipelineRepliesAssumption DEF Entries
  <2> HIDE DEF e, note
  <2>3. /\ one \in Seq(Entries)
        /\ OfType(one, "reflect_critique") = OfType(events, "reflect_critique")
    BY <1>1, <2>2, OthersAppended, AppendProperties
  <2> HIDE DEF one
  <2>4. events' = one \/ events' = Append(one, note)
    BY <2>1, <2>2, <2>3, ConcatEmptySeq, AppendIsConcat DEF Optional
  <2>5. QED BY <2>2, <2>3, <2>4, OthersAppended
<1>3. CASE reply \in RevisionReplies /\ AdvisorRevisionReturns(reply)
  <2> DEFINE e == [type |-> "advisor_revision", text |-> reply.text, judged |-> answer]
  <2>1. events' = Append(events, e)
    BY <1>3 DEF AdvisorRevisionReturns
  <2>2. e \in Entries /\ e.type # "reflect_critique"
    BY <1>1, <1>3, RepliesAssumption DEF Entries
  <2> HIDE DEF e
  <2>3. QED BY <1>1, <2>1, <2>2, OthersAppended
<1>4. CASE PluginsDone
  <2>1. Advice.feedback \in Texts
    BY <1>4, AdviceIsText DEF PluginsDone, AdvisorTexts
  <2>2. /\ [type |-> "advisor_approve"] \in Entries
        /\ [type |-> "advisor_revised", text |-> Advice.feedback] \in Entries
    BY <2>1 DEF Entries
  <2>3. \/ events' = Append(events, [type |-> "advisor_approve"])
        \/ events' = Append(events, [type |-> "advisor_revised", text |-> Advice.feedback])
    BY <1>4 DEF PluginsDone
  <2>4. QED BY <1>1, <2>2, <2>3, OthersAppended
<1>5. QED BY <1>2, <1>3, <1>4

AloneInv == ReportInv /\ Alone

\* No coroutine has been started at first.
LEMMA AloneInitEstablishes == PipelineInit => AloneInv
<1>1. PipelineInit => Alone
  BY DEF PipelineInit, Alone, Coroutine, Awaiting
<1>2. QED BY <1>1, ReportInitEstablishes DEF AloneInv

\* A stage that leaves the coroutines alone and takes no advisor's place.
LEMMA StageKeepsAlone ==
    ASSUME OInv, Alone, UNCHANGED <<route, advisor, reflector, skip>>,
           stage \in {"initial", "reflect"},
           stage' \in {"advise", "done"} /\ route.order = "reflect_first" => advisor.at = "off"
    PROVE  Alone'
<1>1. ~Awaiting(advisor)
  BY DEF OInv, Paths
<1>2. QED BY <1>1 DEF Alone, Together, Awaiting

\* The request says of skipping what it did.
LEMMA SameReason ==
    ASSUME UNCHANGED <<route, cfg, signal>>,
           OfType(events', "reflect_critique") = OfType(events, "reflect_critique")
    PROVE  SkipReason' = SkipReason
BY DEF SkipReason

\* The advisor's own steps.
LEMMA AdvisorKeepsAlone ==
    ASSUME OInv, Alone, NEW reply,
           \/ reply \in AdvisorReplies /\ AdviceReturns(reply)
           \/ reply \in RevisionReplies /\ AdvisorRevisionReturns(reply)
           \/ PluginsDone
    PROVE  Alone'
<1>1. /\ UNCHANGED <<route, cfg, signal, stage, reflector, skip>> /\ Awaiting(advisor)
  BY DEF AdviceReturns, AdvisorRevisionReturns, PluginsDone, Awaiting
<1>2. SkipReason' = SkipReason
  BY <1>1, AdvisorNoCritique, SameReason
<1>3. advisor.at # "off"
  BY <1>1 DEF Awaiting
<1>4. QED BY <1>1, <1>2, <1>3 DEF Alone, Together

\* The beginning and the end of the advisor's stage.
LEMMA AdvisorStageKeepsAlone ==
    ASSUME OInv, Alone, AdvisorDisabled \/ SkipAdvisor \/ StartAdvisor \/ EndAdvisor
    PROVE  Alone'
<1>1. stage = "advise" /\ stage' \in {"advise", "reflect", "done"} /\ route' = route
  BY DEF AdvisorDisabled, SkipAdvisor, StartAdvisor, EndAdvisor, StageAfter
<1>2. CASE AdvisorDisabled \/ SkipAdvisor
  <2>1. /\ UNCHANGED <<advisor, reflector>> /\ advisor.at = "off"
        /\ skip' = skip \/ route.advisor
    BY <1>2 DEF AdvisorDisabled, SkipAdvisor, advisorVars, OInv, Paths
  <2>2. QED BY <1>1, <2>1 DEF Alone, Together
<1>3. CASE StartAdvisor
  <2>1. /\ UNCHANGED <<skip, events, signal, cfg>> /\ route.advisor /\ stage' = stage
        /\ SkipReason = "insufficient_signal"
        /\ ~Together => reflector'.at = "off"
    BY <1>3 DEF StartAdvisor, loopVars, Coroutine
  <2>2. SkipReason' = SkipReason
    BY <1>1, <2>1, SameReason
  <2>3. QED BY <1>1, <2>1, <2>2 DEF Alone, Together
<1>4. CASE EndAdvisor
  <2>1. UNCHANGED <<advisor, reflector, skip, events, signal, cfg>>
    BY <1>4 DEF EndAdvisor, advisorVars
  <2>2. SkipReason' = SkipReason
    BY <1>1, <2>1, SameReason
  <2>3. QED BY <1>1, <2>1, <2>2 DEF Alone, Together
<1>5. QED BY <1>2, <1>3, <1>4

\* A coroutine that raises is back.
LEMMA RaisingKeepsAlone ==
    ASSUME OInv, Alone, AdvisorRaises \/ ReflectorRaises
    PROVE  Alone'
<1>1. stage' = "raised" /\ UNCHANGED <<route, skip>>
  BY DEF AdvisorRaises, ReflectorRaises
<1>2. CASE AdvisorRaises
  <2>1. reflector' = reflector /\ advisor' = [advisor EXCEPT !.at = "failed"]
    BY <1>2 DEF AdvisorRaises
  <2>2. advisor'.at = "failed"
    BY <2>1 DEF OInv, TypesOK, PipelineTypeOK, CoroutineOK
  <2>3. QED BY <1>1, <2>1, <2>2 DEF Alone, Together, Awaiting
<1>3. CASE ReflectorRaises
  <2>1. Together
    BY <1>3 DEF ReflectorRaises, Alone, Awaiting
  <2>2. QED BY <1>1, <2>1 DEF Alone, Together
<1>4. QED BY <1>2, <1>3

\* Every step keeps the advisor alone.
LEMMA AloneStepKeeps == AloneInv /\ [PipelineNext]_vars => AloneInv'
<1> SUFFICES ASSUME AloneInv, [PipelineNext]_vars PROVE AloneInv'
  OBVIOUS
<1>1. ReportInv'
  BY ReportStepKeeps DEF AloneInv
<1>2. OInv /\ Alone
  BY DEF AloneInv, ReportInv
<1> SUFFICES Alone'
  BY <1>1 DEF AloneInv
<1>3. CASE UNCHANGED vars
  <2>1. UNCHANGED <<route, advisor, reflector, skip, stage, events, signal, cfg>>
    BY <1>3 DEF vars, loopVars, advisorVars
  <2>2. SkipReason' = SkipReason
    BY <2>1, SameReason
  <2>3. QED BY <1>2, <2>1, <2>2 DEF Alone, Together
<1>4. ASSUME \/ \E reply \in InitialReplies : InitialReturns(reply)
             \/ StartReflection \/ EndReflection \/ ReflectionRaises
             \/ \E reply \in CritiqueReplies : ReflectionCritique(reply)
             \/ \E reply \in RevisionReplies : ReflectionRevision(reply)
             \/ InitialRaises
      PROVE  Alone'
  <2>1. /\ UNCHANGED <<route, advisor, reflector, skip>> /\ stage \in {"initial", "reflect"}
        /\ stage = "reflect" \/ stage' \in {"raised", StageAfter("initial")}
    BY <1>4 DEF InitialReturns, StartReflection, EndReflection, ReflectionRaises,
       ReflectionCritique, ReflectionRevision, InitialRaises, advisorVars
  <2>2. stage' \in {"advise", "done"} /\ route.order = "reflect_first" => advisor.at = "off"
    BY <1>2, <2>1 DEF OInv, Paths
  <2>3. QED BY <1>2, <2>1, <2>2, StageKeepsAlone
<1>5. ASSUME NEW reply,
             \/ reply \in CritiqueReplies /\ SelfCritiqueReturns(reply)
             \/ reply \in RevisionReplies /\ SelfRevisionReturns(reply)
      PROVE  Alone'
  <2>1. route' = route /\ skip' = skip /\ reflector.at # "off"
    BY <1>5 DEF SelfCritiqueReturns, SelfRevisionReturns
  <2>2. QED BY <1>2, <2>1 DEF Alone, Together
<1>6. CASE CallOrStage
  <2>1. CASE \/ \E reply \in InitialReplies : InitialReturns(reply)
             \/ StartReflection \/ EndReflection \/ ReflectionRaises \/ InitialRaises
    BY <1>4, <2>1
  <2>2. CASE \E reply \in CritiqueReplies :
                 ReflectionCritique(reply) \/ SelfCritiqueReturns(reply)
    BY <1>4, <1>5, <2>2
  <2>3. CASE \E reply \in RevisionReplies :
                 \/ ReflectionRevision(reply)
                 \/ AdvisorRevisionReturns(reply)
                 \/ SelfRevisionReturns(reply)
    BY <1>2, <1>4, <1>5, <2>3, AdvisorKeepsAlone
  <2>4. CASE AdvisorDisabled \/ SkipAdvisor \/ StartAdvisor \/ EndAdvisor
    BY <1>2, <2>4, AdvisorStageKeepsAlone
  <2>5. CASE \E reply \in AdvisorReplies : AdviceReturns(reply)
    BY <1>2, <2>5, AdvisorKeepsAlone
  <2>6. CASE AdvisorRaises \/ ReflectorRaises
    BY <1>2, <2>6, RaisingKeepsAlone
  <2>7. QED BY <1>6, <2>1, <2>2, <2>3, <2>4, <2>5, <2>6 DEF CallOrStage
<1>7. CASE Plugins
  BY <1>2, <1>7, AdvisorKeepsAlone, RaisingKeepsAlone DEF Plugins
<1>8. QED BY <1>3, <1>6, <1>7 DEF PipelineNext

LEMMA AloneInvariance == Pipeline => []AloneInv
BY AloneInitEstablishes, AloneStepKeeps, PTL DEF Pipeline

\* It takes two coroutines to leave one behind: a failed run whose route does not
\* put the reflector beside the advisor has nothing running any more.
THEOREM LoneAdvisorsAreTornDown == Pipeline => [](~Together => TornDownCleanly)
<1>1. AloneInv => (~Together => TornDownCleanly)
  BY DEF AloneInv, Alone, TornDownCleanly, Awaiting
<1>2. QED BY <1>1, AloneInvariance, PTL

\* With reflection first and no reflector beside the advisor, the header that
\* names a reason for the skip means one.
LEMMA ReasonsTrueInLog ==
    AloneInv => (route.order = "reflect_first" /\ ~Together => ReasonMeansSkipped)
<1> SUFFICES ASSUME AloneInv, route.order = "reflect_first", ~Together, stage = "done",
                    SkipReasonHeader # "insufficient_signal"
             PROVE  Skipped
  BY DEF ReasonMeansSkipped
<1>1. DOMAIN events = 1..Len(events)
  BY LenProperties DEF AloneInv, ReportInv, OInv, TypesOK
<1>2. Skipped <=> ~Unskipped(events)
  BY <1>1 DEF Skipped, Unskipped, OfType
<1>3. route.advisor
  BY DEF AloneInv, Alone, SkipReasonHeader, SkipReason
<1>4. \/ advisor.at = "finished" /\ skip = "none"
      \/ ~Unskipped(events)
  BY <1>3 DEF AloneInv, ReportInv, Decided
<1>5. advisor.at = "finished" => SkipReason = "insufficient_signal"
  BY DEF AloneInv, Alone
<1>6. QED BY <1>2, <1>4, <1>5 DEF SkipReasonHeader

\* The header is stale in the other order, or behind a reflector, only.
THEOREM ReasonsAreTrueReflectingFirst ==
    Pipeline => [](route.order = "reflect_first" /\ ~Together => ReasonMeansSkipped)
BY AloneInvariance, ReasonsTrueInLog, PTL

=============================================================================
