------------------------- MODULE OrchestratorProofs -------------------------
(***************************************************************************)
(* For every route, any number of turns and any replies: the stages of a   *)
(* request hand the answer on, and none starts while a coroutine of the    *)
(* stage before it could still touch the request.                          *)
(***************************************************************************)
EXTENDS Orchestrator, SequenceTheorems, TLAPS

(***************************************************************************)
(* The log: what its entries look like.                                    *)
(***************************************************************************)
Turns == Nat

Entries ==
    [type : {"initial", "advisor_revised"}, text : Texts]
    \cup [type : {"reflect_critique"}, turn : Turns, text : CritiqueTexts, judged : Texts]
    \cup [type : {"reflect_revised"}, turn : Turns, text : Texts, judged : Texts]
    \cup [type : {"reflect_fresh_context", "reflect_score", "reflect_early_exit"},
          turn : Turns]
    \cup [type : {"advisor"}, text : AdvisorTexts, judged : Texts]
    \cup [type : {"advisor_score", "advisor_approve", "advisor_skipped"}]
    \cup [type : {"advisor_revision"}, text : Texts, judged : Texts]
    \cup [type : {"reflect_critique", "reflect_early_exit"}, turn : Turns,
          text : CritiqueTexts, judged : Texts, beside : {TRUE}]
    \cup [type : {"reflect_revised"}, turn : Turns, text : Texts, judged : Texts,
          beside : {TRUE}]

OffPath(e) == "beside" \in DOMAIN e
Gives(e) == ~OffPath(e) /\ e.type \in {"initial", "reflect_revised", "advisor_revision"}
Judges(e) == "judged" \in DOMAIN e
Revises(e) == ~OffPath(e) /\ e.type = "reflect_revised"

\* The entries that give an answer, and those of them whose answer is kept: all
\* but the empty revisions of a parallel loop.
Givers == {e \in Entries : Gives(e)}
Keepers(r) ==
    {e \in Givers : ~(r.reflect_parallel /\ e.type = "reflect_revised" /\ e.text = Blank)}

\* An entry that neither gives the answer nor judges one, nor advises.
Quiet(e) == ~Gives(e) /\ e.type # "advisor" /\ (Judges(e) => OffPath(e))

\* log is before, then first, then quiet entries judging what they should.
Grown(before, first, log) ==
    /\ log \in Seq(Entries)
    /\ Len(log) > Len(before)
    /\ \A i \in 1..Len(before) : log[i] = before[i]
    /\ log[Len(before) + 1] = first
    /\ \A i \in (Len(before) + 2)..Len(log) :
          Quiet(log[i]) /\ (Judges(log[i]) => log[i].judged = initial_answer)

\* Before position k, x is the text of the last entry of S.
LatestIn(S, log, k, x) ==
    \E m \in 1..Len(log) :
        /\ m < k /\ log[m] \in S /\ log[m].text = x
        /\ \A j \in 1..Len(log) : m < j /\ j < k => log[j] \notin S

\* The loop works on the answer given last, the advisor on the one kept last.
SourceOf(e) ==
    IF e.type \in {"reflect_critique", "reflect_revised"} THEN Givers ELSE Keepers(route)

\* An entry that comes at position k of the log judges the answer it should.
JudgesWell(log, k, e) ==
    Judges(e) => IF OffPath(e) THEN e.judged = initial_answer
                               ELSE LatestIn(SourceOf(e), log, k, e.judged)

JudgedIn(log) == \A i \in 1..Len(log) : JudgesWell(log, i, log[i])

-----------------------------------------------------------------------------
\* What a concatenation is made of.
LEMMA ConcatElements ==
    ASSUME NEW S, NEW s \in Seq(S), NEW r \in Seq(S)
    PROVE  /\ s \o r \in Seq(S) /\ Len(s) \in Nat /\ Len(r) \in Nat
           /\ Len(s \o r) = Len(s) + Len(r)
           /\ \A i \in 1..Len(s) : (s \o r)[i] = s[i]
           /\ \A i \in 1..Len(r) : (s \o r)[Len(s) + i] = r[i]
           /\ \A i \in 1..Len(s \o r) :
                 \/ i \in 1..Len(s) /\ (s \o r)[i] = s[i]
                 \/ i - Len(s) \in 1..Len(r) /\ (s \o r)[i] = r[i - Len(s)]
<1>1. s \o r \in Seq(S) /\ Len(s) \in Nat /\ Len(r) \in Nat
  BY ConcatProperties, LenProperties
<1>2. Len(s \o r) = Len(s) + Len(r)
  BY ConcatProperties
<1>3. \A i \in 1..(Len(s) + Len(r)) :
          (s \o r)[i] = IF i <= Len(s) THEN s[i] ELSE r[i - Len(s)]
  BY ConcatProperties
<1>4. \A i \in 1..Len(s) : (s \o r)[i] = s[i]
  BY <1>1, <1>3
<1>5. \A i \in 1..Len(r) : (s \o r)[Len(s) + i] = r[i]
  <2> SUFFICES ASSUME NEW i \in 1..Len(r) PROVE (s \o r)[Len(s) + i] = r[i]
    OBVIOUS
  <2>1. /\ Len(s) + i \in 1..(Len(s) + Len(r)) /\ ~(Len(s) + i <= Len(s))
        /\ (Len(s) + i) - Len(s) = i
    BY <1>1
  <2>2. QED BY <1>3, <2>1
<1>6. \A i \in 1..Len(s \o r) :
          \/ i \in 1..Len(s) /\ (s \o r)[i] = s[i]
          \/ i - Len(s) \in 1..Len(r) /\ (s \o r)[i] = r[i - Len(s)]
  BY <1>1, <1>2, <1>3
<1>7. QED BY <1>1, <1>2, <1>4, <1>5, <1>6

\* Where to put the brackets in a log is of no importance.
LEMMA LogsConcat ==
    ASSUME NEW r \in Seq(Entries), NEW s \in Seq(Entries), NEW t \in Seq(Entries)
    PROVE  /\ r \o s \in Seq(Entries)
           /\ (r \o s) \o t = r \o (s \o t)
<1>1. r \o s \in Seq(Entries)
  BY ConcatProperties
<1>2. (r \o s) \o t = r \o (s \o t)
  BY ConcatAssociative
<1>3. QED BY <1>1, <1>2

\* One entry makes a log grow.
LEMMA EntryAppended ==
    ASSUME NEW s \in Seq(Entries), NEW first \in Entries
    PROVE  Grown(s, first, Append(s, first)) /\ Append(s, first) = s \o <<first>>
<1>1. /\ Append(s, first) \in Seq(Entries) /\ Len(Append(s, first)) = Len(s) + 1
      /\ \A i \in 1..Len(s) : Append(s, first)[i] = s[i]
      /\ Append(s, first)[Len(s) + 1] = first
  BY AppendProperties
<1>2. Append(s, first) = s \o <<first>>
  BY AppendIsConcat
<1>3. QED BY <1>1, <1>2, LenProperties DEF Grown

\* So does an optional entry after it, as long as that is a quiet one.
LEMMA EntryOptional ==
    ASSUME NEW s \in Seq(Entries), NEW first \in Entries, NEW log, Grown(s, first, log),
           NEW condition \in BOOLEAN, NEW note \in Entries, Quiet(note),
           Judges(note) => note.judged = initial_answer
    PROVE  Grown(s, first, log \o Optional(condition, note))
<1>1. log \in Seq(Entries) /\ Len(s) \in Nat /\ Len(log) \in Nat
  BY LenProperties DEF Grown
<1>2. CASE condition
  <2>1. log \o Optional(condition, note) = Append(log, note)
    BY <1>1, <1>2, AppendIsConcat DEF Optional
  <2>2. /\ Append(log, note) \in Seq(Entries) /\ Len(Append(log, note)) = Len(log) + 1
        /\ \A i \in 1..Len(log) : Append(log, note)[i] = log[i]
        /\ Append(log, note)[Len(log) + 1] = note
    BY <1>1, AppendProperties
  <2>3. /\ Len(log) > Len(s) /\ log[Len(s) + 1] = first
        /\ \A i \in 1..Len(s) : log[i] = s[i]
        /\ \A i \in (Len(s) + 2)..Len(log) :
              Quiet(log[i]) /\ (Judges(log[i]) => log[i].judged = initial_answer)
    BY DEF Grown
  <2>4. \A i \in 1..Len(s) : Append(log, note)[i] = s[i]
    BY <1>1, <2>2, <2>3
  <2>5. Append(log, note)[Len(s) + 1] = first
    BY <1>1, <2>2, <2>3
  <2>6. \A i \in (Len(s) + 2)..(Len(log) + 1) :
            /\ Quiet(Append(log, note)[i])
            /\ Judges(Append(log, note)[i]) => Append(log, note)[i].judged = initial_answer
    <3> SUFFICES ASSUME NEW i \in (Len(s) + 2)..(Len(log) + 1)
                 PROVE  /\ Quiet(Append(log, note)[i])
                        /\ Judges(Append(log, note)[i])
                              => Append(log, note)[i].judged = initial_answer
      OBVIOUS
    <3>1. CASE i \in (Len(s) + 2)..Len(log)
      <4>1. Append(log, note)[i] = log[i]
        BY <1>1, <2>2, <3>1
      <4>2. QED BY <2>3, <3>1, <4>1
    <3>2. CASE i = Len(log) + 1
      <4>1. Append(log, note)[i] = note
        BY <2>2, <3>2
      <4>2. QED BY <4>1
    <3>3. QED BY <1>1, <3>1, <3>2
  <2>7. Grown(s, first, Append(log, note))
    BY <1>1, <2>2, <2>3, <2>4, <2>5, <2>6 DEF Grown
  <2>8. QED BY <2>1, <2>7
<1>3. CASE ~condition
  <2>1. log \o Optional(condition, note) = log
    BY <1>1, <1>3, ConcatEmptySeq DEF Optional
  <2>2. QED BY <2>1
<1>4. QED BY <1>2, <1>3

\* What is said of a log before position k does not change as it grows.
LEMMA LatestStays ==
    ASSUME NEW S, NEW s \in Seq(Entries), NEW first, NEW log, Grown(s, first, log),
           NEW k \in 1..(Len(s) + 1), NEW x, LatestIn(S, s, k, x)
    PROVE  LatestIn(S, log, k, x)
<1>1. /\ Len(s) \in Nat /\ Len(log) \in Nat /\ Len(log) > Len(s)
      /\ \A i \in 1..Len(s) : log[i] = s[i]
  BY LenProperties DEF Grown
<1>2. PICK m \in 1..Len(s) :
          /\ m < k /\ s[m] \in S /\ s[m].text = x
          /\ \A j \in 1..Len(s) : m < j /\ j < k => s[j] \notin S
  BY DEF LatestIn
<1>3. /\ m \in 1..Len(log) /\ log[m] \in S /\ log[m].text = x
  BY <1>1, <1>2
<1>4. \A j \in 1..Len(log) : m < j /\ j < k => j \in 1..Len(s) /\ log[j] = s[j]
  BY <1>1
<1>5. \A j \in 1..Len(log) : m < j /\ j < k => log[j] \notin S
  BY <1>2, <1>4
<1>6. QED BY <1>2, <1>3, <1>5 DEF LatestIn

\* The last entry of S after a log has grown: the first new one, if it is in S.
LEMMA LatestAfter ==
    ASSUME NEW S \in SUBSET Givers, NEW s \in Seq(Entries), NEW first, NEW log,
           Grown(s, first, log)
    PROVE  /\ first \in S => LatestIn(S, log, Len(log) + 1, first.text)
           /\ first \notin S => \A x : LatestIn(S, s, Len(s) + 1, x)
                                       => LatestIn(S, log, Len(log) + 1, x)
<1>1. /\ Len(s) \in Nat /\ Len(log) \in Nat /\ Len(log) > Len(s)
      /\ \A i \in 1..Len(s) : log[i] = s[i]
      /\ log[Len(s) + 1] = first
      /\ \A i \in (Len(s) + 2)..Len(log) : log[i] \notin S
  BY LenProperties DEF Grown, Quiet, Givers
<1>2. CASE first \in S
  <2>1. /\ Len(s) + 1 \in 1..Len(log) /\ log[Len(s) + 1] \in S
        /\ \A j \in 1..Len(log) : Len(s) + 1 < j => log[j] \notin S
    BY <1>1, <1>2
  <2>2. QED BY <1>1, <1>2, <2>1 DEF LatestIn
<1>3. ASSUME first \notin S, NEW x, LatestIn(S, s, Len(s) + 1, x)
      PROVE  LatestIn(S, log, Len(log) + 1, x)
  <2>1. PICK m \in 1..Len(s) :
            /\ s[m] \in S /\ s[m].text = x
            /\ \A j \in 1..Len(s) : m < j => s[j] \notin S
    BY <1>1, <1>3 DEF LatestIn
  <2>2. m \in 1..Len(log) /\ m < Len(log) + 1 /\ log[m] \in S /\ log[m].text = x
    BY <1>1, <2>1
  <2>3. \A j \in 1..Len(log) : m < j => log[j] \notin S
    <3>1. \A j \in 1..Len(log) : j \in 1..Len(s) \/ j = Len(s) + 1
                                 \/ j \in (Len(s) + 2)..Len(log)
      BY <1>1
    <3>2. QED BY <1>1, <1>3, <2>1, <3>1
  <2>4. QED BY <2>2, <2>3 DEF LatestIn
<1>4. QED BY <1>2, <1>3

\* While no revision of the loop is in a log, every answer given is kept.
LEMMA NoneDropped ==
    ASSUME NEW s \in Seq(Entries), \A i \in 1..Len(s) : ~Revises(s[i]), NEW k, NEW x,
           LatestIn(Keepers(route), s, k, x)
    PROVE  LatestIn(Givers, s, k, x)
<1>1. \A i \in 1..Len(s) : s[i] \in Keepers(route) <=> s[i] \in Givers
  BY DEF Keepers, Givers, Gives, Revises
<1>2. QED BY <1>1 DEF LatestIn

\* A new entry that judges what it should leaves every judgement in order.
LEMMA JudgedAfter ==
    ASSUME NEW s \in Seq(Entries), NEW first, NEW log, Grown(s, first, log), JudgedIn(s),
           JudgesWell(s, Len(s) + 1, first)
    PROVE  JudgedIn(log)
<1>1. /\ Len(s) \in Nat /\ Len(log) \in Nat /\ Len(log) > Len(s)
      /\ \A i \in 1..Len(s) : log[i] = s[i]
      /\ log[Len(s) + 1] = first
  BY LenProperties DEF Grown
<1>2. ASSUME NEW i \in 1..Len(log) PROVE JudgesWell(log, i, log[i])
  <2>1. ASSUME i \in 1..(Len(s) + 1), JudgesWell(s, i, log[i]) PROVE JudgesWell(log, i, log[i])
    BY <2>1, LatestStays DEF JudgesWell
  <2>2. CASE i \in 1..Len(s)
    <3>1. log[i] = s[i] /\ i \in 1..(Len(s) + 1)
      BY <1>1, <2>2
    <3>2. QED BY <2>1, <2>2, <3>1 DEF JudgedIn
  <2>3. CASE i = Len(s) + 1
    <3>1. i \in 1..(Len(s) + 1) /\ log[i] = first
      BY <1>1, <2>3
    <3>2. QED BY <2>1, <2>3, <3>1
  <2>4. CASE i \in (Len(s) + 2)..Len(log)
    BY <2>4 DEF Grown, Quiet, JudgesWell
  <2>5. QED BY <1>1, <2>2, <2>3, <2>4
<1>3. QED BY <1>2 DEF JudgedIn

\* Only the first new entry can be an advice.
LEMMA AdviceAfter ==
    ASSUME NEW s \in Seq(Entries), NEW first, NEW log, Grown(s, first, log)
    PROVE  OfType(log, "advisor") =
               OfType(s, "advisor")
               \cup IF first.type = "advisor" THEN {Len(s) + 1} ELSE {}
<1>1. /\ Len(s) \in Nat /\ Len(log) \in Nat /\ Len(log) > Len(s)
      /\ DOMAIN s = 1..Len(s) /\ DOMAIN log = 1..Len(log)
      /\ \A i \in 1..Len(s) : log[i] = s[i]
      /\ log[Len(s) + 1] = first
      /\ \A i \in (Len(s) + 2)..Len(log) : log[i].type # "advisor"
  BY LenProperties DEF Grown, Quiet
<1>2. \A i \in 1..Len(log) : \/ i \in 1..Len(s) \/ i = Len(s) + 1
                             \/ i \in (Len(s) + 2)..Len(log)
  BY <1>1
<1>3. QED BY <1>1, <1>2 DEF OfType

-----------------------------------------------------------------------------
(***************************************************************************)
(* The inductive invariant.  Paths: coroutines run in the advisor stage    *)
(* only, or behind its failure, and a stage is entered once.  Chain: the   *)
(* log, read backwards, gives the answer the loop works on and the answer  *)
(* the stage will hand on.  They part only behind an empty revision of the *)
(* loop, so it matters that there is none before the loop begins.          *)
(***************************************************************************)
TypesOK ==
    /\ PipelineTypeOK
    /\ events \in Seq(Entries) /\ turn \in Turns /\ (step = "idle" => turn = 0)

Paths ==
    /\ Awaiting(advisor) \/ Awaiting(reflector) => stage \in {"advise", "raised"}
    /\ advisor.at = "off" => reflector.at = "off"
    /\ advisor.at # "off" => route.advisor
    /\ stage = "initial" \/ (stage = "reflect" /\ route.order = "reflect_first")
          => advisor.at = "off"
    /\ stage = "initial" \/ (stage = "advise" /\ route.order = "advise_first")
          => step = "idle"

AdviceLogged ==
    /\ advisor.at \in {"off", "advice"} => OfType(events, "advisor") = {}
    /\ advisor.at = "plugins" => \E m \in DOMAIN events : OfType(events, "advisor") = {m}

Held ==
    IF stage = "advise" /\ advisor.at = "finished" THEN advisor.final
    ELSE IF stage = "reflect" /\ step # "idle" THEN last_answer ELSE answer

GivenLast(log, x) == LatestIn(Givers, log, Len(log) + 1, x)
KeptLast(r, log, x) == LatestIn(Keepers(r), log, Len(log) + 1, x)
Unrevised(log) == \A i \in 1..Len(log) : ~Revises(log[i])

Chain ==
    /\ stage = "initial" => events = << >>
    /\ JudgedIn(events)
    /\ step = "idle" => Unrevised(events)
    /\ stage = "reflect" => GivenLast(events, answer)
    /\ stage \in {"reflect", "advise", "done"} => KeptLast(route, events, Held)
    /\ Awaiting(advisor) => KeptLast(route, events, answer)

OInv == TypesOK /\ Paths /\ AdviceLogged /\ Chain

\* An entry is of one of the types the log has.
LEMMA EntryTypes ==
    ASSUME NEW s \in Seq(Entries)
    PROVE  \A i \in DOMAIN s : s[i].type \in LogTypes
<1>1. \A e \in Entries : e.type \in LogTypes
  BY DEF Entries, LogTypes
<1>2. QED BY <1>1

\* A pipeline starts inside the invariant.
LEMMA InitEstablishes == PipelineInit => OInv
<1> SUFFICES ASSUME PipelineInit PROVE OInv
  OBVIOUS
<1>1. TypesOK
  <2>1. NoCritique \in CritiqueTexts /\ NoSignal \in [confidence : Nat, score : Nat \cup {NoScore}]
    BY DEF NoCritique, NoSignal, CritiqueTexts, NoScore
  <2>2. Blank \in Texts /\ << >> \in Seq(Models) /\ << >> \in Seq(Entries)
    BY PipelineRepliesAssumption
  <2>3. CoroutineOK(Coroutine("off"), {"advice", "plugins", "revision"})
        /\ CoroutineOK(Coroutine("off"), {"critique", "revision"})
    BY <2>2 DEF PipelineInit, CoroutineOK, Coroutine
  <2>4. QED BY <2>1, <2>2, <2>3 DEF PipelineInit, TypesOK, PipelineTypeOK, Turns
<1>2. Paths
  BY DEF PipelineInit, Paths, Awaiting, Coroutine
<1>3. AdviceLogged
  BY DEF PipelineInit, AdviceLogged, OfType, Coroutine
<1>4. Chain
  BY DEF PipelineInit, Chain, JudgedIn, Unrevised, Awaiting, Coroutine
<1>5. QED BY <1>1, <1>2, <1>3, <1>4 DEF OInv

(***************************************************************************)
(* Steps that log nothing                                                  *)
(***************************************************************************)
LEMMA SilentLog ==
    ASSUME OInv, UNCHANGED <<events, initial_answer, route>>
    PROVE  /\ JudgedIn(events)'
           /\ Unrevised(events') <=> Unrevised(events)
           /\ \A x : GivenLast(events', x) <=> GivenLast(events, x)
           /\ \A x : KeptLast(route', events', x) <=> KeptLast(route, events, x)
           /\ OfType(events', "advisor") = OfType(events, "advisor")
BY DEF OInv, Chain, JudgedIn, JudgesWell, SourceOf

\* Before the loop has begun, the answer kept last is the one given last.
LEMMA NothingDropped ==
    ASSUME OInv, step = "idle", NEW x, KeptLast(route, events, x)
    PROVE  GivenLast(events, x)
BY NoneDropped DEF OInv, TypesOK, Chain, GivenLast, KeptLast, Unrevised

\* Entering the reflection stage keeps the invariant.
LEMMA StartReflectionKeeps == ASSUME OInv, StartReflection PROVE OInv'
<1>1. /\ UNCHANGED <<events, initial_answer, advisor, reflector, stage, answer, route>>
      /\ stage = "reflect" /\ step = "idle" /\ step' # "idle" /\ last_answer' = answer
  BY DEF StartReflection, advisorVars
<1>2. TypesOK'
  BY ConfigsAssumption DEF OInv, TypesOK, PipelineTypeOK, StartReflection, advisorVars,
     ReflectionConfigs, Turns
<1>3. Paths'
  BY <1>1 DEF OInv, Paths, Awaiting
<1>4. AdviceLogged'
  BY <1>1 DEF OInv, AdviceLogged
<1>5. Chain'
  BY <1>1, SilentLog, NothingDropped DEF OInv, Chain, Paths, Held, Awaiting
<1>6. QED BY <1>2, <1>3, <1>4, <1>5 DEF OInv

\* A call of the loop that raises keeps it.
LEMMA ReflectionRaisesKeeps == ASSUME OInv, ReflectionRaises PROVE OInv'
<1>1. /\ UNCHANGED <<events, initial_answer, advisor, reflector, answer, route>>
      /\ stage = "reflect" /\ stage' \in {"hung", "raised"}
      /\ step' # "idle" /\ last_answer' = last_answer
  BY DEF ReflectionRaises, advisorVars, CallRaises
<1>2. TypesOK'
  BY <1>1 DEF OInv, TypesOK, PipelineTypeOK, ReflectionRaises, CallRaises, advisorVars
<1>3. Paths'
  BY <1>1 DEF OInv, Paths, Awaiting
<1>4. AdviceLogged'
  BY <1>1 DEF OInv, AdviceLogged
<1>5. Chain'
  BY <1>1, SilentLog, NothingDropped DEF OInv, Chain, Paths, Held, Awaiting
<1>6. QED BY <1>2, <1>3, <1>4, <1>5 DEF OInv

\* Leaving the reflection stage keeps it.
LEMMA EndReflectionKeeps == ASSUME OInv, EndReflection PROVE OInv'
<1>1. /\ UNCHANGED <<events, initial_answer, advisor, reflector, last_answer, step, route>>
      /\ answer' = last_answer /\ step = "done"
      /\ stage = "reflect" /\ ~Awaiting(advisor) /\ ~Awaiting(reflector)
      /\ stage' = IF route.order = "advise_first" THEN "done" ELSE "advise"
      /\ stage' = "advise" => advisor.at = "off"
  <2>1. /\ UNCHANGED <<events, initial_answer, advisor, reflector, last_answer, step, route>>
        /\ answer' = last_answer /\ step = "done"
        /\ stage = "reflect"
        /\ stage' = IF route.order = "advise_first" THEN "done" ELSE "advise"
    BY DEF EndReflection, advisorVars, StageAfter
  <2>2. route.order \in {"reflect_first", "advise_first"}
    BY RoutesAssumption DEF OInv, TypesOK, PipelineTypeOK
  <2>3. QED BY <2>1, <2>2 DEF OInv, Paths
<1>2. TypesOK'
  <2>1. (fallbacks_used \o fallbacks) \in Seq(Models)
    BY DEF OInv, TypesOK, PipelineTypeOK
  <2>2. QED BY <1>1, <2>1 DEF OInv, TypesOK, PipelineTypeOK, EndReflection, advisorVars
<1>3. Paths'
  BY <1>1 DEF OInv, Paths, Awaiting
<1>4. AdviceLogged'
  BY <1>1 DEF OInv, AdviceLogged
<1>5. Chain'
  BY <1>1, SilentLog, NothingDropped DEF OInv, Chain, Paths, Held, Awaiting
<1>6. QED BY <1>2, <1>3, <1>4, <1>5 DEF OInv

\* Passing an advisor that is switched off keeps it.
LEMMA AdvisorDisabledKeeps == ASSUME OInv, AdvisorDisabled PROVE OInv'
<1>1. /\ UNCHANGED <<events, initial_answer, advisor, reflector, answer, route, step, last_answer>>
      /\ stage = "advise" /\ advisor.at = "off" /\ reflector.at = "off"
      /\ stage' \in {"reflect", "done"}
      /\ stage' = "reflect" => route.order = "advise_first"
  <2>1. /\ UNCHANGED <<events, initial_answer, advisor, reflector, answer, route, step, last_answer>>
        /\ stage = "advise" /\ ~route.advisor
        /\ stage' = IF route.order = "advise_first" THEN "reflect" ELSE "done"
    BY DEF AdvisorDisabled, advisorVars, loopVars, StageAfter
  <2>2. QED BY <2>1 DEF OInv, Paths
<1>2. TypesOK'
  BY <1>1 DEF OInv, TypesOK, PipelineTypeOK, AdvisorDisabled, advisorVars, loopVars
<1>3. Paths'
  BY <1>1 DEF OInv, Paths, Awaiting
<1>4. AdviceLogged'
  BY <1>1 DEF OInv, AdviceLogged
<1>5. Chain'
  BY <1>1, SilentLog, NothingDropped DEF OInv, Chain, Paths, Held, Awaiting
<1>6. QED BY <1>2, <1>3, <1>4, <1>5 DEF OInv

\* Starting the advisor, alone or beside the reflector, keeps it.
LEMMA StartAdvisorKeeps == ASSUME OInv, StartAdvisor PROVE OInv'
<1>1. /\ UNCHANGED <<events, initial_answer, answer, route, stage, step, last_answer>>
      /\ stage = "advise" /\ route.advisor /\ advisor.at = "off"
      /\ advisor' = Coroutine("advice")
      /\ \E at \in {"off", "critique", "finished"} : reflector' = Coroutine(at)
  BY DEF StartAdvisor, loopVars
<1>2. TypesOK'
  <2>1. initial_answer \in Texts
    BY DEF OInv, TypesOK, PipelineTypeOK
  <2>2. /\ CoroutineOK(advisor', {"advice", "plugins", "revision"})
        /\ CoroutineOK(reflector', {"critique", "revision"})
    BY <1>1, <2>1 DEF CoroutineOK, Coroutine
  <2>3. QED BY <1>1, <2>2 DEF OInv, TypesOK, PipelineTypeOK, StartAdvisor, loopVars
<1>3. Paths'
  BY <1>1 DEF OInv, Paths, Awaiting, Coroutine
<1>4. AdviceLogged'
  BY <1>1 DEF OInv, AdviceLogged, Coroutine
<1>5. Chain'
  BY <1>1, SilentLog, NothingDropped DEF OInv, Chain, Paths, Held, Awaiting, Coroutine
<1>6. QED BY <1>2, <1>3, <1>4, <1>5 DEF OInv

\* Joining the two paths keeps it.
LEMMA EndAdvisorKeeps == ASSUME OInv, EndAdvisor PROVE OInv'
<1>1. /\ UNCHANGED <<events, initial_answer, advisor, reflector, route, step, last_answer>>
      /\ stage = "advise" /\ advisor.at = "finished" /\ ~Awaiting(reflector)
      /\ answer' = advisor.final
      /\ stage' \in {"reflect", "done"}
      /\ stage' = "reflect" => route.order = "advise_first"
  BY DEF EndAdvisor, Joined, AdvisorAnswer, advisorVars, StageAfter
<1>2. TypesOK'
  <2>1. advisor.final \in Texts
    BY DEF OInv, TypesOK, PipelineTypeOK, CoroutineOK
  <2>2. (fallbacks_used \o advisor.fallbacks \o reflector.fallbacks) \in Seq(Models)
    BY DEF OInv, TypesOK, PipelineTypeOK, CoroutineOK
  <2>3. QED BY <1>1, <2>1, <2>2 DEF OInv, TypesOK, PipelineTypeOK, EndAdvisor, advisorVars
<1>3. Paths'
  BY <1>1 DEF OInv, Paths, Awaiting
<1>4. AdviceLogged'
  BY <1>1 DEF OInv, AdviceLogged
<1>5. Chain'
  BY <1>1, SilentLog, NothingDropped DEF OInv, Chain, Paths, Held, Awaiting
<1>6. QED BY <1>2, <1>3, <1>4, <1>5 DEF OInv

\* An initial call that raises keeps it.
LEMMA InitialRaisesKeeps == ASSUME OInv, InitialRaises PROVE OInv'
<1>1. /\ UNCHANGED <<events, initial_answer, advisor, reflector, answer, route, step, last_answer>>
      /\ stage = "initial" /\ stage' = "raised"
  BY DEF InitialRaises, advisorVars, loopVars
<1>2. TypesOK'
  BY <1>1 DEF OInv, TypesOK, PipelineTypeOK, InitialRaises, advisorVars, loopVars
<1>3. Paths'
  BY <1>1 DEF OInv, Paths, Awaiting
<1>4. AdviceLogged'
  BY <1>1 DEF OInv, AdviceLogged
<1>5. Chain'
  BY <1>1, SilentLog, NothingDropped DEF OInv, Chain, Paths, Held, Awaiting
<1>6. QED BY <1>2, <1>3, <1>4, <1>5 DEF OInv

\* A call of the advisor that raises keeps it.
LEMMA AdvisorRaisesKeeps == ASSUME OInv, AdvisorRaises PROVE OInv'
<1>1. /\ UNCHANGED <<events, initial_answer, reflector, answer, route, step, last_answer>>
      /\ Awaiting(advisor) /\ stage' = "raised"
      /\ advisor' = [advisor EXCEPT !.at = "failed"] /\ advisor'.at = "failed"
  BY DEF AdvisorRaises, loopVars, OInv, TypesOK, PipelineTypeOK, CoroutineOK
<1>2. TypesOK'
  <2>1. CoroutineOK(advisor', {"advice", "plugins", "revision"})
    BY <1>1 DEF OInv, TypesOK, PipelineTypeOK, CoroutineOK
  <2>2. QED BY <1>1, <2>1 DEF OInv, TypesOK, PipelineTypeOK, AdvisorRaises, loopVars
<1>3. Paths'
  BY <1>1 DEF OInv, Paths, Awaiting
<1>4. AdviceLogged'
  BY <1>1 DEF OInv, AdviceLogged
<1>5. Chain'
  BY <1>1, SilentLog, NothingDropped DEF OInv, Chain, Paths, Held, Awaiting
<1>6. QED BY <1>2, <1>3, <1>4, <1>5 DEF OInv

\* A call of the reflector that raises keeps it.
LEMMA ReflectorRaisesKeeps == ASSUME OInv, ReflectorRaises PROVE OInv'
<1>1. /\ UNCHANGED <<events, initial_answer, advisor, answer, route, step, last_answer>>
      /\ Awaiting(reflector) /\ stage' = "raised"
      /\ reflector' = [reflector EXCEPT !.at = "failed"] /\ reflector'.at = "failed"
  BY DEF ReflectorRaises, loopVars, OInv, TypesOK, PipelineTypeOK, CoroutineOK
<1>2. TypesOK'
  <2>1. CoroutineOK(reflector', {"critique", "revision"})
    BY <1>1 DEF OInv, TypesOK, PipelineTypeOK, CoroutineOK
  <2>2. QED BY <1>1, <2>1 DEF OInv, TypesOK, PipelineTypeOK, ReflectorRaises, loopVars
<1>3. Paths'
  BY <1>1 DEF OInv, Paths, Awaiting
<1>4. AdviceLogged'
  BY <1>1 DEF OInv, AdviceLogged
<1>5. Chain'
  BY <1>1, SilentLog, NothingDropped DEF OInv, Chain, Paths, Held, Awaiting
<1>6. QED BY <1>2, <1>3, <1>4, <1>5 DEF OInv

(***************************************************************************)
(* Steps that log                                                          *)
(***************************************************************************)
LEMMA Logged ==
    ASSUME OInv, UNCHANGED <<initial_answer, route>>, NEW first \in Entries,
           Grown(events, first, events'), JudgesWell(events, Len(events) + 1, first)
    PROVE  /\ events' \in Seq(Entries)
           /\ \A i \in DOMAIN events' : events'[i].type \in LogTypes
           /\ JudgedIn(events)'
           /\ ~Revises(first) /\ Unrevised(events) => Unrevised(events')
           /\ Gives(first) => GivenLast(events', first.text)
           /\ ~Gives(first) => \A x : GivenLast(events, x) => GivenLast(events', x)
           /\ first \in Keepers(route) => KeptLast(route', events', first.text)
           /\ first \notin Keepers(route)
                  => \A x : KeptLast(route, events, x) => KeptLast(route', events', x)
           /\ first.type # "advisor" => OfType(events', "advisor") = OfType(events, "advisor")
           /\ first.type = "advisor" /\ OfType(events, "advisor") = {}
                  => \E m \in DOMAIN events' : OfType(events', "advisor") = {m}
<1>1. /\ events \in Seq(Entries) /\ JudgedIn(events) /\ events' \in Seq(Entries)
      /\ Len(events) + 1 \in DOMAIN events'
  BY LenProperties DEF OInv, TypesOK, Chain, Grown
<1>2. \A i \in DOMAIN events' : events'[i].type \in LogTypes
  BY <1>1, EntryTypes
<1>3. JudgedIn(events')
  BY <1>1, JudgedAfter
<1>4. JudgedIn(events)'
  BY <1>3 DEF JudgedIn, JudgesWell, SourceOf
<1>5. /\ Gives(first) => GivenLast(events', first.text)
      /\ ~Gives(first) => \A x : GivenLast(events, x) => GivenLast(events', x)
  <2>1. Gives(first) <=> first \in Givers
    BY DEF Givers
  <2>2. QED BY <1>1, <2>1, LatestAfter DEF GivenLast
<1>6. /\ first \in Keepers(route) => KeptLast(route', events', first.text)
      /\ first \notin Keepers(route)
            => \A x : KeptLast(route, events, x) => KeptLast(route', events', x)
  <2>1. Keepers(route) \in SUBSET Givers
    BY DEF Keepers
  <2>2. QED BY <1>1, <2>1, LatestAfter DEF KeptLast
<1>7. ~Revises(first) /\ Unrevised(events) => Unrevised(events')
  <2>1. \A i \in 1..Len(events') : \/ i \in 1..Len(events) /\ events'[i] = events[i]
                                   \/ events'[i] = first
                                   \/ Quiet(events'[i])
    BY <1>1, LenProperties DEF Grown
  <2>2. \A e : Quiet(e) => ~Revises(e)
    BY DEF Quiet, Revises, Gives
  <2>3. QED BY <2>1, <2>2 DEF Unrevised
<1>8. OfType(events', "advisor") =
          OfType(events, "advisor")
          \cup IF first.type = "advisor" THEN {Len(events) + 1} ELSE {}
  BY <1>1, AdviceAfter
<1>9. QED BY <1>1, <1>2, <1>4, <1>5, <1>6, <1>7, <1>8

\* An entry that judges none is in order, and one that gives none is not kept.
LEMMA Unjudging ==
    ASSUME NEW first
    PROVE  /\ ~Judges(first) => JudgesWell(events, Len(events) + 1, first)
           /\ OffPath(first) /\ first.judged = initial_answer
                 => JudgesWell(events, Len(events) + 1, first)
           /\ ~Gives(first) => first \notin Keepers(route) /\ ~Revises(first)
BY DEF JudgesWell, Keepers, Givers, Gives, Revises

\* The initial answer is the first the log gives.
LEMMA InitialReturnsKeeps ==
    ASSUME OInv, NEW reply \in InitialReplies, InitialReturns(reply) PROVE OInv'
<1> DEFINE first == [type |-> "initial", text |-> reply.text]
<1>1. reply.text \in Texts /\ reply.fallbacks \in Seq(Models)
  BY PipelineRepliesAssumption
<1>2. /\ UNCHANGED <<advisor, reflector, route, step, last_answer>> /\ answer' = reply.text
      /\ step = "idle" /\ stage = "initial" /\ events = << >> /\ advisor.at = "off" /\ reflector.at = "off"
      /\ stage' \in {"advise", "reflect"} /\ events' = <<first>>
  BY DEF InitialReturns, advisorVars, StageAfter, OInv, Chain, Paths
<1>3. /\ first \in Entries /\ ~Judges(first) /\ Gives(first) /\ first.type # "advisor"
      /\ first \in Givers /\ first \in Keepers(route) /\ ~Revises(first)
  BY <1>1 DEF Entries, Judges, Gives, OffPath, Givers, Keepers, Revises
<1>4. events' \in Seq(Entries) /\ Len(events') = 1 /\ events'[1] = first
  BY <1>2, <1>3
<1>5. TypesOK'
  <2>1. \A i \in DOMAIN events' : events'[i].type \in LogTypes
    BY <1>4, EntryTypes
  <2>2. /\ UNCHANGED <<cfg, step, turn, critique, signal, fallbacks, skip, advisor_score>>
        /\ usage' = usage + 1 /\ initial_answer' = reply.text
        /\ fallbacks_used' = reply.fallbacks /\ consulted' = reply.fallbacks
    BY DEF InitialReturns, advisorVars
  <2> HIDE DEF first
  <2>3. QED BY <1>1, <1>2, <1>4, <2>1, <2>2 DEF OInv, TypesOK, PipelineTypeOK
<1>6. Paths'
  BY <1>2 DEF OInv, Paths, Awaiting
<1>7. AdviceLogged'
  BY <1>2, <1>3, <1>4 DEF OInv, AdviceLogged, OfType
<1>8. Chain'
  <2>1. JudgedIn(events)' /\ Unrevised(events')
    BY <1>3, <1>4 DEF JudgedIn, JudgesWell, Unrevised
  <2>2. GivenLast(events', first.text) /\ KeptLast(route', events', first.text)
    BY <1>2, <1>3, <1>4 DEF GivenLast, KeptLast, LatestIn
  <2>3. QED BY <1>2, <2>1, <2>2 DEF Chain, Held, Awaiting
<1>9. QED BY <1>5, <1>6, <1>7, <1>8 DEF OInv

\* Skipping the advisor hands the answer on as it is.
LEMMA SkipAdvisorKeeps == ASSUME OInv, SkipAdvisor PROVE OInv'
<1> DEFINE first == [type |-> "advisor_skipped"]
<1>1. /\ UNCHANGED <<initial_answer, advisor, reflector, answer, route, step, last_answer>>
      /\ stage = "advise" /\ advisor.at = "off" /\ reflector.at = "off"
      /\ stage' \in {"reflect", "done"}
      /\ stage' = "reflect" => route.order = "advise_first"
      /\ events' = Append(events, first)
  BY DEF SkipAdvisor, StageAfter, OInv, Paths
<1>2. /\ first \in Entries /\ ~Gives(first) /\ first.type # "advisor" /\ ~Revises(first)
      /\ JudgesWell(events, Len(events) + 1, first) /\ first \notin Keepers(route)
  BY Unjudging DEF Entries, Judges, Gives
<1>3. Grown(events, first, events')
  BY <1>1, <1>2, EntryAppended DEF OInv, TypesOK
<1>4. TypesOK'
  <2>1. skip' \in {"confidence", "high_score"}
    BY DEF SkipAdvisor, SkipReason, SkipReasonOf
  <2>2. QED BY <1>1, <1>2, <1>3, <2>1, Logged DEF OInv, TypesOK, PipelineTypeOK, SkipAdvisor
<1>5. Paths'
  BY <1>1 DEF OInv, Paths, Awaiting
<1>6. AdviceLogged'
  BY <1>1, <1>2, <1>3, Logged DEF OInv, AdviceLogged
<1>7. Chain'
  BY <1>1, <1>2, <1>3, Logged, NothingDropped DEF OInv, Chain, Paths, Held, Awaiting
<1>8. QED BY <1>4, <1>5, <1>6, <1>7 DEF OInv

\* What an advisor that runs may rely on.
LEMMA AdvisorRuns ==
    ASSUME OInv, Awaiting(advisor)
    PROVE  /\ stage \in {"advise", "raised"} /\ route.advisor
           /\ KeptLast(route, events, answer)
           /\ answer \in Texts /\ initial_answer \in Texts /\ events \in Seq(Entries)
           /\ advisor \in [at : {"advice", "plugins", "revision"}, final : Texts,
                           fallbacks : Seq(Models)]
<1>1. advisor.at \in {"advice", "plugins", "revision", "critique"} /\ advisor.at # "off"
  BY DEF Awaiting
<1>2. QED BY <1>1 DEF OInv, Paths, Chain, TypesOK, PipelineTypeOK, CoroutineOK

\* The advice judges the answer given last.
LEMMA AdviceReturnsKeeps ==
    ASSUME OInv, NEW reply \in AdvisorReplies, AdviceReturns(reply) PROVE OInv'
<1> DEFINE first == [type |-> "advisor", text |-> reply.text, judged |-> answer]
           note == [type |-> "advisor_score"]
           scored == reply.text.score # NoScore
<1>1. /\ reply.text \in AdvisorTexts /\ reply.fallbacks \in Seq(Models)
      /\ reply.text.score \in Nat \cup {NoScore}
  BY PipelineRepliesAssumption DEF AdvisorTexts
<1>2. /\ UNCHANGED <<initial_answer, reflector, answer, route, stage, step, last_answer>>
      /\ advisor.at = "advice" /\ Awaiting(advisor)
      /\ advisor' = [advisor EXCEPT !.at = "plugins", !.fallbacks = reply.fallbacks]
      /\ events' = Append(events, first) \o Optional(scored, note)
  BY DEF AdviceReturns, Awaiting
<1>3. /\ first \in Entries /\ ~OffPath(first) /\ first.judged = answer
      /\ ~Gives(first) /\ first.type = "advisor"
  BY <1>1, <1>2, AdvisorRuns DEF Entries, Gives, OffPath
<1>4. note \in Entries /\ Quiet(note) /\ ~Judges(note) /\ scored \in BOOLEAN
  BY DEF Entries, Quiet, Gives, Judges
<1> HIDE DEF first, note, scored
<1>5. Grown(events, first, events')
  BY <1>2, <1>3, <1>4, EntryAppended, EntryOptional DEF OInv, TypesOK
<1>6. /\ JudgesWell(events, Len(events) + 1, first) /\ first \notin Keepers(route)
      /\ ~Revises(first)
  BY <1>2, <1>3, AdvisorRuns, Unjudging DEF JudgesWell, SourceOf, KeptLast
<1>7. /\ advisor'.at = "plugins"
      /\ CoroutineOK(advisor', {"advice", "plugins", "revision"})
  BY <1>1, <1>2, AdvisorRuns DEF CoroutineOK
<1>8. TypesOK'
  <2>1. advisor_score' \in Nat \cup {NoScore}
    BY <1>1 DEF AdviceReturns, OInv, TypesOK, PipelineTypeOK
  <2>2. /\ UNCHANGED <<cfg, step, turn, critique, signal, fallbacks, skip, fallbacks_used>>
        /\ usage' = usage + 1 /\ consulted' = consulted \o reply.fallbacks
    BY DEF AdviceReturns
  <2>3. /\ events' \in Seq(Entries)
        /\ \A i \in DOMAIN events' : events'[i].type \in LogTypes
    BY <1>2, <1>3, <1>5, <1>6, Logged
  <2>4. QED BY <1>1, <1>2, <1>7, <2>1, <2>2, <2>3, SMTT(30) DEF OInv, TypesOK, PipelineTypeOK
<1>9. Paths'
  BY <1>2, <1>7, AdvisorRuns DEF OInv, Paths, Awaiting
<1>10. AdviceLogged'
  BY <1>2, <1>3, <1>5, <1>6, <1>7, Logged DEF OInv, AdviceLogged
<1>11. Chain'
  BY <1>2, <1>3, <1>5, <1>6, <1>7, Logged, AdvisorRuns DEF OInv, Chain, Held, Awaiting
<1>12. QED BY <1>8, <1>9, <1>10, <1>11 DEF OInv

\* The advice in the log is a text of the advisor.
LEMMA AdviceIsText ==
    ASSUME OInv, advisor.at = "plugins"
    PROVE  Advice \in AdvisorTexts
<1>1. PICK m \in DOMAIN events : OfType(events, "advisor") = {m}
  BY DEF OInv, AdviceLogged
<1>2. events[m] \in Entries /\ events[m].type = "advisor" /\ m \in Nat
  <2>1. events \in Seq(Entries)
    BY DEF OInv, TypesOK
  <2>2. m \in OfType(events, "advisor")
    BY <1>1
  <2>3. QED BY <2>1, <2>2 DEF OfType
<1>3. Max({m}) = m
  BY <1>2 DEF Max
<1>4. events[m].text \in AdvisorTexts
  BY <1>2 DEF Entries
<1>5. QED BY <1>1, <1>3, <1>4 DEF Advice

\* Behind the plugins the advisor approves or asks for a revision; the answer stays.
LEMMA PluginsDoneKeeps == ASSUME OInv, PluginsDone PROVE OInv'
<1>1. /\ UNCHANGED <<initial_answer, reflector, answer, last_answer, route, stage, cfg, step,
                     turn, critique, usage, signal, fallbacks, skip, advisor_score,
                     fallbacks_used, consulted>>
      /\ advisor.at = "plugins" /\ Awaiting(advisor)
  BY DEF PluginsDone, Awaiting
<1>2. PICK first \in Entries, at \in {"finished", "revision"}, text \in Texts :
          /\ ~Judges(first) /\ ~Gives(first) /\ first.type # "advisor"
          /\ events' = Append(events, first)
          /\ advisor' = [advisor EXCEPT !.at = at, !.final = text]
          /\ at = "finished" => text = answer
  <2>1. CASE Approves(Advice)
    <3>1. /\ events' = Append(events, [type |-> "advisor_approve"])
          /\ advisor' = [advisor EXCEPT !.at = "finished", !.final = answer]
      BY <2>1 DEF PluginsDone
    <3>2. LET first == [type |-> "advisor_approve"]
          IN  first \in Entries /\ ~Judges(first) /\ ~Gives(first) /\ first.type # "advisor"
      BY DEF Entries, Judges, Gives
    <3>3. QED BY <1>1, <3>1, <3>2, AdvisorRuns
  <2>2. CASE ~Approves(Advice)
    <3>1. /\ events' = Append(events, [type |-> "advisor_revised", text |-> Advice.feedback])
          /\ advisor' = [advisor EXCEPT !.at = "revision"]
      BY <2>2 DEF PluginsDone
    <3>2. Advice.feedback \in Texts
      BY <1>1, AdviceIsText DEF AdvisorTexts
    <3>3. LET first == [type |-> "advisor_revised", text |-> Advice.feedback]
          IN  first \in Entries /\ ~Judges(first) /\ ~Gives(first) /\ first.type # "advisor"
      BY <3>2 DEF Entries, Judges, Gives
    <3>4. /\ advisor' = [advisor EXCEPT !.at = "revision", !.final = advisor.final]
          /\ advisor.final \in Texts
      BY <1>1, <3>1, AdvisorRuns
    <3>5. QED BY <3>1, <3>3, <3>4
  <2>3. QED BY <2>1, <2>2
<1>3. /\ Grown(events, first, events') /\ ~Revises(first)
      /\ JudgesWell(events, Len(events) + 1, first) /\ first \notin Keepers(route)
  BY <1>2, EntryAppended, Unjudging DEF OInv, TypesOK
<1>4. /\ advisor'.at = at /\ advisor'.final = text
      /\ CoroutineOK(advisor', {"advice", "plugins", "revision"})
  BY <1>1, <1>2, AdvisorRuns DEF CoroutineOK
<1>5. TypesOK'
  BY <1>1, <1>2, <1>3, <1>4, Logged DEF OInv, TypesOK, PipelineTypeOK
<1>6. Paths'
  BY <1>1, <1>4, AdvisorRuns DEF OInv, Paths, Awaiting
<1>7. AdviceLogged'
  BY <1>1, <1>4 DEF OInv, AdviceLogged
<1>8. Chain'
  BY <1>1, <1>2, <1>3, <1>4, Logged, AdvisorRuns DEF OInv, Chain, Held, Awaiting
<1>9. QED BY <1>5, <1>6, <1>7, <1>8 DEF OInv

\* The revision the advisor asked for becomes the answer the stage will hand on.
LEMMA AdvisorRevisionReturnsKeeps ==
    ASSUME OInv, NEW reply \in RevisionReplies, AdvisorRevisionReturns(reply) PROVE OInv'
<1> DEFINE first == [type |-> "advisor_revision", text |-> reply.text, judged |-> answer]
<1>1. reply.text \in Texts /\ reply.fallbacks \in Seq(Models)
  BY RepliesAssumption
<1>2. /\ UNCHANGED <<initial_answer, reflector, answer, last_answer, route, stage, cfg, step,
                     turn, critique, signal, fallbacks, skip, advisor_score, fallbacks_used>>
      /\ usage' = usage + 1 /\ consulted' = consulted \o reply.fallbacks
      /\ advisor.at = "revision" /\ Awaiting(advisor)
      /\ advisor' = Finish(advisor, reply)
      /\ events' = Append(events, first)
  BY DEF AdvisorRevisionReturns, Awaiting
<1>3. /\ first \in Entries /\ ~OffPath(first) /\ first.judged = answer
      /\ Gives(first) /\ first.type = "advisor_revision" /\ first.text = reply.text
  BY <1>1, <1>2, AdvisorRuns DEF Entries, Gives, OffPath
<1> HIDE DEF first
<1>4. Grown(events, first, events')
  BY <1>2, <1>3, EntryAppended DEF OInv, TypesOK
<1>5. /\ JudgesWell(events, Len(events) + 1, first) /\ first \in Keepers(route)
      /\ ~Revises(first)
  BY <1>2, <1>3, AdvisorRuns DEF JudgesWell, SourceOf, KeptLast, Keepers, Givers, Revises
<1>6. /\ advisor'.at = "finished" /\ advisor'.final = reply.text
      /\ CoroutineOK(advisor', {"advice", "plugins", "revision"})
  <2>1. advisor.fallbacks \o reply.fallbacks \in Seq(Models)
    BY <1>1, <1>2, AdvisorRuns
  <2>2. QED BY <1>1, <1>2, <2>1, AdvisorRuns DEF CoroutineOK, Finish
<1>7. TypesOK'
  BY <1>1, <1>2, <1>3, <1>4, <1>5, <1>6, Logged DEF OInv, TypesOK, PipelineTypeOK
<1>8. Paths'
  BY <1>2, <1>6, AdvisorRuns DEF OInv, Paths, Awaiting
<1>9. AdviceLogged'
  BY <1>6 DEF AdviceLogged
<1>10. Chain'
  BY <1>2, <1>3, <1>4, <1>5, <1>6, Logged, AdvisorRuns DEF OInv, Chain, Held, Awaiting
<1>11. QED BY <1>7, <1>8, <1>9, <1>10 DEF OInv

\* What a reflector that runs may rely on.
LEMMA ReflectorRuns ==
    ASSUME OInv, Awaiting(reflector)
    PROVE  /\ stage \in {"advise", "raised"} /\ advisor.at # "off"
           /\ initial_answer \in Texts /\ events \in Seq(Entries)
           /\ reflector \in [at : {"critique", "revision"}, final : Texts,
                             fallbacks : Seq(Models)]
<1>1. reflector.at \in {"advice", "plugins", "revision", "critique"} /\ reflector.at # "off"
  BY DEF Awaiting
<1>2. QED BY <1>1 DEF OInv, Paths, TypesOK, PipelineTypeOK, CoroutineOK

\* A critique beside the advisor judges the initial answer and gives none.
LEMMA SelfCritiqueReturnsKeeps ==
    ASSUME OInv, NEW reply \in CritiqueReplies, SelfCritiqueReturns(reply) PROVE OInv'
<1> DEFINE first == SelfEvent("reflect_critique", reply.text)
           flag == Note("reflect_fresh_context", 0)
           exit == SelfEvent("reflect_early_exit", reply.text)
           fresh == cfg.fresh_context /\ OfType(events, "reflect_fresh_context") = {}
           clears == SelfClears(reply.text)
<1>1. /\ reply.text \in CritiqueTexts /\ reply.fallbacks \in Seq(Models)
      /\ reply.text.confidence \in Nat
  BY RepliesAssumption DEF CritiqueTexts
<1>2. /\ UNCHANGED <<initial_answer, advisor, answer, last_answer, route, stage, cfg, step,
                     turn, critique, fallbacks, skip, advisor_score, fallbacks_used>>
      /\ usage' = usage + 1 /\ consulted' = consulted \o reply.fallbacks
      /\ reflector.at = "critique" /\ Awaiting(reflector)
      /\ events' = Append(events, first) \o Optional(fresh, flag) \o Optional(clears, exit)
      /\ reflector' = [reflector EXCEPT !.at = IF clears THEN "finished" ELSE "revision",
                                        !.fallbacks = reply.fallbacks]
  BY DEF SelfCritiqueReturns, Awaiting
<1>3. /\ first \in Entries /\ OffPath(first) /\ first.judged = initial_answer
      /\ ~Gives(first) /\ first.type # "advisor" /\ ~Revises(first)
      /\ JudgesWell(events, Len(events) + 1, first) /\ first \notin Keepers(route)
  BY <1>1, <1>2, ReflectorRuns, Unjudging DEF Entries, Gives, OffPath, SelfEvent, Turns
<1>4. flag \in Entries /\ Quiet(flag) /\ ~Judges(flag)
  BY DEF Entries, Quiet, Gives, Judges, Note, Turns
<1>5. exit \in Entries /\ Quiet(exit) /\ exit.judged = initial_answer
  BY <1>1, <1>2, ReflectorRuns DEF Entries, Quiet, Gives, OffPath, SelfEvent, Turns
<1>6. fresh \in BOOLEAN /\ clears \in BOOLEAN
  BY ConfigsAssumption DEF SelfClears, OInv, TypesOK, PipelineTypeOK, ReflectionConfigs
<1> HIDE DEF first, flag, exit, fresh, clears
<1>7. Grown(events, first, events')
  BY <1>2, <1>3, <1>4, <1>5, <1>6, EntryAppended, EntryOptional DEF OInv, TypesOK
<1>8. CoroutineOK(reflector', {"critique", "revision"})
  BY <1>1, <1>2, ReflectorRuns DEF CoroutineOK
<1>9. TypesOK'
  <2>1. signal' \in [confidence : Nat, score : Nat \cup {NoScore}]
    BY <1>1 DEF SelfCritiqueReturns, OInv, TypesOK, PipelineTypeOK
  <2>2. /\ events' \in Seq(Entries)
        /\ \A i \in DOMAIN events' : events'[i].type \in LogTypes
    BY <1>2, <1>3, <1>7, Logged
  <2>3. consulted \o reply.fallbacks \in Seq(Models)
    BY <1>1 DEF OInv, TypesOK, PipelineTypeOK
  <2>4. cfg' \in Configs /\ (step' \in {"critique", "revision"} => turn' \in 0..(cfg'.turns - 1))
    BY <1>2 DEF OInv, TypesOK, PipelineTypeOK
  <2>5. \A f \in {fallbacks', fallbacks_used', consulted'} : f \in Seq(Models)
    BY <1>2, <2>3 DEF OInv, TypesOK, PipelineTypeOK
  <2>6. /\ UNCHANGED <<initial_answer, advisor, answer, last_answer, route, stage, step, turn,
                       critique, skip, advisor_score>>
        /\ usage' = usage + 1
    BY <1>2
  <2>7. QED BY <1>8, <2>1, <2>2, <2>4, <2>5, <2>6 DEF OInv, TypesOK, PipelineTypeOK
<1>10. Paths'
  BY <1>2, ReflectorRuns DEF OInv, Paths, Awaiting
<1>11. AdviceLogged'
  <2>1. OfType(events', "advisor") = OfType(events, "advisor")
    BY <1>2, <1>3, <1>7, Logged
  <2>2. OfType(events', "advisor") \subseteq DOMAIN events'
    BY DEF OfType
  <2>3. QED BY <1>2, <2>1, <2>2 DEF OInv, AdviceLogged
<1>12. Chain'
  BY <1>2, <1>3, <1>7, Logged, ReflectorRuns DEF OInv, Chain, Held, Awaiting
<1>13. QED BY <1>9, <1>10, <1>11, <1>12 DEF OInv

\* Nor does the revision that may follow it.
LEMMA SelfRevisionReturnsKeeps ==
    ASSUME OInv, NEW reply \in RevisionReplies, SelfRevisionReturns(reply) PROVE OInv'
<1> DEFINE first == SelfEvent("reflect_revised", reply.text)
<1>1. reply.text \in Texts /\ reply.fallbacks \in Seq(Models)
  BY RepliesAssumption
<1>2. /\ UNCHANGED <<initial_answer, advisor, answer, last_answer, route, stage, cfg, step,
                     turn, critique, signal, fallbacks, skip, advisor_score, fallbacks_used>>
      /\ usage' = usage + 1 /\ consulted' = consulted \o reply.fallbacks
      /\ reflector.at = "revision" /\ Awaiting(reflector)
      /\ events' = Append(events, first)
      /\ reflector' = Finish(reflector, reply)
  BY DEF SelfRevisionReturns, Awaiting
<1>3. /\ first \in Entries /\ OffPath(first) /\ first.judged = initial_answer
      /\ ~Gives(first) /\ first.type # "advisor" /\ ~Revises(first)
      /\ JudgesWell(events, Len(events) + 1, first) /\ first \notin Keepers(route)
  BY <1>1, <1>2, ReflectorRuns, Unjudging DEF Entries, Gives, OffPath, SelfEvent, Turns
<1> HIDE DEF first
<1>4. Grown(events, first, events')
  BY <1>2, <1>3, EntryAppended DEF OInv, TypesOK
<1>5. CoroutineOK(reflector', {"critique", "revision"})
  <2>1. reflector.fallbacks \o reply.fallbacks \in Seq(Models)
    BY <1>1, <1>2, ReflectorRuns
  <2>2. QED BY <1>1, <1>2, <2>1, ReflectorRuns DEF CoroutineOK, Finish
<1>6. TypesOK'
  BY <1>1, <1>2, <1>3, <1>4, <1>5, Logged DEF OInv, TypesOK, PipelineTypeOK
<1>7. Paths'
  BY <1>2, ReflectorRuns DEF OInv, Paths, Awaiting
<1>8. AdviceLogged'
  <2>1. OfType(events', "advisor") = OfType(events, "advisor")
    BY <1>2, <1>3, <1>4, Logged
  <2>2. OfType(events', "advisor") \subseteq DOMAIN events'
    BY DEF OfType
  <2>3. QED BY <1>2, <2>1, <2>2 DEF OInv, AdviceLogged
<1>9. Chain'
  BY <1>2, <1>3, <1>4, Logged, ReflectorRuns DEF OInv, Chain, Held, Awaiting
<1>10. QED BY <1>6, <1>7, <1>8, <1>9 DEF OInv

\* Notes neither give an answer nor judge one.
LEMMA NotesAreQuiet ==
    ASSUME NEW type \in {"reflect_fresh_context", "reflect_score", "reflect_early_exit"},
           NEW t \in Nat
    PROVE  Note(type, t) \in Entries /\ Quiet(Note(type, t)) /\ ~Judges(Note(type, t))
BY DEF Entries, Quiet, Gives, Judges, Note, Turns

\* An optional entry is a log.
LEMMA OptionalIsLog ==
    ASSUME NEW condition \in BOOLEAN, NEW note \in Entries
    PROVE  Optional(condition, note) \in Seq(Entries)
BY DEF Optional

\* What a turn of the loop may rely on.
LEMMA LoopRuns ==
    ASSUME OInv, stage = "reflect"
    PROVE  /\ ~Awaiting(advisor) /\ ~Awaiting(reflector)
           /\ GivenLast(events, answer) /\ last_answer \in Texts
           /\ step # "idle" => KeptLast(route, events, last_answer)
           /\ cfg \in Configs /\ cfg.turns \in Nat /\ turn \in Nat /\ answer \in Texts
           /\ events \in Seq(Entries)
           /\ \A c \in CritiqueTexts : \A t : ClearsThreshold(cfg, c) \in BOOLEAN
                                                   /\ ExitsUnrevised(cfg, t, c) \in BOOLEAN
<1>1. cfg \in Configs /\ cfg.turns \in Nat /\ cfg.early_exit \in BOOLEAN
  BY ConfigsAssumption DEF OInv, TypesOK, PipelineTypeOK, ReflectionConfigs
<1>2. \A c \in CritiqueTexts : \A t : ClearsThreshold(cfg, c) \in BOOLEAN
                                         /\ ExitsUnrevised(cfg, t, c) \in BOOLEAN
  BY <1>1 DEF ClearsThreshold, ExitsUnrevised, Malformed, LastTurn
<1>3. QED BY <1>1, <1>2 DEF OInv, TypesOK, PipelineTypeOK, Paths, Chain, Held, Turns

\* A critique of the loop judges the answer given last.
LEMMA ReflectionCritiqueKeeps ==
    ASSUME OInv, NEW reply \in CritiqueReplies, ReflectionCritique(reply) PROVE OInv'
<1> DEFINE first == Critiqued(turn, reply.text, answer)
           flag == Note("reflect_fresh_context", turn)
           score == Note("reflect_score", turn)
           exit == EarlyExit(turn)
           fresh == cfg.fresh_context /\ OfType(events, "reflect_fresh_context") = {}
           scored == reply.text.score # NoScore
           exits == ExitsUnrevised(cfg, turn, reply.text)
<1>1. /\ reply.text \in CritiqueTexts /\ reply.fallbacks \in Seq(Models)
      /\ reply.text.confidence \in Nat /\ reply.text.score \in Nat \cup {NoScore}
  BY RepliesAssumption DEF CritiqueTexts
<1>2. /\ UNCHANGED <<initial_answer, advisor, reflector, answer, last_answer, route, stage, cfg,
                     turn, skip, advisor_score, fallbacks_used>>
      /\ usage' = usage + 1 /\ stage = "reflect" /\ step = "critique"
      /\ critique' = reply.text /\ signal' = Signal(reply.text)
      /\ fallbacks' = fallbacks \o reply.fallbacks
      /\ consulted' = consulted \o reply.fallbacks
      /\ step' \in {"done", "revision"}
  BY DEF ReflectionCritique, CritiqueReturns, advisorVars
<1>3. events' = events \o (((<<first>> \o Optional(fresh, flag))
                             \o Optional(scored, score)) \o Optional(exits, exit))
  BY DEF ReflectionCritique, CritiqueReturns, CritiqueEvents
<1>4. /\ first \in Entries /\ ~OffPath(first) /\ first.judged = answer
      /\ ~Gives(first) /\ first.type = "reflect_critique"
  BY <1>1, <1>2, LoopRuns DEF Entries, Gives, OffPath, Critiqued, Turns
<1>5. \A note \in {flag, score, exit} : note \in Entries /\ Quiet(note) /\ ~Judges(note)
  BY <1>2, LoopRuns, NotesAreQuiet DEF EarlyExit
<1>6. fresh \in BOOLEAN /\ scored \in BOOLEAN /\ exits \in BOOLEAN
  <2>1. cfg.fresh_context \in BOOLEAN
    BY ConfigsAssumption DEF OInv, TypesOK, PipelineTypeOK, ReflectionConfigs
  <2>2. QED BY <1>1, <1>2, <2>1, LoopRuns
<1> HIDE DEF first, flag, score, exit, fresh, scored, exits
<1>7. Grown(events, first, events')
  <2>1. events' = ((Append(events, first) \o Optional(fresh, flag))
                   \o Optional(scored, score)) \o Optional(exits, exit)
    <3>1. /\ Optional(fresh, flag) \in Seq(Entries) /\ Optional(scored, score) \in Seq(Entries)
          /\ Optional(exits, exit) \in Seq(Entries) /\ events \in Seq(Entries)
      BY <1>2, <1>5, <1>6, LoopRuns, OptionalIsLog
    <3> DEFINE one == <<first>>
               a == Optional(fresh, flag)
               b == Optional(scored, score)
               c == Optional(exits, exit)
               two == one \o a
               three == two \o b
    <3>2. one \in Seq(Entries) /\ Append(events, first) = events \o one
      BY <1>4, <3>1, EntryAppended
    <3>3. events' = events \o (((one \o a) \o b) \o c)
      BY <1>3
    <3> HIDE DEF one, a, b, c
    <3>4. /\ a \in Seq(Entries) /\ b \in Seq(Entries) /\ c \in Seq(Entries)
          /\ one \in Seq(Entries) /\ events \in Seq(Entries)
      BY <3>1, <3>2 DEF a, b, c
    <3>5. two \in Seq(Entries)
      BY <3>4, LogsConcat, SMTT(30)
    <3>6. (events \o one) \o a = events \o two
      BY <3>4, LogsConcat, SMTT(30)
    <3> HIDE DEF two
    <3>7. three \in Seq(Entries)
      BY <3>4, <3>5, LogsConcat, SMTT(30)
    <3>8. (events \o two) \o b = events \o three
      <4>1. events \in Seq(Entries) /\ b \in Seq(Entries)
        BY <3>4
      <4>2. QED BY <3>5, <4>1, LogsConcat, SMTT(30)
    <3> HIDE DEF three
    <3>9. (events \o three) \o c = events \o (three \o c)
      BY <3>4, <3>7, LogsConcat, SMTT(30)
    <3>10. QED BY <3>2, <3>3, <3>6, <3>8, <3>9 DEF a, b, c, two, three
  <2>2. Grown(events, first, Append(events, first) \o Optional(fresh, flag))
    BY <1>2, <1>4, <1>5, <1>6, LoopRuns, EntryAppended, EntryOptional
  <2>3. Grown(events, first, (Append(events, first) \o Optional(fresh, flag))
                             \o Optional(scored, score))
    BY <1>2, <1>4, <1>5, <1>6, <2>2, LoopRuns, EntryOptional
  <2>4. QED BY <1>2, <1>4, <1>5, <1>6, <2>1, <2>3, LoopRuns, EntryOptional
<1>8. JudgesWell(events, Len(events) + 1, first) /\ first \notin Keepers(route)
  BY <1>2, <1>4, LoopRuns, Unjudging DEF JudgesWell, SourceOf, GivenLast
<1>9. TypesOK'
  <2>1. signal' \in [confidence : Nat, score : Nat \cup {NoScore}]
    BY <1>1, <1>2 DEF Signal
  <2>2. /\ events' \in Seq(Entries)
        /\ \A i \in DOMAIN events' : events'[i].type \in LogTypes
    BY <1>2, <1>4, <1>7, <1>8, Logged
  <2>3. \A f \in {fallbacks', fallbacks_used', consulted'} : f \in Seq(Models)
    <3>1. /\ fallbacks \o reply.fallbacks \in Seq(Models)
          /\ consulted \o reply.fallbacks \in Seq(Models)
      BY <1>1 DEF OInv, TypesOK, PipelineTypeOK
    <3>2. QED BY <1>2, <3>1 DEF OInv, TypesOK, PipelineTypeOK
  <2>4. QED BY <1>1, <1>2, <2>1, <2>2, <2>3 DEF OInv, TypesOK, PipelineTypeOK
<1>10. Paths'
  BY <1>2, LoopRuns DEF OInv, Paths, Awaiting
<1>11. AdviceLogged'
  <2>1. OfType(events', "advisor") = OfType(events, "advisor")
    BY <1>2, <1>4, <1>7, <1>8, Logged
  <2>2. QED BY <1>2, <2>1, LoopRuns DEF OInv, AdviceLogged, Awaiting
<1>12. Chain'
  BY <1>2, <1>4, <1>7, <1>8, Logged, LoopRuns DEF OInv, Chain, Held, Awaiting
<1>13. QED BY <1>9, <1>10, <1>11, <1>12 DEF OInv

\* A revision of the loop judges that answer and replaces it.
LEMMA ReflectionRevisionKeeps ==
    ASSUME OInv, NEW reply \in RevisionReplies, ReflectionRevision(reply) PROVE OInv'
<1> DEFINE first == Revised(turn, reply.text, answer)
           exit == EarlyExit(turn)
           exits == ClearsThreshold(cfg, critique)
<1>1. reply.text \in Texts /\ reply.fallbacks \in Seq(Models)
  BY RepliesAssumption
<1>2. /\ UNCHANGED <<initial_answer, advisor, reflector, route, stage, cfg, critique, signal,
                     skip, advisor_score, fallbacks_used>>
      /\ usage' = usage + 1 /\ stage = "reflect" /\ step = "revision"
      /\ answer' = reply.text
      /\ last_answer' = IF Dropped(reply.text) THEN last_answer ELSE reply.text
      /\ fallbacks' = fallbacks \o reply.fallbacks
      /\ consulted' = consulted \o reply.fallbacks
      /\ \/ step' = "done" /\ turn' = turn
         \/ step' = "critique" /\ turn' = turn + 1 /\ ~LastTurn(cfg, turn)
  BY DEF ReflectionRevision, RevisionReturns, advisorVars
<1>3. events' = events \o (<<first>> \o Optional(exits, exit))
  BY DEF ReflectionRevision, RevisionReturns, RevisionEvents
<1>4. /\ first \in Entries /\ ~OffPath(first) /\ first.judged = answer
      /\ Gives(first) /\ first.type = "reflect_revised" /\ first.text = reply.text
  BY <1>1, <1>2, LoopRuns DEF Entries, Gives, OffPath, Revised, Turns
<1>5. exit \in Entries /\ Quiet(exit) /\ ~Judges(exit)
  BY <1>2, LoopRuns, NotesAreQuiet DEF EarlyExit
<1>6. exits \in BOOLEAN
  BY <1>2, LoopRuns DEF OInv, TypesOK, PipelineTypeOK
<1> HIDE DEF first, exit, exits
<1>7. Grown(events, first, events')
  <2>1. events' = Append(events, first) \o Optional(exits, exit)
    <3>1. Optional(exits, exit) \in Seq(Entries) /\ events \in Seq(Entries)
      BY <1>2, <1>5, <1>6, LoopRuns, OptionalIsLog
    <3> DEFINE one == <<first>>
               c == Optional(exits, exit)
    <3>2. one \in Seq(Entries) /\ Append(events, first) = events \o one
      BY <1>4, <3>1, EntryAppended
    <3>3. events' = events \o (one \o c)
      BY <1>3
    <3> HIDE DEF one, c
    <3>4. (events \o one) \o c = events \o (one \o c)
      BY <3>1, <3>2, LogsConcat, SMTT(30) DEF c
    <3>5. QED BY <3>2, <3>3, <3>4 DEF c
  <2>2. QED BY <1>2, <1>4, <1>5, <1>6, <2>1, LoopRuns, EntryAppended, EntryOptional
<1>8. /\ JudgesWell(events, Len(events) + 1, first)
      /\ first \in Keepers(route) <=> ~Dropped(reply.text)
  BY <1>2, <1>4, LoopRuns DEF JudgesWell, SourceOf, GivenLast, Keepers, Givers, Dropped
<1>9. TypesOK'
  <2>1. /\ turn' \in Turns
        /\ step' \in {"critique", "revision"} => turn' \in 0..(cfg'.turns - 1)
    <3>1. turn \in 0..(cfg.turns - 1) /\ cfg.turns \in Nat
      BY <1>2, LoopRuns DEF OInv, TypesOK, PipelineTypeOK
    <3>2. QED BY <1>2, <3>1 DEF LastTurn, Turns
  <2>2. /\ events' \in Seq(Entries)
        /\ \A i \in DOMAIN events' : events'[i].type \in LogTypes
    BY <1>2, <1>4, <1>7, <1>8, Logged
  <2>3. \A f \in {fallbacks', fallbacks_used', consulted'} : f \in Seq(Models)
    <3>1. /\ fallbacks \o reply.fallbacks \in Seq(Models)
          /\ consulted \o reply.fallbacks \in Seq(Models)
      BY <1>1 DEF OInv, TypesOK, PipelineTypeOK
    <3>2. QED BY <1>2, <3>1 DEF OInv, TypesOK, PipelineTypeOK
  <2>4. step' \in {"done", "critique"}
    BY <1>2
  <2>5. QED BY <1>1, <1>2, <2>1, <2>2, <2>3, <2>4 DEF OInv, TypesOK, PipelineTypeOK
<1>10. Paths'
  BY <1>2, LoopRuns DEF OInv, Paths, Awaiting
<1>11. AdviceLogged'
  <2>1. OfType(events', "advisor") = OfType(events, "advisor")
    BY <1>2, <1>4, <1>7, <1>8, Logged
  <2>2. QED BY <1>2, <2>1, LoopRuns DEF OInv, AdviceLogged, Awaiting
<1>12. Chain'
  BY <1>2, <1>4, <1>7, <1>8, Logged, LoopRuns DEF OInv, Chain, Held, Awaiting
<1>13. QED BY <1>9, <1>10, <1>11, <1>12 DEF OInv

\* Behind a failure nothing but a coroutine that is still running can take a step.
LEMMA NothingLeftToRun ==
    ASSUME OInv, stage \in {"raised", "done"}, ~Awaiting(advisor), ~Awaiting(reflector)
    PROVE  ~PipelineNext
<1>1. \A reply : ~InitialReturns(reply) /\ ~ReflectionCritique(reply)
                 /\ ~ReflectionRevision(reply)
  BY DEF InitialReturns, ReflectionCritique, ReflectionRevision
<1>2. \A reply : /\ ~AdviceReturns(reply) /\ ~AdvisorRevisionReturns(reply)
                 /\ ~SelfCritiqueReturns(reply) /\ ~SelfRevisionReturns(reply)
  BY DEF AdviceReturns, AdvisorRevisionReturns, SelfCritiqueReturns, SelfRevisionReturns,
     Awaiting
<1>3. ~StartReflection /\ ~EndReflection /\ ~ReflectionRaises /\ ~AdvisorDisabled
      /\ ~SkipAdvisor /\ ~StartAdvisor /\ ~EndAdvisor /\ ~InitialRaises
  BY DEF StartReflection, EndReflection, ReflectionRaises, AdvisorDisabled, SkipAdvisor,
     StartAdvisor, EndAdvisor, InitialRaises
<1>4. ~AdvisorRaises /\ ~ReflectorRaises /\ ~PluginsDone
  BY DEF AdvisorRaises, ReflectorRaises, PluginsDone, Awaiting
<1>5. QED BY <1>1, <1>2, <1>3, <1>4 DEF PipelineNext, CallOrStage, Plugins

-----------------------------------------------------------------------------
(***************************************************************************)
(* The theorems                                                            *)
(***************************************************************************)
LEMMA StepKeeps == OInv /\ [PipelineNext]_vars => OInv'
<1> SUFFICES ASSUME OInv, [PipelineNext]_vars PROVE OInv'
  OBVIOUS
<1>1. CASE CallOrStage
  <2>1. CASE \E reply \in InitialReplies : InitialReturns(reply)
    BY <2>1, InitialReturnsKeeps
  <2>2. CASE StartReflection \/ EndReflection \/ ReflectionRaises
    BY <2>2, StartReflectionKeeps, EndReflectionKeeps, ReflectionRaisesKeeps
  <2>3. CASE \E reply \in CritiqueReplies :
                 ReflectionCritique(reply) \/ SelfCritiqueReturns(reply)
    BY <2>3, ReflectionCritiqueKeeps, SelfCritiqueReturnsKeeps
  <2>4. CASE \E reply \in RevisionReplies :
                 \/ ReflectionRevision(reply)
                 \/ AdvisorRevisionReturns(reply)
                 \/ SelfRevisionReturns(reply)
    BY <2>4, ReflectionRevisionKeeps, AdvisorRevisionReturnsKeeps, SelfRevisionReturnsKeeps
  <2>5. CASE AdvisorDisabled \/ SkipAdvisor \/ StartAdvisor \/ EndAdvisor
    BY <2>5, AdvisorDisabledKeeps, SkipAdvisorKeeps, StartAdvisorKeeps, EndAdvisorKeeps
  <2>6. CASE \E reply \in AdvisorReplies : AdviceReturns(reply)
    BY <2>6, AdviceReturnsKeeps
  <2>7. CASE InitialRaises \/ AdvisorRaises \/ ReflectorRaises
    BY <2>7, InitialRaisesKeeps, AdvisorRaisesKeeps, ReflectorRaisesKeeps
  <2>8. QED BY <1>1, <2>1, <2>2, <2>3, <2>4, <2>5, <2>6, <2>7 DEF CallOrStage
<1>2. CASE Plugins
  BY <1>2, PluginsDoneKeeps, AdvisorRaisesKeeps DEF Plugins
<1>3. CASE UNCHANGED vars
  BY <1>3, SilentLog DEF OInv, TypesOK, PipelineTypeOK, Paths, AdviceLogged, Chain, Held,
     Awaiting, vars, loopVars, advisorVars
<1>4. QED BY <1>1, <1>2, <1>3 DEF PipelineNext

\* The invariant holds all through a run.
LEMMA Invariance == Pipeline => []OInv
BY InitEstablishes, StepKeeps, PTL DEF Pipeline

\* However the calls of a request come back, its state keeps its types.
THEOREM PipelineTypes == Pipeline => []PipelineTypeOK
<1>1. OInv => PipelineTypeOK
  BY DEF OInv, TypesOK
<1>2. QED BY <1>1, Invariance, PTL

\* No stage starts, and no response leaves, while a coroutine of a parallel
\* advisor is running.
THEOREM PathsAreJoined == Pipeline => []PathsJoined
<1>1. OInv => PathsJoined
  BY DEF OInv, Paths, PathsJoined
<1>2. QED BY <1>1, Invariance, PTL

\* The latest entry of a set is the one with the greatest position.
LEMMA LatestIsMax ==
    ASSUME NEW S, NEW k, NEW x, LatestIn(S, events, k, x), events \in Seq(Entries)
    PROVE  events[Max({i \in DOMAIN events : i < k /\ events[i] \in S})].text = x
<1>1. PICK m \in 1..Len(events) :
          /\ m < k /\ events[m] \in S /\ events[m].text = x
          /\ \A j \in 1..Len(events) : m < j /\ j < k => events[j] \notin S
  BY DEF LatestIn
<1> DEFINE before == {i \in DOMAIN events : i < k /\ events[i] \in S}
<1>2. DOMAIN events = 1..Len(events) /\ Len(events) \in Nat
  BY LenProperties
<1>3. m \in before /\ \A i \in before : i \in Nat /\ m >= i
  BY <1>1, <1>2
<1>4. Max(before) = m
  <2>1. \A n \in before : (\A i \in before : n >= i) => n = m
    BY <1>3
  <2> HIDE DEF before
  <2>2. QED BY <1>3, <2>1 DEF Max
<1>5. QED BY <1>1, <1>4

\* The two ways of saying which answer was given or kept last agree.
LEMMA LatestIsGiven ==
    ASSUME NEW k, NEW x, events \in Seq(Entries)
    PROVE  /\ LatestIn(Givers, events, k, x) => LatestGiven(k) = x
           /\ LatestIn(Keepers(route), events, k, x) => LatestKept(k) = x
<1>1. \A i \in DOMAIN events : AnswerGiven(i) <=> events[i] \in Givers
  BY DEF AnswerGiven, OnPath, Gives, OffPath, Givers
<1>2. \A i \in DOMAIN events : AnswerKept(i) <=> events[i] \in Keepers(route)
  BY <1>1 DEF AnswerKept, Dropped, Keepers
<1>3. /\ {i \in DOMAIN events : i < k /\ AnswerGiven(i)}
             = {i \in DOMAIN events : i < k /\ events[i] \in Givers}
      /\ {i \in DOMAIN events : i < k /\ AnswerKept(i)}
             = {i \in DOMAIN events : i < k /\ events[i] \in Keepers(route)}
  BY <1>1, <1>2
<1>4. QED BY <1>3, LatestIsMax DEF LatestGiven, LatestKept

\* Read as the property reads it, the log says what the invariant says.
LEMMA ChainGivesAnswers == OInv => AnswersChain
<1> SUFFICES ASSUME OInv PROVE AnswersChain
  OBVIOUS
<1>1. events \in Seq(Entries) /\ JudgedIn(events) /\ DOMAIN events = 1..Len(events)
  BY LenProperties DEF OInv, TypesOK, Chain
<1>2. ASSUME NEW i \in DOMAIN events, "judged" \in DOMAIN events[i]
      PROVE  events[i].judged = IF ~OnPath(i) THEN initial_answer
                                ELSE IF OfLoop(i) THEN LatestGiven(i) ELSE LatestKept(i)
  <2>1. IF OffPath(events[i]) THEN events[i].judged = initial_answer
        ELSE LatestIn(SourceOf(events[i]), events, i, events[i].judged)
    BY <1>1, <1>2 DEF JudgedIn, JudgesWell, Judges
  <2>2. SourceOf(events[i]) = IF OfLoop(i) THEN Givers ELSE Keepers(route)
    BY DEF SourceOf, OfLoop
  <2>3. QED BY <1>1, <2>1, <2>2, LatestIsGiven DEF OnPath, OffPath
<1>3. stage = "done" => answer = LatestKept(Len(events) + 1)
  BY <1>1, LatestIsGiven DEF OInv, Chain, Held, KeptLast
<1>4. QED BY <1>2, <1>3 DEF AnswersChain

\* Every critique and revision of the loop works on the answer given last, every
\* call of the advisor on the answer kept last, and the response carries the
\* answer kept last, whichever loop runs and whatever it drops.
THEOREM AnswersAreHandedOn == Pipeline => []AnswersChain
BY ChainGivesAnswers, Invariance, PTL

=============================================================================
