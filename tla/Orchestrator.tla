---------------------------- MODULE Orchestrator ----------------------------
(***************************************************************************)
(* Orchestrator.run: the buffered pipeline of one request.  An initial     *)
(* generation, then a reflection stage and an advisor stage in the order   *)
(* the route says, then the response and its headers.  A step is what the  *)
(* code does between two awaits; each LLM call is a whole walk along the   *)
(* fallback chain (FallbackWalker), which answers or raises.               *)
(*                                                                         *)
(* The reflection stage is the loop of Reflection, which the parallel loop *)
(* implements but for the answer it returns: the sequential loop returns   *)
(* its last revision, the parallel one the last that is not empty, though  *)
(* its turns hand an empty one on to each other.  With advisor.parallel    *)
(* and reflection.parallel both set the advisor stage is two coroutines on *)
(* one request context, gathered.                                          *)
(***************************************************************************)
EXTENDS Reflection, FiniteSetsExt

CONSTANTS Routes, InitialReplies, AdvisorReplies, Blank

AdvisorTexts ==
    [line : {"none", "APPROVE", "REVISE"},       \* ADVISOR_DECISION:
     approve_marker : BOOLEAN, revise_marker : BOOLEAN,
     score : Nat \cup {NoScore},
     feedback : Texts]                           \* what follows the marker, trimmed

ASSUME RoutesAssumption ==
    Routes \subseteq [order : {"reflect_first", "advise_first"}, advisor : BOOLEAN,
                      reflect_parallel : BOOLEAN, advisor_parallel : BOOLEAN]

ASSUME PipelineRepliesAssumption ==
    /\ Blank \in Texts
    /\ InitialReplies \subseteq [text : Texts, fallbacks : Seq(Models)]
    /\ AdvisorReplies \subseteq [text : AdvisorTexts, fallbacks : Seq(Models)]

VARIABLES
    route,           \* the rest of the matched route; `cfg' is its reflection section
    stage,           \* "initial", "reflect", "advise", "done", "raised" or "hung"
    initial_answer,
    last_answer,     \* what the reflection loop has to return so far
    advisor,         \* the advisor coroutine
    reflector,       \* the self-reflection coroutine beside it
    skip,            \* advisor_skip_reason of the request, "none" when not set
    advisor_score,
    fallbacks_used,
    consulted        \* history: fallbacks consulted, in the order calls ended

advisorVars == <<advisor, reflector, skip, advisor_score>>
vars == <<loopVars, route, stage, initial_answer, last_answer, advisorVars, fallbacks_used,
          consulted>>

\* A coroutine: the await it stands at, the answer and fallbacks it will return.
Coroutine(at) == [at |-> at, final |-> initial_answer, fallbacks |-> << >>]

Together == route.reflect_parallel /\ route.advisor_parallel

PipelineInit ==
    /\ cfg \in Configs
    /\ route \in Routes
    /\ stage = "initial"
    /\ step = "idle" /\ turn = 0 /\ critique = NoCritique
    /\ initial_answer = Blank /\ answer = Blank /\ last_answer = Blank
    /\ events = << >> /\ usage = 0 /\ signal = NoSignal /\ fallbacks = << >>
    /\ advisor = Coroutine("off") /\ reflector = Coroutine("off")
    /\ skip = "none" /\ advisor_score = NoScore
    /\ fallbacks_used = << >> /\ consulted = << >>

(***************************************************************************)
(* Stages                                                                  *)
(***************************************************************************)
StageAfter(s) ==
    IF route.order = "advise_first"
    THEN IF s = "initial" THEN "advise" ELSE IF s = "advise" THEN "reflect" ELSE "done"
    ELSE IF s = "initial" THEN "reflect" ELSE IF s = "reflect" THEN "advise" ELSE "done"

InitialReturns(reply) ==
    /\ stage = "initial"
    /\ initial_answer' = reply.text /\ answer' = reply.text
    /\ events' = Append(events, [type |-> "initial", text |-> reply.text])
    /\ usage' = usage + 1
    /\ fallbacks_used' = reply.fallbacks
    /\ consulted' = reply.fallbacks
    /\ stage' = StageAfter("initial")
    /\ UNCHANGED <<cfg, step, turn, critique, signal, fallbacks, route, last_answer,
                   advisorVars>>

\* _run_reflection_stage: nothing to do for zero turns.
StartReflection ==
    /\ stage = "reflect" /\ step = "idle"
    /\ step' = IF cfg.turns > 0 THEN "critique" ELSE "done"
    /\ last_answer' = answer
    /\ UNCHANGED <<cfg, turn, answer, critique, events, usage, signal, fallbacks, route,
                   stage, initial_answer, advisorVars, fallbacks_used, consulted>>

ReflectionCritique(reply) ==
    /\ stage = "reflect"
    /\ CritiqueReturns(reply)
    /\ consulted' = consulted \o reply.fallbacks
    /\ UNCHANGED <<route, stage, initial_answer, last_answer, advisorVars, fallbacks_used>>

\* The parallel loop passes over an empty revision when it looks for the answer
\* to return (`if revised'); the next turn has been given it all the same.
Dropped(text) == route.reflect_parallel /\ text = Blank

ReflectionRevision(reply) ==
    /\ stage = "reflect"
    /\ RevisionReturns(reply)
    /\ last_answer' = IF Dropped(reply.text) THEN last_answer ELSE reply.text
    /\ consulted' = consulted \o reply.fallbacks
    /\ UNCHANGED <<route, stage, initial_answer, advisorVars, fallbacks_used>>

\* A turn that raises ends the run, except that the parallel loop is left
\* waiting when it is not the last one (ReflectionParallel).
ReflectionRaises ==
    /\ stage = "reflect"
    /\ CallRaises
    /\ stage' = IF route.reflect_parallel /\ ~LastTurn(cfg, turn)
                THEN "hung" ELSE "raised"
    /\ UNCHANGED <<route, initial_answer, last_answer, advisorVars, fallbacks_used,
                   consulted>>

EndReflection ==
    /\ stage = "reflect" /\ step = "done"
    /\ answer' = last_answer
    /\ fallbacks_used' = fallbacks_used \o fallbacks
    /\ stage' = StageAfter("reflect")
    /\ UNCHANGED <<cfg, step, turn, critique, events, usage, signal, fallbacks, route,
                   initial_answer, last_answer, advisorVars, consulted>>

(***************************************************************************)
(* The advisor                                                             *)
(***************************************************************************)
SkipReasonOf_ConfidenceOnly(sig) ==       \* variant: before the score was added
    IF sig.confidence >= 85 THEN "confidence" ELSE "insufficient_signal"

SkipReasonOf(sig) ==
    IF sig.confidence >= 85 THEN "confidence"
    ELSE IF sig.score # NoScore /\ sig.score >= 8 THEN "high_score"
    ELSE "insufficient_signal"

\* _compute_skip_reason: read off the request as it is now.
SkipReason ==
    IF ~route.advisor \/ cfg.turns < 1 \/ OfType(events, "reflect_critique") = {}
    THEN "insufficient_signal"
    ELSE SkipReasonOf(signal)

AdvisorDisabled ==
    /\ stage = "advise" /\ ~route.advisor
    /\ stage' = StageAfter("advise")
    /\ UNCHANGED <<loopVars, route, initial_answer, last_answer, advisorVars,
                   fallbacks_used, consulted>>

SkipAdvisor ==
    /\ stage = "advise" /\ route.advisor /\ advisor.at = "off"
    /\ SkipReason # "insufficient_signal"
    /\ events' = Append(events, [type |-> "advisor_skipped"])
    /\ skip' = SkipReason
    /\ stage' = StageAfter("advise")
    /\ UNCHANGED <<cfg, step, turn, answer, critique, usage, signal, fallbacks, route,
                   initial_answer, last_answer, advisor, reflector, advisor_score,
                   fallbacks_used, consulted>>

\* gather starts the advisor coroutine first; it runs its own skip check before
\* the reflector does anything, so the check cannot come out differently.
StartAdvisor ==
    /\ stage = "advise" /\ route.advisor /\ advisor.at = "off"
    /\ SkipReason = "insufficient_signal"
    /\ advisor' = Coroutine("advice")
    /\ reflector' = Coroutine(
           IF ~Together THEN "off" ELSE IF cfg.turns > 0 THEN "critique" ELSE "finished")
    /\ UNCHANGED <<loopVars, route, stage, initial_answer, last_answer, skip,
                   advisor_score, fallbacks_used, consulted>>

Advice == events[Max(OfType(events, "advisor"))].text

\* parse_advisor_response: the decision line, then the markers; anything else is
\* a revision.
Approves(advice) ==
    \/ advice.line = "APPROVE"
    \/ advice.line = "none" /\ advice.approve_marker

\* The call and the parse are one step; the plugins that follow are an await.
AdviceReturns(reply) ==
    /\ advisor.at = "advice"
    /\ usage' = usage + 1
    /\ events' = Append(events,
                     [type |-> "advisor", text |-> reply.text, judged |-> answer])
                 \o Optional(reply.text.score # NoScore, [type |-> "advisor_score"])
    /\ advisor_score' = IF reply.text.score # NoScore THEN reply.text.score
                                                     ELSE advisor_score
    /\ advisor' = [advisor EXCEPT !.at = "plugins", !.fallbacks = reply.fallbacks]
    /\ consulted' = consulted \o reply.fallbacks
    /\ UNCHANGED <<cfg, step, turn, answer, critique, signal, fallbacks, route, stage,
                   initial_answer, last_answer, reflector, skip, fallbacks_used>>

PluginsDone ==
    /\ advisor.at = "plugins"
    /\ \/ /\ Approves(Advice)
          /\ events' = Append(events, [type |-> "advisor_approve"])
          /\ advisor' = [advisor EXCEPT !.at = "finished", !.final = answer]
       \/ /\ ~Approves(Advice)
          /\ events' = Append(events,
                 [type |-> "advisor_revised", text |-> Advice.feedback])
          /\ advisor' = [advisor EXCEPT !.at = "revision"]
    /\ UNCHANGED <<cfg, step, turn, answer, critique, usage, signal, fallbacks, route,
                   stage, initial_answer, last_answer, reflector, skip, advisor_score,
                   fallbacks_used, consulted>>

Finish_DropsFallbacks(coroutine, reply) ==              \* variant
    [coroutine EXCEPT !.at = "finished", !.final = reply.text]

\* A coroutine returns its last reply and the fallbacks of all its calls.
Finish(coroutine, reply) ==
    [coroutine EXCEPT !.at = "finished", !.final = reply.text,
                      !.fallbacks = @ \o reply.fallbacks]

\* The primary model works the advisor's feedback into the answer.
AdvisorRevisionReturns(reply) ==
    /\ advisor.at = "revision"
    /\ usage' = usage + 1
    /\ events' = Append(events,
           [type |-> "advisor_revision", text |-> reply.text, judged |-> answer])
    /\ advisor' = Finish(advisor, reply)
    /\ consulted' = consulted \o reply.fallbacks
    /\ UNCHANGED <<cfg, step, turn, answer, critique, signal, fallbacks, route, stage,
                   initial_answer, last_answer, reflector, skip, advisor_score,
                   fallbacks_used>>

(***************************************************************************)
(* _run_self_reflection: one turn on the initial answer.  It looks at the  *)
(* bare confidence, leaves last_score alone and knows no malformed text.   *)
(***************************************************************************)
SelfClears(c) == cfg.early_exit /\ c.confidence >= cfg.threshold

\* `beside' marks the reflector's events; it is history.
SelfEvent(type, text) ==
    [type |-> type, turn |-> 0, text |-> text, judged |-> initial_answer, beside |-> TRUE]

SelfCritiqueReturns(reply) ==
    /\ reflector.at = "critique"
    /\ usage' = usage + 1
    /\ events' = Append(events, SelfEvent("reflect_critique", reply.text))
           \o Optional(cfg.fresh_context /\ OfType(events, "reflect_fresh_context") = {},
                       Note("reflect_fresh_context", 0))
           \o Optional(SelfClears(reply.text), SelfEvent("reflect_early_exit", reply.text))
    /\ signal' = [signal EXCEPT !.confidence = reply.text.confidence]
    /\ reflector' = [reflector EXCEPT
           !.at = IF SelfClears(reply.text) THEN "finished" ELSE "revision",
           !.fallbacks = reply.fallbacks]
    /\ consulted' = consulted \o reply.fallbacks
    /\ UNCHANGED <<cfg, step, turn, answer, critique, fallbacks, route, stage,
                   initial_answer, last_answer, advisor, skip, advisor_score,
                   fallbacks_used>>

SelfRevisionReturns(reply) ==
    /\ reflector.at = "revision"
    /\ usage' = usage + 1
    /\ events' = Append(events, SelfEvent("reflect_revised", reply.text))
    /\ reflector' = Finish(reflector, reply)
    /\ consulted' = consulted \o reply.fallbacks
    /\ UNCHANGED <<cfg, step, turn, answer, critique, signal, fallbacks, route, stage,
                   initial_answer, last_answer, advisor, skip, advisor_score,
                   fallbacks_used>>

Awaiting(coroutine) == coroutine.at \in {"advice", "plugins", "critique", "revision"}

Joined_AdvisorOnly == advisor.at = "finished"                              \* variant
Joined_Both == advisor.at = "finished" /\ reflector.at = "finished"        \* variant

\* gather waits for every coroutine it was given.
Joined == advisor.at = "finished" /\ ~Awaiting(reflector)

AdvisorAnswer_Reflector == IF Together THEN reflector.final ELSE advisor.final  \* variant

\* Of two answers the advisor's is kept.
AdvisorAnswer == advisor.final

EndAdvisor ==
    /\ stage = "advise"
    /\ Joined
    /\ answer' = AdvisorAnswer
    /\ fallbacks_used' = fallbacks_used \o advisor.fallbacks \o reflector.fallbacks
    /\ stage' = StageAfter("advise")
    /\ UNCHANGED <<cfg, step, turn, critique, events, usage, signal, fallbacks, route,
                   initial_answer, last_answer, advisorVars, consulted>>

(***************************************************************************)
(* Failures                                                                *)
(***************************************************************************)
InitialRaises ==
    /\ stage = "initial"
    /\ stage' = "raised"
    /\ UNCHANGED <<loopVars, route, initial_answer, last_answer, advisorVars,
                   fallbacks_used, consulted>>

\* A call or a plugin raises.  gather(return_exceptions=False) hands the first
\* exception to the caller and leaves the other coroutine running.
AdvisorRaises ==
    /\ stage \in {"advise", "raised"} /\ Awaiting(advisor)
    /\ advisor' = [advisor EXCEPT !.at = "failed"]
    /\ stage' = "raised"
    /\ UNCHANGED <<loopVars, route, initial_answer, last_answer, reflector, skip,
                   advisor_score, fallbacks_used, consulted>>

ReflectorRaises ==
    /\ stage \in {"advise", "raised"} /\ Awaiting(reflector)
    /\ reflector' = [reflector EXCEPT !.at = "failed"]
    /\ stage' = "raised"
    /\ UNCHANGED <<loopVars, route, initial_answer, last_answer, advisor, skip,
                   advisor_score, fallbacks_used, consulted>>

CallOrStage ==
    \/ \E reply \in InitialReplies : InitialReturns(reply)
    \/ StartReflection \/ EndReflection \/ ReflectionRaises
    \/ \E reply \in CritiqueReplies :
           ReflectionCritique(reply) \/ SelfCritiqueReturns(reply)
    \/ \E reply \in RevisionReplies :
           \/ ReflectionRevision(reply)
           \/ AdvisorRevisionReturns(reply)
           \/ SelfRevisionReturns(reply)
    \/ AdvisorDisabled \/ SkipAdvisor \/ StartAdvisor \/ EndAdvisor
    \/ \E reply \in AdvisorReplies : AdviceReturns(reply)
    \/ InitialRaises \/ (AdvisorRaises /\ advisor.at # "plugins") \/ ReflectorRaises

\* Plugins are code of the operator's; nothing makes them come back.
Plugins == PluginsDone \/ (AdvisorRaises /\ advisor.at = "plugins")

PipelineNext == CallOrStage \/ Plugins

\* Assumed: every awaited call ends.  The read timeout of the adapter ends one
\* whose upstream falls silent, and the loops of a walk are bounded; an upstream
\* that trickles on for ever within the timeout is left out.
Pipeline == PipelineInit /\ [][PipelineNext]_vars /\ WF_vars(CallOrStage)

-----------------------------------------------------------------------------
(***************************************************************************)
(* Properties                                                              *)
(***************************************************************************)
LogTypes == {"initial", "reflect_critique", "reflect_fresh_context", "reflect_score",
             "reflect_revised", "reflect_early_exit", "advisor", "advisor_score",
             "advisor_approve", "advisor_revised", "advisor_revision", "advisor_skipped"}

CoroutineOK(c, awaits) ==
    c \in [at : awaits \cup {"off", "finished", "failed"}, final : Texts,
           fallbacks : Seq(Models)]

PipelineTypeOK ==
    /\ cfg \in Configs /\ route \in Routes
    /\ stage \in {"initial", "reflect", "advise", "done", "raised", "hung"}
    /\ step \in {"idle", "critique", "revision", "done", "raised"}
    /\ step \in {"critique", "revision"} => turn \in 0..(cfg.turns - 1)
    /\ answer \in Texts /\ initial_answer \in Texts /\ last_answer \in Texts
    /\ critique \in CritiqueTexts
    /\ \A i \in DOMAIN events : events[i].type \in LogTypes
    /\ usage \in Nat /\ signal \in [confidence : Nat, score : Nat \cup {NoScore}]
    /\ CoroutineOK(advisor, {"advice", "plugins", "revision"})
    /\ CoroutineOK(reflector, {"critique", "revision"})
    /\ skip \in {"none", "confidence", "high_score"}
    /\ advisor_score \in Nat \cup {NoScore}
    /\ \A f \in {fallbacks, fallbacks_used, consulted} : f \in Seq(Models)

OnPath(i) == "beside" \notin DOMAIN events[i]

AnswerGiven(i) ==
    OnPath(i) /\ events[i].type \in {"initial", "reflect_revised", "advisor_revision"}

\* An answer given is kept for the stages after, unless the loop drops it.
AnswerKept(i) ==
    AnswerGiven(i) /\ ~(events[i].type = "reflect_revised" /\ Dropped(events[i].text))

LatestGiven(before) ==
    events[Max({i \in DOMAIN events : i < before /\ AnswerGiven(i)})].text
LatestKept(before) ==
    events[Max({i \in DOMAIN events : i < before /\ AnswerKept(i)})].text

OfLoop(i) == events[i].type \in {"reflect_critique", "reflect_revised"}

\* Stages hand the answer on: whatever the order of the stages, every critique
\* and revision of the loop works on the answer given last before it, the
\* advisor's calls on the answer kept last, the reflector beside the advisor on
\* the initial one, and the response carries the answer kept last.
AnswersChain ==
    /\ \A i \in DOMAIN events :
           "judged" \in DOMAIN events[i] =>
               events[i].judged = IF ~OnPath(i) THEN initial_answer
                                  ELSE IF OfLoop(i) THEN LatestGiven(i)
                                  ELSE LatestKept(i)
    /\ stage = "done" => answer = LatestKept(Len(events) + 1)

Critiques == {i \in OfType(events, "reflect_critique") : OnPath(i)}
Skipped == OfType(events, "advisor_skipped") # {}
Advised == OfType(events, "advisor") # {}

\* The verdict the advisor pass is spared for is that of the last critique: with
\* reflection first, a finished run has skipped a configured advisor exactly if
\* the last critique was confident (85%) or scored high (8), and has called it
\* otherwise; with advice first it never skips.
SkipFollowsLastCritique ==
    stage = "done" /\ route.advisor =>
        /\ Skipped <=> ~Advised
        /\ IF route.order = "reflect_first" /\ Critiques # {}
           THEN LET last == events[Max(Critiques)].text
                IN  /\ Skipped <=> last.confidence >= 85 \/ last.score >= 8
                    /\ skip = "confidence" <=> last.confidence >= 85
           ELSE Advised

\* An early exit of the loop is earned by the critique right before it: a
\* critique that gave a signal, and a signal that reaches the threshold.
EarlyExitEarned ==
    \A i \in OfType(events, "reflect_early_exit") :
        OnPath(i) =>
            LET c == events[Max({j \in Critiques : j < i})].text
            IN  /\ cfg.early_exit
                /\ c.marked \/ c.score # NoScore
                /\ Combined(cfg, c) >= 100 * cfg.threshold

Times(m, s) == Cardinality({i \in DOMAIN s : s[i] = m})

\* The fallbacks header reports every fallback every call consulted, as often as
\* it was, whichever stages and coroutines the calls came from.
FallbacksAllReported ==
    stage = "done" => \A m \in Models : Times(m, fallbacks_used) = Times(m, consulted)

\* A run that goes on or comes back with a response has no coroutine running
\* that could still touch the request.
PathsJoined ==
    stage \in {"reflect", "done"} => ~Awaiting(advisor) /\ ~Awaiting(reflector)

\* A run ends in a response or an exception unless a plugin never comes back or
\* a turn of the parallel reflection loop raised.
RunEnds ==
    \/ <>(stage \in {"done", "raised", "hung"})
    \/ <>[](advisor.at = "plugins")

\* build_response_headers
SkipReasonHeader == IF skip # "none" THEN skip ELSE SkipReason

\* The documented meaning of x-moaxy-skip-reason: a reason other than
\* insufficient_signal means that the advisor was skipped.
ReasonMeansSkipped ==
    stage = "done" /\ SkipReasonHeader # "insufficient_signal" => Skipped

\* The documented intention of the parallel advisor: when a path raises, the
\* gather is torn down cleanly.
TornDownCleanly == stage = "raised" => ~Awaiting(advisor) /\ ~Awaiting(reflector)
=============================================================================
