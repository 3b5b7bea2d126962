------------------------- MODULE ReflectionParallel -------------------------
(***************************************************************************)
(* Orchestrator._run_reflection_parallel: one asyncio task per turn, all   *)
(* created at once and gathered with return_exceptions=True.  Task t waits *)
(* for turn_ready[t], set by task t - 1 once it has a revision; an early   *)
(* exit cancels the tasks still waiting.  Code between two awaits is one   *)
(* step.  The caller may be cancelled meanwhile (a streaming client leaves)*)
(* and asyncio.gather then cancels every task.                             *)
(***************************************************************************)
EXTENDS ReflectionTurn, FiniteSetsExt, SequencesExt

CONSTANT Blank              \* the empty answer
ASSUME BlankAssumption == Blank \in Texts

VARIABLES
    cfg,
    current_answer,  \* the answer the loop starts from
    task,            \* task[t]: "blocked" on turn_ready[t]; awaiting a "critique"
                     \* or a "revision"; "cancelling"; then ended
    turn_ready,
    latest_answers,
    heard,           \* heard[t]: the critique task t holds
    result,          \* result[t]: text and fallbacks task t has gathered
    gather,          \* "waiting", "cancelling", then "done", "raised", "cancelled"
    last_answer, total_fallbacks,     \* what the loop returns
    events, usage, signal             \* the request's context

shared == <<events, usage, signal>>
outcome == <<last_answer, total_fallbacks>>
vars == <<cfg, current_answer, task, turn_ready, latest_answers, heard, result,
          gather, outcome, shared>>

Tasks == 0..(cfg.turns - 1)
InFlight == {t \in Tasks : task[t] \in {"critique", "revision"}}
Ended == {"returned", "cancelled", "failed"}
Returned == {t \in Tasks : task[t] = "returned"}
Failed == {t \in Tasks : task[t] = "failed"}

NoCritique == [marked |-> FALSE, confidence |-> 0, score |-> NoScore]
NothingYet == [text |-> Blank, fallbacks |-> << >>]

\* _run_reflection_stage calls the loop only for turns > 0.
Init ==
    /\ cfg \in {c \in Configs : c.turns > 0}
    /\ current_answer \in Texts
    /\ task = [t \in Tasks |-> "blocked"]
    /\ turn_ready = [t \in Tasks |-> t = 0]
    /\ latest_answers = [t \in Tasks |-> IF t = 0 THEN current_answer ELSE Blank]
    /\ heard = [t \in Tasks |-> NoCritique]
    /\ result = [t \in Tasks |-> NothingYet]
    /\ gather = "waiting"
    /\ last_answer = current_answer
    /\ total_fallbacks = << >>
    /\ events = << >>
    /\ usage = 0
    /\ signal = NoSignal

TurnStarts_Unwaited(t) ==                       \* variant: no turn_ready
    /\ task[t] = "blocked"
    /\ task' = [task EXCEPT ![t] = "critique"]
    /\ UNCHANGED <<cfg, current_answer, turn_ready, latest_answers, heard, result,
                   gather, outcome, shared>>

\* await turn_ready[turn].wait() returns and the critique is dispatched.
TurnStarts(t) ==
    /\ task[t] = "blocked"
    /\ turn_ready[t]
    /\ task' = [task EXCEPT ![t] = "critique"]
    /\ UNCHANGED <<cfg, current_answer, turn_ready, latest_answers, heard, result,
                   gather, outcome, shared>>

CritiqueReturns(t, reply) ==
    /\ task[t] = "critique"
    /\ heard' = [heard EXCEPT ![t] = reply.text]
    /\ result' = [result EXCEPT
           ![t] = [text |-> latest_answers[t], fallbacks |-> reply.fallbacks]]
    /\ events' =
           events \o CritiqueEvents(cfg, events, t, reply.text, latest_answers[t])
    /\ usage' = usage + 1
    /\ signal' = Signal(reply.text)
    /\ task' = [task EXCEPT ![t] =
           IF ExitsUnrevised(cfg, t, reply.text) THEN "returned" ELSE "revision"]
    /\ UNCHANGED <<cfg, current_answer, turn_ready, latest_answers, gather, outcome>>

StopOtherTasks_Nobody(t) == [task EXCEPT ![t] = "returned"]   \* variant

\* An early exit of task t: every other task not done is cancelled, provided
\* some later turn is not ready yet.
StopOtherTasks(t) ==
    [u \in Tasks |->
        IF u = t THEN "returned"
        ELSE IF task[u] \notin Ended /\ \E later \in Tasks :
                                            later > t /\ ~turn_ready[later]
             THEN "cancelling"
             ELSE task[u]]

RevisionReturns_NoReturn(t, reply) ==   \* variant: exits but goes on to step 4
    /\ task[t] = "revision"
    /\ result' = [result EXCEPT
           ![t] = [text |-> reply.text, fallbacks |-> @.fallbacks \o reply.fallbacks]]
    /\ events' = events
           \o RevisionEvents(cfg, t, heard[t], reply.text, latest_answers[t])
    /\ usage' = usage + 1
    /\ turn_ready' = [turn_ready EXCEPT ![t + 1] = TRUE]
    /\ latest_answers' = [latest_answers EXCEPT ![t + 1] = reply.text]
    /\ task' = [task EXCEPT ![t] = "returned"]
    /\ UNCHANGED <<cfg, current_answer, heard, gather, outcome, signal>>

RevisionReturns(t, reply) ==
    /\ task[t] = "revision"
    /\ result' = [result EXCEPT
           ![t] = [text |-> reply.text, fallbacks |-> @.fallbacks \o reply.fallbacks]]
    /\ events' = events
           \o RevisionEvents(cfg, t, heard[t], reply.text, latest_answers[t])
    /\ usage' = usage + 1
    /\ IF ClearsThreshold(cfg, heard[t])
       THEN /\ task' = StopOtherTasks(t)
            /\ UNCHANGED <<turn_ready, latest_answers>>
       ELSE /\ task' = [task EXCEPT ![t] = "returned"]
            /\ IF LastTurn(cfg, t)
               THEN UNCHANGED <<turn_ready, latest_answers>>
               ELSE /\ latest_answers' = [latest_answers EXCEPT ![t + 1] = reply.text]
                    /\ turn_ready' = [turn_ready EXCEPT ![t + 1] = TRUE]
    /\ UNCHANGED <<cfg, current_answer, heard, gather, outcome, signal>>

\* An exception of the walker leaves _turn_pair uncaught: the next turn's event
\* is never set.
CallRaises(t) ==
    /\ t \in InFlight
    /\ task' = [task EXCEPT ![t] = "failed"]
    /\ UNCHANGED <<cfg, current_answer, turn_ready, latest_answers, heard, result,
                   gather, outcome, shared>>

CancellationArrives(t) ==
    /\ task[t] = "cancelling"
    /\ task' = [task EXCEPT ![t] = "cancelled"]
    /\ UNCHANGED <<cfg, current_answer, turn_ready, latest_answers, heard, result,
                   gather, outcome, shared>>

\* The awaiting caller is cancelled: gather cancels whatever is not done.
CallerCancelled ==
    /\ gather = "waiting"
    /\ gather' = "cancelling"
    /\ task' = [t \in Tasks |-> IF task[t] \in Ended THEN task[t] ELSE "cancelling"]
    /\ UNCHANGED <<cfg, current_answer, turn_ready, latest_answers, heard, result,
                   outcome, shared>>

LastRevised_First(answers, default) ==      \* variant: keeps the first one
    LET truthy == {t \in Returned : answers[t].text # Blank}
    IN  IF truthy = {} THEN default ELSE answers[Min(truthy)].text

\* `if revised: last_answer = revised', in task order.
LastRevised(answers, default) ==
    LET truthy == {t \in Returned : answers[t].text # Blank}
    IN  IF truthy = {} THEN default ELSE answers[Max(truthy)].text

FallbacksOf(turns) ==
    FlattenSeq([i \in 1..cfg.turns |->
        IF i - 1 \in turns THEN result[i - 1].fallbacks ELSE << >>])

GatherReturns ==
    /\ gather \in {"waiting", "cancelling"}
    /\ \A t \in Tasks : task[t] \in Ended
    /\ IF gather = "waiting" /\ Failed = {}
       THEN /\ gather' = "done"
            /\ last_answer' = LastRevised(result, current_answer)
            /\ total_fallbacks' = FallbacksOf(Returned)
       ELSE /\ gather' = IF gather = "waiting" THEN "raised" ELSE "cancelled"
            /\ UNCHANGED outcome
    /\ UNCHANGED <<cfg, current_answer, task, turn_ready, latest_answers, heard,
                   result, shared>>

TaskStep(t) ==
    \/ TurnStarts(t)
    \/ \E reply \in CritiqueReplies : CritiqueReturns(t, reply)
    \/ \E reply \in RevisionReplies : RevisionReturns(t, reply)
    \/ CallRaises(t)
    \/ CancellationArrives(t)

Next == (\E t \in Tasks : TaskStep(t)) \/ CallerCancelled \/ GatherReturns

\* The event loop runs what is ready.  Assumed: every awaited call ends.  The
\* adapter's read timeout ends one whose upstream falls silent and the loops of
\* a walk are bounded; an upstream that trickles on for ever within the timeout
\* is left out.  Nobody has to leave.
Fairness == WF_vars(\E t \in Tasks : TaskStep(t)) /\ WF_vars(GatherReturns)

Spec == Init /\ [][Next]_vars /\ Fairness

-----------------------------------------------------------------------------
(***************************************************************************)
(* Properties                                                              *)
(***************************************************************************)
TypeOK ==
    /\ cfg \in Configs
    /\ current_answer \in Texts
    /\ task \in [Tasks -> {"blocked", "critique", "revision", "cancelling"} \cup Ended]
    /\ turn_ready \in [Tasks -> BOOLEAN]
    /\ latest_answers \in [Tasks -> Texts]
    /\ heard \in [Tasks -> CritiqueTexts]
    /\ result \in [Tasks -> [text : Texts, fallbacks : Seq(Models)]]
    /\ gather \in {"waiting", "cancelling", "done", "raised", "cancelled"}
    /\ last_answer \in Texts
    /\ total_fallbacks \in Seq(Models)
    /\ \A i \in DOMAIN events : events[i].turn \in Tasks
    /\ usage \in Nat
    /\ signal \in [confidence : Nat, score : Nat \cup {NoScore}]

\* All turns are gathered at once, yet the events keep them apart: two turns
\* never have a call in flight together, so no turn works on an answer that
\* another one is about to replace.
OneTurnInFlight == \A t, u \in InFlight : t = u

ExitLogged == OfType(events, "reflect_early_exit") # {}

\* Once a turn has taken the early exit the loop is over: no turn has a call in
\* flight or may still start one, and nothing more is logged.
EarlyExitIsFinal ==
    ExitLogged =>
        /\ OfType(events, "reflect_early_exit") = {Len(events)}
        /\ InFlight = {}
        /\ \A t \in Tasks : ~(task[t] = "blocked" /\ turn_ready[t])

(***************************************************************************)
(* The task graph implements the sequential loop: same log in the same     *)
(* order, same usage, same signal, same answer, same fallbacks.  Checked   *)
(* where no revision is blank; `if revised' breaks it otherwise.           *)
(***************************************************************************)
LoopOver == ExitLogged \/ Returned = Tasks

SequentialStep ==
    IF LoopOver THEN "done"
    ELSE IF Failed # {} \/ gather \notin {"waiting", "done"} THEN "raised"
    ELSE IF task[Cardinality(Returned)] = "revision" THEN "revision" ELSE "critique"

SequentialTurn == Cardinality(Returned) - (IF LoopOver THEN 1 ELSE 0)

SequentialAnswer ==
    IF Returned = {} THEN current_answer ELSE result[Max(Returned)].text

SequentialCritique ==
    LET n == Cardinality(OfType(events, "reflect_critique"))
    IN  IF n = 0 THEN NoCritique ELSE heard[n - 1]

Sequential == INSTANCE Reflection WITH
    step      <- SequentialStep,
    turn      <- SequentialTurn,
    answer    <- IF gather = "done" THEN last_answer ELSE SequentialAnswer,
    critique  <- SequentialCritique,
    fallbacks <- IF gather = "done" THEN total_fallbacks ELSE FallbacksOf(Tasks)

\* _run_reflection_parallel is _run_reflection as far as a caller can tell.
ImplementsSequential == Sequential!Spec

\* As its docstring promises, the parallel loop returns the answer the
\* sequential loop would: that of the last revision logged.
SameAnswerAsSequential == gather = "done" => last_answer = SequentialAnswer

\* Unless some turn raised, the gather completes: no turn is left waiting for an
\* event nobody will set.
EndsUnlessTurnFails ==
    <>(gather \in {"done", "raised", "cancelled"} \/ Failed # {})

\* As the code says of its results, an exception that is no cancellation is
\* re-raised: the failure of a turn reaches the caller.
FailureReachesCaller == Failed # {} ~> gather # "waiting"
=============================================================================
