----------------------------- MODULE Reflection -----------------------------
(***************************************************************************)
(* Orchestrator._run_reflection: the sequential loop.  Every turn has the  *)
(* model criticise the current answer and then revise it, until the turns  *)
(* are spent or a critique is confident enough.  One LLM call (a whole     *)
(* walk along the fallback chain) is one step; it may raise.               *)
(***************************************************************************)
EXTENDS ReflectionTurn

VARIABLES
    cfg,         \* the route's reflection section
    step,        \* the call awaited: "critique" or "revision"; else "idle"
                 \* before the loop, "done" or "raised" after it
    turn,        \* the loop variable
    answer,      \* the answer the loop holds
    critique,    \* the last critique
    events,      \* ctx.events
    usage,       \* number of responses added to ctx.usage
    signal,      \* last_confidence and last_score of the request
    fallbacks    \* total_fallbacks

loopVars == <<cfg, step, turn, answer, critique, events, usage, signal, fallbacks>>

NoCritique == [marked |-> FALSE, confidence |-> 0, score |-> NoScore]

Init ==
    /\ cfg \in Configs
    /\ step = IF cfg.turns > 0 THEN "critique" ELSE "done"
    /\ turn = 0
    /\ answer \in Texts
    /\ critique = NoCritique
    /\ events = << >>
    /\ usage = 0
    /\ signal = NoSignal
    /\ fallbacks = << >>

CritiqueReturns(reply) ==
    /\ step = "critique"
    /\ critique' = reply.text
    /\ events' = events \o CritiqueEvents(cfg, events, turn, reply.text, answer)
    /\ usage' = usage + 1
    /\ signal' = Signal(reply.text)
    /\ fallbacks' = fallbacks \o reply.fallbacks
    /\ step' = IF ExitsUnrevised(cfg, turn, reply.text) THEN "done" ELSE "revision"
    /\ UNCHANGED <<cfg, turn, answer>>

RevisionReturns(reply) ==
    /\ step = "revision"
    /\ answer' = reply.text
    /\ events' = events \o RevisionEvents(cfg, turn, critique, reply.text, answer)
    /\ usage' = usage + 1
    /\ fallbacks' = fallbacks \o reply.fallbacks
    /\ IF LastTurn(cfg, turn) \/ ClearsThreshold(cfg, critique)
       THEN step' = "done" /\ UNCHANGED turn
       ELSE step' = "critique" /\ turn' = turn + 1
    /\ UNCHANGED <<cfg, critique, signal>>

\* Whatever the awaited call raises, a cancellation included, ends the loop.
CallRaises ==
    /\ step \in {"critique", "revision"}
    /\ step' = "raised"
    /\ UNCHANGED <<cfg, turn, answer, critique, events, usage, signal, fallbacks>>

Next ==
    \/ \E reply \in CritiqueReplies : CritiqueReturns(reply)
    \/ \E reply \in RevisionReplies : RevisionReturns(reply)
    \/ CallRaises

Spec == Init /\ [][Next]_loopVars
=============================================================================
