--------------------------- MODULE ReflectionTurn ---------------------------
(***************************************************************************)
(* What one turn of reflection decides and records, whichever loop runs    *)
(* it: the signal read off a critique, the early-exit decision and the     *)
(* events appended to the request's log.  No state: definitions only.      *)
(***************************************************************************)
EXTENDS Integers, Sequences

CONSTANTS Configs,          \* reflection sections of the matched routes
          Texts,            \* answers a model gives
          CritiqueReplies,  \* what a critique call can return
          RevisionReplies,  \* what a revision call can return
          Models

NoScore == -1       \* parse_score returned None

\* A critique is reduced to what the parsers see: is the REFLECT_CONFIDENCE:
\* marker anywhere in the text, the confidence parsed (in percent; 0 when there
\* is none) and the SCORE: parsed.
CritiqueTexts ==
    {c \in [marked : BOOLEAN, confidence : Nat, score : Nat \cup {NoScore}] :
        c.marked \/ c.confidence = 0}

\* Thresholds and trust weights in percent.
ReflectionConfigs ==
    [turns : Nat, early_exit : BOOLEAN, fresh_context : BOOLEAN,
     threshold : 0..100, trust_verbal : Nat, trust_score : Nat]

ASSUME ConfigsAssumption == Configs \subseteq ReflectionConfigs

ASSUME RepliesAssumption ==
    /\ CritiqueReplies \subseteq [text : CritiqueTexts, fallbacks : Seq(Models)]
    /\ RevisionReplies \subseteq [text : Texts, fallbacks : Seq(Models)]

(***************************************************************************)
(* The early-exit decision                                                 *)
(***************************************************************************)

\* parse_weighted_signal, in ten-thousandths: the weighted sum of confidence
\* and score, or the bare confidence when there is no score.
Combined(cfg, c) ==
    IF c.score = NoScore
    THEN 100 * c.confidence
    ELSE cfg.trust_verbal * c.confidence + cfg.trust_score * 10 * c.score

Malformed(c) == ~c.marked /\ c.score = NoScore

ClearsThreshold_Malformed(cfg, c) ==       \* variant: malformed text may clear
    cfg.early_exit /\ Combined(cfg, c) >= 100 * cfg.threshold

ClearsThreshold(cfg, c) ==
    cfg.early_exit /\ Combined(cfg, c) >= 100 * cfg.threshold /\ ~Malformed(c)

LastTurn_OffByOne(cfg, t) == t = cfg.turns      \* variant

LastTurn(cfg, t) == t = cfg.turns - 1

\* Only on the last turn does the early exit spare the revision.
ExitsUnrevised(cfg, t, c) == LastTurn(cfg, t) /\ ClearsThreshold(cfg, c)

(***************************************************************************)
(* The event log.  `judged', the answer a call worked on, is history.      *)
(***************************************************************************)
Critiqued(t, c, answer) ==
    [type |-> "reflect_critique", turn |-> t, text |-> c, judged |-> answer]

Revised_CountedFromOne(t, text, answer) ==      \* variant
    [type |-> "reflect_revised", turn |-> t + 1, text |-> text, judged |-> answer]

Revised(t, text, answer) ==
    [type |-> "reflect_revised", turn |-> t, text |-> text, judged |-> answer]

Note(type, t) == [type |-> type, turn |-> t]

EarlyExit(t) == Note("reflect_early_exit", t)

OfType(log, type) == {i \in DOMAIN log : log[i].type = type}

Optional(condition, event) == IF condition THEN <<event>> ELSE << >>

\* The fresh-context flag on the request is set exactly when its event is
\* appended, so the log stands for it.
CritiqueEvents(cfg, log, t, c, answer) ==
    <<Critiqued(t, c, answer)>>
    \o Optional(cfg.fresh_context /\ OfType(log, "reflect_fresh_context") = {},
                Note("reflect_fresh_context", t))
    \o Optional(c.score # NoScore, Note("reflect_score", t))
    \o Optional(ExitsUnrevised(cfg, t, c), EarlyExit(t))

RevisionEvents(cfg, t, c, text, answer) ==
    <<Revised(t, text, answer)>> \o Optional(ClearsThreshold(cfg, c), EarlyExit(t))

\* last_confidence and last_score, stamped on the request for later stages.
Signal(c) == [confidence |-> c.confidence, score |-> c.score]
NoSignal  == [confidence |-> 0, score |-> NoScore]
=============================================================================
