---------------------------- MODULE MCStreamRun -----------------------------
(***************************************************************************)
(* Both stage orders, the advisor off, alone and beside the reflector; up  *)
(* to turnLimit turns; an initial answer of no, one or two deltas, empty   *)
(* ones among them; an advisor that approves, revises and revises with an  *)
(* empty feedback; empty revisions.                                        *)
(***************************************************************************)
EXTENDS StreamRun

CONSTANTS draft, better, backup, turnLimit

MCTexts == {draft, better, Blank}
MCModels == {backup}
MCDeltas == {draft, Blank}
MCFallbacks == {<<backup>>}

Reply(text, models) == [text |-> text, fallbacks |-> models]
Says(confidence, score) ==
    [marked |-> TRUE, confidence |-> confidence, score |-> score]

MCCritiqueReplies ==
    {Reply(Says(85, NoScore), << >>), Reply(Says(60, 7), <<backup>>)}
MCRevisionReplies == {Reply(Blank, << >>), Reply(better, << >>)}

Advises(line, feedback) ==
    [line |-> line, approve_marker |-> FALSE, revise_marker |-> FALSE,
     score |-> NoScore, feedback |-> feedback]
MCAdvisorReplies ==
    {Reply(Advises("APPROVE", Blank), << >>), Reply(Advises("REVISE", better), << >>),
     Reply(Advises("none", Blank), << >>)}

Section(turns) ==
    [turns |-> turns, early_exit |-> TRUE, fresh_context |-> FALSE, threshold |-> 72,
     trust_verbal |-> 60, trust_score |-> 40]
MCConfigs == {Section(turns) : turns \in 0..turnLimit}
MCRoutes ==
    [order : {"reflect_first", "advise_first"}, advisor : {TRUE},
     reflect_parallel : BOOLEAN, advisor_parallel : BOOLEAN]
    \cup [order : {"reflect_first"}, advisor : {FALSE}, reflect_parallel : BOOLEAN,
          advisor_parallel : {FALSE}]
=============================================================================
