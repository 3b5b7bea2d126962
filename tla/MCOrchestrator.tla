--------------------------- MODULE MCOrchestrator ---------------------------
(***************************************************************************)
(* Both stage orders, the advisor off, on and beside the reflector; up to  *)
(* two turns; critiques on either side of every threshold; empty           *)
(* revisions.                                                              *)
(***************************************************************************)
EXTENDS Orchestrator

CONSTANTS draft, better, backup, turnLimit

MCTexts == {draft, better, Blank}
MCModels == {backup}

Reply(text, models) == [text |-> text, fallbacks |-> models]
Says(confidence, score) ==
    [marked |-> TRUE, confidence |-> confidence, score |-> score]
Rambles == [marked |-> FALSE, confidence |-> 0, score |-> NoScore]

MCInitialReplies == {Reply(draft, <<backup>>), Reply(Blank, << >>)}
MCCritiqueReplies ==
    {Reply(Says(85, NoScore), << >>), Reply(Says(84, 7), << >>),
     Reply(Says(60, 8), <<backup>>), Reply(Rambles, << >>)}
MCRevisionReplies == {Reply(Blank, << >>), Reply(better, <<backup>>)}

Advises(line, approve, revise, score) ==
    [line |-> line, approve_marker |-> approve, revise_marker |-> revise,
     score |-> score, feedback |-> better]
MCAdvisorReplies ==
    {Reply(Advises("none", TRUE, FALSE, 7), << >>),
     Reply(Advises("REVISE", TRUE, TRUE, NoScore), <<backup>>),
     Reply(Advises("none", FALSE, FALSE, NoScore), << >>)}

MCConfigs ==
    [turns : {0}, early_exit : {TRUE}, fresh_context : {TRUE}, threshold : {72},
     trust_verbal : {60}, trust_score : {40}]
    \cup [turns : 1..turnLimit, early_exit : {TRUE}, fresh_context : {TRUE},
          threshold : {0, 72}, trust_verbal : {60}, trust_score : {40}]
MCRoutes ==
    [order : {"reflect_first", "advise_first"}, advisor : {TRUE},
     reflect_parallel : BOOLEAN, advisor_parallel : BOOLEAN]
    \cup [order : {"reflect_first"}, advisor : {FALSE}, reflect_parallel : BOOLEAN,
          advisor_parallel : {FALSE}]
=============================================================================
