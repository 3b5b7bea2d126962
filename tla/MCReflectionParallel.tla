------------------------ MODULE MCReflectionParallel ------------------------
(***************************************************************************)
(* Every number of turns the configuration allows; critiques that clear    *)
(* the threshold, miss it, are malformed, or have a score that tips the    *)
(* balance; a threshold of zero; revisions that needed a fallback.         *)
(***************************************************************************)
EXTENDS ReflectionParallel

CONSTANTS draft, better, backup, WithBlankRevisions

MCTexts == {draft, better, Blank}
MCModels == {backup}

Reply(text, fallbacks) == [text |-> text, fallbacks |-> fallbacks]
Says(confidence, score) ==
    [marked |-> TRUE, confidence |-> confidence, score |-> score]
Rambles == [marked |-> FALSE, confidence |-> 0, score |-> NoScore]

MCCritiqueReplies ==
    {Reply(Says(85, NoScore), << >>), Reply(Says(60, 9), <<backup>>),
     Reply(Says(60, 2), << >>), Reply(Rambles, << >>)}
MCRevisionReplies ==
    {Reply(draft, << >>), Reply(better, <<backup>>)}
        \cup IF WithBlankRevisions THEN {Reply(Blank, << >>)} ELSE {}

MCConfigs ==
    [turns : 1..3, early_exit : {TRUE}, fresh_context : {FALSE}, threshold : {0, 72},
     trust_verbal : {60}, trust_score : {40}]
    \cup [turns : {0, 2}, early_exit : BOOLEAN, fresh_context : {TRUE},
          threshold : {72}, trust_verbal : {60}, trust_score : {40}]
=============================================================================
