--------------------------- MODULE MCStreamWalker ---------------------------
(***************************************************************************)
(* Chains of up to three models, up to two attempts each, up to two deltas *)
(* an attempt: an attempt may break before, between and after its deltas.  *)
(***************************************************************************)
EXTENDS StreamWalker

CONSTANTS primary, backup, spare

MCModels == {primary, backup, spare}
MCChains == {<< >>, <<primary>>, <<primary, backup>>, <<primary, backup, spare>>}
MCRetries == {-1, 0, 1}
MCStatuses == {200, 429, 500}
=============================================================================
