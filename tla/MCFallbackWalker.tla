-------------------------- MODULE MCFallbackWalker --------------------------
(***************************************************************************)
(* Chains of up to three models, a repeated model among them; budgets from *)
(* a negative value to two retries; one status of every class the code     *)
(* tells apart.                                                            *)
(***************************************************************************)
EXTENDS FallbackWalker

CONSTANTS primary, backup, spare

MCModels == {primary, backup, spare}
MCChains == {<< >>, <<primary>>, <<primary, backup>>, <<primary, primary>>,
             <<primary, backup, primary>>, <<primary, backup, spare>>}
MCRetries == {-1, 0, 1, 2}
MCStatuses == {200, 404, 429, 499, 500, 503}
=============================================================================
