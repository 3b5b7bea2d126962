------------------------------ MODULE Failover ------------------------------
(***************************************************************************)
(* What a fallback walker promises its caller, whatever the retry budget:  *)
(* the models of the chain are consulted in order; a model is left behind  *)
(* only because it failed in a way another model may cure; the first model *)
(* that answers ends the walk and the fallbacks reported are exactly those *)
(* consulted; a request the upstream refuses is never sent to another      *)
(* model; and when nothing is left the caller is told so.                  *)
(***************************************************************************)
EXTENDS Integers, Sequences

CONSTANT Chains   \* the model chains a caller may pass: primary, fallbacks

VARIABLES chain,     \* the chain of this call
          current,   \* position in `chain' of the model under trial
          verdict,   \* "pending" until the walk ends
          reported   \* what the caller is told of fallbacks consulted

fvars == <<chain, current, verdict, reported>>

Verdicts == {"pending", "answered", "refused", "exhausted"}

Init ==
    /\ chain \in Chains
    /\ current = 1
    /\ verdict = "pending"
    /\ reported = << >>

LeaveModel ==
    /\ verdict = "pending"
    /\ current < Len(chain)
    /\ current' = current + 1
    /\ UNCHANGED <<chain, verdict, reported>>

Answer ==
    /\ verdict = "pending"
    /\ current <= Len(chain)
    /\ verdict' = "answered"
    /\ reported' = SubSeq(chain, 2, current)
    /\ UNCHANGED <<chain, current>>

Refuse ==
    /\ verdict = "pending"
    /\ verdict' = "refused"
    /\ UNCHANGED <<chain, current, reported>>

Exhaust ==
    /\ verdict = "pending"
    /\ current >= Len(chain)
    /\ verdict' = "exhausted"
    /\ UNCHANGED <<chain, current, reported>>

Next == LeaveModel \/ Answer \/ Refuse \/ Exhaust

Spec == Init /\ [][Next]_fvars
=============================================================================
