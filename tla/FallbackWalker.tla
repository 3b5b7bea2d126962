--------------------------- MODULE FallbackWalker ---------------------------
(***************************************************************************)
(* fallback.call_with_fallbacks: the buffered walker.  One behaviour is    *)
(* one call.  It tries each model of `chain' up to max(retry, 0) + 1 times *)
(* and moves on only after transient failures.                             *)
(***************************************************************************)
EXTENDS Upstream, Sequences

CONSTANTS Models,    \* model names an adapter understands
          Chains,    \* the `models' argument: primary first, then fallbacks
          Retries    \* the `retry' argument; negative values count as zero

ASSUME ChainsAssumption == Chains \subseteq Seq(Models)
ASSUME RetriesAssumption == Retries \subseteq Int

VARIABLES
    chain, retry, modelKwarg,   \* the arguments
    phase,           \* "entry", then "calling" until "returned" or "raised"
    index, attempt,  \* the two for-loops: position in chain, attempts failed
    fallbacks_used,
    last_error,
    raised,          \* "nothing", "upstream" (re-raised as it came),
                     \* "exhausted" or "typeerror"
    tries            \* history: calls made so far to each position of chain

args == <<chain, retry, modelKwarg>>
vars == <<args, phase, index, attempt, fallbacks_used, last_error, raised, tries>>

AttemptsPerModel == (IF retry > 0 THEN retry ELSE 0) + 1

Init ==
    /\ chain \in Chains
    /\ retry \in Retries
    /\ modelKwarg \in BOOLEAN
    /\ phase = "entry"
    /\ index = 1
    /\ attempt = 0
    /\ fallbacks_used = << >>
    /\ last_error = NoError
    /\ raised = "nothing"
    /\ tries = [i \in 1..Len(chain) |-> 0]

Raise(what) ==
    /\ phase' = "raised"
    /\ raised' = what

\* An empty model list is exhausted before any call; a `model' keyword is a
\* programming error of the call site.
RefuseArguments ==
    /\ phase = "entry"
    /\ \/ chain = << >> /\ Raise("exhausted")
       \/ chain # << >> /\ modelKwarg /\ Raise("typeerror")
    /\ UNCHANGED <<args, index, attempt, fallbacks_used, last_error, tries>>

StartWalk ==
    /\ phase = "entry"
    /\ chain # << >> /\ ~modelKwarg
    /\ phase' = "calling"
    /\ UNCHANGED <<args, index, attempt, fallbacks_used, last_error, raised, tries>>

CountTry == tries' = [tries EXCEPT ![index] = @ + 1]

NoteModel_WithPrimary == fallbacks_used' = Append(fallbacks_used, chain[index])

\* A fallback enters fallbacks_used when it answers and when its budget is
\* spent; the primary never does.
NoteModel ==
    fallbacks_used' = IF index > 1 THEN Append(fallbacks_used, chain[index])
                                   ELSE fallbacks_used

CallSucceeds ==
    /\ phase = "calling"
    /\ CountTry
    /\ NoteModel
    /\ phase' = "returned"
    /\ UNCHANGED <<args, index, attempt, last_error, raised>>

\* A permanent UpstreamError is recorded and re-raised; an exception of another
\* family is not caught at all.
CallFailsForGood(e) ==
    /\ phase = "calling"
    /\ ~IsTransient(e)
    /\ CountTry
    /\ last_error' = IF IsUpstreamError(e) THEN e ELSE last_error
    /\ Raise("upstream")
    /\ UNCHANGED <<args, index, attempt, fallbacks_used>>

CallFailsRetry_OneTooMany(e) ==
    /\ phase = "calling"
    /\ IsTransient(e)
    /\ attempt + 1 <= AttemptsPerModel
    /\ CountTry
    /\ last_error' = e
    /\ attempt' = attempt + 1
    /\ UNCHANGED <<args, phase, index, fallbacks_used, raised>>

CallFailsRetry(e) ==
    /\ phase = "calling"
    /\ IsTransient(e)
    /\ attempt + 1 < AttemptsPerModel
    /\ CountTry
    /\ last_error' = e
    /\ attempt' = attempt + 1
    /\ UNCHANGED <<args, phase, index, fallbacks_used, raised>>

CallFailsNextModel_PastTheEnd(e) ==
    /\ phase = "calling"
    /\ IsTransient(e)
    /\ attempt + 1 >= AttemptsPerModel
    /\ CountTry
    /\ NoteModel
    /\ last_error' = e
    /\ index' = index + 1
    /\ attempt' = 0
    /\ UNCHANGED <<args, phase, raised>>

CallFailsNextModel(e) ==
    /\ phase = "calling"
    /\ IsTransient(e)
    /\ attempt + 1 >= AttemptsPerModel
    /\ CountTry
    /\ NoteModel
    /\ last_error' = e
    /\ \/ /\ index < Len(chain)
          /\ index' = index + 1
          /\ attempt' = 0
          /\ UNCHANGED <<phase, raised>>
       \/ /\ index >= Len(chain)
          /\ Raise("exhausted")
          /\ UNCHANGED <<index, attempt>>
    /\ UNCHANGED args

CallFails(e) == CallFailsForGood(e) \/ CallFailsRetry(e) \/ CallFailsNextModel(e)

Next ==
    \/ RefuseArguments
    \/ StartWalk
    \/ CallSucceeds
    \/ \E e \in ChatErrors : CallFails(e)

\* Nothing makes an upstream call end: the adapter's timeout bounds one read.
Spec == Init /\ [][Next]_vars

-----------------------------------------------------------------------------
(***************************************************************************)
(* Properties                                                              *)
(***************************************************************************)
Consulted == {i \in 1..Len(chain) : tries[i] > 0}

\* The arguments never change, the loop counters stay in range and the history
\* counts within the budget.
TypeOK ==
    /\ chain \in Chains
    /\ retry \in Retries
    /\ modelKwarg \in BOOLEAN
    /\ phase \in {"entry", "calling", "returned", "raised"}
    /\ index \in Nat \ {0}
    /\ phase = "calling" => index <= Len(chain)
    /\ attempt \in 0..AttemptsPerModel - 1
    /\ fallbacks_used \in Seq(Models)
    /\ last_error \in Errors \cup {NoError}
    /\ raised \in {"nothing", "upstream", "exhausted", "typeerror"}
    /\ tries \in [1..Len(chain) -> Nat]

\* However the failures fall, no model of the chain is called more often than
\* its retry budget allows, and none is called at all before every model ahead
\* of it has failed as often as its budget allows (the nested loops of
\* call_with_fallbacks with their break and continue).
BudgetSpentInOrder ==
    \A i \in 1..Len(chain) :
        /\ tries[i] <= AttemptsPerModel
        /\ tries[i] > 0 => \A j \in 1..(i - 1) : tries[j] = AttemptsPerModel

\* The caller is told that the backends are exhausted only when every model has
\* spent its whole budget and the last word was a transient failure, so that
\* the proxy never blames the client (400) for an exhausted chain.
ExhaustedMeansSpent ==
    raised = "exhausted" =>
        /\ \A i \in 1..Len(chain) : tries[i] = AttemptsPerModel
        /\ chain # << >> => IsTransient(last_error)
        /\ ClientStatus(last_error, TRUE) \in {502, 503, 504}

(***************************************************************************)
(* The walker keeps the promise of Failover.  A TypeError is a refusal of  *)
(* the call site's arguments.                                              *)
(***************************************************************************)
VerdictNow ==
    IF phase = "returned" THEN "answered"
    ELSE IF phase # "raised" THEN "pending"
    ELSE IF raised = "exhausted" THEN "exhausted" ELSE "refused"

Promise == INSTANCE Failover WITH
    current  <- index,
    verdict  <- VerdictNow,
    reported <- IF phase = "returned" THEN fallbacks_used ELSE << >>

\* The loops implement the failover promise: in particular the list returned by
\* call_with_fallbacks names exactly the fallbacks consulted, in chain order.
ImplementsFailover == Promise!Spec
=============================================================================
