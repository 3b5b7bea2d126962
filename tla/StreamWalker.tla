---------------------------- MODULE StreamWalker ----------------------------
(***************************************************************************)
(* fallback.call_with_fallbacks_stream: the walker as an async generator.  *)
(* It hands every text delta to its consumer as it arrives, so what a      *)
(* broken attempt has delivered cannot be taken back.  At a yield it waits *)
(* for the consumer, who may leave instead of asking for more.             *)
(***************************************************************************)
EXTENDS Upstream, Sequences, FiniteSets

CONSTANTS Models, Chains, Retries,   \* as for the buffered walker
          MaxDeltas   \* bound: deltas of one attempt

ASSUME StreamArgumentsAssumption ==
    Chains \subseteq Seq(Models) /\ Retries \subseteq Int /\ MaxDeltas \in Nat

VARIABLES
    chain, retry, modelKwarg,
    phase,            \* "entry"; "opening" the HTTP stream; "reading" it; "yielding"
                      \* to the consumer; then "returned", "raised" or "closed"
    index, attempt,
    last_error, raised,
    tries,            \* history: attempts started on each position of chain
    delivered         \* history: the deltas yielded, each with its attempt

args == <<chain, retry, modelKwarg>>
vars == <<args, phase, index, attempt, last_error, raised, tries, delivered>>

AttemptsPerModel == (IF retry > 0 THEN retry ELSE 0) + 1

Init ==
    /\ chain \in Chains /\ retry \in Retries /\ modelKwarg \in BOOLEAN
    /\ phase = "entry"
    /\ index = 1 /\ attempt = 0
    /\ last_error = NoError /\ raised = "nothing"
    /\ tries = [i \in 1..Len(chain) |-> 0]
    /\ delivered = << >>

Raise(what) == phase' = "raised" /\ raised' = what

RefuseArguments ==
    /\ phase = "entry"
    /\ \/ chain = << >> /\ Raise("exhausted")
       \/ chain # << >> /\ modelKwarg /\ Raise("typeerror")
    /\ UNCHANGED <<args, index, attempt, last_error, tries, delivered>>

StartAttempt(i, a) ==
    /\ phase' = "opening"
    /\ index' = i /\ attempt' = a
    /\ tries' = [tries EXCEPT ![i] = @ + 1]

StartWalk ==
    /\ phase = "entry"
    /\ chain # << >> /\ ~modelKwarg
    /\ StartAttempt(1, 0)
    /\ UNCHANGED <<args, last_error, raised, delivered>>

StreamOpens ==
    /\ phase = "opening"
    /\ phase' = "reading"
    /\ UNCHANGED <<args, index, attempt, last_error, raised, tries, delivered>>

ThisAttempt == [index |-> index, attempt |-> attempt]

FromAttempt(a) == {i \in DOMAIN delivered : delivered[i] = a}

\* A delta arrives and is yielded; blank ones and unreadable lines are not.
DeltaArrives ==
    /\ phase = "reading"
    /\ Cardinality(FromAttempt(ThisAttempt)) < MaxDeltas
    /\ phase' = "yielding"
    /\ delivered' = Append(delivered, ThisAttempt)
    /\ UNCHANGED <<args, index, attempt, last_error, raised, tries>>

ConsumerAsksOn ==
    /\ phase = "yielding"
    /\ phase' = "reading"
    /\ UNCHANGED <<args, index, attempt, last_error, raised, tries, delivered>>

\* The end of the body is success, whether or not it was announced.
StreamEnds ==
    /\ phase = "reading"
    /\ phase' = "returned"
    /\ UNCHANGED <<args, index, attempt, last_error, raised, tries, delivered>>

\* The generator is closed at a yield, or its task is cancelled at an await:
\* neither is an UpstreamError, so there is no retry.
ConsumerLeaves ==
    /\ phase \in {"opening", "reading", "yielding"}
    /\ phase' = "closed"
    /\ UNCHANGED <<args, index, attempt, last_error, raised, tries, delivered>>

FailsForGood(e) ==
    /\ ~IsTransient(e)
    /\ last_error' = IF IsUpstreamError(e) THEN e ELSE last_error
    /\ Raise("upstream")
    /\ UNCHANGED <<index, attempt, tries>>

FailsRetry_FromPrimary(e) ==        \* variant: a retry begins the walk anew
    /\ IsTransient(e) /\ attempt + 1 < AttemptsPerModel
    /\ last_error' = e
    /\ StartAttempt(1, attempt + 1)
    /\ UNCHANGED raised

FailsRetry_OneTooMany(e) ==         \* variant
    /\ IsTransient(e) /\ attempt + 1 <= AttemptsPerModel
    /\ last_error' = e
    /\ StartAttempt(index, attempt + 1)
    /\ UNCHANGED raised

FailsRetry(e) ==
    /\ IsTransient(e) /\ attempt + 1 < AttemptsPerModel
    /\ last_error' = e
    /\ StartAttempt(index, attempt + 1)
    /\ UNCHANGED raised

FailsNextModel_KeepsAttempt(e) ==   \* variant: one budget for the whole chain
    /\ IsTransient(e) /\ attempt + 1 >= AttemptsPerModel
    /\ last_error' = e
    /\ IF index < Len(chain)
       THEN StartAttempt(index + 1, attempt) /\ UNCHANGED raised
       ELSE Raise("exhausted") /\ UNCHANGED <<index, attempt, tries>>

FailsNextModel_SparesLast(e) ==     \* variant: the last fallback is never asked
    /\ IsTransient(e) /\ attempt + 1 >= AttemptsPerModel
    /\ last_error' = e
    /\ IF index + 1 < Len(chain)
       THEN StartAttempt(index + 1, 0) /\ UNCHANGED raised
       ELSE Raise("exhausted") /\ UNCHANGED <<index, attempt, tries>>

FailsNextModel(e) ==
    /\ IsTransient(e) /\ attempt + 1 >= AttemptsPerModel
    /\ last_error' = e
    /\ IF index < Len(chain)
       THEN StartAttempt(index + 1, 0) /\ UNCHANGED raised
       ELSE Raise("exhausted") /\ UNCHANGED <<index, attempt, tries>>

\* The adapter raises: before the stream is open, or in the middle of it.
AttemptFails(e) ==
    /\ \/ phase = "opening" /\ e \in StreamOpenErrors
       \/ phase = "reading" /\ e \in MidStreamErrors
    /\ FailsForGood(e) \/ FailsRetry(e) \/ FailsNextModel(e)
    /\ UNCHANGED <<args, delivered>>

Next ==
    \/ RefuseArguments \/ StartWalk
    \/ StreamOpens \/ DeltaArrives \/ ConsumerAsksOn \/ StreamEnds
    \/ ConsumerLeaves
    \/ \E e \in StreamOpenErrors \cup MidStreamErrors : AttemptFails(e)

Spec == Init /\ [][Next]_vars

-----------------------------------------------------------------------------
(***************************************************************************)
(* Properties                                                              *)
(***************************************************************************)
Attempts == [index : 1..Len(chain), attempt : 0..(AttemptsPerModel - 1)]

TypeOK ==
    /\ chain \in Chains /\ retry \in Retries /\ modelKwarg \in BOOLEAN
    /\ phase \in {"entry", "opening", "reading", "yielding",
                  "returned", "raised", "closed"}
    /\ phase \notin {"entry", "raised"} => ThisAttempt \in Attempts
    /\ last_error \in Errors \cup {NoError}
    /\ raised \in {"nothing", "upstream", "exhausted", "typeerror"}
    /\ tries \in [1..Len(chain) -> 0..AttemptsPerModel]
    /\ delivered \in Seq(Attempts)

\* No model is opened more often than its budget allows, or before every model
\* ahead of it has spent its own, wherever in the stream the attempts broke.
StreamBudgetInOrder ==
    \A i \in 1..Len(chain) :
        /\ tries[i] <= AttemptsPerModel
        /\ tries[i] > 0 => \A j \in 1..(i - 1) : tries[j] = AttemptsPerModel

Before(a, b) == a.index < b.index \/ (a.index = b.index /\ a.attempt < b.attempt)

\* The text a consumer gets is a run of attempts in walk order: once a later
\* attempt has delivered anything, nothing of an earlier one follows, and the
\* last text delivered is never newer than the attempt under way.
DeltasInWalkOrder ==
    \A i \in DOMAIN delivered :
        /\ \A j \in DOMAIN delivered : i < j => ~Before(delivered[j], delivered[i])
        /\ ~Before(ThisAttempt, delivered[i])

\* A generator cannot return the list of fallbacks it consulted, and this one
\* tells nobody; `reported' is what it would have to tell.
Verdict ==
    IF phase = "returned" THEN "answered"
    ELSE IF phase = "closed" THEN "refused"
    ELSE IF phase # "raised" THEN "pending"
    ELSE IF raised = "exhausted" THEN "exhausted" ELSE "refused"

Promise == INSTANCE Failover WITH
    current  <- index,
    verdict  <- Verdict,
    reported <- IF phase = "returned" THEN SubSeq(chain, 2, index) ELSE << >>

\* The generator walks the chain as Failover promises, a consumer who leaves
\* counting as a refusal: no model is skipped, none is consulted afterwards.
StreamWalksChain == Promise!Spec

\* As its docstring says, the generator yields the deltas of the first model
\* whose stream succeeds: a finished stream holds no text of another attempt.
OnlyWinnerDelivered ==
    phase = "returned" => \A i \in DOMAIN delivered : delivered[i] = ThisAttempt
=============================================================================
