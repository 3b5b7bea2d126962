------------------------ MODULE FallbackWalkerProofs ------------------------
(***************************************************************************)
(* For every chain of models, every retry budget and every set of          *)
(* statuses: the walker's types, the order in which it spends its budgets, *)
(* what exhaustion means, and that it implements Failover.                 *)
(***************************************************************************)
EXTENDS FallbackWalker, SequenceTheorems, TLAPS

(***************************************************************************)
(* The inductive invariant.  The loop counters say exactly which calls     *)
(* have been made (Progress) and which fallbacks have been noted (Noted);  *)
(* the outcome says where the loops were left (Left).                      *)
(***************************************************************************)
Progress ==
    /\ \A i \in 1..Len(chain) : i < index => tries[i] = AttemptsPerModel
    /\ \A i \in 1..Len(chain) : i > index => tries[i] = 0
    /\ phase = "calling" => tries[index] = attempt
    /\ phase # "calling" /\ index \in 1..Len(chain) =>
           tries[index] \in 0..AttemptsPerModel

Noted ==
    /\ phase \in {"entry", "calling"} =>
           fallbacks_used = SubSeq(chain, 2, index - 1)
    /\ phase = "returned" => fallbacks_used = SubSeq(chain, 2, index)

Left ==
    /\ phase = "entry" =>
           /\ index = 1 /\ attempt = 0 /\ last_error = NoError
           /\ \A i \in 1..Len(chain) : tries[i] = 0
    /\ phase # "raised" => raised = "nothing"
    /\ phase \in {"calling", "returned"} => index <= Len(chain)
    /\ raised = "exhausted" =>
           \/ chain = << >> /\ last_error = NoError
           \/ /\ index = Len(chain)
              /\ tries[index] = AttemptsPerModel
              /\ IsTransient(last_error)
    /\ raised = "exhausted" => index >= Len(chain)

IInv == TypeOK /\ Progress /\ Noted /\ Left

-----------------------------------------------------------------------------
\* A status is a number.
LEMMA StatusesAreIntegers == \A s \in Statuses : s \in Int
<1>1. \A s \in 200..599 : s \in Int
  OBVIOUS
<1>2. QED BY <1>1, StatusesAssumption

\* The exceptions an adapter call can end in are the exceptions of Errors.
LEMMA ChatErrorsTyped == ChatErrors \subseteq Errors
<1>1. \A f \in Faults : FaultError(f) \in Errors
  BY DEF Faults, FaultError, Failure, Errors
<1>2. ASSUME NEW r \in Replies PROVE ReplyErrors(r) \subseteq Errors
  <2>1. r.status \in Statuses /\ r.body \in {"chat", "undecodable", "misshapen"}
    BY DEF Replies
  <2>2. r.status \in Int
    BY <2>1, StatusesAreIntegers
  <2>3. CASE r.status >= 400 \/ r.body = "undecodable"
    <3>1. ReplyErrors(r) = {Failure("upstream", r.status)}
      BY <2>2, <2>3 DEF ReplyErrors
    <3>2. Failure("upstream", r.status) \in Errors
      BY <2>1 DEF Failure, Errors
    <3>3. QED BY <3>1, <3>2
  <2>4. CASE r.status < 400 /\ r.body = "misshapen"
    <3>1. ReplyErrors(r) = {Failure("other", NoStatus)}
      BY <2>2, <2>4 DEF ReplyErrors
    <3>2. Failure("other", NoStatus) \in Errors
      BY DEF Failure, Errors
    <3>3. QED BY <3>1, <3>2
  <2>5. CASE r.status < 400 /\ r.body = "chat"
    BY <2>2, <2>5 DEF ReplyErrors
  <2>6. QED BY <2>1, <2>2, <2>3, <2>4, <2>5
<1>3. QED BY <1>1, <1>2 DEF ChatErrors

\* Taking one more element of a sequence is appending it.
LEMMA SubSeqGrows ==
    ASSUME NEW S, NEW s \in Seq(S), NEW i \in 2..Len(s)
    PROVE  SubSeq(s, 2, i) = Append(SubSeq(s, 2, i - 1), s[i])
<1>1. Len(SubSeq(s, 2, i)) = Len(Append(SubSeq(s, 2, i - 1), s[i]))
  BY SMTT(30)
<1>2. \A k \in 1..Len(SubSeq(s, 2, i)) :
          SubSeq(s, 2, i)[k] = Append(SubSeq(s, 2, i - 1), s[i])[k]
  BY SMTT(30)
<1>3. QED BY <1>1, <1>2, SeqEqual, SMTT(30)

\* The budget is a positive integer and does not change during a call.
LEMMA BudgetPositive ==
    ASSUME retry \in Retries
    PROVE  AttemptsPerModel \in Nat \ {0}
BY RetriesAssumption DEF AttemptsPerModel

-----------------------------------------------------------------------------
\* The walk starts inside the invariant.
LEMMA InitEstablishes == Init => IInv
<1> SUFFICES ASSUME Init PROVE IInv
  OBVIOUS
<1>1. chain \in Seq(Models) /\ Len(chain) \in Nat
  BY ChainsAssumption DEF Init
<1>2. AttemptsPerModel \in Nat \ {0}
  BY BudgetPositive DEF Init
<1>3. TypeOK
  BY <1>1, <1>2 DEF Init, TypeOK, NoError
<1>4. Progress
  BY <1>1, <1>2 DEF Init, Progress
<1>5. Noted
  <2>1. SubSeq(chain, 2, 0) = << >>
    BY <1>1, SubSeqProperties, SMT
  <2>2. QED BY <2>1 DEF Init, Noted
<1>6. Left
  BY DEF Init, Left
<1>7. QED BY <1>3, <1>4, <1>5, <1>6 DEF IInv

-----------------------------------------------------------------------------
\* Every step stays inside the invariant.
LEMMA StepPreserves == IInv /\ [Next]_vars => IInv'
<1> SUFFICES ASSUME IInv, [Next]_vars PROVE IInv'
  OBVIOUS
<1> USE DEF IInv
<1>1. /\ chain \in Seq(Models) /\ Len(chain) \in Nat
      /\ AttemptsPerModel \in Nat \ {0}
  BY ChainsAssumption, BudgetPositive DEF TypeOK
<1>2. CASE UNCHANGED vars
  BY <1>2 DEF vars, args, TypeOK, Progress, Noted, Left, AttemptsPerModel
<1>3. CASE RefuseArguments
  <2>1. /\ UNCHANGED <<chain, retry, modelKwarg, index, attempt, fallbacks_used, last_error, tries>>
        /\ phase = "entry" /\ phase' = "raised"
        /\ raised' \in {"exhausted", "typeerror"}
        /\ raised' = "exhausted" => chain = << >>
    BY <1>3 DEF RefuseArguments, Raise, args
  <2>2. AttemptsPerModel' = AttemptsPerModel
    BY <2>1 DEF AttemptsPerModel
  <2>3. TypeOK'
    BY <2>1, <2>2 DEF TypeOK
  <2>4. Progress'
    BY <2>1, <2>2, <1>1 DEF Progress, Left
  <2>5. Noted'
    BY <2>1 DEF Noted
  <2>6. Left'
    BY <2>1, <1>1 DEF Left
  <2>7. QED BY <2>3, <2>4, <2>5, <2>6
<1>4. CASE StartWalk
  <2>1. /\ UNCHANGED <<chain, retry, modelKwarg, index, attempt, fallbacks_used, last_error, raised, tries>>
        /\ phase = "entry" /\ phase' = "calling" /\ chain # << >>
    BY <1>4 DEF StartWalk, args
  <2>2. AttemptsPerModel' = AttemptsPerModel
    BY <2>1 DEF AttemptsPerModel
  <2>3. Len(chain) >= 1
    BY <2>1, <1>1, EmptySeq
  <2>4. TypeOK'
    BY <2>1, <2>2, <2>3, <1>1 DEF TypeOK, Left
  <2>5. Progress'
    BY <2>1, <2>2, <2>3, <1>1 DEF Progress, Left
  <2>6. Noted'
    BY <2>1 DEF Noted
  <2>7. Left'
    BY <2>1, <2>3 DEF Left
  <2>8. QED BY <2>4, <2>5, <2>6, <2>7
<1>5. ASSUME phase = "calling",
             tries' = [tries EXCEPT ![index] = @ + 1],
             UNCHANGED <<chain, retry>>
      PROVE  /\ index \in 1..Len(chain)
             /\ AttemptsPerModel' = AttemptsPerModel
             /\ tries' \in [1..Len(chain) -> Nat]
             /\ tries'[index] = attempt + 1
             /\ \A i \in 1..Len(chain) : i # index => tries'[i] = tries[i]
             /\ attempt \in Nat /\ attempt + 1 <= AttemptsPerModel
  BY <1>5, <1>1 DEF TypeOK, Progress, AttemptsPerModel
<1>6. ASSUME phase = "calling", NoteModel, UNCHANGED chain
      PROVE  fallbacks_used' = SubSeq(chain, 2, index) /\ fallbacks_used' \in Seq(Models)
  <2>1. index \in 1..Len(chain) /\ fallbacks_used = SubSeq(chain, 2, index - 1)
    BY <1>6 DEF TypeOK, Noted
  <2>2. CASE index = 1
    <3>1. SubSeq(chain, 2, 1) = << >> /\ SubSeq(chain, 2, 0) = << >>
      BY <1>1, SubSeqProperties, SMT
    <3>2. QED BY <1>6, <2>1, <2>2, <3>1 DEF NoteModel, TypeOK
  <2>3. CASE index > 1
    <3>1. index \in 2..Len(chain)
      BY <2>1, <2>3
    <3>2. fallbacks_used' = Append(SubSeq(chain, 2, index - 1), chain[index])
      BY <1>6, <2>1, <2>3 DEF NoteModel
    <3>3. fallbacks_used' = SubSeq(chain, 2, index)
      BY <1>1, <3>1, <3>2, SubSeqGrows
    <3>4. SubSeq(chain, 2, index) \in Seq(Models)
      BY <1>1, <3>1, SMT
    <3>5. QED BY <3>3, <3>4
  <2>4. QED BY <2>1, <2>2, <2>3
<1>7. CASE CallSucceeds
  <2>1. /\ UNCHANGED <<chain, retry, modelKwarg, index, attempt, last_error, raised>>
        /\ phase = "calling" /\ phase' = "returned"
        /\ tries' = [tries EXCEPT ![index] = @ + 1]
        /\ NoteModel
    BY <1>7 DEF CallSucceeds, CountTry, args
  <2>2. TypeOK'
    BY <2>1, <1>5, <1>6 DEF TypeOK
  <2>3. Progress'
    BY <2>1, <1>5, <1>1 DEF Progress
  <2>4. Noted'
    BY <2>1, <1>6 DEF Noted
  <2>5. Left'
    BY <2>1, <1>5 DEF Left
  <2>6. QED BY <2>2, <2>3, <2>4, <2>5
<1>8. ASSUME NEW e \in ChatErrors, CallFailsForGood(e) PROVE IInv'
  <2>1. /\ UNCHANGED <<chain, retry, modelKwarg, index, attempt, fallbacks_used>>
        /\ phase = "calling" /\ phase' = "raised" /\ raised' = "upstream"
        /\ tries' = [tries EXCEPT ![index] = @ + 1]
        /\ last_error' \in Errors \cup {NoError}
    BY <1>8, ChatErrorsTyped DEF CallFailsForGood, CountTry, Raise, args, TypeOK
  <2>2. TypeOK'
    BY <2>1, <1>5 DEF TypeOK
  <2>3. Progress'
    BY <2>1, <1>5, <1>1 DEF Progress
  <2>4. Noted'
    BY <2>1 DEF Noted
  <2>5. Left'
    BY <2>1, <1>5 DEF Left
  <2>6. QED BY <2>2, <2>3, <2>4, <2>5
<1>9. ASSUME NEW e \in ChatErrors, CallFailsRetry(e) PROVE IInv'
  <2>1. /\ UNCHANGED <<chain, retry, modelKwarg, phase, index, fallbacks_used, raised>>
        /\ phase = "calling" /\ attempt + 1 < AttemptsPerModel
        /\ attempt' = attempt + 1
        /\ tries' = [tries EXCEPT ![index] = @ + 1]
        /\ last_error' \in Errors
    BY <1>9, ChatErrorsTyped DEF CallFailsRetry, CountTry, args
  <2>2. TypeOK'
    BY <2>1, <1>5, <1>1 DEF TypeOK
  <2>3. Progress'
    BY <2>1, <1>5, <1>1 DEF Progress
  <2>4. Noted'
    BY <2>1 DEF Noted
  <2>5. Left'
    BY <2>1, <1>5 DEF Left
  <2>6. QED BY <2>2, <2>3, <2>4, <2>5
<1>10. ASSUME NEW e \in ChatErrors, CallFailsNextModel(e) PROVE IInv'
  <2>1. /\ UNCHANGED <<chain, retry, modelKwarg>>
        /\ phase = "calling" /\ attempt + 1 >= AttemptsPerModel
        /\ tries' = [tries EXCEPT ![index] = @ + 1]
        /\ NoteModel
        /\ last_error' = e /\ IsTransient(e) /\ e \in Errors
    BY <1>10, ChatErrorsTyped DEF CallFailsNextModel, CountTry, args
  <2>2. /\ fallbacks_used' = SubSeq(chain, 2, index)
        /\ fallbacks_used' \in Seq(Models)
    BY <2>1, <1>6
  <2>3. tries'[index] = AttemptsPerModel
    BY <2>1, <1>5, <1>1
  <2>4. CASE /\ index < Len(chain) /\ index' = index + 1 /\ attempt' = 0
             /\ UNCHANGED <<phase, raised>>
    <3>1. TypeOK'
      BY <2>1, <2>2, <2>4, <1>5, <1>1 DEF TypeOK
    <3>2. Progress'
      BY <2>1, <2>3, <2>4, <1>5, <1>1 DEF Progress
    <3>3. index' - 1 = index
      BY <2>4, <1>5, <2>1
    <3>4. Noted'
      BY <2>1, <2>2, <2>4, <3>3 DEF Noted
    <3>5. Left'
      BY <2>1, <2>4, <1>5 DEF Left
    <3>6. QED BY <3>1, <3>2, <3>4, <3>5
  <2>5. CASE /\ index >= Len(chain) /\ phase' = "raised" /\ raised' = "exhausted"
             /\ UNCHANGED <<index, attempt>>
    <3>1. TypeOK'
      BY <2>1, <2>2, <2>5, <1>5 DEF TypeOK
    <3>2. Progress'
      BY <2>1, <2>3, <2>5, <1>5, <1>1 DEF Progress
    <3>3. Noted'
      BY <2>5 DEF Noted
    <3>4. Left'
      BY <2>1, <2>3, <2>5, <1>5 DEF Left, IsTransient
    <3>5. QED BY <3>1, <3>2, <3>3, <3>4
  <2>6. QED BY <1>10, <2>4, <2>5 DEF CallFailsNextModel, Raise
<1>11. QED
  BY <1>2, <1>3, <1>4, <1>7, <1>8, <1>9, <1>10 DEF Next, CallFails

\* The invariant holds all through a call.
LEMMA Invariance == Spec => []IInv
<1>1. QED BY InitEstablishes, StepPreserves, PTL DEF Spec

-----------------------------------------------------------------------------
\* The types of the walker's state hold in every reachable state.
THEOREM WalkerTypes == Spec => []TypeOK
<1>1. IInv => TypeOK
  BY DEF IInv
<1>2. QED BY <1>1, Invariance, PTL

\* Budgets are respected and spent in chain order, however the calls fail.
THEOREM WalkerBudget == Spec => []BudgetSpentInOrder
<1>1. IInv => BudgetSpentInOrder
  <2> SUFFICES ASSUME IInv, NEW i \in 1..Len(chain)
               PROVE  /\ tries[i] <= AttemptsPerModel
                      /\ tries[i] > 0 => \A j \in 1..(i - 1) : tries[j] = AttemptsPerModel
    BY DEF BudgetSpentInOrder
  <2>1. /\ Len(chain) \in Nat /\ index \in Nat \ {0} /\ tries \in [1..Len(chain) -> Nat]
        /\ AttemptsPerModel \in Nat \ {0} /\ attempt \in 0..AttemptsPerModel - 1
    BY ChainsAssumption, BudgetPositive DEF IInv, TypeOK
  <2>2. CASE i > index
    BY <2>1, <2>2 DEF IInv, Progress
  <2>3. CASE i < index
    BY <2>1, <2>3 DEF IInv, Progress
  <2>4. CASE i = index
    <3>1. tries[i] <= AttemptsPerModel
      BY <2>1, <2>4 DEF IInv, Progress
    <3>2. \A j \in 1..(i - 1) : tries[j] = AttemptsPerModel
      BY <2>1, <2>4 DEF IInv, Progress
    <3>3. QED BY <3>1, <3>2
  <2>5. QED BY <2>1, <2>2, <2>3, <2>4
<1>2. QED BY <1>1, Invariance, PTL

\* UpstreamExhaustedError means that nothing was left to try, and the proxy
\* answers it with a 5xx.
THEOREM WalkerExhaustion == Spec => []ExhaustedMeansSpent
<1>1. IInv => ExhaustedMeansSpent
  <2> SUFFICES ASSUME IInv, raised = "exhausted"
               PROVE  /\ \A i \in 1..Len(chain) : tries[i] = AttemptsPerModel
                      /\ chain # << >> => IsTransient(last_error)
                      /\ ClientStatus(last_error, TRUE) \in {502, 503, 504}
    BY DEF ExhaustedMeansSpent
  <2>1. CASE chain = << >> /\ last_error = NoError
    BY <2>1 DEF NoError, ClientStatus
  <2>2. CASE /\ index = Len(chain) /\ tries[index] = AttemptsPerModel
             /\ IsTransient(last_error)
    <3>1. \A i \in 1..Len(chain) : tries[i] = AttemptsPerModel
      BY <2>2, ChainsAssumption, SMTT(30) DEF IInv, Progress, TypeOK
    <3>2. ClientStatus(last_error, TRUE) \in {502, 503, 504}
      <4> DEFINE Answered == ClientStatus(last_error, TRUE) \in {502, 503, 504}
                 Broke == /\ last_error.kind = "upstream"
                          /\ last_error.status = NoStatus \/ last_error.status >= 500
      <4>1. ASSUME last_error.kind = "timeout" PROVE Answered
        BY <4>1 DEF ClientStatus
      <4>2. ASSUME last_error.kind = "unavailable" PROVE Answered
        BY <4>2 DEF ClientStatus
      <4>3. ASSUME Broke PROVE Answered
        <5>1. last_error.status \in Int
          <6>1. last_error.status \in Statuses \cup {NoStatus}
            BY DEF IInv, TypeOK, Errors, NoError
          <6>2. QED BY <6>1, StatusesAreIntegers DEF NoStatus
        <5>2. last_error.status \notin 400..499
          BY <4>3, <5>1 DEF NoStatus
        <5>3. QED BY <4>3, <5>2 DEF ClientStatus
      <4>4. \/ last_error.kind = "timeout"
            \/ last_error.kind = "unavailable"
            \/ Broke
        BY <2>2, SMTT(30) DEF IsTransient
      <4>5. Answered
        <5> HIDE DEF Answered, Broke
        <5>1. QED BY <4>1, <4>2, <4>3, <4>4
      <4>6. QED BY <4>5
    <3>3. QED BY <2>2, <3>1, <3>2
  <2>3. QED BY <2>1, <2>2 DEF IInv, Left
<1>2. QED BY <1>1, Invariance, PTL

-----------------------------------------------------------------------------
\* The nested loops implement the failover promise for every chain and budget:
\* every step leaves a model, ends the walk, or is invisible to the caller.
THEOREM WalkerImplementsFailover == Spec => ImplementsFailover
<1>1. Init => Promise!Init
  BY DEF Init, Promise!Init, VerdictNow
<1>2. ASSUME IInv, [Next]_vars PROVE [Promise!Next]_Promise!fvars
  <2>1. Len(chain) \in Nat /\ index \in Nat \ {0}
    BY <1>2, ChainsAssumption DEF IInv, TypeOK
  <2>2. CASE UNCHANGED vars
    BY <2>2 DEF vars, args, Promise!fvars, VerdictNow
  <2>3. CASE RefuseArguments
    BY <2>1, <2>3, <1>2 DEF RefuseArguments, Raise, args, Promise!Next, Promise!Refuse,
       Promise!Exhaust, VerdictNow, IInv, Left
  <2>4. CASE StartWalk
    BY <2>4 DEF StartWalk, args, Promise!fvars, VerdictNow
  <2>5. CASE CallSucceeds
    <3>1. fallbacks_used' = SubSeq(chain, 2, index)
      BY <1>2, <2>5, StepPreserves DEF CallSucceeds, args, IInv, Noted
    <3>2. index <= Len(chain)
      BY <1>2, <2>5 DEF CallSucceeds, IInv, TypeOK
    <3>3. Promise!Answer
      BY <2>5, <3>1, <3>2 DEF CallSucceeds, args, Promise!Answer, VerdictNow
    <3>4. QED BY <3>3 DEF Promise!Next
  <2>6. ASSUME NEW e \in ChatErrors, CallFailsForGood(e) PROVE Promise!Refuse
    BY <2>6 DEF CallFailsForGood, Raise, args, Promise!Refuse, VerdictNow
  <2>7. ASSUME NEW e \in ChatErrors, CallFailsRetry(e) PROVE UNCHANGED Promise!fvars
    BY <2>7 DEF CallFailsRetry, args, Promise!fvars, VerdictNow
  <2>8. ASSUME NEW e \in ChatErrors, CallFailsNextModel(e)
        PROVE  Promise!LeaveModel \/ Promise!Exhaust
    BY <2>8 DEF CallFailsNextModel, Raise, args, Promise!LeaveModel, Promise!Exhaust,
       VerdictNow
  <2>9. QED
    BY <1>2, <2>2, <2>3, <2>4, <2>5, <2>6, <2>7, <2>8 DEF Next, CallFails, Promise!Next
<1>3. QED
  BY <1>1, <1>2, Invariance, PTL DEF Spec, ImplementsFailover, Promise!Spec
=============================================================================
