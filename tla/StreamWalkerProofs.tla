------------------------- MODULE StreamWalkerProofs -------------------------
(***************************************************************************)
(* For every chain of models, every retry budget and every length of       *)
(* stream: the streaming walker's types, the order in which it spends its  *)
(* budgets, the order of the text it delivers, and that it implements      *)
(* Failover.                                                               *)
(***************************************************************************)
EXTENDS StreamWalker, SequenceTheorems, TLAPS

(***************************************************************************)
(* The inductive invariant.  The loop counters say exactly which attempts  *)
(* have been started (Progress), the phase how the loops were left (Left), *)
(* and nothing delivered is newer than the attempt under way               *)
(* (DeltasInWalkOrder is inductive as it stands).                          *)
(***************************************************************************)
Progress ==
    /\ \A i \in 1..Len(chain) : i < index => tries[i] = AttemptsPerModel
    /\ \A i \in 1..Len(chain) : i > index => tries[i] = 0
    /\ phase \notin {"entry", "raised"} => tries[index] = attempt + 1

Left ==
    /\ index \in Nat \ {0} /\ attempt \in 0..(AttemptsPerModel - 1)
    /\ phase = "entry" =>
           /\ index = 1 /\ attempt = 0
           /\ \A i \in 1..Len(chain) : tries[i] = 0
           /\ delivered = << >>
    /\ phase # "raised" => raised = "nothing"
    /\ raised = "exhausted" => index >= Len(chain)

IInv == TypeOK /\ Progress /\ Left /\ DeltasInWalkOrder

-----------------------------------------------------------------------------
\* Whatever a stream attempt raises is an exception of Errors.
LEMMA StreamErrorsTyped == StreamOpenErrors \cup MidStreamErrors \subseteq Errors
<1>1. \A f \in Faults : FaultError(f) \in Errors
  BY DEF Faults, FaultError, Failure, Errors
<1>2. \A s \in Statuses : Failure("upstream", s) \in Errors
  BY DEF Failure, Errors
<1>3. Failure("other", NoStatus) \in Errors
  BY DEF Failure, Errors
<1>4. QED BY <1>1, <1>2, <1>3 DEF StreamOpenErrors, MidStreamErrors

\* The budget is a positive integer.
LEMMA BudgetPositive ==
    ASSUME retry \in Retries
    PROVE  AttemptsPerModel \in Nat \ {0}
BY StreamArgumentsAssumption DEF AttemptsPerModel

\* What the invariant says of the arguments and of the delivered text.
LEMMA Ranges ==
    ASSUME TypeOK
    PROVE  /\ chain \in Seq(Models) /\ Len(chain) \in Nat
           /\ AttemptsPerModel \in Nat \ {0}
           /\ \A i \in DOMAIN delivered :
                 delivered[i].index \in Int /\ delivered[i].attempt \in Int
<1>1. chain \in Seq(Models) /\ Len(chain) \in Nat
  BY StreamArgumentsAssumption DEF TypeOK
<1>2. AttemptsPerModel \in Nat \ {0}
  BY BudgetPositive DEF TypeOK
<1>3. ASSUME NEW i \in DOMAIN delivered
      PROVE  delivered[i].index \in Int /\ delivered[i].attempt \in Int
  <2>1. delivered[i] \in Attempts
    BY <1>3 DEF TypeOK
  <2>2. QED BY <2>1, <1>1, <1>2 DEF Attempts
<1>4. QED BY <1>1, <1>2, <1>3

-----------------------------------------------------------------------------
\* The generator starts inside the invariant.
LEMMA InitEstablishes == Init => IInv
<1> SUFFICES ASSUME Init PROVE IInv
  OBVIOUS
<1>1. chain \in Seq(Models) /\ Len(chain) \in Nat
  BY StreamArgumentsAssumption DEF Init
<1>2. AttemptsPerModel \in Nat \ {0}
  BY BudgetPositive DEF Init
<1>3. << >> \in Seq(Attempts)
  BY EmptySeq
<1>4. TypeOK
  BY <1>1, <1>2, <1>3 DEF Init, TypeOK, NoError
<1>5. Progress
  BY <1>1, <1>2 DEF Init, Progress
<1>6. Left
  BY <1>2 DEF Init, Left
<1>7. DeltasInWalkOrder
  BY EmptySeq DEF Init, DeltasInWalkOrder
<1>8. QED BY <1>4, <1>5, <1>6, <1>7 DEF IInv

\* Starting an attempt keeps the invariant when it is the next one of the same
\* model, or the first one of the next model once the budget of this one is
\* spent.
LEMMA AttemptPreserves ==
    ASSUME IInv, NEW i, NEW a,
           phase \in {"opening", "reading"} \/ (phase = "entry" /\ chain # << >>),
           \/ phase = "entry" /\ i = 1 /\ a = 0
           \/ /\ phase # "entry" /\ i = index /\ a = attempt + 1
              /\ a < AttemptsPerModel
           \/ /\ phase # "entry" /\ i = index + 1 /\ a = 0
              /\ attempt + 1 >= AttemptsPerModel /\ index < Len(chain),
           StartAttempt(i, a), last_error' \in Errors \cup {NoError},
           UNCHANGED <<args, raised, delivered>>
    PROVE  IInv'
<1> USE DEF IInv
<1>1. /\ chain \in Seq(Models) /\ Len(chain) \in Nat
      /\ AttemptsPerModel \in Nat \ {0}
      /\ \A k \in DOMAIN delivered :
            delivered[k].index \in Int /\ delivered[k].attempt \in Int
  BY Ranges
<1>2. /\ UNCHANGED <<chain, retry, modelKwarg, raised, delivered>>
      /\ phase' = "opening" /\ index' = i /\ attempt' = a
      /\ tries' = [tries EXCEPT ![i] = @ + 1]
      /\ raised = "nothing"
  BY DEF StartAttempt, args, Left
<1>3. AttemptsPerModel' = AttemptsPerModel /\ Attempts' = Attempts
  BY <1>2 DEF AttemptsPerModel, Attempts
<1>4. Len(chain) >= 1
  <2>1. CASE phase = "entry"
    BY <2>1, <1>1, EmptySeq
  <2>2. CASE phase # "entry"
    BY <2>2, <1>1 DEF TypeOK, Attempts, ThisAttempt
  <2>3. QED BY <2>1, <2>2
<1>5. /\ i \in 1..Len(chain) /\ a \in 0..(AttemptsPerModel - 1)
      /\ tries[i] = a
      /\ \A j \in 1..Len(chain) : j < i => tries[j] = AttemptsPerModel
      /\ \A j \in 1..Len(chain) : j > i => tries[j] = 0
  <2>1. CASE phase = "entry"
    BY <2>1, <1>1, <1>4 DEF Left, Progress
  <2>2. CASE phase # "entry"
    <3>1. index \in 1..Len(chain) /\ attempt \in 0..(AttemptsPerModel - 1)
      BY <2>2, <1>1 DEF TypeOK, Attempts, ThisAttempt
    <3>2. tries[index] = attempt + 1
      BY <2>2 DEF Progress
    <3>3. QED BY <2>2, <3>1, <3>2, <1>1 DEF Progress
  <2>3. QED BY <2>1, <2>2
<1>6. tries \in [1..Len(chain) -> 0..AttemptsPerModel]
  BY DEF TypeOK
<1>7. tries' \in [1..Len(chain) -> 0..AttemptsPerModel] /\ tries'[i] = a + 1
  BY <1>1, <1>2, <1>5, <1>6
<1>8. \A j \in 1..Len(chain) : j # i => tries'[j] = tries[j]
  BY <1>2, <1>5, <1>6
<1>9. TypeOK'
  <2>1. ThisAttempt' \in Attempts
    BY <1>2, <1>5 DEF ThisAttempt, Attempts
  <2>2. QED BY <1>2, <1>3, <1>7, <2>1 DEF TypeOK
<1>10. Progress'
  BY <1>1, <1>2, <1>3, <1>5, <1>7, <1>8 DEF Progress
<1>11. Left'
  BY <1>1, <1>2, <1>3, <1>5 DEF Left
<1>12. DeltasInWalkOrder'
  <2>1. ASSUME NEW k \in DOMAIN delivered PROVE ~Before(ThisAttempt', delivered[k])
    <3>1. CASE phase = "entry"
      BY <3>1, <2>1, EmptySeq DEF Left
    <3>2. CASE phase # "entry"
      <4>1. ~Before(ThisAttempt, delivered[k])
        BY <2>1 DEF DeltasInWalkOrder
      <4>2. QED BY <3>2, <4>1, <2>1, <1>1, <1>2, <1>5 DEF Before, ThisAttempt, Left
    <3>3. QED BY <3>1, <3>2
  <2>2. QED BY <2>1, <1>2 DEF DeltasInWalkOrder
<1>13. QED BY <1>9, <1>10, <1>11, <1>12

\* A step that starts no attempt and delivers nothing keeps the invariant.
LEMMA QuietPreserves ==
    ASSUME IInv,
           UNCHANGED <<args, index, attempt, tries, delivered>>,
           last_error' \in Errors \cup {NoError},
           \/ UNCHANGED <<phase, raised>>
           \/ /\ phase \in {"opening", "reading", "yielding"}
              /\ phase' \in {"opening", "reading", "yielding", "returned", "closed"}
              /\ raised' = raised
           \/ /\ phase' = "raised" /\ raised' \in {"upstream", "typeerror"}
           \/ /\ phase' = "raised" /\ raised' = "exhausted" /\ index >= Len(chain)
    PROVE  IInv'
<1> USE DEF IInv
<1>1. UNCHANGED <<chain, retry, modelKwarg, index, attempt, tries, delivered>>
  BY DEF args
<1>2. AttemptsPerModel' = AttemptsPerModel /\ Attempts' = Attempts
      /\ ThisAttempt' = ThisAttempt
  BY <1>1 DEF AttemptsPerModel, Attempts, ThisAttempt
<1>3. TypeOK'
  BY <1>1, <1>2 DEF TypeOK
<1>4. Progress'
  BY <1>1, <1>2 DEF Progress
<1>5. Left'
  BY <1>1, <1>2 DEF Left
<1>6. DeltasInWalkOrder'
  BY <1>1, <1>2 DEF DeltasInWalkOrder
<1>7. QED BY <1>3, <1>4, <1>5, <1>6

\* The deltas of an attempt go behind everything delivered before it.
LEMMA DeltaPreserves == IInv /\ DeltaArrives => IInv'
<1> SUFFICES ASSUME IInv, DeltaArrives PROVE IInv'
  OBVIOUS
<1> USE DEF IInv
<1>1. /\ UNCHANGED <<chain, retry, modelKwarg, index, attempt, last_error, raised, tries>>
      /\ phase = "reading" /\ phase' = "yielding"
      /\ delivered' = Append(delivered, ThisAttempt)
  BY DEF DeltaArrives, args
<1>2. AttemptsPerModel' = AttemptsPerModel /\ Attempts' = Attempts
      /\ ThisAttempt' = ThisAttempt
  BY <1>1 DEF AttemptsPerModel, Attempts, ThisAttempt
<1>3. ThisAttempt \in Attempts /\ delivered \in Seq(Attempts)
  BY <1>1 DEF TypeOK
<1>4. /\ delivered' \in Seq(Attempts)
      /\ DOMAIN delivered = 1..Len(delivered) /\ Len(delivered) \in Nat
      /\ DOMAIN delivered' = 1..(Len(delivered) + 1)
      /\ \A i \in 1..Len(delivered) : delivered'[i] = delivered[i]
      /\ delivered'[Len(delivered) + 1] = ThisAttempt
  BY <1>1, <1>3, AppendProperties, SMT
<1>5. TypeOK'
  BY <1>1, <1>2, <1>3, <1>4 DEF TypeOK
<1>6. Progress'
  BY <1>1, <1>2 DEF Progress
<1>7. Left'
  BY <1>1, <1>2 DEF Left
<1>8. DeltasInWalkOrder'
  <2>1. ~Before(ThisAttempt, ThisAttempt)
    BY DEF Before, ThisAttempt, Left
  <2>2. \A i \in 1..Len(delivered) : ~Before(ThisAttempt, delivered[i])
    BY <1>4 DEF DeltasInWalkOrder
  <2>3. ASSUME NEW i \in DOMAIN delivered', NEW j \in DOMAIN delivered', i < j
        PROVE  ~Before(delivered'[j], delivered'[i])
    <3>1. i \in 1..Len(delivered)
      BY <2>3, <1>4
    <3>2. CASE j \in 1..Len(delivered)
      BY <3>1, <3>2, <2>3, <1>4 DEF DeltasInWalkOrder
    <3>3. CASE j = Len(delivered) + 1
      BY <3>1, <3>3, <1>4, <2>2
    <3>4. QED BY <3>2, <3>3, <2>3, <1>4
  <2>4. \A i \in DOMAIN delivered' : ~Before(ThisAttempt', delivered'[i])
    BY <1>2, <1>4, <2>1, <2>2
  <2>5. QED BY <2>3, <2>4 DEF DeltasInWalkOrder
<1>9. QED BY <1>5, <1>6, <1>7, <1>8

\* Every step stays inside the invariant.
LEMMA StepPreserves == IInv /\ [Next]_vars => IInv'
<1> SUFFICES ASSUME IInv, [Next]_vars PROVE IInv'
  OBVIOUS
<1>1. /\ last_error \in Errors \cup {NoError}
      /\ Len(chain) \in Nat /\ index \in Nat \ {0}
  BY Ranges DEF IInv, TypeOK, Left
<1>2. CASE UNCHANGED vars
  BY <1>1, <1>2, QuietPreserves DEF vars
<1>3. CASE RefuseArguments
  <2>1. chain = << >> => index >= Len(chain)
    BY <1>1, EmptySeq
  <2>2. QED BY <1>1, <1>3, <2>1, QuietPreserves DEF RefuseArguments, Raise
<1>4. CASE StartWalk
  BY <1>1, <1>4, AttemptPreserves DEF StartWalk
<1>5. CASE StreamOpens \/ ConsumerAsksOn \/ StreamEnds \/ ConsumerLeaves
  BY <1>1, <1>5, QuietPreserves DEF StreamOpens, ConsumerAsksOn, StreamEnds, ConsumerLeaves
<1>6. CASE DeltaArrives
  BY <1>6, DeltaPreserves
<1>7. ASSUME NEW e \in StreamOpenErrors \cup MidStreamErrors, AttemptFails(e)
      PROVE  IInv'
  <2>1. e \in Errors /\ phase \in {"opening", "reading"} /\ UNCHANGED <<args, delivered>>
    BY <1>7, StreamErrorsTyped DEF AttemptFails
  <2>2. CASE FailsForGood(e)
    BY <1>1, <2>1, <2>2, QuietPreserves DEF FailsForGood, Raise
  <2>3. CASE FailsRetry(e)
    BY <2>1, <2>3, AttemptPreserves DEF FailsRetry
  <2>4. CASE FailsNextModel(e)
    <3>1. CASE index < Len(chain)
      BY <2>1, <2>4, <3>1, AttemptPreserves DEF FailsNextModel
    <3>2. CASE ~(index < Len(chain))
      BY <1>1, <2>1, <2>4, <3>2, QuietPreserves DEF FailsNextModel, Raise
    <3>3. QED BY <3>1, <3>2
  <2>5. QED BY <1>7, <2>2, <2>3, <2>4 DEF AttemptFails
<1>8. QED BY <1>2, <1>3, <1>4, <1>5, <1>6, <1>7 DEF Next

\* The invariant holds in every reachable state.
LEMMA Invariance == Spec => []IInv
<1>1. QED BY InitEstablishes, StepPreserves, PTL DEF Spec

-----------------------------------------------------------------------------
\* The types of the generator's state hold in every reachable state.
THEOREM StreamTypes == Spec => []TypeOK
<1>1. IInv => TypeOK
  BY DEF IInv
<1>2. QED BY <1>1, Invariance, PTL

\* A model is opened within its budget, and only after every model ahead of it
\* has spent its own, wherever in the stream the attempts break.
THEOREM StreamBudget == Spec => []StreamBudgetInOrder
<1>1. IInv => StreamBudgetInOrder
  <2> SUFFICES ASSUME IInv, NEW i \in 1..Len(chain)
               PROVE  /\ tries[i] <= AttemptsPerModel
                      /\ tries[i] > 0 => \A j \in 1..(i - 1) : tries[j] = AttemptsPerModel
    BY DEF StreamBudgetInOrder
  <2>1. /\ Len(chain) \in Nat /\ index \in Nat \ {0}
        /\ tries \in [1..Len(chain) -> 0..AttemptsPerModel]
        /\ AttemptsPerModel \in Nat \ {0}
    BY Ranges DEF IInv, TypeOK, Left
  <2>2. CASE i > index
    BY <2>1, <2>2 DEF IInv, Progress
  <2>3. CASE i <= index
    BY <2>1, <2>3 DEF IInv, Progress
  <2>4. QED BY <2>1, <2>2, <2>3
<1>2. QED BY <1>1, Invariance, PTL

\* However long the streams and wherever they break, the consumer reads the
\* attempts in walk order and nothing of a later one is under an earlier one.
THEOREM StreamDeltas == Spec => []DeltasInWalkOrder
<1>1. IInv => DeltasInWalkOrder
  BY DEF IInv
<1>2. QED BY <1>1, Invariance, PTL

\* The generator implements the failover promise for every chain and budget:
\* a consumer who leaves ends the walk, and deltas are invisible to it.
THEOREM StreamImplementsFailover == Spec => StreamWalksChain
<1>1. Init => Promise!Init
  BY DEF Init, Promise!Init, Verdict
<1>2. ASSUME IInv, [Next]_vars PROVE [Promise!Next]_Promise!fvars
  <2>1. Len(chain) \in Nat /\ index \in Nat \ {0}
    BY <1>2, Ranges DEF IInv, Left
  <2>2. CASE UNCHANGED vars
    BY <2>2 DEF vars, args, Promise!fvars, Verdict
  <2>3. CASE RefuseArguments
    <3>1. chain = << >> => index >= Len(chain)
      BY <2>1, EmptySeq
    <3>2. QED
      BY <2>3, <3>1 DEF RefuseArguments, Raise, args, Promise!Next, Promise!Refuse,
         Promise!Exhaust, Verdict
  <2>4. CASE StartWalk
    BY <1>2, <2>4 DEF StartWalk, StartAttempt, args, Promise!fvars, Verdict, IInv, Left
  <2>5. CASE StreamOpens \/ DeltaArrives \/ ConsumerAsksOn
    BY <2>5 DEF StreamOpens, DeltaArrives, ConsumerAsksOn, args, Promise!fvars, Verdict
  <2>6. CASE StreamEnds
    <3>1. index <= Len(chain)
      BY <1>2, <2>1, <2>6 DEF StreamEnds, IInv, TypeOK, ThisAttempt, Attempts
    <3>2. Promise!Answer
      BY <2>6, <3>1 DEF StreamEnds, args, Promise!Answer, Verdict
    <3>3. QED BY <3>2 DEF Promise!Next
  <2>7. CASE ConsumerLeaves
    BY <2>7 DEF ConsumerLeaves, args, Promise!Next, Promise!Refuse, Verdict
  <2>8. ASSUME NEW e \in StreamOpenErrors \cup MidStreamErrors, AttemptFails(e)
        PROVE  [Promise!Next]_Promise!fvars
    <3>1. phase \in {"opening", "reading"} /\ UNCHANGED <<args, delivered>>
      BY <2>8 DEF AttemptFails
    <3>2. CASE FailsForGood(e)
      BY <3>1, <3>2 DEF FailsForGood, Raise, args, Promise!Next, Promise!Refuse, Verdict
    <3>3. CASE FailsRetry(e)
      BY <3>1, <3>3 DEF FailsRetry, StartAttempt, args, Promise!fvars, Verdict
    <3>4. CASE FailsNextModel(e)
      BY <2>1, <3>1, <3>4 DEF FailsNextModel, StartAttempt, Raise, args, Promise!Next,
         Promise!LeaveModel, Promise!Exhaust, Verdict
    <3>5. QED BY <2>8, <3>2, <3>3, <3>4 DEF AttemptFails
  <2>9. QED BY <1>2, <2>2, <2>3, <2>4, <2>5, <2>6, <2>7, <2>8 DEF Next
<1>3. QED
  BY <1>1, <1>2, Invariance, PTL DEF Spec, StreamWalksChain, Promise!Spec
=============================================================================
