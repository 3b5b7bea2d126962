---------------------- MODULE ReflectionParallelProofs ----------------------
(***************************************************************************)
(* For any number of turns: although all turns are gathered at once, no    *)
(* two have a call in flight together, an early exit ends the loop, and    *)
(* where no revision is blank the tasks implement the sequential loop.     *)
(***************************************************************************)
EXTENDS ReflectionParallel, SequenceTheorems, FiniteSetTheorems, TLAPS

(***************************************************************************)
(* The inductive invariant.  A turn's event is set only when every turn    *)
(* before it has returned (InTurn), and whoever has left the wait had its  *)
(* event set (Woken).  The rest types the state the steps read; the        *)
(* outcome of the loop is not among it.                                    *)
(***************************************************************************)
Notes == {"reflect_fresh_context", "reflect_score", "reflect_early_exit"}

Entries ==
    {Critiqued(t, c, a) : t \in Tasks, c \in CritiqueTexts, a \in Texts}
    \cup {Revised(t, b, a) : t \in Tasks, b \in Texts, a \in Texts}
    \cup {Note(type, t) : type \in Notes, t \in Tasks}

StateOK ==
    /\ cfg \in Configs
    /\ task \in [Tasks -> {"blocked", "critique", "revision", "cancelling"} \cup Ended]
    /\ turn_ready \in [Tasks -> BOOLEAN]
    /\ latest_answers \in [Tasks -> Texts]
    /\ heard \in [Tasks -> CritiqueTexts]
    /\ events \in Seq(Entries)

InTurn ==
    \A t \in Tasks : turn_ready[t] =>
        \A u \in Tasks : u < t => task[u] = "returned"

Woken ==
    \A t \in Tasks :
        task[t] \in {"critique", "revision", "returned", "failed"} => turn_ready[t]

PInv == StateOK /\ InTurn /\ Woken /\ EarlyExitIsFinal

-----------------------------------------------------------------------------
\* The turns of a configured loop are numbered 0 to turns - 1.
LEMMA TurnsAreNumbers ==
    ASSUME cfg \in Configs
    PROVE  cfg.turns \in Nat /\ Tasks \subseteq Nat
BY ConfigsAssumption DEF ReflectionConfigs, Tasks

\* Where a log that another follows has its entries of one type.
LEMMA OfTypeConcat ==
    ASSUME NEW S, NEW s \in Seq(S), NEW r \in Seq(S), NEW type
    PROVE  OfType(s \o r, type) =
               OfType(s, type) \cup {Len(s) + i : i \in OfType(r, type)}
<1>1. /\ Len(s) \in Nat /\ Len(r) \in Nat
      /\ DOMAIN s = 1..Len(s) /\ DOMAIN r = 1..Len(r)
      /\ DOMAIN (s \o r) = 1..(Len(s) + Len(r))
      /\ \A i \in 1..(Len(s) + Len(r)) :
            (s \o r)[i] = IF i <= Len(s) THEN s[i] ELSE r[i - Len(s)]
  BY ConcatProperties
<1>2. ASSUME NEW i \in OfType(s \o r, type)
      PROVE  i \in OfType(s, type) \cup {Len(s) + k : k \in OfType(r, type)}
  <2>1. CASE i <= Len(s)
    BY <1>1, <1>2, <2>1 DEF OfType
  <2>2. CASE ~(i <= Len(s))
    <3>1. i - Len(s) \in OfType(r, type) /\ i = Len(s) + (i - Len(s))
      BY <1>1, <1>2, <2>2 DEF OfType
    <3>2. QED BY <3>1
  <2>3. QED BY <2>1, <2>2
<1>3. ASSUME NEW i \in OfType(s, type) PROVE i \in OfType(s \o r, type)
  BY <1>1, <1>3 DEF OfType
<1>4. ASSUME NEW i \in OfType(r, type) PROVE Len(s) + i \in OfType(s \o r, type)
  BY <1>1, <1>4 DEF OfType
<1>5. QED BY <1>2, <1>3, <1>4

\* Where to put the brackets in a log is of no importance.
LEMMA LogsConcat ==
    ASSUME NEW r \in Seq(Entries), NEW s \in Seq(Entries), NEW t \in Seq(Entries)
    PROVE  /\ r \o s \in Seq(Entries)
           /\ (r \o s) \o t = r \o (s \o t)
<1>1. r \o s \in Seq(Entries)
  BY ConcatProperties
<1>2. (r \o s) \o t = r \o (s \o t)
  BY ConcatAssociative
<1>3. QED BY <1>1, <1>2

\* A log without early exits stays so when notes without one follow; when one
\* entry that is an early exit follows, it is the last.
LEMMA QuietConcat ==
    ASSUME NEW S, NEW s \in Seq(S), NEW r \in Seq(S),
           OfType(s, "reflect_early_exit") = {}
    PROVE  /\ s \o r \in Seq(S)
           /\ OfType(r, "reflect_early_exit") = {} =>
                 OfType(s \o r, "reflect_early_exit") = {}
           /\ OfType(r, "reflect_early_exit") = {1} /\ Len(r) = 1 =>
                 OfType(s \o r, "reflect_early_exit") = {Len(s \o r)}
<1>1. s \o r \in Seq(S) /\ Len(s \o r) = Len(s) + Len(r)
  BY ConcatProperties
<1>2. OfType(s \o r, "reflect_early_exit") =
          {Len(s) + i : i \in OfType(r, "reflect_early_exit")}
  BY OfTypeConcat
<1>3. QED BY <1>1, <1>2

\* An optional entry is a sequence of its own.
LEMMA OptionalEntry ==
    ASSUME NEW condition \in BOOLEAN, NEW note \in Entries
    PROVE  /\ Optional(condition, note) \in Seq(Entries)
           /\ OfType(Optional(condition, note), "reflect_early_exit") =
                 IF condition /\ note.type = "reflect_early_exit" THEN {1} ELSE {}
           /\ condition => Len(Optional(condition, note)) = 1
<1>1. CASE condition
  <2>1. Optional(condition, note) = <<note>>
    BY <1>1 DEF Optional
  <2>2. <<note>> \in Seq(Entries) /\ Len(<<note>>) = 1
    OBVIOUS
  <2>3. OfType(<<note>>, "reflect_early_exit") =
            IF note.type = "reflect_early_exit" THEN {1} ELSE {}
    BY DEF OfType
  <2>4. QED BY <1>1, <2>1, <2>2, <2>3
<1>2. CASE ~condition
  BY <1>2 DEF Optional, OfType
<1>3. QED BY <1>1, <1>2

\* What a critique adds to the log: an early exit, if any, is its last entry.
LEMMA CritiqueLogged ==
    ASSUME StateOK, OfType(events, "reflect_early_exit") = {}, NEW t \in Tasks,
           NEW c \in CritiqueTexts, NEW a \in Texts,
           NEW log, log = events \o CritiqueEvents(cfg, events, t, c, a)
    PROVE  /\ log \in Seq(Entries)
           /\ OfType(log, "reflect_early_exit") =
                 IF ExitsUnrevised(cfg, t, c) THEN {Len(log)} ELSE {}
<1> DEFINE fresh == cfg.fresh_context /\ OfType(events, "reflect_fresh_context") = {}
           scored == c.score # NoScore
           exits == ExitsUnrevised(cfg, t, c)
           one == <<Critiqued(t, c, a)>>
           two == Optional(fresh, Note("reflect_fresh_context", t))
           three == Optional(scored, Note("reflect_score", t))
           four == Optional(exits, EarlyExit(t))
<1>1. /\ Critiqued(t, c, a) \in Entries /\ Note("reflect_fresh_context", t) \in Entries
      /\ Note("reflect_score", t) \in Entries /\ EarlyExit(t) \in Entries
      /\ events \in Seq(Entries)
  BY DEF Entries, Notes, EarlyExit, StateOK
<1>2. fresh \in BOOLEAN /\ scored \in BOOLEAN /\ exits \in BOOLEAN
  BY ConfigsAssumption DEF StateOK, ReflectionConfigs, ExitsUnrevised, LastTurn,
     ClearsThreshold, Malformed
<1>3. one \in Seq(Entries) /\ OfType(one, "reflect_early_exit") = {}
  BY <1>1 DEF OfType, Critiqued
<1>4. CritiqueEvents(cfg, events, t, c, a) = ((one \o two) \o three) \o four
  BY DEF CritiqueEvents
<1> HIDE DEF one, fresh, scored, exits
<1>5. two \in Seq(Entries) /\ OfType(two, "reflect_early_exit") = {}
  <2>1. Note("reflect_fresh_context", t).type = "reflect_fresh_context"
    BY DEF Note
  <2>2. QED BY <1>1, <1>2, <2>1, OptionalEntry
<1>6. three \in Seq(Entries) /\ OfType(three, "reflect_early_exit") = {}
  <2>1. Note("reflect_score", t).type = "reflect_score"
    BY DEF Note
  <2>2. QED BY <1>1, <1>2, <2>1, OptionalEntry
<1>7. /\ four \in Seq(Entries)
      /\ OfType(four, "reflect_early_exit") = IF exits THEN {1} ELSE {}
      /\ exits => Len(four) = 1
  <2>1. EarlyExit(t).type = "reflect_early_exit"
    BY DEF EarlyExit, Note
  <2>2. QED BY <1>1, <1>2, <2>1, OptionalEntry
<1> HIDE DEF two, three, four
<1>8. log = (((events \o one) \o two) \o three) \o four
  <2> DEFINE twoSoFar == one \o two
  <2>1. /\ (events \o one) \o two = events \o twoSoFar
        /\ twoSoFar \in Seq(Entries)
    BY <1>1, <1>3, <1>5, LogsConcat, SMTT(30)
  <2> DEFINE threeSoFar == twoSoFar \o three
  <2> HIDE DEF twoSoFar
  <2>2. /\ (events \o twoSoFar) \o three = events \o threeSoFar
        /\ threeSoFar \in Seq(Entries)
    BY <1>1, <1>6, <2>1, LogsConcat, SMTT(30)
  <2> HIDE DEF threeSoFar
  <2>3. (events \o threeSoFar) \o four = events \o (threeSoFar \o four)
    BY <1>1, <1>7, <2>2, LogsConcat, SMTT(30)
  <2>4. QED BY <1>4, <2>1, <2>2, <2>3 DEF twoSoFar, threeSoFar
<1> DEFINE upToOne == events \o one
           upToTwo == upToOne \o two
           upToThree == upToTwo \o three
<1>9. upToOne \in Seq(Entries) /\ OfType(upToOne, "reflect_early_exit") = {}
  BY <1>1, <1>3, QuietConcat
<1> HIDE DEF upToOne
<1>10. upToTwo \in Seq(Entries) /\ OfType(upToTwo, "reflect_early_exit") = {}
  BY <1>5, <1>9, QuietConcat
<1> HIDE DEF upToTwo
<1>11. upToThree \in Seq(Entries) /\ OfType(upToThree, "reflect_early_exit") = {}
  BY <1>6, <1>10, QuietConcat
<1>12. log = upToThree \o four
  BY <1>8 DEF upToOne, upToTwo
<1> HIDE DEF upToThree
<1>13. /\ log \in Seq(Entries)
       /\ OfType(log, "reflect_early_exit") = IF exits THEN {Len(log)} ELSE {}
  BY <1>2, <1>7, <1>11, <1>12, QuietConcat
<1>14. QED BY <1>13 DEF exits

\* What a revision adds to the log: an early exit, if any, is its last entry.
LEMMA RevisionLogged ==
    ASSUME StateOK, OfType(events, "reflect_early_exit") = {}, NEW t \in Tasks,
           NEW c \in CritiqueTexts, NEW b \in Texts, NEW a \in Texts,
           NEW log, log = events \o RevisionEvents(cfg, t, c, b, a)
    PROVE  /\ log \in Seq(Entries)
           /\ OfType(log, "reflect_early_exit") =
                 IF ClearsThreshold(cfg, c) THEN {Len(log)} ELSE {}
<1> DEFINE exits == ClearsThreshold(cfg, c)
           one == <<Revised(t, b, a)>>
           two == Optional(exits, EarlyExit(t))
<1>1. /\ Revised(t, b, a) \in Entries /\ EarlyExit(t) \in Entries
      /\ events \in Seq(Entries)
  BY DEF Entries, Notes, EarlyExit, StateOK
<1>2. exits \in BOOLEAN
  BY ConfigsAssumption DEF StateOK, ReflectionConfigs, ClearsThreshold, Malformed
<1>3. one \in Seq(Entries) /\ OfType(one, "reflect_early_exit") = {}
  BY <1>1 DEF OfType, Revised
<1>4. RevisionEvents(cfg, t, c, b, a) = one \o two
  BY DEF RevisionEvents
<1> HIDE DEF one, exits
<1>5. /\ two \in Seq(Entries)
      /\ OfType(two, "reflect_early_exit") = IF exits THEN {1} ELSE {}
      /\ exits => Len(two) = 1
  <2>1. EarlyExit(t).type = "reflect_early_exit"
    BY DEF EarlyExit, Note
  <2>2. QED BY <1>1, <1>2, <2>1, OptionalEntry
<1> HIDE DEF two
<1> DEFINE upToOne == events \o one
<1>6. upToOne \in Seq(Entries) /\ OfType(upToOne, "reflect_early_exit") = {}
  BY <1>1, <1>3, QuietConcat
<1>7. log = upToOne \o two
  BY <1>1, <1>3, <1>4, <1>5, LogsConcat, SMTT(30)
<1> HIDE DEF upToOne
<1>8. /\ log \in Seq(Entries)
      /\ OfType(log, "reflect_early_exit") = IF exits THEN {Len(log)} ELSE {}
  BY <1>2, <1>5, <1>6, <1>7, QuietConcat
<1>9. QED BY <1>8 DEF exits

-----------------------------------------------------------------------------
\* The loop starts inside the invariant: only the first turn is awake.
LEMMA InitEstablishes == Init => PInv
<1> SUFFICES ASSUME Init PROVE PInv
  OBVIOUS
<1>1. cfg \in Configs /\ cfg.turns \in Nat /\ Tasks \subseteq Nat
  BY TurnsAreNumbers DEF Init
<1>2. StateOK
  <2>1. NoCritique \in CritiqueTexts
    BY DEF NoCritique, CritiqueTexts, NoScore
  <2>2. latest_answers \in [Tasks -> Texts]
    BY BlankAssumption DEF Init
  <2>3. QED BY <2>1, <2>2, EmptySeq DEF Init, StateOK
<1>3. InTurn
  <2>1. \A t \in Tasks : turn_ready[t] => t = 0
    BY DEF Init
  <2>2. QED BY <1>1, <2>1 DEF InTurn
<1>4. Woken
  BY DEF Init, Woken
<1>5. EarlyExitIsFinal
  BY DEF Init, EarlyExitIsFinal, ExitLogged, OfType
<1>6. QED BY <1>2, <1>3, <1>4, <1>5 DEF PInv

\* A step of a task that sets no event, wakes nobody and logs nothing keeps the
\* invariant: the early exit stays final because nobody left the wait.
LEMMA QuietStep ==
    ASSUME PInv, UNCHANGED <<cfg, turn_ready, latest_answers, heard, events>>,
           task' \in [Tasks -> {"blocked", "critique", "revision", "cancelling"} \cup Ended],
           \A u \in Tasks :
               \/ task'[u] = task[u]
               \/ task[u] # "returned" /\ task'[u] \in {"cancelling", "cancelled"}
               \/ task[u] \in {"critique", "revision"} /\ task'[u] = "failed"
               \/ task[u] = "blocked" /\ turn_ready[u] /\ task'[u] = "critique"
    PROVE  PInv'
<1>1. Tasks' = Tasks
  BY DEF Tasks
<1>2. StateOK'
  BY <1>1 DEF PInv, StateOK, Entries, Ended
<1>3. InTurn'
  BY <1>1 DEF PInv, InTurn
<1>4. Woken'
  BY <1>1 DEF PInv, Woken
<1>5. EarlyExitIsFinal'
  <2> SUFFICES ASSUME ExitLogged'
               PROVE  /\ OfType(events', "reflect_early_exit") = {Len(events')}
                      /\ \A u \in Tasks : /\ task'[u] \notin {"critique", "revision"}
                                          /\ ~(task'[u] = "blocked" /\ turn_ready'[u])
    BY <1>1 DEF EarlyExitIsFinal, InFlight
  <2>1. /\ OfType(events, "reflect_early_exit") = {Len(events)}
        /\ \A u \in Tasks : /\ task[u] \notin {"critique", "revision"}
                            /\ ~(task[u] = "blocked" /\ turn_ready[u])
    BY DEF PInv, EarlyExitIsFinal, ExitLogged, InFlight
  <2>2. QED BY <2>1
<1>6. QED BY <1>2, <1>3, <1>4, <1>5 DEF PInv

\* A turn in flight is awake, everybody before it has returned, nobody behind it
\* is awake, and nobody has taken the early exit.
LEMMA InFlightFacts ==
    ASSUME PInv, NEW t \in InFlight
    PROVE  /\ t \in Tasks /\ t \in Nat /\ turn_ready[t]
           /\ \A u \in Tasks : u < t => task[u] = "returned"
           /\ \A u \in Tasks : u > t => ~turn_ready[u]
           /\ OfType(events, "reflect_early_exit") = {}
<1>1. t \in Tasks /\ task[t] \in {"critique", "revision"} /\ Tasks \subseteq Nat
  BY TurnsAreNumbers DEF InFlight, PInv, StateOK
<1>2. turn_ready[t]
  BY <1>1 DEF PInv, Woken
<1>3. \A u \in Tasks : u < t => task[u] = "returned"
  BY <1>1, <1>2 DEF PInv, InTurn
<1>4. \A u \in Tasks : u > t => ~turn_ready[u]
  BY <1>1 DEF PInv, InTurn
<1>5. OfType(events, "reflect_early_exit") = {}
  BY DEF PInv, EarlyExitIsFinal, ExitLogged
<1>6. QED BY <1>1, <1>2, <1>3, <1>4, <1>5

\* A critique keeps the invariant: it exits only from the last turn, when every
\* other turn has returned.
LEMMA CritiquePreserves ==
    ASSUME PInv, NEW t \in Tasks, NEW reply \in CritiqueReplies, CritiqueReturns(t, reply)
    PROVE  PInv'
<1> DEFINE exits == ExitsUnrevised(cfg, t, reply.text)
<1>1. /\ task[t] = "critique" /\ t \in InFlight
      /\ UNCHANGED <<cfg, turn_ready, latest_answers>>
      /\ heard' = [heard EXCEPT ![t] = reply.text]
      /\ events' = events \o CritiqueEvents(cfg, events, t, reply.text, latest_answers[t])
      /\ task' = [task EXCEPT ![t] = IF exits THEN "returned" ELSE "revision"]
  BY DEF CritiqueReturns, InFlight
<1>2. Tasks' = Tasks /\ Entries' = Entries
  BY <1>1 DEF Tasks, Entries
<1>3. /\ turn_ready[t] /\ OfType(events, "reflect_early_exit") = {}
      /\ \A u \in Tasks : u < t => task[u] = "returned"
  BY <1>1, InFlightFacts
<1>4. reply.text \in CritiqueTexts /\ latest_answers[t] \in Texts
  BY RepliesAssumption DEF PInv, StateOK
<1>5. /\ events' \in Seq(Entries)
      /\ OfType(events', "reflect_early_exit") = IF exits THEN {Len(events')} ELSE {}
  BY <1>1, <1>3, <1>4, CritiqueLogged DEF PInv
<1>6. /\ task \in [Tasks -> {"blocked", "critique", "revision", "cancelling"} \cup Ended]
      /\ task'[t] = IF exits THEN "returned" ELSE "revision"
      /\ \A u \in Tasks : u # t => task'[u] = task[u]
  BY <1>1 DEF PInv, StateOK
<1>7. StateOK'
  BY <1>1, <1>2, <1>4, <1>5, <1>6 DEF PInv, StateOK, Ended
<1> HIDE DEF exits
<1>8. InTurn'
  BY <1>1, <1>2, <1>6 DEF PInv, InTurn
<1>9. Woken'
  BY <1>1, <1>2, <1>3, <1>6 DEF PInv, Woken
<1>10. EarlyExitIsFinal'
  <2>1. CASE ~exits
    BY <1>5, <2>1 DEF EarlyExitIsFinal, ExitLogged
  <2>2. CASE exits
    <3>1. t = cfg.turns - 1
      BY <2>2 DEF exits, ExitsUnrevised, LastTurn
    <3>2. \A u \in Tasks : u = t \/ u < t
      BY <3>1, TurnsAreNumbers DEF PInv, StateOK, Tasks
    <3>3. \A u \in Tasks : task'[u] = "returned"
      BY <1>3, <1>6, <2>2, <3>2
    <3>4. QED BY <1>2, <1>5, <2>2, <3>3 DEF EarlyExitIsFinal, InFlight
  <2>3. QED BY <2>1, <2>2
<1>11. QED BY <1>7, <1>8, <1>9, <1>10 DEF PInv

\* A revision keeps the invariant: one that exits stops everybody who could go
\* on, one that does not wakes the next turn only.
LEMMA RevisionPreserves ==
    ASSUME PInv, NEW t \in Tasks, NEW reply \in RevisionReplies, RevisionReturns(t, reply)
    PROVE  PInv'
<1> DEFINE exits == ClearsThreshold(cfg, heard[t])
<1>1. /\ task[t] = "revision" /\ t \in InFlight /\ UNCHANGED <<cfg, heard>>
      /\ events' = events
             \o RevisionEvents(cfg, t, heard[t], reply.text, latest_answers[t])
  BY DEF RevisionReturns, InFlight
<1>2. Tasks' = Tasks /\ Entries' = Entries
  BY <1>1 DEF Tasks, Entries
<1>3. /\ t \in Nat /\ turn_ready[t] /\ OfType(events, "reflect_early_exit") = {}
      /\ \A u \in Tasks : u < t => task[u] = "returned"
      /\ \A u \in Tasks : u > t => ~turn_ready[u]
      /\ Tasks \subseteq Nat
  BY <1>1, InFlightFacts, TurnsAreNumbers DEF PInv, StateOK
<1>4. reply.text \in Texts /\ latest_answers[t] \in Texts /\ heard[t] \in CritiqueTexts
  BY RepliesAssumption DEF PInv, StateOK
<1>5. /\ events' \in Seq(Entries)
      /\ OfType(events', "reflect_early_exit") = IF exits THEN {Len(events')} ELSE {}
  <2> DEFINE c == heard[t]
             b == reply.text
             a == latest_answers[t]
             log == events \o RevisionEvents(cfg, t, c, b, a)
  <2>1. StateOK /\ t \in Tasks /\ c \in CritiqueTexts /\ b \in Texts /\ a \in Texts
    BY <1>4 DEF PInv, InFlight, RevisionReturns, StateOK
  <2>2. events' = log /\ (exits <=> ClearsThreshold(cfg, c))
    BY <1>1
  <2>3. OfType(events, "reflect_early_exit") = {}
    BY <1>3
  <2> HIDE DEF c, b, a
  <2>4. /\ log \in Seq(Entries)
        /\ OfType(log, "reflect_early_exit") =
               IF ClearsThreshold(cfg, c) THEN {Len(log)} ELSE {}
    BY <2>1, <2>3, RevisionLogged
  <2> HIDE DEF log, exits
  <2>5. QED BY <2>2, <2>4
<1>6. /\ task \in [Tasks -> {"blocked", "critique", "revision", "cancelling"} \cup Ended]
      /\ turn_ready \in [Tasks -> BOOLEAN] /\ latest_answers \in [Tasks -> Texts]
      /\ heard \in [Tasks -> CritiqueTexts] /\ cfg \in Configs
  BY DEF PInv, StateOK
<1>7. CASE exits
  <2>1. task' = StopOtherTasks(t) /\ UNCHANGED <<turn_ready, latest_answers>>
    BY <1>7 DEF RevisionReturns
  <2>2. /\ task' \in [Tasks -> {"blocked", "critique", "revision", "cancelling"} \cup Ended]
        /\ task'[t] = "returned"
        /\ \A u \in Tasks : u # t => task'[u] = task[u] \/ task'[u] = "cancelling"
        /\ \A u \in Tasks : task[u] = "returned" => task'[u] = "returned"
    BY <1>6, <2>1 DEF StopOtherTasks, Ended
  <2>3. ASSUME NEW u \in Tasks
        PROVE  task'[u] \in Ended \cup {"cancelling"}
    <3>1. CASE u = t \/ task[u] \in Ended
      BY <2>1, <3>1 DEF StopOtherTasks, Ended
    <3>2. CASE u # t /\ task[u] \notin Ended
      <4>1. u > t
        BY <1>3, <3>2 DEF Ended
      <4>2. ~turn_ready[u]
        BY <1>3, <4>1
      <4>3. QED BY <2>1, <3>2, <4>1, <4>2 DEF StopOtherTasks
    <3>3. QED BY <3>1, <3>2
  <2>4. StateOK'
    BY <1>1, <1>2, <1>5, <1>6, <2>1, <2>2 DEF StateOK, Ended
  <2>5. InTurn'
    BY <1>2, <2>1, <2>2 DEF PInv, InTurn
  <2>6. Woken'
    BY <1>2, <1>3, <2>1, <2>2 DEF PInv, Woken
  <2>7. EarlyExitIsFinal'
    BY <1>2, <1>5, <1>7, <2>3 DEF EarlyExitIsFinal, InFlight, Ended
  <2>8. QED BY <2>4, <2>5, <2>6, <2>7 DEF PInv
<1>8. CASE ~exits
  <2>1. task' = [task EXCEPT ![t] = "returned"]
    BY <1>8 DEF RevisionReturns
  <2>2. /\ task'[t] = "returned" /\ \A u \in Tasks : u # t => task'[u] = task[u]
        /\ task' \in [Tasks -> {"blocked", "critique", "revision", "cancelling"} \cup Ended]
    BY <1>6, <2>1 DEF Ended
  <2>3. EarlyExitIsFinal'
    BY <1>5, <1>8 DEF EarlyExitIsFinal, ExitLogged
  <2>4. CASE UNCHANGED <<turn_ready, latest_answers>>
    <3>1. StateOK'
      BY <1>1, <1>2, <1>5, <1>6, <2>2, <2>4 DEF StateOK, Ended
    <3>2. InTurn'
      BY <1>2, <2>2, <2>4 DEF PInv, InTurn
    <3>3. Woken'
      BY <1>2, <1>3, <2>2, <2>4 DEF PInv, Woken
    <3>4. QED BY <2>3, <3>1, <3>2, <3>3 DEF PInv
  <2>5. CASE /\ latest_answers' = [latest_answers EXCEPT ![t + 1] = reply.text]
             /\ turn_ready' = [turn_ready EXCEPT ![t + 1] = TRUE]
    <3>1. /\ turn_ready' \in [Tasks -> BOOLEAN] /\ latest_answers' \in [Tasks -> Texts]
          /\ \A u \in Tasks : u # t + 1 => turn_ready'[u] = turn_ready[u]
          /\ \A u \in Tasks : turn_ready[u] => turn_ready'[u]
      BY <1>4, <1>6, <2>5
    <3>2. StateOK'
      BY <1>1, <1>2, <1>5, <1>6, <2>2, <3>1 DEF StateOK, Ended
    <3>3. InTurn'
      <4> SUFFICES ASSUME NEW v \in Tasks, turn_ready'[v], NEW u \in Tasks, u < v
                   PROVE  task'[u] = "returned"
        BY <1>2 DEF InTurn
      <4>1. CASE v = t + 1
        BY <1>3, <2>2, <4>1
      <4>2. CASE v # t + 1
        BY <2>2, <3>1, <4>2 DEF PInv, InTurn
      <4>3. QED BY <4>1, <4>2
    <3>4. Woken'
      BY <1>2, <1>3, <2>2, <3>1 DEF PInv, Woken
    <3>5. QED BY <2>3, <3>2, <3>3, <3>4 DEF PInv
  <2>6. QED BY <1>8, <2>4, <2>5 DEF RevisionReturns
<1>9. QED BY <1>7, <1>8

\* Every step stays inside the invariant.
LEMMA StepPreserves == PInv /\ [Next]_vars => PInv'
<1> SUFFICES ASSUME PInv, [Next]_vars PROVE PInv'
  OBVIOUS
<1>1. task \in [Tasks -> {"blocked", "critique", "revision", "cancelling"} \cup Ended]
  BY DEF PInv, StateOK
<1>2. CASE UNCHANGED vars \/ GatherReturns
  BY <1>1, <1>2, QuietStep DEF vars, shared, GatherReturns
<1>3. ASSUME NEW t \in Tasks, TurnStarts(t) PROVE PInv'
  BY <1>1, <1>3, QuietStep DEF TurnStarts, shared
<1>4. ASSUME NEW t \in Tasks, CallRaises(t) PROVE PInv'
  BY <1>1, <1>4, QuietStep DEF CallRaises, InFlight, Ended, shared
<1>5. ASSUME NEW t \in Tasks, CancellationArrives(t) PROVE PInv'
  BY <1>1, <1>5, QuietStep DEF CancellationArrives, Ended, shared
<1>6. CASE CallerCancelled
  BY <1>1, <1>6, QuietStep DEF CallerCancelled, Ended, shared
<1>7. QED
  BY <1>2, <1>3, <1>4, <1>5, <1>6, CritiquePreserves, RevisionPreserves DEF Next, TaskStep

\* The invariant holds in every reachable state.
LEMMA Invariance == Spec => []PInv
<1>1. QED BY InitEstablishes, StepPreserves, PTL DEF Spec

-----------------------------------------------------------------------------
\* No two turns have a call in flight together, however many there are.
THEOREM TurnsTakeTurns == Spec => []OneTurnInFlight
<1>1. PInv => OneTurnInFlight
  <2> SUFFICES ASSUME PInv, NEW t \in InFlight, NEW u \in InFlight PROVE t = u
    BY DEF OneTurnInFlight
  <2>1. t \in Nat /\ u \in Nat /\ t \in Tasks /\ u \in Tasks
        /\ turn_ready[t] /\ turn_ready[u]
    BY InFlightFacts
  <2>2. ~(u > t) /\ ~(t > u)
    BY <2>1, InFlightFacts
  <2>3. QED BY <2>1, <2>2
<1>2. QED BY <1>1, Invariance, PTL

\* Once a turn has taken the early exit nothing is in flight, nothing may start
\* and nothing more is logged, however many turns were gathered.
THEOREM ExitEndsLoop == Spec => []EarlyExitIsFinal
<1>1. PInv => EarlyExitIsFinal
  BY DEF PInv
<1>2. QED BY <1>1, Invariance, PTL

-----------------------------------------------------------------------------
(***************************************************************************)
(* Facts about the operators the loop's outcome is computed with: the      *)
(* flattening of the turns' fallbacks and the largest of a set of turns.   *)
(* Both are computed by counting, so both need induction: a set that has   *)
(* 0 and, with every number, the next one has every number.                *)
(***************************************************************************)
LEMMA CountingUp ==
    ASSUME NEW K, 0 \in K, \A k \in Nat : k \in K => k + 1 \in K
    PROVE  Nat \subseteq K
<1> DEFINE missed == {0..k : k \in Nat \ K}
<1>1. missed \subseteq FiniteSubsetsOf(Nat)
  <2>1. ASSUME NEW k \in Nat PROVE 0..k \in FiniteSubsetsOf(Nat)
    <3>1. IsFiniteSet(0..k)
      BY FS_Interval
    <3>2. QED BY <3>1 DEF FiniteSubsetsOf
  <2>2. QED BY <2>1
<1>2. ASSUME NEW n \in Nat \ K PROVE FALSE
  <2>1. missed # {}
    BY <1>2
  <2>2. IsWellFoundedOn(StrictSubsetOrdering(Nat), FiniteSubsetsOf(Nat))
    BY FS_StrictSubsetOrderingWellFounded
  <2>3. PICK x \in missed : \A y \in missed : ~(<<y, x>> \in StrictSubsetOrdering(Nat))
    <3> HIDE DEF missed
    <3>1. QED BY <1>1, <2>1, <2>2, WFMin
  <2>4. PICK k \in Nat \ K : x = 0..k
    BY <2>3
  <2>5. k # 0 /\ k - 1 \in Nat \ K
    BY <2>4
  <2>6. 0..(k - 1) \in missed /\ 0..(k - 1) \subseteq x /\ 0..(k - 1) # x
    BY <2>4, <2>5
  <2>7. <<0..(k - 1), x>> \in StrictSubsetOrdering(Nat)
    BY <2>4, <2>6 DEF StrictSubsetOrdering
  <2>8. QED BY <2>3, <2>6, <2>7
<1>3. QED BY <1>2

\* f lists the partial flattenings of the n sequences s.
Flattens(f, s, n) ==
    \A i \in 1..n : f[i] = IF i = 1 THEN s[i] ELSE f[i - 1] \o s[i]

\* The flattening of n sequences is the last of the partial ones.
LEMMA FlatteningSteps ==
    ASSUME NEW M, NEW n \in Nat \ {0}, NEW s \in [1..n -> Seq(M)]
    PROVE  \E f \in [1..n -> Seq(M)] : Flattens(f, s, n) /\ FlattenSeq(s) = f[n]
<1> DEFINE Begun(k) == \E f \in [1..k -> Seq(M)] : Flattens(f, s, k)
           begun == {k \in Nat : k \in 1..n => Begun(k)}
<1>1. Begun(1)
  <2> DEFINE one == [i \in 1..1 |-> s[1]]
  <2>1. one \in [1..1 -> Seq(M)] /\ Flattens(one, s, 1)
    BY DEF Flattens
  <2> HIDE DEF one
  <2>2. QED BY <2>1
<1>2. ASSUME NEW k \in 1..(n - 1), Begun(k) PROVE Begun(k + 1)
  <2>1. PICK f \in [1..k -> Seq(M)] : Flattens(f, s, k)
    BY <1>2
  <2> DEFINE longer == f[k] \o s[k + 1]
             more == [i \in 1..(k + 1) |-> IF i = k + 1 THEN longer ELSE f[i]]
  <2>2. longer \in Seq(M)
    <3>1. f[k] \in Seq(M) /\ s[k + 1] \in Seq(M)
      OBVIOUS
    <3>2. QED BY <3>1, ConcatProperties
  <2>3. more \in [1..(k + 1) -> Seq(M)]
    <3> HIDE DEF longer
    <3>1. QED BY <2>2
  <2>4. /\ more[k + 1] = f[k] \o s[k + 1]
        /\ \A i \in 1..k : more[i] = f[i]
    OBVIOUS
  <2> HIDE DEF more
  <2>5. ASSUME NEW i \in 1..(k + 1)
        PROVE  more[i] = IF i = 1 THEN s[i] ELSE more[i - 1] \o s[i]
    <3>1. CASE i = k + 1
      <4>1. more[i - 1] = f[k] /\ i # 1 /\ more[i] = f[k] \o s[i]
        BY <2>4, <3>1
      <4>2. QED BY <4>1
    <3>2. CASE i \in 1..k
      <4>1. more[i] = f[i] /\ (i # 1 => more[i - 1] = f[i - 1])
        BY <2>4, <3>2
      <4>2. f[i] = IF i = 1 THEN s[i] ELSE f[i - 1] \o s[i]
        BY <2>1, <3>2 DEF Flattens
      <4>3. QED BY <4>1, <4>2
    <3>3. QED BY <3>1, <3>2
  <2>6. QED BY <2>3, <2>5 DEF Flattens
<1>3. Begun(n)
  <2> HIDE DEF Begun
  <2>1. 0 \in begun
    OBVIOUS
  <2>2. ASSUME NEW k \in Nat, k \in begun PROVE k + 1 \in begun
    <3>1. CASE k = 0
      BY <1>1, <3>1
    <3>2. CASE k # 0
      BY <1>2, <2>2, <3>2
    <3>3. QED BY <3>1, <3>2
  <2>3. n \in begun
    <3> HIDE DEF begun
    <3>1. QED BY <2>1, <2>2, CountingUp
  <2>4. QED BY <2>3
<1>4. PICK f \in [1..n -> Seq(M)] : Flattens(f, s, n)
  BY <1>3
<1> HIDE DEF Begun, begun
<1>5. Len(s) = n
  OBVIOUS
<1> DEFINE Step(g) == [i \in 1..n |-> IF i = 1 THEN s[i] ELSE g[i - 1] \o s[i]]
<1>6. f = Step(f)
  <2> DEFINE rhs(i) == IF i = 1 THEN s[i] ELSE f[i - 1] \o s[i]
  <2>1. \A i \in 1..n : f[i] = rhs(i)
    BY <1>4 DEF Flattens
  <2>2. Step(f) = [i \in 1..n |-> rhs(i)]
    OBVIOUS
  <2> HIDE DEF rhs, Step
  <2>3. QED BY <2>1, <2>2
<1> DEFINE chosen == CHOOSE g : g = Step(g)
<1>7. FlattenSeq(s) = chosen[n]
  BY <1>5 DEF FlattenSeq
<1>8. chosen = Step(chosen)
  <2> HIDE DEF Step
  <2>1. QED BY <1>6
<1> HIDE DEF chosen
<1>9. \A i \in 1..n : chosen[i] = IF i = 1 THEN s[i] ELSE chosen[i - 1] \o s[i]
  <2>1. ASSUME NEW i \in 1..n
        PROVE  Step(chosen)[i] = IF i = 1 THEN s[i] ELSE chosen[i - 1] \o s[i]
    OBVIOUS
  <2> HIDE DEF Step
  <2>2. QED BY <1>8, <2>1
<1> HIDE DEF Step
<1> DEFINE agree == {k \in Nat : k \in 1..n => chosen[k] = f[k]}
<1>10. 0 \in agree
  OBVIOUS
<1>11. ASSUME NEW k \in Nat, k \in agree PROVE k + 1 \in agree
  <2>1. ASSUME k + 1 \in 1..n PROVE chosen[k + 1] = f[k + 1]
    <3>1. CASE k = 0
      BY <1>4, <1>9, <2>1, <3>1 DEF Flattens
    <3>2. CASE k # 0
      <4>1. chosen[k] = f[k] /\ (k + 1) - 1 = k /\ k + 1 # 1
        BY <1>11, <2>1, <3>2
      <4>2. chosen[k + 1] = chosen[k] \o s[k + 1]
        BY <1>9, <2>1, <4>1
      <4>3. f[k + 1] = f[k] \o s[k + 1]
        BY <1>4, <2>1, <4>1 DEF Flattens
      <4>4. QED BY <4>1, <4>2, <4>3
    <3>3. QED BY <3>1, <3>2
  <2>2. QED BY <2>1
<1>12. n \in agree
  <2> HIDE DEF agree
  <2>1. QED BY <1>10, <1>11, CountingUp
<1>13. chosen[n] = f[n]
  BY <1>12
<1> HIDE DEF agree
<1>14. QED BY <1>4, <1>7, <1>13

\* Nothing flattens to nothing.
LEMMA FlatteningNothing ==
    ASSUME NEW M, NEW n \in Nat \ {0}, NEW s \in [1..n -> Seq(M)],
           \A i \in 1..n : s[i] = << >>
    PROVE  FlattenSeq(s) = << >>
<1>1. PICK f \in [1..n -> Seq(M)] : Flattens(f, s, n) /\ FlattenSeq(s) = f[n]
  BY FlatteningSteps
<1> DEFINE empty == {k \in Nat : k \in 1..n => f[k] = << >>}
<1>2. ASSUME NEW k \in Nat, k \in empty PROVE k + 1 \in empty
  <2>1. ASSUME k + 1 \in 1..n PROVE f[k + 1] = << >>
    <3>1. CASE k = 0
      BY <1>1, <2>1, <3>1 DEF Flattens
    <3>2. CASE k # 0
      <4>1. f[k] = << >> /\ (k + 1) - 1 = k /\ k + 1 # 1
        BY <1>2, <2>1, <3>2
      <4>2. f[k + 1] = f[k] \o s[k + 1]
        BY <1>1, <2>1, <4>1 DEF Flattens
      <4>3. QED BY <2>1, <4>1, <4>2
    <3>3. QED BY <3>1, <3>2
  <2>2. QED BY <2>1
<1>3. 0 \in empty
  OBVIOUS
<1>4. n \in empty
  <2> HIDE DEF empty
  <2>1. QED BY <1>2, <1>3, CountingUp
<1>5. QED BY <1>1, <1>4

\* Where to put the brackets is of no importance.
LEMMA Bracketed ==
    ASSUME NEW M, NEW a \in Seq(M), NEW b \in Seq(M), NEW c \in Seq(M)
    PROVE  a \o (b \o c) = (a \o b) \o c
BY ConcatAssociative, SMTT(20)

\* Lists of lists, under a name that keeps their type out of the provers' sight.
Lists(M, n) == [1..n -> Seq(M)]

\* Sequence number m of r is that of s with x behind it; before m they are alike
\* and after m both are empty.
GrowsAt(m, x, s, r, n) ==
    /\ r[m] = s[m] \o x
    /\ \A i \in 1..n : i < m => r[i] = s[i]
    /\ \A i \in 1..n : i > m => s[i] = << >> /\ r[i] = << >>

\* What the last sequence that is not empty gains at its end, their flattening
\* gains at its end.
LEMMA FlatteningGrows ==
    ASSUME NEW M, NEW n \in Nat \ {0}, NEW m \in 1..n, NEW x \in Seq(M),
           NEW s \in Lists(M, n), NEW r \in Lists(M, n),
           GrowsAt(m, x, s, r, n)
    PROVE  FlattenSeq(r) = FlattenSeq(s) \o x
<1>1. PICK f \in Lists(M, n) : Flattens(f, s, n) /\ FlattenSeq(s) = f[n]
  BY FlatteningSteps, ZenonT(30) DEF Lists
<1>2. PICK g \in Lists(M, n) : Flattens(g, r, n) /\ FlattenSeq(r) = g[n]
  BY FlatteningSteps, ZenonT(30) DEF Lists
<1>3. \A a, b \in Seq(M) : a \o (b \o x) = (a \o b) \o x
  BY Bracketed
<1> DEFINE Grown(k) == (k < m => g[k] = f[k]) /\ (~(k < m) => g[k] = f[k] \o x)
           grown == {k \in Nat : k \in 1..n => Grown(k)}
<1>4. ASSUME NEW here \in 1..n, here # 1 => Grown(here - 1) PROVE Grown(here)
  <2>1. /\ f[here] \in Seq(M) /\ s[here] \in Seq(M)
        /\ here < m => r[here] = s[here]
        /\ here = m => r[here] = s[here] \o x
        /\ here > m => r[here] = << >> /\ s[here] = << >>
    BY DEF GrowsAt, Lists
  <2>2. CASE here = 1
    <3>1. f[here] = s[here] /\ g[here] = r[here]
      BY <1>1, <1>2, <2>2 DEF Flattens
    <3>2. here < m \/ here = m
      BY <2>2
    <3>3. QED BY <2>1, <3>1, <3>2
  <2>3. CASE here # 1
    <3> DEFINE k == here - 1
    <3>1. k \in 1..n
      BY <2>3
    <3>2. f[k] \in Seq(M)
      BY <3>1 DEF Lists
    <3>3. Grown(k)
      BY <1>4, <2>3
    <3>4. f[here] = f[k] \o s[here] /\ g[here] = g[k] \o r[here]
      BY <1>1, <1>2, <2>3 DEF Flattens
    <3>5. CASE here < m
      <4>1. g[k] = f[k]
        BY <3>3, <3>5
      <4>2. g[here] = f[here]
        BY <2>1, <3>4, <3>5, <4>1
      <4>3. QED BY <3>5, <4>2
    <3>6. CASE here = m
      <4>1. g[k] = f[k]
        BY <3>3, <3>6
      <4>2. g[here] = f[k] \o (s[here] \o x)
        BY <2>1, <3>4, <3>6, <4>1
      <4> HIDE DEF k
      <4>3. f[k] \o (s[here] \o x) = (f[k] \o s[here]) \o x
        BY <2>1, <3>2, <1>3
      <4>4. g[here] = f[here] \o x
        BY <3>4, <4>2, <4>3
      <4>5. QED BY <3>6, <4>4
    <3>7. CASE here > m
      <4>1. g[k] = f[k] \o x
        <5>1. here \in Int /\ m \in Int
          OBVIOUS
        <5>2. ~(here - 1 < m)
          BY <3>7, <5>1
        <5>3. QED BY <3>3, <5>2
      <4>2. r[here] = << >> /\ s[here] = << >>
        BY <2>1, <3>7
      <4> HIDE DEF k
      <4>3. f[k] \o x \in Seq(M)
        BY <3>2, ConcatProperties
      <4>4. g[here] = (f[k] \o x) \o << >> /\ f[here] = f[k] \o << >>
        BY <3>4, <4>1, <4>2
      <4>5. g[here] = f[k] \o x /\ f[here] = f[k]
        BY <3>2, <4>3, <4>4, ConcatEmptySeq
      <4>6. QED BY <3>7, <4>5
    <3>8. here < m \/ here = m \/ here > m
      OBVIOUS
    <3>9. QED BY <3>5, <3>6, <3>7, <3>8
  <2>4. QED BY <2>2, <2>3
<1>5. n \in grown
  <2> HIDE DEF Grown
  <2>1. 0 \in grown
    OBVIOUS
  <2>2. ASSUME NEW k \in Nat, k \in grown PROVE k + 1 \in grown
    <3>1. ASSUME k + 1 \in 1..n PROVE Grown(k + 1)
      <4>1. (k + 1) - 1 = k /\ (k + 1 # 1 => k \in 1..n)
        BY <3>1
      <4>2. k + 1 # 1 => Grown(k)
        BY <2>2, <4>1
      <4>3. QED BY <1>4, <3>1, <4>1, <4>2
    <3>2. QED BY <3>1
  <2> HIDE DEF grown
  <2>3. QED BY <2>1, <2>2, CountingUp
<1>6. Grown(n)
  <2> HIDE DEF Grown
  <2>1. QED BY <1>5
<1>7. g[n] = f[n] \o x
  <2>1. ~(n < m)
    OBVIOUS
  <2>2. QED BY <1>6, <2>1
<1>8. QED BY <1>1, <1>2, <1>7

\* Numbers below a bound have a largest one.
LEMMA LargestExists ==
    ASSUME NEW n \in Nat, NEW S \in SUBSET (0..n), S # {}
    PROVE  Max(S) \in S /\ \A y \in S : y <= Max(S)
<1> DEFINE HasLargest(T) == \E x \in T : \A y \in T : x >= y
           bounded == {k \in Nat : \A T \in SUBSET (0..k) : T # {} => HasLargest(T)}
<1>1. ASSUME NEW T \in SUBSET (0..0), T # {} PROVE HasLargest(T)
  <2>1. \A y \in T : y = 0
    OBVIOUS
  <2>2. 0 \in T /\ \A y \in T : 0 >= y
    <3>1. PICK y \in T : TRUE
      BY <1>1
    <3>2. QED BY <2>1, <3>1
  <2>3. QED BY <2>2
<1>2. ASSUME NEW k \in Nat, k \in bounded, NEW T \in SUBSET (0..(k + 1)), T # {}
      PROVE  HasLargest(T)
  <2>1. CASE k + 1 \in T
    <3>1. \A y \in T : k + 1 >= y
      OBVIOUS
    <3>2. QED BY <2>1, <3>1
  <2>2. CASE k + 1 \notin T
    <3>1. T \in SUBSET (0..k)
      BY <2>2
    <3> HIDE DEF HasLargest
    <3>2. QED BY <1>2, <3>1
  <2>3. QED BY <2>1, <2>2
<1> HIDE DEF HasLargest
<1>3. 0 \in bounded
  BY <1>1
<1>4. \A k \in Nat : k \in bounded => k + 1 \in bounded
  BY <1>2
<1>5. n \in bounded
  <2> HIDE DEF bounded
  <2>1. QED BY <1>3, <1>4, CountingUp
<1>6. HasLargest(S)
  BY <1>5
<1>7. Max(S) \in S /\ \A y \in S : Max(S) >= y
  BY <1>6 DEF Max, HasLargest
<1>8. QED BY <1>7

\* The largest of the numbers up to t is t.
LEMMA LargestUpTo ==
    ASSUME NEW t \in Nat
    PROVE  Max(0..t) = t
<1> DEFINE upTo == 0..t
<1>1. upTo \in SUBSET (0..t) /\ upTo # {} /\ t \in upTo
  OBVIOUS
<1> HIDE DEF upTo
<1>2. Max(upTo) \in upTo /\ \A y \in upTo : y <= Max(upTo)
  BY <1>1, LargestExists
<1>3. QED BY <1>1, <1>2 DEF upTo

-----------------------------------------------------------------------------
(***************************************************************************)
(* The rest of the state, and what relates the turns' results to what the  *)
(* loop returns.  PInv says which turn is on; these say what that turn     *)
(* works on and what the others left behind.                               *)
(***************************************************************************)
Typed ==
    /\ cfg.turns > 0
    /\ current_answer \in Texts
    /\ result \in [Tasks -> [text : Texts, fallbacks : Seq(Models)]]
    /\ gather \in {"waiting", "cancelling", "done", "raised", "cancelled"}
    /\ last_answer \in Texts
    /\ total_fallbacks \in Seq(Models)
    /\ usage \in Nat
    /\ signal \in [confidence : Nat, score : Nat \cup {NoScore}]

\* The gather leaves the wait only with every task ended or about to be, and
\* while it waits tasks are cancelled by an early exit only.
GatherWaits ==
    /\ gather # "waiting" => \A t \in Tasks : task[t] \in Ended \cup {"cancelling"}
    /\ gather \notin {"waiting", "cancelling"} => \A t \in Tasks : task[t] \in Ended
    /\ gather = "waiting" /\ ~ExitLogged =>
          \A t \in Tasks : task[t] \notin {"cancelling", "cancelled"}

\* A turn that was woken has the answer the turn before it left.
Handed ==
    \A t \in Tasks : turn_ready[t] =>
        latest_answers[t] = IF t = 0 THEN current_answer ELSE result[t - 1].text

\* A turn that heard no critique, or was cancelled by an early exit, has nothing.
Untouched ==
    \A t \in Tasks :
        (\/ task[t] \in {"blocked", "critique"}
         \/ gather = "waiting" /\ task[t] \in {"cancelling", "cancelled"})
        => result[t] = NothingYet

CritiquesLogged == Cardinality(OfType(events, "reflect_critique"))

\* The number of critiques logged tells the turn that is on.
Counted ==
    \A t \in Tasks :
        /\ turn_ready[t] /\ task[t] \in {"blocked", "critique"} => CritiquesLogged = t
        /\ task[t] = "revision" => CritiquesLogged = t + 1

\* What a gather without a failure returned.
Reported ==
    gather = "done" =>
        /\ LoopOver
        /\ last_answer = LastRevised(result, current_answer)
        /\ total_fallbacks = FallbacksOf(Tasks)

RInv ==
    PInv /\ Typed /\ GatherWaits /\ Handed /\ Untouched /\ Counted /\ Reported

-----------------------------------------------------------------------------
\* A critique adds one to the critiques logged.
LEMMA OptionalOther ==
    ASSUME NEW condition \in BOOLEAN, NEW note \in Entries, NEW type, note.type # type
    PROVE  Optional(condition, note) \in Seq(Entries)
           /\ OfType(Optional(condition, note), type) = {}
<1>1. Optional(condition, note) \in Seq(Entries)
  BY OptionalEntry
<1>2. OfType(Optional(condition, note), type) = {}
  BY DEF Optional, OfType
<1>3. QED BY <1>1, <1>2

LEMMA OtherConcat ==
    ASSUME NEW s \in Seq(Entries), NEW r \in Seq(Entries), NEW type,
           OfType(r, type) = {}
    PROVE  s \o r \in Seq(Entries) /\ OfType(s \o r, type) = OfType(s, type)
<1>1. s \o r \in Seq(Entries)
  BY ConcatProperties
<1>2. OfType(s \o r, type) = OfType(s, type) \cup {Len(s) + i : i \in OfType(r, type)}
  BY OfTypeConcat
<1>3. QED BY <1>1, <1>2

LEMMA CritiquesCount ==
    ASSUME events \in Seq(Entries)
    PROVE  CritiquesLogged \in Nat /\ IsFiniteSet(OfType(events, "reflect_critique"))
<1>1. OfType(events, "reflect_critique") \subseteq 1..Len(events) /\ Len(events) \in Nat
  BY DEF OfType
<1>2. IsFiniteSet(1..Len(events))
  BY <1>1, FS_Interval
<1>3. IsFiniteSet(OfType(events, "reflect_critique"))
  BY <1>1, <1>2, FS_Subset
<1>4. QED BY <1>3, FS_CardinalityType DEF CritiquesLogged

LEMMA CritiqueCounts ==
    ASSUME StateOK, NEW t \in Tasks, NEW c \in CritiqueTexts, NEW a \in Texts,
           NEW log, log = events \o CritiqueEvents(cfg, events, t, c, a)
    PROVE  Cardinality(OfType(log, "reflect_critique")) = CritiquesLogged + 1
<1> DEFINE fresh == cfg.fresh_context /\ OfType(events, "reflect_fresh_context") = {}
           scored == c.score # NoScore
           exits == ExitsUnrevised(cfg, t, c)
           one == <<Critiqued(t, c, a)>>
           two == Optional(fresh, Note("reflect_fresh_context", t))
           three == Optional(scored, Note("reflect_score", t))
           four == Optional(exits, EarlyExit(t))
           critique == "reflect_critique"
<1>1. /\ Critiqued(t, c, a) \in Entries /\ Note("reflect_fresh_context", t) \in Entries
      /\ Note("reflect_score", t) \in Entries /\ EarlyExit(t) \in Entries
      /\ events \in Seq(Entries)
  BY DEF Entries, Notes, EarlyExit, StateOK
<1>2. fresh \in BOOLEAN /\ scored \in BOOLEAN /\ exits \in BOOLEAN
  BY ConfigsAssumption DEF StateOK, ReflectionConfigs, ExitsUnrevised, LastTurn,
     ClearsThreshold, Malformed
<1>3. one \in Seq(Entries) /\ OfType(one, critique) = {1}
  BY <1>1 DEF OfType, Critiqued
<1>4. log = events \o (((one \o two) \o three) \o four)
  BY DEF CritiqueEvents
<1> HIDE DEF one, fresh, scored, exits
<1>5. two \in Seq(Entries) /\ OfType(two, critique) = {}
  <2>1. Note("reflect_fresh_context", t).type # critique
    BY DEF Note
  <2>2. QED BY <1>1, <1>2, <2>1, OptionalOther
<1>6. three \in Seq(Entries) /\ OfType(three, critique) = {}
  <2>1. Note("reflect_score", t).type # critique
    BY DEF Note
  <2>2. QED BY <1>1, <1>2, <2>1, OptionalOther
<1>7. four \in Seq(Entries) /\ OfType(four, critique) = {}
  <2>1. EarlyExit(t).type # critique
    BY DEF EarlyExit, Note
  <2>2. QED BY <1>1, <1>2, <2>1, OptionalOther
<1> DEFINE upToTwo == one \o two
           upToThree == upToTwo \o three
           upToFour == upToThree \o four
<1> HIDE DEF two, three, four, critique
<1>8. upToTwo \in Seq(Entries) /\ OfType(upToTwo, critique) = {1}
  BY <1>3, <1>5, OtherConcat
<1> HIDE DEF upToTwo
<1>9. upToThree \in Seq(Entries) /\ OfType(upToThree, critique) = {1}
  BY <1>6, <1>8, OtherConcat
<1> HIDE DEF upToThree
<1>10. upToFour \in Seq(Entries) /\ OfType(upToFour, critique) = {1}
  BY <1>7, <1>9, OtherConcat
<1>11. log = events \o upToFour
  BY <1>4 DEF upToTwo, upToThree
<1> HIDE DEF upToFour
<1>12. OfType(log, critique) = OfType(events, critique)
                                   \cup {Len(events) + i : i \in OfType(upToFour, critique)}
  <2>1. events \in Seq(Entries) /\ upToFour \in Seq(Entries)
    BY <1>1, <1>10
  <2>2. OfType(events \o upToFour, critique) = OfType(events, critique)
                                   \cup {Len(events) + i : i \in OfType(upToFour, critique)}
    BY <2>1, OfTypeConcat
  <2>3. QED BY <1>11, <2>2
<1>13. Len(events) \in Nat /\ Len(events) + 1 \notin OfType(events, critique)
  <2>1. Len(events) \in Nat /\ DOMAIN events = 1..Len(events)
    BY <1>1
  <2>2. Len(events) + 1 \notin 1..Len(events)
    BY <2>1
  <2>3. OfType(events, critique) \subseteq 1..Len(events)
    BY <2>1 DEF OfType
  <2>4. QED BY <2>1, <2>2, <2>3
<1>14. OfType(log, critique) = OfType(events, critique) \cup {Len(events) + 1}
  BY <1>10, <1>12
<1>15. QED
  BY <1>1, <1>13, <1>14, CritiquesCount, FS_AddElement DEF critique, CritiquesLogged

\* A revision adds none.
LEMMA RevisionCounts ==
    ASSUME StateOK, NEW t \in Tasks, NEW c \in CritiqueTexts, NEW b \in Texts,
           NEW a \in Texts, NEW log, log = events \o RevisionEvents(cfg, t, c, b, a)
    PROVE  Cardinality(OfType(log, "reflect_critique")) = CritiquesLogged
<1> DEFINE exits == ClearsThreshold(cfg, c)
           one == <<Revised(t, b, a)>>
           two == Optional(exits, EarlyExit(t))
           both == one \o two
           critique == "reflect_critique"
<1>1. /\ Revised(t, b, a) \in Entries /\ EarlyExit(t) \in Entries
      /\ events \in Seq(Entries)
  BY DEF Entries, Notes, EarlyExit, StateOK
<1>2. exits \in BOOLEAN
  BY ConfigsAssumption DEF StateOK, ReflectionConfigs, ClearsThreshold, Malformed
<1>3. one \in Seq(Entries) /\ OfType(one, critique) = {}
  BY <1>1 DEF OfType, Revised
<1>4. log = events \o both
  BY DEF RevisionEvents
<1> HIDE DEF one, exits
<1>5. two \in Seq(Entries) /\ OfType(two, critique) = {}
  <2>1. EarlyExit(t).type # critique
    BY DEF EarlyExit, Note
  <2>2. QED BY <1>1, <1>2, <2>1, OptionalOther
<1> HIDE DEF two, critique
<1>6. both \in Seq(Entries) /\ OfType(both, critique) = {}
  BY <1>3, <1>5, OtherConcat, SMTT(20)
<1> HIDE DEF both
<1>7. OfType(log, critique) = OfType(events, critique)
  BY <1>1, <1>4, <1>6, OtherConcat
<1>8. QED BY <1>7 DEF critique, CritiquesLogged

-----------------------------------------------------------------------------
\* The turn that is on: awake, and neither returned nor failed nor cancelled.
Active ==
    {t \in Tasks : turn_ready[t] /\ task[t] \in {"blocked", "critique", "revision"}}

\* While a turn is on, those before it have returned and those behind it wait.
LEMMA ActiveFacts ==
    ASSUME PInv, Typed, GatherWaits, NEW t \in Active
    PROVE  /\ t \in Tasks /\ t \in Nat /\ Tasks \subseteq Nat
           /\ gather = "waiting" /\ ~ExitLogged /\ Failed = {}
           /\ Returned = 0..(t - 1) /\ Cardinality(Returned) = t /\ t \notin Returned
           /\ ~LoopOver
           /\ \A u \in Tasks : u < t => task[u] = "returned"
           /\ \A u \in Tasks : u > t => task[u] = "blocked" /\ ~turn_ready[u]
<1>1. /\ t \in Tasks /\ Tasks \subseteq Nat /\ turn_ready[t] /\ cfg.turns \in Nat
      /\ task[t] \in {"blocked", "critique", "revision"}
  BY TurnsAreNumbers DEF Active, PInv, StateOK
<1>2. ~ExitLogged
  BY <1>1 DEF PInv, EarlyExitIsFinal, InFlight
<1>3. gather = "waiting"
  BY <1>1 DEF GatherWaits, Ended
<1>4. \A u \in Tasks : u < t => task[u] = "returned"
  BY <1>1 DEF PInv, InTurn
<1>5. ASSUME NEW u \in Tasks, u > t PROVE task[u] = "blocked" /\ ~turn_ready[u]
  <2>1. ~turn_ready[u]
    BY <1>1, <1>5 DEF PInv, InTurn
  <2>2. task[u] \notin {"critique", "revision", "returned", "failed"}
    BY <2>1 DEF PInv, Woken
  <2>3. task[u] \notin {"cancelling", "cancelled"}
    BY <1>2, <1>3 DEF GatherWaits
  <2>4. task[u] \in {"blocked", "critique", "revision", "cancelling"} \cup Ended
    BY DEF PInv, StateOK
  <2>5. QED BY <2>1, <2>2, <2>3, <2>4 DEF Ended
<1>6. \A u \in Tasks : u < t \/ u = t \/ u > t
  BY <1>1
<1>7. Failed = {}
  BY <1>1, <1>4, <1>5, <1>6 DEF Failed
<1>8. t \notin Returned /\ Returned = {u \in Tasks : u < t}
  BY <1>1, <1>4, <1>5, <1>6 DEF Returned
<1>9. {u \in Tasks : u < t} = 0..(t - 1)
  BY <1>1 DEF Tasks
<1>10. Cardinality(0..(t - 1)) = t
  BY <1>1, FS_Interval
<1>11. ~LoopOver
  BY <1>1, <1>2, <1>8 DEF LoopOver
<1>12. QED
  BY <1>1, <1>2, <1>3, <1>4, <1>5, <1>7, <1>8, <1>9, <1>10, <1>11

\* A turn in flight is on.
LEMMA InFlightIsActive == ASSUME PInv PROVE InFlight \subseteq Active
BY InFlightFacts DEF Active, InFlight

\* The fallbacks a set of turns used, turn by turn.
UsedBy(turns, results) ==
    [i \in 1..cfg.turns |->
        IF i - 1 \in turns THEN results[i - 1].fallbacks ELSE << >>]

Results == [Tasks -> [text : Texts, fallbacks : Seq(Models)]]

LEMMA UsedByTyped ==
    ASSUME cfg \in Configs, NEW turns \in SUBSET Tasks, NEW results \in Results
    PROVE  UsedBy(turns, results) \in [1..cfg.turns -> Seq(Models)]
<1> DEFINE used(i) == IF i - 1 \in turns THEN results[i - 1].fallbacks ELSE << >>
<1>1. ASSUME NEW i \in 1..cfg.turns PROVE used(i) \in Seq(Models)
  <2>1. CASE i - 1 \in turns
    BY <2>1 DEF Results
  <2>2. CASE i - 1 \notin turns
    BY <2>2, EmptySeq
  <2>3. QED BY <2>1, <2>2
<1>2. UsedBy(turns, results) = [i \in 1..cfg.turns |-> used(i)]
  BY DEF UsedBy
<1> HIDE DEF used
<1>3. QED BY <1>1, <1>2

LEMMA FallbacksTyped ==
    ASSUME cfg \in Configs, Typed, NEW turns \in SUBSET Tasks
    PROVE  FallbacksOf(turns) \in Seq(Models)
<1>1. cfg.turns \in Nat \ {0} /\ result \in Results
  BY TurnsAreNumbers DEF Typed, Results
<1>2. UsedBy(turns, result) \in [1..cfg.turns -> Seq(Models)]
  BY <1>1, UsedByTyped
<1>3. FallbacksOf(turns) = FlattenSeq(UsedBy(turns, result))
  BY DEF FallbacksOf, UsedBy
<1> DEFINE n == cfg.turns
           s == UsedBy(turns, result)
<1>4. n \in Nat \ {0} /\ s \in [1..n -> Seq(Models)]
  BY <1>1, <1>2
<1> HIDE DEF n, s
<1>5. PICK f \in [1..n -> Seq(Models)] : Flattens(f, s, n) /\ FlattenSeq(s) = f[n]
  BY <1>4, FlatteningSteps
<1>6. n \in 1..n
  BY <1>4
<1>7. FlattenSeq(s) \in Seq(Models)
  BY <1>5, <1>6
<1>8. QED BY <1>3, <1>7 DEF s

\* When the turn that is on adds fallbacks to its own and nobody behind it has
\* any, the fallbacks of all grow at the end.
LEMMA FallbacksGrow ==
    ASSUME PInv, Typed, GatherWaits, Untouched, NEW t \in Active,
           NEW x \in Seq(Models), NEW results \in Results,
           results[t].fallbacks = result[t].fallbacks \o x,
           \A u \in Tasks : u # t => results[u] = result[u]
    PROVE  FlattenSeq(UsedBy(Tasks, results)) = FallbacksOf(Tasks) \o x
<1> DEFINE n == cfg.turns
           m == t + 1
           s == UsedBy(Tasks, result)
           r == UsedBy(Tasks, results)
<1>1. /\ n \in Nat \ {0} /\ result \in Results /\ cfg \in Configs
      /\ t \in Tasks /\ t \in Nat
  BY ActiveFacts, TurnsAreNumbers DEF PInv, StateOK, Typed, Results
<1>2. m \in 1..n /\ m - 1 = t
  BY <1>1 DEF Tasks
<1>3. s \in [1..n -> Seq(Models)] /\ r \in [1..n -> Seq(Models)]
  BY <1>1, UsedByTyped
<1>4. ASSUME NEW i \in 1..n
      PROVE  /\ i - 1 \in Tasks
             /\ s[i] = result[i - 1].fallbacks /\ r[i] = results[i - 1].fallbacks
  <2>1. i - 1 \in Tasks
    BY <1>1 DEF Tasks
  <2>2. QED BY <2>1 DEF UsedBy
<1>5. r[m] = s[m] \o x
  <2>1. s[m] = result[t].fallbacks /\ r[m] = results[t].fallbacks
    BY <1>2, <1>4
  <2> HIDE DEF s, r
  <2>2. QED BY <2>1
<1>6. ASSUME NEW i \in 1..n, i < m PROVE r[i] = s[i]
  <2>1. i - 1 # t /\ i - 1 \in Tasks
    BY <1>1, <1>4, <1>6
  <2>2. QED BY <1>4, <2>1
<1>7. ASSUME NEW i \in 1..n, i > m PROVE s[i] = << >> /\ r[i] = << >>
  <2>1. i - 1 > t /\ i - 1 # t /\ i - 1 \in Tasks
    BY <1>1, <1>4, <1>7
  <2>2. task[i - 1] = "blocked"
    BY <2>1, ActiveFacts
  <2>3. result[i - 1].fallbacks = << >>
    BY <2>1, <2>2 DEF Untouched, NothingYet
  <2>4. results[i - 1].fallbacks = << >>
    BY <2>1, <2>3
  <2>5. QED BY <1>4, <2>3, <2>4
<1>8. FallbacksOf(Tasks) = FlattenSeq(s)
  BY DEF FallbacksOf, UsedBy
<1> HIDE DEF n, m, s, r
<1>9. GrowsAt(m, x, s, r, n)
  BY <1>5, <1>6, <1>7 DEF GrowsAt
<1>10. s \in Lists(Models, n) /\ r \in Lists(Models, n)
  BY <1>3 DEF Lists
<1>11. FlattenSeq(r) = FlattenSeq(s) \o x
  BY <1>1, <1>2, <1>9, <1>10, FlatteningGrows
<1>12. QED BY <1>8, <1>11 DEF r

\* The last answer of the loop is one of its texts.
LEMMA LastRevisedTyped ==
    ASSUME cfg \in Configs, Typed
    PROVE  LastRevised(result, current_answer) \in Texts
<1> DEFINE truthy == {t \in Returned : result[t].text # Blank}
<1>1. cfg.turns \in Nat \ {0} /\ Tasks = 0..(cfg.turns - 1) /\ cfg.turns - 1 \in Nat
  BY TurnsAreNumbers DEF Typed, Tasks
<1>2. truthy \in SUBSET (0..(cfg.turns - 1)) /\ truthy \subseteq Tasks
  BY <1>1 DEF Returned
<1>3. CASE truthy = {}
  BY <1>3 DEF LastRevised, Typed
<1>4. CASE truthy # {}
  <2>1. LastRevised(result, current_answer) = result[Max(truthy)].text
    BY <1>4 DEF LastRevised
  <2> HIDE DEF truthy
  <2>2. Max(truthy) \in truthy
    BY <1>1, <1>2, <1>4, LargestExists
  <2>3. Max(truthy) \in Tasks
    BY <1>2, <2>2
  <2>4. QED BY <2>1, <2>3 DEF Typed
<1>5. QED BY <1>3, <1>4

-----------------------------------------------------------------------------
\* The loop starts inside the larger invariant: nothing is logged or returned.
LEMMA InitEstablishesMore == Init => RInv
<1> SUFFICES ASSUME Init PROVE RInv
  OBVIOUS
<1>1. PInv
  BY InitEstablishes
<1>2. cfg \in Configs /\ cfg.turns \in Nat \ {0} /\ Tasks \subseteq Nat
  BY TurnsAreNumbers DEF Init
<1>3. NothingYet \in [text : Texts, fallbacks : Seq(Models)]
  BY BlankAssumption, EmptySeq DEF NothingYet
<1>4. Typed
  <2>1. result \in [Tasks -> [text : Texts, fallbacks : Seq(Models)]]
    BY <1>3 DEF Init
  <2>2. signal \in [confidence : Nat, score : Nat \cup {NoScore}]
    BY DEF Init, NoSignal, NoScore
  <2>3. QED BY <1>2, <2>1, <2>2, EmptySeq DEF Init, Typed
<1>5. GatherWaits /\ Untouched /\ Reported
  BY DEF Init, GatherWaits, Untouched, Reported
<1>6. Handed
  BY DEF Init, Handed
<1>7. Counted
  <2>1. CritiquesLogged = 0
    <3>1. OfType(events, "reflect_critique") = {}
      BY DEF Init, OfType
    <3>2. QED BY <3>1, FS_EmptySet DEF CritiquesLogged
  <2>2. \A t \in Tasks : turn_ready[t] => t = 0
    BY DEF Init
  <2>3. \A t \in Tasks : task[t] # "revision"
    BY DEF Init
  <2>4. QED BY <2>1, <2>2, <2>3 DEF Counted
<1>8. QED BY <1>1, <1>4, <1>5, <1>6, <1>7 DEF RInv

TaskStates == {"blocked", "critique", "revision", "cancelling"} \cup Ended

\* A step in which tasks only start, fail or are cancelled, and the gather at
\* most stops waiting, keeps the larger invariant.
LEMMA QuietStepKeepsMore ==
    ASSUME RInv, PInv',
           UNCHANGED <<cfg, current_answer, turn_ready, latest_answers, heard, result,
                       outcome, shared>>,
           task' \in [Tasks -> TaskStates],
           \A u \in Tasks :
               \/ task'[u] = task[u]
               \/ task[u] \notin Ended /\ task'[u] \in {"cancelling", "cancelled"}
               \/ task[u] \in {"critique", "revision"} /\ task'[u] = "failed"
               \/ task[u] = "blocked" /\ turn_ready[u] /\ task'[u] = "critique",
           \/ /\ gather' = gather
              /\ \A u \in Tasks : task'[u] \in {"cancelling", "cancelled"} =>
                                      task[u] \in {"cancelling", "cancelled"}
           \/ /\ gather = "waiting" /\ gather' = "cancelling"
              /\ \A u \in Tasks : task'[u] \in Ended \cup {"cancelling"}
    PROVE  RInv'
<1>1. Tasks' = Tasks /\ ExitLogged' = ExitLogged
  BY DEF Tasks, ExitLogged, shared
<1>2. Typed'
  BY <1>1 DEF RInv, Typed, outcome, shared
<1>3. GatherWaits'
  <2>1. CASE gather' = gather /\ gather = "waiting"
    BY <1>1, <2>1 DEF RInv, GatherWaits
  <2>2. CASE gather' = gather /\ gather # "waiting"
    <3>1. \A u \in Tasks : task[u] \in Ended \cup {"cancelling"}
      BY <2>2 DEF RInv, GatherWaits
    <3>2. \A u \in Tasks : task'[u] = task[u] \/ task'[u] \in {"cancelling", "cancelled"}
      BY <3>1 DEF Ended
    <3>3. gather \notin {"waiting", "cancelling"} => \A u \in Tasks : task[u] \in Ended
      BY DEF RInv, GatherWaits
    <3>4. QED BY <1>1, <2>2, <3>1, <3>2, <3>3 DEF GatherWaits, Ended
  <2>3. CASE gather = "waiting" /\ gather' = "cancelling"
    BY <1>1, <2>3 DEF GatherWaits, Ended
  <2>4. QED BY <2>1, <2>2, <2>3
<1>4. Handed'
  BY <1>1 DEF RInv, Handed
<1>5. Untouched'
  <2> SUFFICES ASSUME NEW u \in Tasks,
                      \/ task'[u] \in {"blocked", "critique"}
                      \/ gather' = "waiting" /\ task'[u] \in {"cancelling", "cancelled"}
               PROVE  result[u] = NothingYet
    BY <1>1 DEF Untouched
  <2>1. CASE task'[u] \in {"blocked", "critique"}
    <3>1. task[u] \in {"blocked", "critique"}
      BY <2>1
    <3>2. QED BY <3>1 DEF RInv, Untouched
  <2>2. CASE gather' = "waiting" /\ task'[u] \in {"cancelling", "cancelled"}
    <3>1. gather = "waiting" /\ task[u] \in {"cancelling", "cancelled"}
      BY <2>2
    <3>2. QED BY <3>1 DEF RInv, Untouched
  <2>3. QED BY <2>1, <2>2
<1>6. Counted'
  <2>1. CritiquesLogged' = CritiquesLogged
    BY DEF CritiquesLogged, shared
  <2>2. ASSUME NEW u \in Tasks
        PROVE  /\ task'[u] \in {"blocked", "critique"} => task[u] \in {"blocked", "critique"}
               /\ task'[u] = "revision" => task[u] = "revision"
    OBVIOUS
  <2>3. QED BY <1>1, <2>1, <2>2 DEF RInv, Counted
<1>7. Reported'
  <2> SUFFICES ASSUME gather' = "done" PROVE Reported'
    BY DEF Reported
  <2>1. gather = "done" /\ \A u \in Tasks : task[u] \in Ended
    BY DEF RInv, GatherWaits
  <2>2. \A u \in Tasks : task'[u] = task[u]
    BY <2>1 DEF Ended
  <2>3. Returned' = Returned
    BY <1>1, <2>2 DEF Returned
  <2>4. LoopOver' = LoopOver /\ FallbacksOf(Tasks)' = FallbacksOf(Tasks)
    BY <1>1, <2>3 DEF LoopOver, FallbacksOf
  <2>5. LastRevised(result, current_answer)' = LastRevised(result, current_answer)
    BY <2>3 DEF LastRevised
  <2>6. QED BY <2>1, <2>4, <2>5 DEF RInv, Reported, outcome
<1>8. QED BY <1>2, <1>3, <1>4, <1>5, <1>6, <1>7 DEF RInv

\* The gather returns what the turns left, or raises.
LEMMA GatherReturnsKeepsMore ==
    ASSUME RInv, PInv', GatherReturns
    PROVE  RInv'
<1>1. /\ UNCHANGED <<cfg, current_answer, task, turn_ready, latest_answers, heard,
                     result, shared>>
      /\ \A t \in Tasks : task[t] \in Ended
      /\ gather \in {"waiting", "cancelling"}
      /\ gather' \in {"done", "raised", "cancelled"}
  BY DEF GatherReturns
<1>2. /\ Tasks' = Tasks /\ ExitLogged' = ExitLogged /\ Returned' = Returned
      /\ CritiquesLogged' = CritiquesLogged /\ cfg \in Configs
  BY <1>1 DEF Tasks, ExitLogged, Returned, CritiquesLogged, shared, RInv, PInv, StateOK
<1>3. Typed'
  <2>1. last_answer' \in Texts /\ total_fallbacks' \in Seq(Models)
    <3>1. CASE gather = "waiting" /\ Failed = {}
      <4>1. Returned \in SUBSET Tasks
        BY DEF Returned
      <4>2. QED
        BY <1>2, <3>1, <4>1, LastRevisedTyped, FallbacksTyped DEF GatherReturns, RInv
    <3>2. CASE ~(gather = "waiting" /\ Failed = {})
      BY <3>2 DEF GatherReturns, RInv, Typed, outcome
    <3>3. QED BY <3>1, <3>2
  <2>2. QED BY <1>1, <1>2, <2>1 DEF RInv, Typed, shared
<1>4. GatherWaits'
  BY <1>1, <1>2 DEF GatherWaits
<1>5. Handed'
  BY <1>1, <1>2 DEF RInv, Handed
<1>6. Untouched'
  BY <1>1, <1>2 DEF Untouched, Ended
<1>7. Counted'
  BY <1>1, <1>2 DEF Counted, Ended
<1>8. Reported'
  <2> SUFFICES ASSUME gather' = "done" PROVE Reported'
    BY DEF Reported
  <2>1. /\ gather = "waiting" /\ Failed = {}
        /\ last_answer' = LastRevised(result, current_answer)
        /\ total_fallbacks' = FallbacksOf(Returned)
    BY DEF GatherReturns
  <2>2. LastRevised(result, current_answer)' = LastRevised(result, current_answer)
    BY <1>1, <1>2 DEF LastRevised
  <2>3. ASSUME NEW t \in Tasks, t \notin Returned
        PROVE  task[t] = "cancelled" /\ result[t].fallbacks = << >>
    <3>1. task[t] = "cancelled"
      BY <1>1, <2>1, <2>3 DEF Ended, Failed, Returned
    <3>2. result[t] = NothingYet
      BY <2>1, <3>1 DEF RInv, Untouched
    <3>3. QED BY <3>1, <3>2 DEF NothingYet
  <2>4. FallbacksOf(Returned) = FallbacksOf(Tasks)
    <3> DEFINE some(i) == IF i - 1 \in Returned THEN result[i - 1].fallbacks ELSE << >>
               all(i) == IF i - 1 \in Tasks THEN result[i - 1].fallbacks ELSE << >>
    <3>1. ASSUME NEW i \in 1..cfg.turns PROVE some(i) = all(i)
      BY <2>3 DEF Returned
    <3> HIDE DEF some, all
    <3>2. [i \in 1..cfg.turns |-> some(i)] = [i \in 1..cfg.turns |-> all(i)]
      BY <3>1
    <3>3. QED BY <3>2 DEF FallbacksOf, some, all
  <2>5. FallbacksOf(Tasks)' = FallbacksOf(Tasks)
    BY <1>1, <1>2 DEF FallbacksOf
  <2>6. LoopOver
    <3>1. CASE ExitLogged
      BY <3>1 DEF LoopOver
    <3>2. CASE ~ExitLogged
      <4>1. \A t \in Tasks : task[t] # "cancelled"
        BY <2>1, <3>2 DEF RInv, GatherWaits
      <4>2. \A t \in Tasks : t \in Returned
        BY <2>3, <4>1
      <4>3. QED BY <4>2 DEF LoopOver, Returned
    <3>3. QED BY <3>1, <3>2
  <2>7. LoopOver'
    BY <1>2, <2>6 DEF LoopOver
  <2>8. QED BY <2>1, <2>2, <2>4, <2>5, <2>7 DEF Reported
<1>9. QED BY <1>3, <1>4, <1>5, <1>6, <1>7, <1>8 DEF RInv

\* The turn before a turn that is not the first.
LEMMA TurnBefore ==
    ASSUME cfg \in Configs, NEW u \in Tasks, u # 0
    PROVE  u - 1 \in Tasks /\ u - 1 < u
<1>1. cfg.turns \in Nat /\ u \in 0..(cfg.turns - 1)
  BY TurnsAreNumbers DEF Tasks
<1>2. u - 1 \in 0..(cfg.turns - 1)
  BY <1>1
<1>3. QED BY <1>1, <1>2 DEF Tasks

\* A critique keeps it: the turn that is on takes over the answer it judged.
LEMMA CritiqueKeepsMore ==
    ASSUME RInv, PInv', NEW t \in Tasks, NEW reply \in CritiqueReplies,
           CritiqueReturns(t, reply)
    PROVE  RInv'
<1> DEFINE next == IF ExitsUnrevised(cfg, t, reply.text) THEN "returned" ELSE "revision"
           R == [text |-> latest_answers[t], fallbacks |-> reply.fallbacks]
<1>1. /\ task[t] = "critique" /\ t \in InFlight
      /\ UNCHANGED <<cfg, current_answer, turn_ready, latest_answers, gather, outcome>>
      /\ result' = [result EXCEPT ![t] = R] /\ task' = [task EXCEPT ![t] = next]
      /\ events' = events \o CritiqueEvents(cfg, events, t, reply.text, latest_answers[t])
      /\ usage' = usage + 1 /\ signal' = Signal(reply.text)
  BY DEF CritiqueReturns, InFlight
<1>2. /\ PInv /\ Typed /\ GatherWaits /\ t \in Active
      /\ Tasks' = Tasks /\ t \in Nat /\ Tasks \subseteq Nat /\ gather = "waiting"
      /\ turn_ready[t]
      /\ \A u \in Tasks : u < t => task[u] = "returned"
      /\ \A u \in Tasks : u > t => task[u] = "blocked" /\ ~turn_ready[u]
  BY <1>1, InFlightIsActive, ActiveFacts DEF RInv, Tasks, Active
<1>3. /\ reply.text \in CritiqueTexts /\ reply.fallbacks \in Seq(Models)
      /\ latest_answers[t] \in Texts
  BY RepliesAssumption DEF RInv, PInv, StateOK
<1>4. R \in [text : Texts, fallbacks : Seq(Models)]
  BY <1>3
<1>5. next \in {"returned", "revision"}
  OBVIOUS
<1> HIDE DEF next, R
<1>6. /\ result' \in [Tasks -> [text : Texts, fallbacks : Seq(Models)]]
      /\ \A u \in Tasks : u # t => result'[u] = result[u]
      /\ task'[t] = next /\ \A u \in Tasks : u # t => task'[u] = task[u]
  <2>1. result \in [Tasks -> [text : Texts, fallbacks : Seq(Models)]]
    BY <1>2 DEF Typed
  <2>2. task \in [Tasks -> TaskStates]
    BY <1>2 DEF PInv, StateOK, TaskStates
  <2>3. QED BY <1>1, <1>4, <2>1, <2>2
<1>7. Typed'
  <2>1. signal' \in [confidence : Nat, score : Nat \cup {NoScore}]
    BY <1>1, <1>3 DEF Signal, CritiqueTexts
  <2>2. usage' \in Nat
    BY <1>1, <1>2 DEF Typed
  <2>3. QED BY <1>1, <1>2, <1>6, <2>1, <2>2 DEF Typed, outcome
<1>8. GatherWaits'
  <2>1. \A u \in Tasks : task'[u] \notin {"cancelling", "cancelled"}
    BY <1>1, <1>2, <1>5, <1>6
  <2>2. gather' = "waiting"
    BY <1>1, <1>2
  <2>3. QED BY <1>2, <2>1, <2>2 DEF GatherWaits
<1>9. Handed'
  <2> SUFFICES ASSUME NEW u \in Tasks, turn_ready[u]
               PROVE  latest_answers[u] =
                          IF u = 0 THEN current_answer ELSE result'[u - 1].text
    BY <1>1, <1>2 DEF Handed
  <2>1. latest_answers[u] = IF u = 0 THEN current_answer ELSE result[u - 1].text
    BY DEF RInv, Handed
  <2>2. CASE u = 0
    BY <2>1, <2>2
  <2>3. CASE u # 0
    <3>1. u \in Nat /\ ~(u > t)
      BY <1>2
    <3>2. u - 1 \in Tasks /\ u - 1 # t
      <4>1. u - 1 \in Tasks
        BY <1>2, <2>3, TurnBefore DEF PInv, StateOK
      <4>2. u - 1 # t
        BY <1>2, <3>1
      <4>3. QED BY <4>1, <4>2
    <3>3. result'[u - 1] = result[u - 1]
      BY <1>6, <3>2
    <3>4. QED BY <2>1, <2>3, <3>3
  <2>4. QED BY <2>2, <2>3
<1>10. Untouched'
  <2> SUFFICES ASSUME NEW u \in Tasks,
                      task'[u] \in {"blocked", "critique", "cancelling", "cancelled"}
               PROVE  result'[u] = NothingYet
    BY <1>2 DEF Untouched
  <2>1. u # t
    BY <1>5, <1>6
  <2>2. task[u] = "blocked" \/ task[u] = "returned"
    BY <1>2, <2>1
  <2>3. task[u] = "blocked"
    BY <1>6, <2>1, <2>2
  <2>4. QED BY <1>6, <2>1, <2>3 DEF RInv, Untouched
<1>11. Counted'
  <2>1. CritiquesLogged' = CritiquesLogged + 1
    <3>1. Cardinality(OfType(events', "reflect_critique")) = CritiquesLogged + 1
      BY <1>1, <1>2, <1>3, CritiqueCounts DEF PInv
    <3>2. QED BY <3>1 DEF CritiquesLogged
  <2>2. CritiquesLogged = t
    BY <1>1, <1>2 DEF RInv, Counted
  <2>3. ASSUME NEW u \in Tasks, u # t
        PROVE  /\ ~(turn_ready[u] /\ task'[u] \in {"blocked", "critique"})
               /\ task'[u] # "revision"
    <3>1. u < t \/ u > t
      <4>1. u \in Nat /\ t \in Nat
        BY <1>2
      <4>2. QED BY <2>3, <4>1
    <3>2. task'[u] = task[u]
      BY <1>6, <2>3
    <3>3. task[u] = "returned" \/ (task[u] = "blocked" /\ ~turn_ready[u])
      BY <1>2, <3>1
    <3>4. QED BY <3>2, <3>3
  <2>4. QED BY <1>1, <1>2, <1>5, <1>6, <2>1, <2>2, <2>3 DEF Counted
<1>12. Reported'
  BY <1>1, <1>2 DEF Reported
<1>13. QED BY <1>7, <1>8, <1>9, <1>10, <1>11, <1>12 DEF RInv

\* A revision keeps it: it hands its answer to the next turn, or ends the loop.
LEMMA RevisionKeepsMore ==
    ASSUME RInv, PInv', NEW t \in Tasks, NEW reply \in RevisionReplies,
           RevisionReturns(t, reply)
    PROVE  RInv'
<1> DEFINE exits == ClearsThreshold(cfg, heard[t])
           R == [text |-> reply.text, fallbacks |-> result[t].fallbacks \o reply.fallbacks]
<1>1. /\ task[t] = "revision" /\ t \in InFlight
      /\ UNCHANGED <<cfg, current_answer, heard, gather, outcome, signal>>
      /\ events' = events
             \o RevisionEvents(cfg, t, heard[t], reply.text, latest_answers[t])
      /\ usage' = usage + 1
  BY DEF RevisionReturns, InFlight
<1>2. /\ PInv /\ Typed /\ GatherWaits /\ t \in Active
      /\ Tasks' = Tasks /\ t \in Nat /\ Tasks \subseteq Nat /\ gather = "waiting"
      /\ turn_ready[t] /\ ~ExitLogged
      /\ \A u \in Tasks : u < t => task[u] = "returned"
      /\ \A u \in Tasks : u > t => task[u] = "blocked" /\ ~turn_ready[u]
  BY <1>1, InFlightIsActive, ActiveFacts DEF RInv, Tasks, Active
<1>3. /\ reply.text \in Texts /\ reply.fallbacks \in Seq(Models)
      /\ latest_answers[t] \in Texts /\ heard[t] \in CritiqueTexts
  BY RepliesAssumption DEF RInv, PInv, StateOK
<1>4. /\ result \in [Tasks -> [text : Texts, fallbacks : Seq(Models)]]
      /\ task \in [Tasks -> TaskStates]
      /\ turn_ready \in [Tasks -> BOOLEAN] /\ latest_answers \in [Tasks -> Texts]
  BY <1>2 DEF Typed, PInv, StateOK, TaskStates
<1>5. R \in [text : Texts, fallbacks : Seq(Models)]
  <2>1. result[t].fallbacks \in Seq(Models)
    BY <1>4
  <2>2. result[t].fallbacks \o reply.fallbacks \in Seq(Models)
    BY <1>3, <2>1, ConcatProperties
  <2>3. QED BY <1>3, <2>2
<1>6. /\ result' = [result EXCEPT ![t] = R] /\ R.text = reply.text
      /\ exits => task' = StopOtherTasks(t) /\ UNCHANGED <<turn_ready, latest_answers>>
      /\ ~exits => task' = [task EXCEPT ![t] = "returned"]
      /\ ~exits => \/ LastTurn(cfg, t) /\ UNCHANGED <<turn_ready, latest_answers>>
                   \/ /\ ~LastTurn(cfg, t)
                      /\ latest_answers' = [latest_answers EXCEPT ![t + 1] = reply.text]
                      /\ turn_ready' = [turn_ready EXCEPT ![t + 1] = TRUE]
  BY DEF RevisionReturns
<1>7. /\ result' \in [Tasks -> [text : Texts, fallbacks : Seq(Models)]]
      /\ \A u \in Tasks : u # t => result'[u] = result[u]
      /\ result'[t].text = reply.text
  <2> HIDE DEF R
  <2>1. QED BY <1>4, <1>5, <1>6
<1>8. exits => ExitLogged'
  <2> DEFINE c == heard[t]
             b == reply.text
             a == latest_answers[t]
             log == events \o RevisionEvents(cfg, t, c, b, a)
  <2>1. StateOK /\ c \in CritiqueTexts /\ b \in Texts /\ a \in Texts
    BY <1>2, <1>3 DEF PInv
  <2>2. events' = log /\ (exits <=> ClearsThreshold(cfg, c))
    BY <1>1
  <2>3. OfType(events, "reflect_early_exit") = {}
    BY <1>2 DEF ExitLogged
  <2> HIDE DEF c, b, a
  <2>4. /\ log \in Seq(Entries)
        /\ OfType(log, "reflect_early_exit") =
               IF ClearsThreshold(cfg, c) THEN {Len(log)} ELSE {}
    BY <2>1, <2>3, RevisionLogged
  <2> HIDE DEF log, exits
  <2>5. QED BY <2>2, <2>4 DEF ExitLogged
<1>9. ASSUME NEW u \in Tasks
      PROVE  /\ u = t => task'[u] = "returned"
             /\ u < t => task'[u] = "returned"
             /\ u > t => task'[u] \in {"blocked", "cancelling"}
             /\ u > t /\ ~exits => task'[u] = "blocked"
             /\ u > t /\ exits => task'[u] = "cancelling"
  <2>1. CASE exits
    <3>1. task'[u] = IF u = t THEN "returned"
                     ELSE IF task[u] \notin Ended /\ \E later \in Tasks :
                                            later > t /\ ~turn_ready[later]
                          THEN "cancelling"
                          ELSE task[u]
      BY <1>6, <2>1 DEF StopOtherTasks
    <3>2. u > t => task[u] \notin Ended /\ \E later \in Tasks :
                                            later > t /\ ~turn_ready[later]
      BY <1>2 DEF Ended
    <3>3. u < t => task[u] = "returned" /\ task[u] \in Ended /\ u # t
      BY <1>2 DEF Ended
    <3>4. u > t => u # t
      BY <1>2
    <3>5. QED BY <2>1, <3>1, <3>2, <3>3, <3>4
  <2>2. CASE ~exits
    <3>1. task' = [task EXCEPT ![t] = "returned"]
      BY <1>6, <2>2
    <3>2. task'[u] = IF u = t THEN "returned" ELSE task[u]
      BY <1>4, <3>1
    <3>3. QED BY <1>2, <2>2, <3>2
  <2>3. QED BY <2>1, <2>2
<1>10. \A u \in Tasks : u < t \/ u = t \/ u > t
  BY <1>2
<1> HIDE DEF exits, R
<1>11. Typed'
  BY <1>1, <1>2, <1>7 DEF Typed, outcome
<1>12. GatherWaits'
  <2>1. gather' = "waiting"
    BY <1>1, <1>2
  <2>2. ~exits => \A u \in Tasks : task'[u] \notin {"cancelling", "cancelled"}
    BY <1>9, <1>10
  <2>3. QED BY <1>2, <1>8, <2>1, <2>2 DEF GatherWaits
<1>13. ASSUME NEW u \in Tasks
       PROVE  \/ /\ turn_ready'[u] = turn_ready[u]
                 /\ latest_answers'[u] = latest_answers[u]
              \/ ~exits /\ u = t + 1 /\ latest_answers'[u] = reply.text
  <2>1. CASE UNCHANGED <<turn_ready, latest_answers>>
    BY <2>1
  <2>2. CASE ~UNCHANGED <<turn_ready, latest_answers>>
    <3>1. /\ ~exits
          /\ latest_answers' = [latest_answers EXCEPT ![t + 1] = reply.text]
          /\ turn_ready' = [turn_ready EXCEPT ![t + 1] = TRUE]
      BY <1>6, <2>2
    <3>2. QED BY <1>4, <3>1
  <2>3. QED BY <2>1, <2>2
<1>14. Handed'
  <2> SUFFICES ASSUME NEW u \in Tasks, turn_ready'[u]
               PROVE  latest_answers'[u] =
                          IF u = 0 THEN current_answer ELSE result'[u - 1].text
    BY <1>1, <1>2 DEF Handed
  <2>1. CASE u = t + 1 /\ latest_answers'[u] = reply.text
    <3>1. u # 0 /\ u - 1 = t
      BY <1>2, <2>1
    <3>2. QED BY <1>7, <2>1, <3>1
  <2>2. CASE turn_ready'[u] = turn_ready[u] /\ latest_answers'[u] = latest_answers[u]
    <3>1. latest_answers[u] = IF u = 0 THEN current_answer ELSE result[u - 1].text
      BY <2>2 DEF RInv, Handed
    <3>2. CASE u = 0
      BY <2>2, <3>1, <3>2
    <3>3. CASE u # 0
      <4>1. u \in Nat /\ ~(u > t)
        BY <1>2, <2>2
      <4>2. u - 1 \in Tasks /\ u - 1 # t
        <5>1. u - 1 \in Tasks
          BY <1>2, <3>3, TurnBefore DEF PInv, StateOK
        <5>2. u - 1 # t
          BY <1>2, <4>1
        <5>3. QED BY <5>1, <5>2
      <4>3. result'[u - 1] = result[u - 1]
        BY <1>7, <4>2
      <4>4. QED BY <2>2, <3>1, <3>3, <4>3
    <3>4. QED BY <3>2, <3>3
  <2>3. QED BY <1>13, <2>1, <2>2
<1>15. Untouched'
  <2> SUFFICES ASSUME NEW u \in Tasks,
                      task'[u] \in {"blocked", "critique", "cancelling", "cancelled"}
               PROVE  result'[u] = NothingYet
    BY <1>2 DEF Untouched
  <2>1. u > t /\ u # t
    BY <1>2, <1>9, <1>10
  <2>2. task[u] = "blocked"
    BY <1>2, <2>1
  <2>3. QED BY <1>7, <2>1, <2>2 DEF RInv, Untouched
<1>16. Counted'
  <2>1. CritiquesLogged' = CritiquesLogged
    <3>1. Cardinality(OfType(events', "reflect_critique")) = CritiquesLogged
      BY <1>1, <1>2, <1>3, RevisionCounts DEF PInv
    <3>2. QED BY <3>1 DEF CritiquesLogged
  <2>2. CritiquesLogged = t + 1
    BY <1>1 DEF RInv, Counted
  <2>3. ASSUME NEW u \in Tasks PROVE task'[u] # "revision"
    BY <1>9, <1>10
  <2>4. ASSUME NEW u \in Tasks, turn_ready'[u], task'[u] \in {"blocked", "critique"}
        PROVE  u = t + 1
    <3>1. u > t
      BY <1>9, <1>10, <2>4
    <3>2. ~turn_ready[u]
      BY <1>2, <3>1
    <3>3. QED BY <1>13, <2>4, <3>2
  <2>5. QED BY <1>2, <2>1, <2>2, <2>3, <2>4 DEF Counted
<1>17. Reported'
  BY <1>1, <1>2 DEF Reported
<1>18. QED BY <1>11, <1>12, <1>14, <1>15, <1>16, <1>17 DEF RInv

\* Every step stays inside the larger invariant.
LEMMA StepKeepsMore == RInv /\ [Next]_vars => RInv'
<1> SUFFICES ASSUME RInv, [Next]_vars PROVE RInv'
  OBVIOUS
<1>1. PInv'
  BY StepPreserves DEF RInv
<1>2. task \in [Tasks -> TaskStates]
  BY DEF RInv, PInv, StateOK, TaskStates
<1>3. CASE UNCHANGED vars
  BY <1>1, <1>2, <1>3, QuietStepKeepsMore DEF vars, shared, outcome
<1>4. CASE GatherReturns
  BY <1>1, <1>4, GatherReturnsKeepsMore
<1>5. ASSUME NEW t \in Tasks, TurnStarts(t) PROVE RInv'
  BY <1>1, <1>2, <1>5, QuietStepKeepsMore DEF TurnStarts, TaskStates
<1>6. ASSUME NEW t \in Tasks, CallRaises(t) PROVE RInv'
  BY <1>1, <1>2, <1>6, QuietStepKeepsMore DEF CallRaises, InFlight, TaskStates, Ended
<1>7. ASSUME NEW t \in Tasks, CancellationArrives(t) PROVE RInv'
  BY <1>1, <1>2, <1>7, QuietStepKeepsMore DEF CancellationArrives, TaskStates, Ended
<1>8. CASE CallerCancelled
  BY <1>1, <1>2, <1>8, QuietStepKeepsMore DEF CallerCancelled, TaskStates, Ended
<1>9. QED
  BY <1>1, <1>3, <1>4, <1>5, <1>6, <1>7, <1>8, CritiqueKeepsMore, RevisionKeepsMore
     DEF Next, TaskStep

LEMMA InvarianceOfMore == Spec => []RInv
<1>1. QED BY InitEstablishesMore, StepKeepsMore, PTL DEF Spec

\* The types of the state, with any number of turns: what the loop returns is one
\* of the texts and a list of models, and every entry names a turn of the loop.
THEOREM ParallelTypes == Spec => []TypeOK
<1>1. RInv => TypeOK
  <2> SUFFICES ASSUME RInv PROVE TypeOK
    OBVIOUS
  <2>1. \A i \in DOMAIN events : events[i].turn \in Tasks
    <3>1. events \in Seq(Entries)
      BY DEF RInv, PInv, StateOK
    <3>2. \A entry \in Entries : entry.turn \in Tasks
      BY DEF Entries, Critiqued, Revised, Note
    <3>3. \A i \in DOMAIN events : events[i] \in Entries
      BY <3>1
    <3>4. QED BY <3>2, <3>3
  <2>2. QED BY <2>1 DEF RInv, PInv, StateOK, Typed, TypeOK
<1>2. QED BY <1>1, InvarianceOfMore, PTL

-----------------------------------------------------------------------------
(***************************************************************************)
(* The parallel loop implements the sequential one.  A turn is skipped by  *)
(* `if revised' when it revised to nothing; where no revision is blank,    *)
(* every turn that returned has something, unless it is the only turn and  *)
(* exits with the answer the loop started from.                            *)
(***************************************************************************)
NoRevisionIsBlank == \A reply \in RevisionReplies : reply.text # Blank

Spoken ==
    \A t \in Returned :
        result[t].text # Blank \/ (cfg.turns = 1 /\ result[t].text = current_answer)

SInv == RInv /\ Spoken

LEMMA SpokenStep ==
    ASSUME NoRevisionIsBlank, SInv, [Next]_vars
    PROVE  Spoken'
<1>1. /\ RInv /\ cfg \in Configs /\ Tasks \subseteq Nat
      /\ task \in [Tasks -> TaskStates]
      /\ result \in [Tasks -> [text : Texts, fallbacks : Seq(Models)]]
  BY TurnsAreNumbers DEF SInv, RInv, PInv, StateOK, Typed, TaskStates
<1>2. ASSUME UNCHANGED <<cfg, current_answer, result>>,
             \A u \in Tasks : task'[u] = "returned" => task[u] = "returned"
      PROVE  Spoken'
  <2>1. Returned' \subseteq Returned
    BY <1>2 DEF Returned, Tasks
  <2>2. QED BY <1>2, <2>1 DEF SInv, Spoken
<1>3. CASE UNCHANGED vars \/ GatherReturns
  BY <1>2, <1>3 DEF vars, GatherReturns
<1>4. ASSUME NEW t \in Tasks, TurnStarts(t) \/ CallRaises(t) \/ CancellationArrives(t)
      PROVE  Spoken'
  BY <1>1, <1>2, <1>4 DEF TurnStarts, CallRaises, CancellationArrives
<1>5. CASE CallerCancelled
  BY <1>2, <1>5 DEF CallerCancelled
<1>6. ASSUME NEW t \in Tasks, NEW reply \in CritiqueReplies, CritiqueReturns(t, reply)
      PROVE  Spoken'
  <2> DEFINE R == [text |-> latest_answers[t], fallbacks |-> reply.fallbacks]
  <2>1. /\ t \in InFlight /\ UNCHANGED <<cfg, current_answer>>
        /\ result' = [result EXCEPT ![t] = R]
        /\ task' = [task EXCEPT ![t] =
                IF ExitsUnrevised(cfg, t, reply.text) THEN "returned" ELSE "revision"]
    BY <1>6 DEF CritiqueReturns, InFlight
  <2>2. /\ \A u \in Tasks : u # t => result'[u] = result[u] /\ task'[u] = task[u]
        /\ result'[t].text = latest_answers[t]
        /\ task'[t] = "returned" => LastTurn(cfg, t)
    BY <1>1, <2>1 DEF ExitsUnrevised
  <2>3. Tasks' = Tasks
    BY <2>1 DEF Tasks
  <2>4. /\ turn_ready[t] /\ \A u \in Tasks : u < t => task[u] = "returned"
    BY <2>1, InFlightFacts DEF SInv, RInv
  <2>5. latest_answers[t] = IF t = 0 THEN current_answer ELSE result[t - 1].text
    BY <1>1, <2>4 DEF RInv, Handed
  <2>6. ASSUME LastTurn(cfg, t)
        PROVE  \/ latest_answers[t] # Blank
               \/ (cfg.turns = 1 /\ latest_answers[t] = current_answer)
    <3>1. t \in Nat /\ cfg.turns \in Nat /\ t = cfg.turns - 1
      BY <1>1, <2>6, TurnsAreNumbers DEF LastTurn
    <3>2. CASE t = 0
      BY <2>5, <3>1, <3>2
    <3>3. CASE t # 0
      <4>1. t - 1 \in Tasks /\ t - 1 < t /\ cfg.turns # 1
        BY <1>1, <3>1, <3>3, TurnBefore
      <4>2. t - 1 \in Returned
        BY <2>4, <4>1 DEF Returned
      <4>3. result[t - 1].text # Blank
        BY <4>1, <4>2 DEF SInv, Spoken
      <4>4. QED BY <2>5, <3>3, <4>3
    <3>4. QED BY <3>2, <3>3
  <2>7. ASSUME NEW u \in Tasks, task'[u] = "returned"
        PROVE  result'[u].text # Blank
               \/ (cfg.turns = 1 /\ result'[u].text = current_answer)
    <3>1. CASE u = t
      BY <2>2, <2>6, <2>7, <3>1
    <3>2. CASE u # t
      <4>1. u \in Returned /\ result'[u] = result[u]
        BY <2>2, <2>7, <3>2 DEF Returned
      <4>2. QED BY <4>1 DEF SInv, Spoken
    <3>3. QED BY <3>1, <3>2
  <2>8. QED BY <2>1, <2>3, <2>7 DEF Spoken, Returned
<1>7. ASSUME NEW t \in Tasks, NEW reply \in RevisionReplies, RevisionReturns(t, reply)
      PROVE  Spoken'
  <2> DEFINE R == [text |-> reply.text, fallbacks |-> result[t].fallbacks \o reply.fallbacks]
  <2>1. /\ UNCHANGED <<cfg, current_answer>>
        /\ result' = [result EXCEPT ![t] = R] /\ R.text = reply.text
        /\ task' = StopOtherTasks(t) \/ task' = [task EXCEPT ![t] = "returned"]
    BY <1>7 DEF RevisionReturns
  <2> HIDE DEF R
  <2>2. \A u \in Tasks : u # t => result'[u] = result[u]
    BY <1>1, <2>1
  <2>3. result'[t].text # Blank
    BY <1>1, <2>1 DEF NoRevisionIsBlank
  <2>4. Tasks' = Tasks
    BY <2>1 DEF Tasks
  <2>5. \A u \in Tasks : u # t /\ task'[u] = "returned" => task[u] = "returned"
    BY <1>1, <2>1 DEF StopOtherTasks
  <2>6. ASSUME NEW u \in Tasks, task'[u] = "returned"
        PROVE  result'[u].text # Blank
               \/ (cfg.turns = 1 /\ result'[u].text = current_answer)
    <3>1. CASE u = t
      BY <2>3, <3>1
    <3>2. CASE u # t
      <4>1. u \in Returned /\ result'[u] = result[u]
        BY <2>2, <2>5, <2>6, <3>2 DEF Returned
      <4>2. QED BY <4>1 DEF SInv, Spoken
    <3>3. QED BY <3>1, <3>2
  <2>7. QED BY <2>1, <2>4, <2>6 DEF Spoken, Returned
<1>8. QED BY <1>3, <1>4, <1>5, <1>6, <1>7 DEF Next, TaskStep

\* Where no revision is blank, the loop returns the answer of the last turn that
\* returned, which is what the sequential loop would hold.
LEMMA ReturnsLastAnswer ==
    ASSUME SInv, gather = "done"
    PROVE  last_answer = SequentialAnswer
<1> DEFINE truthy == {t \in Returned : result[t].text # Blank}
<1>1. /\ last_answer = LastRevised(result, current_answer)
      /\ cfg.turns \in Nat \ {0} /\ Tasks = 0..(cfg.turns - 1)
  BY TurnsAreNumbers DEF SInv, RInv, Reported, PInv, StateOK, Typed, Tasks
<1>2. CASE Returned = {}
  BY <1>1, <1>2 DEF LastRevised, SequentialAnswer
<1>3. CASE Returned # {} /\ truthy = Returned
  BY <1>1, <1>3 DEF LastRevised, SequentialAnswer
<1>4. CASE Returned # {} /\ truthy # Returned
  <2>1. PICK t \in Returned : result[t].text = Blank
    BY <1>4
  <2>2. cfg.turns = 1 /\ result[t].text = current_answer
    BY <2>1 DEF SInv, Spoken
  <2>3. Returned = {0} /\ t = 0
    BY <1>1, <2>1, <2>2 DEF Returned
  <2>4. LastRevised(result, current_answer) = current_answer
    BY <2>1, <2>3 DEF LastRevised
  <2>5. Max({0}) = 0
    BY DEF Max
  <2>6. SequentialAnswer = current_answer
    BY <1>4, <2>2, <2>3, <2>5 DEF SequentialAnswer
  <2>7. QED BY <1>1, <2>4, <2>6
<1>5. QED BY <1>2, <1>3, <1>4

-----------------------------------------------------------------------------
\* What the sequential loop holds, as the refinement mapping has it.
AnswerSeen == IF gather = "done" THEN last_answer ELSE SequentialAnswer
FallbacksSeen == IF gather = "done" THEN total_fallbacks ELSE FallbacksOf(Tasks)

\* Done or not, these are the answer of the last turn that returned and the
\* fallbacks of all turns.
OutcomeSeen ==
    AnswerSeen = SequentialAnswer /\ FallbacksSeen = FallbacksOf(Tasks)

\* While a turn is on, the sequential loop is in that turn.
ActiveSeen ==
    \A t \in Active :
        /\ SequentialStep = IF task[t] = "revision" THEN "revision" ELSE "critique"
        /\ SequentialTurn = t
        /\ SequentialAnswer = latest_answers[t]
        /\ task[t] = "revision" => SequentialCritique = heard[t]

\* When the loop is over, the sequential loop is done in the last turn that
\* returned.
OverSeen ==
    \A t \in Tasks :
        LoopOver /\ Returned = 0..t =>
            SequentialStep = "done" /\ SequentialTurn = t
                /\ SequentialAnswer = result[t].text

Seen == RInv /\ OutcomeSeen /\ ActiveSeen /\ OverSeen

LEMMA OutcomeIsSeen == SInv => OutcomeSeen
BY ReturnsLastAnswer
   DEF OutcomeSeen, AnswerSeen, FallbacksSeen, SInv, RInv, Reported

LEMMA ActiveIsSeen == RInv => ActiveSeen
<1> SUFFICES ASSUME RInv, NEW t \in Active
             PROVE  /\ SequentialStep =
                          IF task[t] = "revision" THEN "revision" ELSE "critique"
                    /\ SequentialTurn = t
                    /\ SequentialAnswer = latest_answers[t]
                    /\ task[t] = "revision" => SequentialCritique = heard[t]
  BY DEF ActiveSeen
<1>1. /\ t \in Tasks /\ t \in Nat /\ gather = "waiting" /\ Failed = {}
      /\ Returned = 0..(t - 1) /\ Cardinality(Returned) = t /\ ~LoopOver
      /\ turn_ready[t]
  BY ActiveFacts DEF RInv, Active
<1>2. SequentialStep = IF task[t] = "revision" THEN "revision" ELSE "critique"
  BY <1>1 DEF SequentialStep
<1>3. SequentialTurn = t
  BY <1>1 DEF SequentialTurn
<1>4. SequentialAnswer = latest_answers[t]
  <2>1. latest_answers[t] = IF t = 0 THEN current_answer ELSE result[t - 1].text
    BY <1>1 DEF RInv, Handed
  <2>2. CASE t = 0
    BY <1>1, <2>1, <2>2 DEF SequentialAnswer
  <2>3. CASE t # 0
    <3>1. t - 1 \in Nat /\ t - 1 \in Returned
      BY <1>1, <2>3
    <3>2. Max(0..(t - 1)) = t - 1
      BY <3>1, LargestUpTo
    <3>3. SequentialAnswer = result[t - 1].text
      BY <1>1, <3>1, <3>2 DEF SequentialAnswer
    <3>4. QED BY <2>1, <2>3, <3>3
  <2>4. QED BY <2>2, <2>3
<1>5. ASSUME task[t] = "revision" PROVE SequentialCritique = heard[t]
  <2>1. CritiquesLogged = t + 1
    BY <1>1, <1>5 DEF RInv, Counted
  <2>2. QED BY <1>1, <2>1 DEF SequentialCritique, CritiquesLogged
<1>6. QED BY <1>2, <1>3, <1>4, <1>5

LEMMA OverIsSeen == RInv => OverSeen
<1> SUFFICES ASSUME RInv, NEW t \in Tasks, LoopOver, Returned = 0..t
             PROVE  SequentialStep = "done" /\ SequentialTurn = t
                        /\ SequentialAnswer = result[t].text
  BY DEF OverSeen
<1>1. t \in Nat /\ t \in Returned
  BY TurnsAreNumbers DEF RInv, PInv, StateOK
<1>2. Cardinality(Returned) = t + 1 /\ Max(Returned) = t
  BY <1>1, FS_Interval, LargestUpTo
<1>3. QED BY <1>1, <1>2 DEF SequentialStep, SequentialTurn, SequentialAnswer

LEMMA EverythingIsSeen == SInv => Seen
BY OutcomeIsSeen, ActiveIsSeen, OverIsSeen DEF SInv, Seen

\* Both loops log the same.
LEMMA SameEntries ==
    ASSUME NEW t, NEW log, NEW c, NEW b, NEW a
    PROVE  /\ Sequential!CritiqueEvents(cfg, log, t, c, a) = CritiqueEvents(cfg, log, t, c, a)
           /\ Sequential!RevisionEvents(cfg, t, c, b, a) = RevisionEvents(cfg, t, c, b, a)
           /\ Sequential!Signal(c) = Signal(c)
           /\ Sequential!ExitsUnrevised(cfg, t, c) = ExitsUnrevised(cfg, t, c)
           /\ Sequential!ClearsThreshold(cfg, c) = ClearsThreshold(cfg, c)
           /\ Sequential!LastTurn(cfg, t) = LastTurn(cfg, t)
<1>1. /\ Sequential!LastTurn(cfg, t) = LastTurn(cfg, t)
      /\ Sequential!ClearsThreshold(cfg, c) = ClearsThreshold(cfg, c)
  BY DEF Sequential!LastTurn, LastTurn, Sequential!ClearsThreshold, ClearsThreshold,
         Sequential!Combined, Combined, Sequential!Malformed, Malformed,
         Sequential!NoScore, NoScore
<1>2. Sequential!ExitsUnrevised(cfg, t, c) = ExitsUnrevised(cfg, t, c)
  BY <1>1 DEF Sequential!ExitsUnrevised, ExitsUnrevised
<1>3. Sequential!CritiqueEvents(cfg, log, t, c, a) = CritiqueEvents(cfg, log, t, c, a)
  BY <1>2 DEF Sequential!CritiqueEvents, CritiqueEvents, Sequential!Critiqued, Critiqued,
         Sequential!Optional, Optional, Sequential!Note, Note, Sequential!EarlyExit,
         EarlyExit, Sequential!OfType, OfType, Sequential!NoScore, NoScore
<1>4. Sequential!RevisionEvents(cfg, t, c, b, a) = RevisionEvents(cfg, t, c, b, a)
  BY <1>1 DEF Sequential!RevisionEvents, RevisionEvents, Sequential!Revised, Revised,
         Sequential!Optional, Optional, Sequential!Note, Note, Sequential!EarlyExit,
         EarlyExit
<1>5. Sequential!Signal(c) = Signal(c)
  BY DEF Sequential!Signal, Signal
<1>6. QED BY <1>1, <1>2, <1>3, <1>4, <1>5

\* The two loops start alike.
LEMMA StartsAlike == Init => Sequential!Init
<1> SUFFICES ASSUME Init PROVE Sequential!Init
  OBVIOUS
<1>1. RInv /\ cfg.turns > 0 /\ cfg.turns \in Nat /\ gather = "waiting"
  BY InitEstablishesMore, TurnsAreNumbers DEF Init
<1>2. 0 \in Tasks
  BY <1>1 DEF Tasks
<1>3. /\ task[0] = "blocked" /\ latest_answers[0] = current_answer /\ turn_ready[0]
      /\ 0 \in Active
  BY <1>2 DEF Init, Active
<1>4. SequentialStep = "critique" /\ SequentialTurn = 0 /\ SequentialAnswer = current_answer
  BY <1>1, <1>3, ActiveIsSeen DEF ActiveSeen
<1>5. SequentialCritique = NoCritique
  <2>1. OfType(events, "reflect_critique") = {}
    BY DEF Init, OfType
  <2>2. QED BY <2>1, FS_EmptySet DEF SequentialCritique
<1>6. FallbacksOf(Tasks) = << >>
  <2> DEFINE n == cfg.turns
             s == UsedBy(Tasks, result)
  <2>1. n \in Nat \ {0} /\ result \in Results /\ cfg \in Configs
    BY <1>1 DEF RInv, Typed, Results, PInv, StateOK
  <2>2. s \in [1..n -> Seq(Models)]
    BY <2>1, UsedByTyped
  <2>3. \A i \in 1..n : s[i] = << >>
    BY DEF UsedBy, Init, NothingYet
  <2>4. FallbacksOf(Tasks) = FlattenSeq(s)
    BY DEF FallbacksOf, UsedBy
  <2> HIDE DEF n, s
  <2>5. QED BY <2>1, <2>2, <2>3, <2>4, FlatteningNothing
<1>7. Sequential!NoCritique = NoCritique /\ Sequential!NoSignal = NoSignal
  BY DEF Sequential!NoCritique, NoCritique, Sequential!NoSignal, NoSignal,
         Sequential!NoScore, NoScore
<1>8. QED
  BY <1>1, <1>4, <1>5, <1>6, <1>7 DEF Sequential!Init, Init

-----------------------------------------------------------------------------
\* A step that leaves the results and who returned alone leaves what the
\* sequential loop holds alone; only where it stands may change.
LEMMA HeldUnchanged ==
    ASSUME OutcomeSeen, OutcomeSeen',
           UNCHANGED <<cfg, current_answer, heard, result, shared>>,
           Returned' = Returned
    PROVE  /\ LoopOver' = LoopOver
           /\ UNCHANGED <<SequentialTurn, AnswerSeen, SequentialCritique, FallbacksSeen>>
<1>1. Tasks' = Tasks /\ UNCHANGED events
  BY DEF Tasks, shared
<1>2. LoopOver' = LoopOver
  BY <1>1 DEF LoopOver, ExitLogged
<1>3. SequentialTurn' = SequentialTurn
  BY <1>2 DEF SequentialTurn
<1>4. SequentialAnswer' = SequentialAnswer
  BY DEF SequentialAnswer
<1>5. SequentialCritique' = SequentialCritique
  BY <1>1 DEF SequentialCritique
<1>6. FallbacksOf(Tasks)' = FallbacksOf(Tasks)
  BY <1>1 DEF FallbacksOf
<1>7. QED BY <1>2, <1>3, <1>4, <1>5, <1>6 DEF OutcomeSeen

\* While the loop is not over, the number of turns that returned is a turn.
LEMMA NextTurnIsATurn ==
    ASSUME RInv, ~LoopOver
    PROVE  Cardinality(Returned) \in Tasks
<1>1. cfg.turns \in Nat \ {0} /\ Tasks = 0..(cfg.turns - 1)
  BY TurnsAreNumbers DEF RInv, PInv, StateOK, Typed, Tasks
<1>2. IsFiniteSet(Tasks) /\ Cardinality(Tasks) = cfg.turns
  BY <1>1, FS_Interval
<1>3. Returned \in SUBSET Tasks /\ Returned # Tasks
  BY DEF Returned, LoopOver
<1>4. /\ IsFiniteSet(Returned) /\ Cardinality(Returned) <= Cardinality(Tasks)
      /\ Cardinality(Returned) # Cardinality(Tasks)
  BY <1>2, <1>3, FS_Subset
<1>5. Cardinality(Returned) \in Nat
  BY <1>4, FS_CardinalityType
<1>6. QED BY <1>1, <1>2, <1>4, <1>5

\* A step by which no revision begins or ends and nobody fails leaves the
\* sequential loop where it is.
LEMMA StandsStill ==
    ASSUME RInv, LoopOver' = LoopOver, Returned' = Returned, Failed' = Failed,
           gather' = gather, \A u \in Tasks : (task'[u] = "revision") <=> (task[u] = "revision")
    PROVE  SequentialStep' = SequentialStep
<1>1. CASE LoopOver
  BY <1>1 DEF SequentialStep
<1>2. CASE ~LoopOver
  <2>1. Cardinality(Returned) \in Tasks
    BY <1>2, NextTurnIsATurn
  <2>2. (task'[Cardinality(Returned)] = "revision") <=> (task[Cardinality(Returned)] = "revision")
    BY <2>1
  <2>3. QED BY <1>2, <2>2 DEF SequentialStep
<1>3. QED BY <1>1, <1>2

\* A critique of the turn that is on is a critique of the sequential loop.
LEMMA CritiqueSimulated ==
    ASSUME Seen, Seen', NEW t \in Tasks, NEW reply \in CritiqueReplies,
           CritiqueReturns(t, reply)
    PROVE  Sequential!CritiqueReturns(reply)
<1> DEFINE exits == ExitsUnrevised(cfg, t, reply.text)
<1>1. /\ task[t] = "critique" /\ t \in InFlight
      /\ UNCHANGED <<cfg, current_answer, turn_ready, latest_answers, gather, outcome>>
      /\ heard' = [heard EXCEPT ![t] = reply.text]
      /\ result' = [result EXCEPT
             ![t] = [text |-> latest_answers[t], fallbacks |-> reply.fallbacks]]
      /\ task' = [task EXCEPT ![t] = IF exits THEN "returned" ELSE "revision"]
      /\ events' = events \o CritiqueEvents(cfg, events, t, reply.text, latest_answers[t])
      /\ usage' = usage + 1 /\ signal' = Signal(reply.text)
  BY DEF CritiqueReturns, InFlight
<1>2. /\ RInv /\ PInv /\ StateOK /\ Typed /\ t \in Active /\ t \in Nat
      /\ gather = "waiting" /\ gather' = "waiting" /\ turn_ready[t] /\ ~ExitLogged
      /\ Returned = 0..(t - 1) /\ t \notin Returned
      /\ Tasks' = Tasks
  BY <1>1, InFlightIsActive, ActiveFacts DEF Seen, RInv, PInv, Active, Tasks
<1>3. /\ SequentialStep = "critique" /\ SequentialTurn = t
      /\ SequentialAnswer = latest_answers[t]
  BY <1>1, <1>2 DEF Seen, ActiveSeen
<1>4. /\ AnswerSeen = latest_answers[t] /\ AnswerSeen' = SequentialAnswer'
      /\ FallbacksSeen = FallbacksOf(Tasks) /\ FallbacksSeen' = FallbacksOf(Tasks)'
  BY <1>3 DEF Seen, OutcomeSeen
<1>5. /\ reply.text \in CritiqueTexts /\ reply.fallbacks \in Seq(Models)
      /\ latest_answers[t] \in Texts
  BY <1>2, RepliesAssumption DEF StateOK
<1>6. /\ heard'[t] = reply.text /\ result'[t].text = latest_answers[t]
      /\ result'[t].fallbacks = reply.fallbacks
      /\ \A u \in Tasks : u # t => result'[u] = result[u] /\ task'[u] = task[u]
      /\ task'[t] = IF exits THEN "returned" ELSE "revision"
  BY <1>1, <1>2 DEF StateOK, Typed
<1>7. SequentialCritique' = reply.text
  <2>1. CritiquesLogged = t
    BY <1>1, <1>2 DEF RInv, Counted
  <2>2. Cardinality(OfType(events', "reflect_critique")) = CritiquesLogged + 1
    BY <1>1, <1>2, <1>5, CritiqueCounts
  <2>3. QED BY <1>2, <1>6, <2>1, <2>2 DEF SequentialCritique
<1>8. FallbacksSeen' = FallbacksSeen \o reply.fallbacks
  <2>1. result[t].fallbacks = << >>
    BY <1>1 , <1>2 DEF RInv, Untouched, NothingYet
  <2>2. result'[t].fallbacks = result[t].fallbacks \o reply.fallbacks
    BY <1>5, <1>6, <2>1, ConcatEmptySeq
  <2>3. result' \in Results
    BY <1>1, <1>2 DEF Seen, RInv, Typed, Results
  <2>4. FlattenSeq(UsedBy(Tasks, result')) = FallbacksOf(Tasks) \o reply.fallbacks
    BY <1>2, <1>5, <1>6, <2>2, <2>3, FallbacksGrow DEF RInv
  <2>5. FallbacksOf(Tasks)' = FlattenSeq(UsedBy(Tasks, result'))
    BY <1>1, <1>2 DEF FallbacksOf, UsedBy
  <2>6. QED BY <1>4, <2>4, <2>5
<1>9. OfType(events', "reflect_early_exit") = IF exits THEN {Len(events')} ELSE {}
  BY <1>1, <1>2, <1>5, CritiqueLogged DEF ExitLogged
<1> HIDE DEF exits
<1>10. /\ SequentialStep' = IF exits THEN "done" ELSE "revision"
       /\ SequentialTurn' = t /\ SequentialAnswer' = latest_answers[t]
  <2>1. CASE exits
    <3>1. LoopOver'
      BY <1>9, <2>1 DEF LoopOver, ExitLogged
    <3>2. Returned' = Returned \cup {t}
      BY <1>2, <1>6, <2>1 DEF Returned
    <3>3. Returned' = 0..t
      BY <1>2, <3>2
    <3>4. QED BY <1>2, <1>6, <2>1, <3>1, <3>3 DEF Seen, OverSeen
  <2>2. CASE ~exits
    <3>1. task'[t] = "revision" /\ turn_ready'[t]
      BY <1>1, <1>2, <1>6, <2>2
    <3>2. t \in Active'
      BY <1>2, <3>1 DEF Active
    <3>3. QED BY <1>1, <1>2, <2>2, <3>1, <3>2 DEF Seen, ActiveSeen
  <2>3. QED BY <2>1, <2>2
<1>11. /\ Sequential!CritiqueEvents(cfg, events, t, reply.text, latest_answers[t]) =
              CritiqueEvents(cfg, events, t, reply.text, latest_answers[t])
       /\ Sequential!Signal(reply.text) = Signal(reply.text)
       /\ Sequential!ExitsUnrevised(cfg, t, reply.text) = exits
  BY SameEntries DEF exits
<1>12. /\ SequentialStep = "critique"
       /\ SequentialCritique' = reply.text
       /\ events' = events \o Sequential!CritiqueEvents(cfg, events, SequentialTurn,
                                                       reply.text, AnswerSeen)
       /\ usage' = usage + 1
       /\ signal' = Sequential!Signal(reply.text)
       /\ FallbacksSeen' = FallbacksSeen \o reply.fallbacks
       /\ SequentialStep' = IF Sequential!ExitsUnrevised(cfg, SequentialTurn, reply.text)
                            THEN "done" ELSE "revision"
       /\ UNCHANGED <<cfg, SequentialTurn, AnswerSeen>>
  BY <1>1, <1>3, <1>4, <1>7, <1>8, <1>10, <1>11
<1>13. QED BY <1>12 DEF Sequential!CritiqueReturns, AnswerSeen, FallbacksSeen

\* A revision of the turn that is on is a revision of the sequential loop.
LEMMA RevisionSimulated ==
    ASSUME Seen, Seen', NEW t \in Tasks, NEW reply \in RevisionReplies,
           RevisionReturns(t, reply)
    PROVE  Sequential!RevisionReturns(reply)
<1> DEFINE exits == ClearsThreshold(cfg, heard[t])
           R == [text |-> reply.text, fallbacks |-> result[t].fallbacks \o reply.fallbacks]
<1>1. /\ task[t] = "revision" /\ t \in InFlight
      /\ UNCHANGED <<cfg, current_answer, heard, gather, outcome, signal>>
      /\ result' = [result EXCEPT ![t] = R]
      /\ R.text = reply.text /\ R.fallbacks = result[t].fallbacks \o reply.fallbacks
      /\ events' = events
             \o RevisionEvents(cfg, t, heard[t], reply.text, latest_answers[t])
      /\ usage' = usage + 1
  BY DEF RevisionReturns, InFlight
<1>2. /\ RInv /\ PInv /\ StateOK /\ Typed /\ t \in Active /\ t \in Nat
      /\ gather = "waiting" /\ gather' = "waiting" /\ turn_ready[t] /\ ~ExitLogged
      /\ Returned = 0..(t - 1) /\ t \notin Returned
      /\ Tasks' = Tasks /\ Tasks \subseteq Nat
      /\ \A u \in Tasks : u < t => task[u] = "returned"
      /\ \A u \in Tasks : u > t => task[u] = "blocked" /\ ~turn_ready[u]
  BY <1>1, InFlightIsActive, ActiveFacts DEF Seen, RInv, PInv, Active, Tasks
<1>3. /\ SequentialStep = "revision" /\ SequentialTurn = t
      /\ SequentialAnswer = latest_answers[t] /\ SequentialCritique = heard[t]
  BY <1>1, <1>2 DEF Seen, ActiveSeen
<1>4. /\ AnswerSeen = latest_answers[t] /\ AnswerSeen' = SequentialAnswer'
      /\ FallbacksSeen = FallbacksOf(Tasks) /\ FallbacksSeen' = FallbacksOf(Tasks)'
  BY <1>3 DEF Seen, OutcomeSeen
<1>5. /\ reply.text \in Texts /\ reply.fallbacks \in Seq(Models)
      /\ latest_answers[t] \in Texts /\ heard[t] \in CritiqueTexts
  BY <1>2, RepliesAssumption DEF StateOK
<1> HIDE DEF R
<1>6. /\ result'[t] = R
      /\ \A u \in Tasks : u # t => result'[u] = result[u]
  BY <1>1, <1>2 DEF Typed
<1>7. SequentialCritique' = heard[t]
  <2>1. CritiquesLogged = t + 1
    BY <1>1, <1>2 DEF RInv, Counted
  <2>2. Cardinality(OfType(events', "reflect_critique")) = CritiquesLogged
    BY <1>1, <1>2, <1>5, RevisionCounts
  <2>3. QED BY <1>1, <1>2, <2>1, <2>2 DEF SequentialCritique
<1>8. FallbacksSeen' = FallbacksSeen \o reply.fallbacks
  <2>1. result'[t].fallbacks = result[t].fallbacks \o reply.fallbacks
    BY <1>1, <1>6
  <2>2. result' \in Results
    <3>1. Tasks' = Tasks
      BY <1>2
    <3>2. QED BY <3>1 DEF Seen, RInv, Typed, Results
  <2>3. FlattenSeq(UsedBy(Tasks, result')) = FallbacksOf(Tasks) \o reply.fallbacks
    <3>1. /\ PInv /\ Typed /\ GatherWaits /\ Untouched /\ t \in Active
          /\ reply.fallbacks \in Seq(Models)
          /\ \A u \in Tasks : u # t => result'[u] = result[u]
      BY <1>2, <1>5, <1>6 DEF RInv
    <3>2. QED BY <2>1, <2>2, <3>1, FallbacksGrow
  <2>4. FallbacksOf(Tasks)' = FlattenSeq(UsedBy(Tasks, result'))
    BY <1>1, <1>2 DEF FallbacksOf, UsedBy
  <2>5. QED BY <1>4, <2>3, <2>4
<1>9. OfType(events', "reflect_early_exit") = IF exits THEN {Len(events')} ELSE {}
  <2> DEFINE c == heard[t]
             b == reply.text
             a == latest_answers[t]
             log == events \o RevisionEvents(cfg, t, c, b, a)
  <2>1. StateOK /\ c \in CritiqueTexts /\ b \in Texts /\ a \in Texts
    BY <1>2, <1>5
  <2>2. events' = log /\ (exits <=> ClearsThreshold(cfg, c))
    BY <1>1
  <2>3. OfType(events, "reflect_early_exit") = {}
    BY <1>2 DEF ExitLogged
  <2> HIDE DEF c, b, a
  <2>4. /\ log \in Seq(Entries)
        /\ OfType(log, "reflect_early_exit") =
               IF ClearsThreshold(cfg, c) THEN {Len(log)} ELSE {}
    BY <2>1, <2>3, RevisionLogged
  <2> HIDE DEF log, exits
  <2>5. QED BY <2>2, <2>4
<1>10. /\ exits => task' = StopOtherTasks(t)
       /\ ~exits => task' = [task EXCEPT ![t] = "returned"]
       /\ ~exits /\ ~LastTurn(cfg, t) =>
              /\ latest_answers' = [latest_answers EXCEPT ![t + 1] = reply.text]
              /\ turn_ready' = [turn_ready EXCEPT ![t + 1] = TRUE]
  BY DEF RevisionReturns
<1> HIDE DEF exits
<1>11. Returned' = 0..t
  <2>1. ASSUME NEW u \in Tasks
        PROVE  task'[u] = "returned" <=> (u = t \/ task[u] = "returned")
    BY <1>2, <1>10 DEF StopOtherTasks, StateOK, Ended
  <2>2. Returned' = Returned \cup {t}
    BY <1>2, <2>1 DEF Returned
  <2>3. QED BY <1>2, <2>2
<1>12. SequentialAnswer' = reply.text
       /\ IF LastTurn(cfg, t) \/ exits
          THEN SequentialStep' = "done" /\ SequentialTurn' = t
          ELSE SequentialStep' = "critique" /\ SequentialTurn' = t + 1
  <2>1. CASE LastTurn(cfg, t) \/ exits
    <3>1. LoopOver'
      <4>1. CASE exits
        BY <1>9, <4>1 DEF LoopOver, ExitLogged
      <4>2. CASE LastTurn(cfg, t)
        <5>1. Tasks = 0..t
          BY <4>2 DEF LastTurn, Tasks
        <5>2. QED BY <1>2, <1>11, <5>1 DEF LoopOver
      <4>3. QED BY <2>1, <4>1, <4>2
    <3>2. SequentialStep' = "done" /\ SequentialTurn' = t
          /\ SequentialAnswer' = result'[t].text
      BY <1>2, <1>11, <3>1 DEF Seen, OverSeen
    <3>3. result'[t].text = reply.text
      BY <1>1, <1>6
    <3>4. QED BY <2>1, <3>2, <3>3
  <2>2. CASE ~LastTurn(cfg, t) /\ ~exits
    <3>1. t + 1 \in Tasks /\ t + 1 > t
      BY <1>2, <2>2, TurnsAreNumbers DEF LastTurn, Tasks, StateOK
    <3>2. turn_ready'[t + 1] /\ latest_answers'[t + 1] = reply.text
      BY <1>2, <1>10, <2>2, <3>1 DEF StateOK
    <3>3. task'[t + 1] = "blocked"
      <4>1. task[t + 1] = "blocked" /\ t + 1 # t
        BY <1>2, <3>1
      <4>2. QED BY <1>2, <1>10, <2>2, <3>1, <4>1 DEF StateOK
    <3>4. t + 1 \in Active'
      BY <1>2, <3>1, <3>2, <3>3 DEF Active
    <3>5. QED BY <2>2, <3>2, <3>3, <3>4 DEF Seen, ActiveSeen
  <2>3. QED BY <2>1, <2>2
<1>13. /\ Sequential!RevisionEvents(cfg, t, heard[t], reply.text, latest_answers[t]) =
              RevisionEvents(cfg, t, heard[t], reply.text, latest_answers[t])
       /\ Sequential!ClearsThreshold(cfg, heard[t]) = exits
       /\ Sequential!LastTurn(cfg, t) = LastTurn(cfg, t)
  BY SameEntries DEF exits
<1>14. /\ SequentialStep = "revision"
       /\ AnswerSeen' = reply.text
       /\ events' = events \o Sequential!RevisionEvents(cfg, SequentialTurn,
                                      SequentialCritique, reply.text, AnswerSeen)
       /\ usage' = usage + 1
       /\ FallbacksSeen' = FallbacksSeen \o reply.fallbacks
       /\ UNCHANGED <<cfg, SequentialCritique, signal>>
  BY <1>1, <1>3, <1>4, <1>7, <1>8, <1>12, <1>13
<1>15. IF \/ Sequential!LastTurn(cfg, SequentialTurn)
          \/ Sequential!ClearsThreshold(cfg, SequentialCritique)
       THEN SequentialStep' = "done" /\ UNCHANGED SequentialTurn
       ELSE SequentialStep' = "critique" /\ SequentialTurn' = SequentialTurn + 1
  BY <1>3, <1>12, <1>13
<1>16. QED BY <1>14, <1>15 DEF Sequential!RevisionReturns, AnswerSeen, FallbacksSeen

\* The other steps raise in the sequential loop, or are none of its steps.
LEMMA OtherStepsSimulated ==
    ASSUME Seen, Seen',
           \/ UNCHANGED vars
           \/ \E t \in Tasks : TurnStarts(t) \/ CallRaises(t) \/ CancellationArrives(t)
           \/ CallerCancelled
           \/ GatherReturns
    PROVE  Sequential!CallRaises \/ UNCHANGED Sequential!loopVars
<1>1. /\ UNCHANGED <<cfg, current_answer, heard, result, shared>>
      /\ RInv /\ OutcomeSeen /\ OutcomeSeen' /\ Tasks' = Tasks
      /\ task \in [Tasks -> TaskStates]
  BY DEF vars, shared, outcome, TurnStarts, CallRaises, CancellationArrives,
         CallerCancelled, GatherReturns, Seen, RInv, PInv, StateOK, TaskStates, Tasks
<1>2. Returned' = Returned
  <2>1. \A u \in Tasks : (task'[u] = "returned") <=> (task[u] = "returned")
    BY <1>1 DEF vars, TurnStarts, CallRaises, CancellationArrives, CallerCancelled,
       GatherReturns, InFlight, Ended
  <2>2. QED BY <1>1, <2>1 DEF Returned
<1>3. /\ LoopOver' = LoopOver
      /\ UNCHANGED <<SequentialTurn, AnswerSeen, SequentialCritique, FallbacksSeen>>
  BY <1>1, <1>2, HeldUnchanged
<1>4. ASSUME SequentialStep' = SequentialStep PROVE UNCHANGED Sequential!loopVars
  BY <1>1, <1>3, <1>4 DEF Sequential!loopVars, AnswerSeen, FallbacksSeen, shared
<1>5. ASSUME SequentialStep \in {"critique", "revision"}, SequentialStep' = "raised"
      PROVE  Sequential!CallRaises
  BY <1>1, <1>3, <1>5 DEF Sequential!CallRaises, AnswerSeen, FallbacksSeen, shared
<1>6. ASSUME gather' = gather, Failed' = Failed,
             \A u \in Tasks : (task'[u] = "revision") <=> (task[u] = "revision")
      PROVE  SequentialStep' = SequentialStep
  BY <1>1, <1>2, <1>3, <1>6, StandsStill
<1>7. ASSUME LoopOver PROVE SequentialStep' = SequentialStep
  BY <1>3, <1>7 DEF SequentialStep
<1>8. CASE UNCHANGED vars
  <2>1. Failed' = Failed
    BY <1>1, <1>8 DEF Failed, vars
  <2>2. QED BY <1>4, <1>6, <1>8, <2>1 DEF vars
<1>9. ASSUME NEW t \in Tasks, TurnStarts(t) PROVE SequentialStep' = SequentialStep
  <2>1. /\ task[t] = "blocked" /\ task' = [task EXCEPT ![t] = "critique"]
        /\ gather' = gather
    BY <1>9 DEF TurnStarts
  <2>2. \A u \in Tasks : /\ (task'[u] = "revision") <=> (task[u] = "revision")
                         /\ (task'[u] = "failed") <=> (task[u] = "failed")
    BY <1>1, <2>1
  <2>3. Failed' = Failed
    BY <1>1, <2>2 DEF Failed
  <2>4. QED BY <1>6, <2>1, <2>2, <2>3
<1>10. ASSUME NEW t \in Tasks, CancellationArrives(t) PROVE SequentialStep' = SequentialStep
  <2>1. /\ task[t] = "cancelling" /\ task' = [task EXCEPT ![t] = "cancelled"]
        /\ gather' = gather
    BY <1>10 DEF CancellationArrives
  <2>2. \A u \in Tasks : /\ (task'[u] = "revision") <=> (task[u] = "revision")
                         /\ (task'[u] = "failed") <=> (task[u] = "failed")
    BY <1>1, <2>1
  <2>3. Failed' = Failed
    BY <1>1, <2>2 DEF Failed
  <2>4. QED BY <1>6, <2>1, <2>2, <2>3
<1>11. ASSUME NEW t \in Tasks, CallRaises(t) PROVE Sequential!CallRaises
  <2>1. t \in InFlight /\ task' = [task EXCEPT ![t] = "failed"]
    BY <1>11 DEF CallRaises
  <2>2. t \in Active /\ ~LoopOver
    BY <1>1, <2>1, InFlightIsActive, ActiveFacts DEF RInv
  <2>3. SequentialStep \in {"critique", "revision"}
    BY <2>2 DEF Seen, ActiveSeen
  <2>4. t \in Failed'
    BY <1>1, <2>1 DEF Failed
  <2>5. SequentialStep' = "raised"
    BY <1>3, <2>2, <2>4 DEF SequentialStep
  <2>6. QED BY <1>5, <2>3, <2>5
<1>12. ASSUME CallerCancelled
       PROVE  SequentialStep' = SequentialStep \/ Sequential!CallRaises
  <2>1. gather = "waiting" /\ gather' = "cancelling"
    BY <1>12 DEF CallerCancelled
  <2>2. Failed' = Failed
    BY <1>1, <1>12 DEF CallerCancelled, Failed, Ended
  <2>3. CASE ~LoopOver /\ Failed = {}
    <3>1. SequentialStep \in {"critique", "revision"} /\ SequentialStep' = "raised"
      BY <1>3, <2>1, <2>3 DEF SequentialStep
    <3>2. QED BY <1>5, <3>1
  <2>4. CASE ~LoopOver /\ Failed # {}
    BY <1>3, <2>2, <2>4 DEF SequentialStep
  <2>5. QED BY <1>7, <2>3, <2>4
<1>13. ASSUME GatherReturns PROVE SequentialStep' = SequentialStep
  <2>1. task' = task /\ gather \in {"waiting", "cancelling"}
    BY <1>13 DEF GatherReturns
  <2>2. Failed' = Failed
    BY <1>1, <2>1 DEF Failed
  <2>3. CASE gather' = "done"
    <3>1. LoopOver
      BY <1>3, <2>3 DEF Seen, RInv, Reported
    <3>2. QED BY <1>7, <3>1
  <2>4. CASE gather' # "done"
    <3>1. /\ Failed # {} \/ gather = "cancelling"
          /\ gather' \in {"raised", "cancelled"}
      BY <1>13, <2>4 DEF GatherReturns
    <3>2. QED BY <1>3, <1>7, <2>1, <2>2, <3>1 DEF SequentialStep
  <2>5. QED BY <2>3, <2>4
<1>14. QED BY <1>4, <1>8, <1>9, <1>10, <1>11, <1>12, <1>13

LEMMA StepSimulated ==
    ASSUME Seen, Seen', [Next]_vars
    PROVE  [Sequential!Next]_(Sequential!loopVars)
<1>1. ASSUME NEW t \in Tasks, NEW reply \in CritiqueReplies, CritiqueReturns(t, reply)
      PROVE  Sequential!Next
  <2>1. Sequential!CritiqueReturns(reply)
    BY <1>1, CritiqueSimulated
  <2>2. QED BY <2>1 DEF Sequential!Next
<1>2. ASSUME NEW t \in Tasks, NEW reply \in RevisionReplies, RevisionReturns(t, reply)
      PROVE  Sequential!Next
  <2>1. Sequential!RevisionReturns(reply)
    BY <1>2, RevisionSimulated
  <2>2. QED BY <2>1 DEF Sequential!Next
<1>3. ASSUME \/ UNCHANGED vars
             \/ \E t \in Tasks : TurnStarts(t) \/ CallRaises(t) \/ CancellationArrives(t)
             \/ CallerCancelled
             \/ GatherReturns
      PROVE  Sequential!Next \/ UNCHANGED Sequential!loopVars
  <2>1. Sequential!CallRaises \/ UNCHANGED Sequential!loopVars
    BY <1>3, OtherStepsSimulated
  <2>2. QED BY <2>1 DEF Sequential!Next
<1>4. QED BY <1>1, <1>2, <1>3 DEF Next, TaskStep

\* With any number of turns, and where no revision is blank, the gathered tasks
\* implement the sequential loop: same log, same usage, same signal, same answer
\* and same fallbacks, whatever fails and whenever the caller leaves.
THEOREM ParallelIsSequential ==
    ASSUME NoRevisionIsBlank
    PROVE  Spec => ImplementsSequential
<1>1. Init => SInv
  BY InitEstablishesMore DEF SInv, Init, Spoken, Returned
<1>2. SInv /\ [Next]_vars => SInv'
  BY StepKeepsMore, SpokenStep DEF SInv
<1>3. SInv => Seen
  BY EverythingIsSeen
<1>4. Seen /\ Seen' /\ [Next]_vars => [Sequential!Next]_(Sequential!loopVars)
  BY StepSimulated
<1>5. QED
  BY <1>1, <1>2, <1>3, <1>4, StartsAlike, PTL DEF Spec, ImplementsSequential, Sequential!Spec

\* Where no revision is blank, the loop returns the answer the sequential loop
\* would: that of the last turn that returned.
THEOREM ReturnsSequentialAnswer ==
    ASSUME NoRevisionIsBlank
    PROVE  Spec => []SameAnswerAsSequential
<1>1. Init => SInv
  BY InitEstablishesMore DEF SInv, Init, Spoken, Returned
<1>2. SInv /\ [Next]_vars => SInv'
  BY StepKeepsMore, SpokenStep DEF SInv
<1>3. SInv => SameAnswerAsSequential
  BY ReturnsLastAnswer DEF SameAnswerAsSequential
<1>4. QED BY <1>1, <1>2, <1>3, PTL DEF Spec
=============================================================================
