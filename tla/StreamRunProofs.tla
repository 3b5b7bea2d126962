-------------------------- MODULE StreamRunProofs ---------------------------
(***************************************************************************)
(* For every route, any number of turns, deltas and fallbacks, and a       *)
(* client that may stop reading or hang up at any await: the stages behind *)
(* a stream keep the invariant of the buffered run, the frames of its body *)
(* keep to the protocol, the replay of the log repeats and loses nothing,  *)
(* nothing is done for a client that has left, and what a finished stream  *)
(* reports is as true as in a buffered run, but for the fallbacks of its   *)
(* initial answer.                                                         *)
(***************************************************************************)
EXTENDS StreamRun, PipelineReportsProofs

(***************************************************************************)
(* What the generator adds to the invariant of the pipeline.  While it     *)
(* reads the initial answer it has sent deltas only, and there is a last   *)
(* one among them that says something, if any does.                        *)
(***************************************************************************)
DeltaFrames == [type : {"delta"}, text : Texts]

LastSaid(frames) ==
    \/ \A i \in 1..Len(frames) : frames[i].text = Blank
    \/ \E m \in 1..Len(frames) :
          /\ frames[m].text # Blank
          /\ \A i \in 1..Len(frames) : m < i => frames[i].text = Blank

Reading ==
    stage = "initial" =>
        /\ sent \in Seq(DeltaFrames) /\ LastSaid(sent)
        /\ pending = << >> \/ \E text \in Texts : pending = <<Delta(text)>>

Left ==
    client = "left" =>
        stage \in {"raised", "done"} /\ ~Awaiting(advisor) /\ ~Awaiting(reflector)

StreamInv == OInv /\ Reading /\ Left

-----------------------------------------------------------------------------
\* A stream starts inside the invariant.
LEMMA StreamInitEstablishes == StreamInit => StreamInv
<1> SUFFICES ASSUME StreamInit PROVE StreamInv
  OBVIOUS
<1>1. OInv
  BY InitEstablishes DEF StreamInit
<1>2. Reading
  BY DEF StreamInit, Reading, LastSaid
<1>3. Left
  BY DEF StreamInit, Left
<1>4. QED BY <1>1, <1>2, <1>3 DEF StreamInv

\* The text of the initial answer is that of the last delta that says something.
LEMMA InitialTextSaid ==
    ASSUME NEW frames \in Seq(DeltaFrames), LastSaid(frames)
    PROVE  LET text == InitialText(frames)
           IN  \/ text = Blank /\ \A i \in 1..Len(frames) : frames[i].text = Blank
               \/ /\ text # Blank
                  /\ \E m \in 1..Len(frames) :
                        /\ frames[m].text = text
                        /\ \A i \in 1..Len(frames) : m < i => frames[i].text = Blank
<1> DEFINE said == {i \in DOMAIN frames : frames[i].text # Blank}
<1>1. DOMAIN frames = 1..Len(frames) /\ Len(frames) \in Nat
  BY LenProperties
<1>2. CASE \A i \in 1..Len(frames) : frames[i].text = Blank
  <2>1. said = {}
    BY <1>1, <1>2
  <2>2. InitialText(frames) = IF said = {} THEN Blank ELSE frames[Max(said)].text
    BY DEF InitialText
  <2> HIDE DEF said
  <2>3. QED BY <1>2, <2>1, <2>2
<1>3. CASE \E m \in 1..Len(frames) :
               /\ frames[m].text # Blank
               /\ \A i \in 1..Len(frames) : m < i => frames[i].text = Blank
  <2>1. PICK m \in 1..Len(frames) :
            /\ frames[m].text # Blank
            /\ \A i \in 1..Len(frames) : m < i => frames[i].text = Blank
    BY <1>3
  <2>2. m \in said /\ \A i \in said : i \in Nat /\ m >= i
    BY <1>1, <2>1
  <2>3. \A n \in said : (\A i \in said : n >= i) => n = m
    BY <2>2
  <2>4. InitialText(frames) = IF said = {} THEN Blank ELSE frames[Max(said)].text
    BY DEF InitialText
  <2> HIDE DEF said
  <2>5. Max(said) = m
    BY <2>2, <2>3 DEF Max
  <2>6. QED BY <2>1, <2>2, <2>4, <2>5
<1>4. QED BY <1>2, <1>3 DEF LastSaid

\* It is one of the texts there are.
LEMMA InitialTextTyped ==
    ASSUME NEW frames \in Seq(DeltaFrames), LastSaid(frames)
    PROVE  InitialText(frames) \in Texts
<1>1. \A i \in 1..Len(frames) : frames[i].text \in Texts
  <2>1. \A f \in DeltaFrames : f.text \in Texts
    BY DEF DeltaFrames
  <2>2. \A i \in 1..Len(frames) : frames[i] \in DeltaFrames
    BY ElementOfSeq
  <2>3. QED BY <2>1, <2>2
<1>2. QED BY <1>1, InitialTextSaid, PipelineRepliesAssumption

\* The initial answer of a stream is the first the log gives.
LEMMA InitialStreamEndsKeeps ==
    ASSUME StreamInv, InitialStreamEnds PROVE OInv'
<1> DEFINE text == InitialText(sent)
           first == [type |-> "initial", text |-> text]
<1>1. text \in Texts /\ consulted' \in Seq(Models)
  BY InitialTextTyped, StreamAssumption DEF StreamInv, Reading, InitialStreamEnds
<1> HIDE DEF text
<1>2. /\ UNCHANGED <<advisor, reflector, route, step, last_answer>> /\ answer' = text
      /\ step = "idle" /\ stage = "initial" /\ events = << >> /\ advisor.at = "off" /\ reflector.at = "off"
      /\ stage' \in {"advise", "reflect"} /\ events' = <<first>>
  BY DEF InitialStreamEnds, advisorVars, StageAfter, StreamInv, OInv, Chain, Paths, text
<1>3. /\ first \in Entries /\ ~Judges(first) /\ Gives(first) /\ first.type # "advisor"
      /\ first \in Givers /\ first \in Keepers(route) /\ ~Revises(first)
  BY <1>1 DEF Entries, Judges, Gives, OffPath, Givers, Keepers, Revises
<1>4. events' \in Seq(Entries) /\ Len(events') = 1 /\ events'[1] = first
  BY <1>2, <1>3
<1>5. TypesOK'
  <2>1. \A i \in DOMAIN events' : events'[i].type \in LogTypes
    BY <1>4, EntryTypes
  <2>2. /\ UNCHANGED <<cfg, step, turn, critique, usage, signal, fallbacks, skip,
                       advisor_score, fallbacks_used>>
        /\ initial_answer' = text
    BY DEF InitialStreamEnds, advisorVars, text
  <2> HIDE DEF first
  <2>3. QED BY <1>1, <1>2, <1>4, <2>1, <2>2 DEF StreamInv, OInv, TypesOK, PipelineTypeOK
<1>6. Paths'
  BY <1>2 DEF StreamInv, OInv, Paths, Awaiting
<1>7. AdviceLogged'
  BY <1>2, <1>3, <1>4 DEF StreamInv, OInv, AdviceLogged, OfType
<1>8. Chain'
  <2>1. JudgedIn(events)' /\ Unrevised(events')
    BY <1>3, <1>4 DEF JudgedIn, JudgesWell, Unrevised
  <2>2. GivenLast(events', first.text) /\ KeptLast(route', events', first.text)
    BY <1>2, <1>3, <1>4 DEF GivenLast, KeptLast, LatestIn
  <2>3. QED BY <1>2, <2>1, <2>2 DEF Chain, Held, Awaiting
<1>9. QED BY <1>5, <1>6, <1>7, <1>8 DEF OInv

\* A cancelled coroutine is not at an await any more.
LEMMA CancelledStops ==
    ASSUME NEW c, NEW awaits, CoroutineOK(c, awaits)
    PROVE  /\ CoroutineOK(Cancelled(c), awaits) /\ ~Awaiting(Cancelled(c))
           /\ Cancelled(c).at = "failed" \/ (Cancelled(c) = c /\ ~Awaiting(c))
BY DEF CoroutineOK, Cancelled, Awaiting

\* Neither does a client that hangs up disturb the invariant of the pipeline.
LEMMA ClientLeavesKeeps ==
    ASSUME StreamInv, ClientLeaves PROVE StreamInv'
<1>1. /\ UNCHANGED <<loopVars, route, initial_answer, last_answer, skip, advisor_score,
                     fallbacks_used, consulted>>
      /\ client' = "left" /\ stage' = IF stage = "done" THEN "done" ELSE "raised"
      /\ advisor' = Cancelled(advisor) /\ reflector' = Cancelled(reflector)
  BY DEF ClientLeaves
<1>2. /\ CoroutineOK(advisor, {"advice", "plugins", "revision"})
      /\ CoroutineOK(reflector, {"critique", "revision"})
  BY DEF StreamInv, OInv, TypesOK, PipelineTypeOK
<1>3. /\ CoroutineOK(advisor', {"advice", "plugins", "revision"})
      /\ CoroutineOK(reflector', {"critique", "revision"})
      /\ ~Awaiting(advisor)' /\ ~Awaiting(reflector)'
      /\ advisor'.at = "failed" \/ advisor' = advisor
      /\ reflector'.at = "failed" \/ reflector' = reflector
      /\ Awaiting(advisor) \/ advisor' = advisor
      /\ Awaiting(reflector) \/ reflector' = reflector
  BY <1>1, <1>2, CancelledStops DEF Awaiting, Cancelled
<1>4. TypesOK'
  BY <1>1, <1>3 DEF StreamInv, OInv, TypesOK, PipelineTypeOK, loopVars
<1>5. Paths'
  <2>1. advisor'.at = "off" => advisor' = advisor /\ reflector' = reflector
    BY <1>3 DEF StreamInv, OInv, Paths, Awaiting
  <2>2. advisor'.at # "off" => route'.advisor
    BY <1>1, <1>3 DEF StreamInv, OInv, Paths, Awaiting
  <2>3. QED BY <1>1, <1>3, <2>1, <2>2 DEF StreamInv, OInv, Paths
<1>6. AdviceLogged'
  BY <1>1, <1>3 DEF StreamInv, OInv, AdviceLogged, loopVars
<1>7. Chain'
  <2>1. UNCHANGED <<events, initial_answer, answer, step, route>>
    BY <1>1 DEF loopVars
  <2>2. stage' = "done" => Held' = Held /\ stage = "done"
    BY <1>1, <2>1 DEF Held
  <2>3. QED BY <1>1, <1>3, <2>1, <2>2, SilentLog DEF StreamInv, OInv, Chain
<1>8. Reading' /\ Left'
  BY <1>1, <1>3 DEF Reading, Left
<1>9. QED BY <1>4, <1>5, <1>6, <1>7, <1>8 DEF StreamInv, OInv

\* No stage leads back to the initial answer.
LEMMA NeverInitialAgain ==
    ASSUME stage # "initial", PipelineNext PROVE stage' # "initial"
<1>1. ASSUME NEW s, s # "initial" PROVE StageAfter(s) # "initial"
  BY <1>1 DEF StageAfter
<1>2. ASSUME NEW reply, InitialReturns(reply) \/ ReflectionCritique(reply)
                        \/ ReflectionRevision(reply)
      PROVE  stage' # "initial"
  BY <1>2 DEF InitialReturns, ReflectionCritique, ReflectionRevision
<1>3. ASSUME NEW reply, AdviceReturns(reply) \/ AdvisorRevisionReturns(reply)
                        \/ SelfCritiqueReturns(reply) \/ SelfRevisionReturns(reply)
      PROVE  stage' # "initial"
  BY <1>3 DEF AdviceReturns, AdvisorRevisionReturns, SelfCritiqueReturns,
     SelfRevisionReturns
<1>4. EndReflection \/ AdvisorDisabled \/ SkipAdvisor \/ EndAdvisor => stage' # "initial"
  BY <1>1 DEF EndReflection, AdvisorDisabled, SkipAdvisor, EndAdvisor
<1>5. StartReflection \/ ReflectionRaises \/ StartAdvisor \/ InitialRaises
      \/ AdvisorRaises \/ ReflectorRaises \/ PluginsDone => stage' # "initial"
  BY DEF StartReflection, ReflectionRaises, StartAdvisor, InitialRaises, AdvisorRaises,
     ReflectorRaises, PluginsDone
<1>6. QED BY <1>2, <1>3, <1>4, <1>5 DEF PipelineNext, CallOrStage, Plugins

\* A step of the stages is a step of the pipeline, and none is taken for a
\* client that has left.
LEMMA StagesKeep ==
    ASSUME StreamInv, Stages(CallOrStage) \/ Stages(Plugins) PROVE StreamInv'
<1>1. stage # "initial" /\ PipelineNext /\ client' = client
  BY DEF Stages, PipelineNext
<1>2. OInv'
  BY <1>1, StepKeeps DEF StreamInv
<1>3. Reading'
  BY <1>1, NeverInitialAgain DEF Reading
<1>4. client # "left"
  BY <1>1, NothingLeftToRun DEF StreamInv, Left
<1>5. QED BY <1>1, <1>2, <1>3, <1>4 DEF StreamInv, Left

\* A frame that is taken joins those that were.
LEMMA FrameSentKeeps == ASSUME StreamInv, FrameSent PROVE StreamInv'
<1>1. /\ UNCHANGED <<vars, client>> /\ client = "reading" /\ pending # << >>
      /\ sent' = Append(sent, Head(pending)) /\ pending' = Tail(pending)
  BY DEF FrameSent
<1>2. OInv'
  BY <1>1, StepKeeps DEF StreamInv
<1>3. Left'
  BY <1>1 DEF Left
<1>4. ASSUME stage' = "initial"
      PROVE  /\ sent' \in Seq(DeltaFrames) /\ LastSaid(sent') /\ pending' = << >>
  <2>1. stage = "initial"
    BY <1>1, <1>4 DEF vars
  <2>2. PICK text \in Texts : pending = <<Delta(text)>>
    BY <1>1, <2>1 DEF StreamInv, Reading
  <2>3. /\ Delta(text) \in DeltaFrames /\ Head(pending) = Delta(text) /\ Tail(pending) = << >>
        /\ Delta(text).text = text
    BY <2>2 DEF Delta, DeltaFrames
  <2>4. sent \in Seq(DeltaFrames) /\ LastSaid(sent) /\ Len(sent) \in Nat
    BY <2>1, LenProperties DEF StreamInv, Reading
  <2>5. /\ sent' \in Seq(DeltaFrames) /\ Len(sent') = Len(sent) + 1
        /\ \A i \in 1..Len(sent) : sent'[i] = sent[i]
        /\ sent'[Len(sent) + 1] = Delta(text)
    BY <1>1, <2>3, <2>4, AppendProperties
  <2>6. LastSaid(sent')
    <3>1. CASE text # Blank
      <4>1. /\ Len(sent') \in 1..Len(sent') /\ sent'[Len(sent')].text # Blank
            /\ \A i \in 1..Len(sent') : ~(Len(sent') < i)
        BY <2>3, <2>4, <2>5, <3>1
      <4>2. QED BY <4>1 DEF LastSaid
    <3>2. CASE text = Blank
      <4>1. sent'[Len(sent')].text = Blank
        BY <2>3, <2>4, <2>5, <3>2
      <4>2. \A i \in 1..Len(sent') : i \in 1..Len(sent) \/ i = Len(sent')
        BY <2>4, <2>5
      <4>3. CASE \A i \in 1..Len(sent) : sent[i].text = Blank
        BY <2>5, <4>1, <4>2, <4>3 DEF LastSaid
      <4>4. CASE \E m \in 1..Len(sent) :
                     /\ sent[m].text # Blank
                     /\ \A i \in 1..Len(sent) : m < i => sent[i].text = Blank
        <5>1. PICK m \in 1..Len(sent) :
                  /\ sent[m].text # Blank
                  /\ \A i \in 1..Len(sent) : m < i => sent[i].text = Blank
          BY <4>4
        <5>2. /\ m \in 1..Len(sent') /\ sent'[m].text # Blank
              /\ \A i \in 1..Len(sent') : m < i => sent'[i].text = Blank
          BY <2>4, <2>5, <4>1, <4>2, <5>1
        <5>3. QED BY <5>2 DEF LastSaid
      <4>5. QED BY <2>4, <4>3, <4>4 DEF LastSaid
    <3>3. QED BY <3>1, <3>2
  <2>7. QED BY <1>1, <2>3, <2>5, <2>6
<1>5. QED BY <1>2, <1>3, <1>4 DEF StreamInv, Reading

\* No step of a stream leaves the invariant.
LEMMA StreamStepKeeps == StreamInv /\ [StreamNext]_streamVars => StreamInv'
<1> SUFFICES ASSUME StreamInv, [StreamNext]_streamVars PROVE StreamInv'
  OBVIOUS
<1>1. CASE DeltaYielded
  <2>1. UNCHANGED <<vars, sent, client>>
    BY <1>1 DEF DeltaYielded
  <2>2. \E text \in Texts : pending' = <<Delta(text)>>
    BY <1>1, StreamAssumption DEF DeltaYielded
  <2>3. OInv'
    BY <2>1, StepKeeps DEF StreamInv
  <2>4. stage' = stage /\ advisor' = advisor /\ reflector' = reflector
    BY <2>1 DEF vars, advisorVars
  <2>5. QED BY <2>1, <2>2, <2>3, <2>4 DEF StreamInv, Reading, Left
<1>2. CASE InitialStreamEnds
  <2>1. OInv'
    BY <1>2, InitialStreamEndsKeeps
  <2>2. stage' # "initial" /\ client' = client /\ client = "reading"
    BY <1>2 DEF InitialStreamEnds, StageAfter, Going
  <2>3. QED BY <2>1, <2>2 DEF StreamInv, Reading, Left
<1>3. CASE InitialStreamBreaks
  <2>1. InitialRaises /\ client' = client /\ client = "reading" /\ stage' = "raised"
    BY <1>3 DEF InitialStreamBreaks, InitialRaises, Going
  <2>2. OInv'
    BY <2>1, InitialRaisesKeeps DEF StreamInv
  <2>3. QED BY <2>1, <2>2 DEF StreamInv, Reading, Left
<1>4. CASE Stages(CallOrStage) \/ Stages(Plugins)
  BY <1>4, StagesKeep
<1>5. CASE FrameSent
  BY <1>5, FrameSentKeeps
<1>6. CASE ClientLeaves
  BY <1>6, ClientLeavesKeeps
<1>7. CASE UNCHANGED streamVars
  <2>1. UNCHANGED vars /\ UNCHANGED <<pending, sent, client>>
    BY <1>7 DEF streamVars
  <2>2. OInv'
    BY <2>1, StepKeeps DEF StreamInv
  <2>3. stage' = stage /\ advisor' = advisor /\ reflector' = reflector
    BY <2>1 DEF vars, advisorVars
  <2>4. QED BY <2>1, <2>2, <2>3 DEF StreamInv, Reading, Left
<1>8. QED BY <1>1, <1>2, <1>3, <1>4, <1>5, <1>6, <1>7 DEF StreamNext, Progress

\* The invariant holds all through a stream.
LEMMA StreamInvariance == Stream => []StreamInv
BY StreamInitEstablishes, StreamStepKeeps, PTL DEF Stream

\* Every answer of a streamed run is worked on as in a buffered one.
THEOREM StreamAnswersAreHandedOn == Stream => []AnswersChain
<1>1. StreamInv => AnswersChain
  BY ChainGivesAnswers DEF StreamInv
<1>2. QED BY <1>1, StreamInvariance, PTL

\* Once the client has hung up, nothing is called for it, logged or counted, at
\* whichever await of whichever coroutine it left.
THEOREM NothingForTheGone == Stream => QuietAfterLeaving
<1>1. StreamInv /\ [StreamNext]_streamVars
          => [client = "left" => UNCHANGED <<events, usage, consulted>>]_streamVars
  <2> SUFFICES ASSUME StreamInv, StreamNext, client = "left"
               PROVE  UNCHANGED <<events, usage, consulted>>
    OBVIOUS
  <2>1. ~DeltaYielded /\ ~InitialStreamEnds /\ ~InitialStreamBreaks /\ ~FrameSent
    BY DEF DeltaYielded, InitialStreamEnds, InitialStreamBreaks, FrameSent, Going
  <2>2. ~Stages(CallOrStage) /\ ~Stages(Plugins)
    BY NothingLeftToRun DEF Stages, PipelineNext, StreamInv, Left
  <2>3. ClientLeaves
    BY <2>1, <2>2 DEF StreamNext, Progress
  <2>4. QED BY <2>3 DEF ClientLeaves, loopVars
<1>2. QED BY <1>1, StreamInvariance, PTL DEF Stream, QuietAfterLeaving

(***************************************************************************)
(* Frames.  What holds of any sequence of frames a body may carry.         *)
(***************************************************************************)
FrameTypes == {"delta", "finish", "revision", "trailer", "done"}

InOrder(s) ==
    \A i, j \in 1..Len(s) :
        i < j => \/ Rank[s[i].type] < Rank[s[j].type]
                 \/ s[i].type = s[j].type /\ s[i].type \in {"delta", "revision"}

Has(s, type) == \E i \in 1..Len(s) : s[i].type = type
OnlyOf(s, types) == \A i \in 1..Len(s) : s[i].type \in types

Protocol(s) ==
    /\ InOrder(s) /\ OnlyOf(s, FrameTypes)
    /\ Has(s, "revision") \/ Has(s, "trailer") => Has(s, "finish")
    /\ Has(s, "done") => Has(s, "trailer")

\* The order of a body that goes on with frames of higher rank.
LEMMA OrderExtends ==
    ASSUME NEW S, NEW s \in Seq(S), NEW r \in Seq(S), InOrder(s), InOrder(r),
           \A i \in 1..Len(s), j \in 1..Len(r) :
               \/ Rank[s[i].type] < Rank[r[j].type]
               \/ s[i].type = r[j].type /\ s[i].type \in {"delta", "revision"}
    PROVE  InOrder(s \o r)
<1> DEFINE q == s \o r
<1>1. /\ Len(s) \in Nat /\ Len(r) \in Nat /\ Len(q) = Len(s) + Len(r)
      /\ \A i \in 1..Len(q) :
            \/ i \in 1..Len(s) /\ q[i] = s[i]
            \/ i - Len(s) \in 1..Len(r) /\ q[i] = r[i - Len(s)]
  BY ConcatElements
<1> HIDE DEF q
<1>2. ASSUME NEW i \in 1..Len(q), NEW j \in 1..Len(q), i < j
      PROVE  \/ Rank[q[i].type] < Rank[q[j].type]
             \/ q[i].type = q[j].type /\ q[i].type \in {"delta", "revision"}
  <2>1. CASE i \in 1..Len(s) /\ q[i] = s[i] /\ j \in 1..Len(s) /\ q[j] = s[j]
    BY <1>2, <2>1 DEF InOrder
  <2>2. CASE /\ i \in 1..Len(s) /\ q[i] = s[i]
             /\ j - Len(s) \in 1..Len(r) /\ q[j] = r[j - Len(s)]
    BY <2>2
  <2>3. CASE /\ i - Len(s) \in 1..Len(r) /\ q[i] = r[i - Len(s)]
             /\ j - Len(s) \in 1..Len(r) /\ q[j] = r[j - Len(s)]
    <3>1. i - Len(s) < j - Len(s)
      BY <1>1, <1>2
    <3>2. QED BY <2>3, <3>1, SMTT(20) DEF InOrder
  <2>4. CASE i - Len(s) \in 1..Len(r) /\ j \in 1..Len(s)
    BY <1>1, <1>2, <2>4
  <2>5. QED BY <1>1, <2>1, <2>2, <2>3, <2>4
<1>3. QED BY <1>2 DEF InOrder, q

\* What a body has, after frames have been added.
LEMMA HasExtends ==
    ASSUME NEW S, NEW s \in Seq(S), NEW r \in Seq(S), NEW type
    PROVE  Has(s \o r, type) <=> Has(s, type) \/ Has(r, type)
<1> DEFINE q == s \o r
<1>1. /\ Len(s) \in Nat /\ Len(r) \in Nat /\ Len(q) = Len(s) + Len(r)
      /\ \A i \in 1..Len(s) : q[i] = s[i]
      /\ \A i \in 1..Len(r) : q[Len(s) + i] = r[i]
      /\ \A i \in 1..Len(q) :
            \/ i \in 1..Len(s) /\ q[i] = s[i]
            \/ i - Len(s) \in 1..Len(r) /\ q[i] = r[i - Len(s)]
  BY ConcatElements
<1> HIDE DEF q
<1>2. ASSUME Has(q, type) PROVE Has(s, type) \/ Has(r, type)
  BY <1>1, <1>2 DEF Has
<1>3. ASSUME NEW i \in 1..Len(s), s[i].type = type PROVE Has(q, type)
  <2>1. i \in 1..Len(q) /\ q[i].type = type
    BY <1>1, <1>3
  <2>2. QED BY <2>1 DEF Has
<1>4. ASSUME NEW i \in 1..Len(r), r[i].type = type PROVE Has(q, type)
  <2>1. Len(s) + i \in 1..Len(q) /\ q[Len(s) + i].type = type
    BY <1>1, <1>4
  <2>2. QED BY <2>1 DEF Has
<1>5. QED BY <1>2, <1>3, <1>4 DEF Has, q

\* Which types it has, after frames have been added.
LEMMA OnlyExtends ==
    ASSUME NEW S, NEW s \in Seq(S), NEW r \in Seq(S), NEW types
    PROVE  OnlyOf(s \o r, types) <=> OnlyOf(s, types) /\ OnlyOf(r, types)
<1> DEFINE q == s \o r
<1>1. /\ Len(s) \in Nat /\ Len(r) \in Nat /\ Len(q) = Len(s) + Len(r)
      /\ \A i \in 1..Len(s) : q[i] = s[i]
      /\ \A i \in 1..Len(r) : q[Len(s) + i] = r[i]
      /\ \A i \in 1..Len(q) :
            \/ i \in 1..Len(s) /\ q[i] = s[i]
            \/ i - Len(s) \in 1..Len(r) /\ q[i] = r[i - Len(s)]
  BY ConcatElements
<1> HIDE DEF q
<1>2. ASSUME OnlyOf(s, types), OnlyOf(r, types) PROVE OnlyOf(q, types)
  BY <1>1, <1>2 DEF OnlyOf
<1>3. ASSUME OnlyOf(q, types) PROVE OnlyOf(s, types) /\ OnlyOf(r, types)
  <2>1. \A i \in 1..Len(s) : i \in 1..Len(q) /\ q[i] = s[i]
    BY <1>1
  <2>2. \A i \in 1..Len(r) : Len(s) + i \in 1..Len(q) /\ q[Len(s) + i] = r[i]
    BY <1>1
  <2>3. QED BY <1>3, <2>1, <2>2 DEF OnlyOf
<1>4. QED BY <1>2, <1>3 DEF q

\* A body that is cut keeps to the protocol: what a frame needs before it is
\* of lower rank, hence was sent.
LEMMA PrefixKeeps ==
    ASSUME NEW S, NEW s \in Seq(S), NEW r \in Seq(S), Protocol(s \o r)
    PROVE  Protocol(s)
<1> DEFINE q == s \o r
<1>1. /\ Len(s) \in Nat /\ Len(r) \in Nat /\ Len(q) = Len(s) + Len(r)
      /\ \A i \in 1..Len(s) : i \in 1..Len(q) /\ q[i] = s[i]
  BY ConcatElements
<1>2. OnlyOf(s, FrameTypes)
  BY OnlyExtends DEF Protocol
<1> HIDE DEF q
<1>3. InOrder(q) /\ InOrder(s)
  <2>1. InOrder(q)
    BY DEF Protocol, q
  <2>2. QED BY <1>1, <2>1 DEF InOrder
<1>4. ASSUME NEW i \in 1..Len(s), NEW low, Has(q, low), Rank[low] < Rank[s[i].type],
             Rank[low] \in Int, Rank[s[i].type] \in Int
      PROVE  Has(s, low)
  <2>1. PICK j \in 1..Len(q) : q[j].type = low
    BY <1>4 DEF Has
  <2>2. i \in 1..Len(q) /\ q[i] = s[i]
    BY <1>1
  <2>3. ~(i < j)
    <3>1. i < j => \/ Rank[q[i].type] < Rank[q[j].type] \/ q[i].type = q[j].type
      BY <1>3, <2>2 DEF InOrder
    <3>2. QED BY <1>4, <2>1, <2>2, <3>1
  <2>4. j \in 1..Len(s)
    BY <1>1, <2>3
  <2>5. QED BY <1>1, <2>1, <2>4 DEF Has
<1>5. /\ Rank["finish"] = 2 /\ Rank["revision"] = 3
      /\ Rank["trailer"] = 4 /\ Rank["done"] = 5
  BY DEF Rank
<1>6. \A type : Has(s, type) => Has(q, type)
  BY <1>1 DEF Has
<1>7. Has(s, "revision") \/ Has(s, "trailer") => Has(s, "finish")
  <2>1. Has(s, "revision") \/ Has(s, "trailer") => Has(q, "finish")
    BY <1>6 DEF Protocol, q
  <2>2. ASSUME NEW i \in 1..Len(s), s[i].type \in {"revision", "trailer"}, Has(q, "finish")
        PROVE  Has(s, "finish")
    BY <1>4, <1>5, <2>2
  <2>3. QED BY <2>1, <2>2 DEF Has
<1>8. Has(s, "done") => Has(s, "trailer")
  <2>1. Has(s, "done") => Has(q, "trailer")
    BY <1>6 DEF Protocol, q
  <2>2. ASSUME NEW i \in 1..Len(s), s[i].type = "done", Has(q, "trailer")
        PROVE  Has(s, "trailer")
    BY <1>4, <1>5, <2>2
  <2>3. QED BY <2>1, <2>2 DEF Has
<1>9. QED BY <1>2, <1>3, <1>7, <1>8 DEF Protocol

\* A frame that is taken stays where it is in the body.
LEMMA TakenStays ==
    ASSUME NEW S, NEW s \in Seq(S), NEW r \in Seq(S), r # << >>
    PROVE  /\ Append(s, Head(r)) \in Seq(S) /\ Tail(r) \in Seq(S)
           /\ Append(s, Head(r)) \o Tail(r) = s \o r
<1>1. /\ Head(r) \in S /\ Tail(r) \in Seq(S) /\ <<Head(r)>> \in Seq(S)
      /\ <<Head(r)>> \o Tail(r) = r
  <2>1. Head(r) \in S /\ Tail(r) \in Seq(S)
    BY HeadTailProperties
  <2>2. <<Head(r)>> \in Seq(S)
    BY <2>1
  <2>3. <<Head(r)>> \o Tail(r) = r
    BY <2>1
  <2>4. QED BY <2>1, <2>2, <2>3
<1>2. Append(s, Head(r)) = s \o <<Head(r)>> /\ Append(s, Head(r)) \in Seq(S)
  BY <1>1, AppendIsConcat, AppendProperties
<1>3. (s \o <<Head(r)>>) \o Tail(r) = s \o (<<Head(r)>> \o Tail(r))
  BY <1>1, ConcatAssociative
<1>4. QED BY <1>1, <1>2, <1>3

\* Two sequences are sequences over one set.
LEMMA SeqsTogether ==
    ASSUME NEW S, NEW T, NEW s \in Seq(S), NEW r \in Seq(T)
    PROVE  s \in Seq(S \cup T) /\ r \in Seq(S \cup T)
<1>1. s \in Seq(S \cup T)
  <2>1. Len(s) \in Nat /\ s \in [1..Len(s) -> S]
    BY LenProperties
  <2>2. s \in [1..Len(s) -> S \cup T]
    BY <2>1
  <2>3. QED BY <2>1, <2>2, SeqDef
<1>2. r \in Seq(S \cup T)
  <2>1. Len(r) \in Nat /\ r \in [1..Len(r) -> T]
    BY LenProperties
  <2>2. r \in [1..Len(r) -> S \cup T]
    BY <2>1
  <2>3. QED BY <2>1, <2>2, SeqDef
<1>3. QED BY <1>1, <1>2

\* Revisions in a row.
LEMMA RevisionsInARow ==
    ASSUME NEW n \in Nat, NEW r, r = [k \in 1..n |-> r[k]],
           \A k \in 1..n : r[k].type = "revision"
    PROVE  /\ r \in Seq({r[k] : k \in 1..n})
           /\ OnlyOf(r, {"revision"}) /\ InOrder(r)
<1>1. r \in [1..n -> {r[k] : k \in 1..n}]
  OBVIOUS
<1>2. r \in Seq({r[k] : k \in 1..n})
  BY <1>1, SeqDef
<1>3. Len(r) = n
  BY <1>1, <1>2, LenProperties
<1>4. QED BY <1>2, <1>3 DEF OnlyOf, InOrder

\* Revisions, and the close of a body behind them.
LEMMA RevisionsClosed ==
    ASSUME NEW S, NEW r \in Seq(S), OnlyOf(r, {"revision"}), InOrder(r),
           NEW trailer \in S, trailer.type = "trailer", Done \in S
    PROVE  LET q == r \o <<trailer, Done>>
           IN  /\ q \in Seq(S) /\ InOrder(q) /\ Has(q, "trailer")
               /\ OnlyOf(q, {"revision", "trailer", "done"})
               /\ \A i \in 1..Len(q) : q[i].type = "trailer" => q[i] = trailer
<1> DEFINE c == <<trailer, Done>>
<1>1. /\ c \in Seq(S) /\ Len(c) = 2 /\ c[1] = trailer /\ c[2] = Done
      /\ c[1].type = "trailer" /\ c[2].type = "done"
  BY DEF Done
<1>2. /\ Rank["revision"] = 3 /\ Rank["trailer"] = 4 /\ Rank["done"] = 5
  BY DEF Rank
<1> HIDE DEF c
<1>3. InOrder(c)
  <2>1. \A i, j \in 1..Len(c) : i < j => i = 1 /\ j = 2
    BY <1>1
  <2>2. QED BY <1>1, <1>2, <2>1 DEF InOrder
<1>4. OnlyOf(c, {"trailer", "done"}) /\ Has(c, "trailer")
  <2>1. \A i \in 1..Len(c) : i = 1 \/ i = 2
    BY <1>1
  <2>2. 1 \in 1..Len(c)
    BY <1>1
  <2>3. QED BY <1>1, <2>1, <2>2 DEF OnlyOf, Has
<1>5. InOrder(r \o c)
  <2>1. \A i \in 1..Len(r), j \in 1..Len(c) : Rank[r[i].type] < Rank[c[j].type]
    BY <1>2, <1>4 DEF OnlyOf
  <2>2. QED BY <1>1, <1>3, <2>1, OrderExtends
<1>6. Has(r \o c, "trailer")
  BY <1>1, <1>4, HasExtends
<1>7. OnlyOf(r \o c, {"revision", "trailer", "done"})
  <2>1. /\ OnlyOf(r, {"revision", "trailer", "done"})
        /\ OnlyOf(c, {"revision", "trailer", "done"})
    BY <1>4 DEF OnlyOf
  <2>2. QED BY <1>1, <2>1, OnlyExtends
<1>8. ASSUME NEW i \in 1..Len(r \o c), (r \o c)[i].type = "trailer"
      PROVE  (r \o c)[i] = trailer
  <2>1. /\ Len(r) \in Nat
        /\ \/ i \in 1..Len(r) /\ (r \o c)[i] = r[i]
           \/ i - Len(r) \in 1..Len(c) /\ (r \o c)[i] = c[i - Len(r)]
    BY <1>1, ConcatElements
  <2>2. ~(i \in 1..Len(r) /\ (r \o c)[i] = r[i])
    BY <1>8 DEF OnlyOf
  <2>3. i - Len(r) \in {1, 2} /\ (r \o c)[i] = c[i - Len(r)]
    BY <1>1, <2>1, <2>2
  <2>4. QED BY <1>1, <1>8, <2>3
<1>9. r \o c \in Seq(S)
  BY <1>1, ConcatElements
<1>10. QED BY <1>5, <1>6, <1>7, <1>8, <1>9 DEF c

\* What a stage may say behind an initial answer that is closed.
LEMMA StageExtends ==
    ASSUME NEW S, NEW s \in Seq(S), NEW r \in Seq(S), Protocol(s),
           OnlyOf(s, {"delta", "finish", "revision"}), Has(s, "finish"),
           OnlyOf(r, {"revision", "trailer", "done"}), InOrder(r),
           Has(r, "done") => Has(r, "trailer")
    PROVE  Protocol(s \o r) /\ Has(s \o r, "finish")
<1>1. /\ Rank["delta"] = 1 /\ Rank["finish"] = 2 /\ Rank["revision"] = 3
      /\ Rank["trailer"] = 4 /\ Rank["done"] = 5
  BY DEF Rank
<1>2. \A i \in 1..Len(s), j \in 1..Len(r) :
          \/ Rank[s[i].type] < Rank[r[j].type]
          \/ s[i].type = r[j].type /\ s[i].type \in {"delta", "revision"}
  <2> SUFFICES ASSUME NEW i \in 1..Len(s), NEW j \in 1..Len(r)
               PROVE  \/ Rank[s[i].type] < Rank[r[j].type]
                      \/ s[i].type = r[j].type /\ s[i].type \in {"delta", "revision"}
    OBVIOUS
  <2>1. s[i].type \in {"delta", "finish", "revision"}
    BY DEF OnlyOf
  <2>2. r[j].type \in {"revision", "trailer", "done"}
    BY DEF OnlyOf
  <2>3. QED BY <1>1, <2>1, <2>2
<1>3. InOrder(s \o r)
  BY <1>2, OrderExtends DEF Protocol
<1>4. OnlyOf(s \o r, FrameTypes)
  <2>1. OnlyOf(s, FrameTypes) /\ OnlyOf(r, FrameTypes)
    BY DEF OnlyOf, FrameTypes
  <2>2. QED BY <2>1, OnlyExtends
<1>5. Has(s \o r, "finish")
  BY HasExtends
<1>6. Has(s \o r, "done") => Has(s \o r, "trailer")
  <2>1. ~Has(s, "done")
    BY DEF Has, OnlyOf
  <2>2. QED BY <2>1, HasExtends
<1>7. QED BY <1>3, <1>4, <1>5, <1>6 DEF Protocol

(***************************************************************************)
(* The invariant of the frames.  Before its end a stage leaves neither     *)
(* trailer nor end marker; those of the end agree with what the stages     *)
(* left behind, which nothing changes any more.                            *)
(***************************************************************************)
SkipLogged == skip # "none" <=> Skipped

TrailerTrue ==
    \A i \in 1..Len(Frames) : Frames[i].type = "trailer" =>
        /\ Frames[i].turns = Cardinality(OfType(events, "reflect_critique"))
        /\ Frames[i].skipped <=> Skipped
        /\ Frames[i].fallbacks = fallbacks_used

FramesOK ==
    /\ \E S : sent \in Seq(S) /\ pending \in Seq(S)
    /\ Protocol(Frames)
    /\ stage = "initial" => OnlyOf(Frames, {"delta"})
    /\ stage # "done" => OnlyOf(Frames, {"delta", "finish", "revision"})
    /\ stage \in {"reflect", "advise"} => Has(Frames, "finish")
    /\ stage = "raised" => pending = << >>
    /\ TrailerTrue

BodyInv == StreamInv /\ SkipLogged /\ FramesOK

\* A body starts empty.
LEMMA BodyInitEstablishes == StreamInit => BodyInv
<1> SUFFICES ASSUME StreamInit PROVE BodyInv
  OBVIOUS
<1>1. sent = << >> /\ pending = << >> /\ stage = "initial" /\ events = << >> /\ skip = "none"
  BY DEF StreamInit, PipelineInit
<1>2. sent \in Seq({}) /\ pending \in Seq({}) /\ Frames = << >> /\ Len(Frames) = 0
  BY <1>1 DEF Frames
<1>3. /\ Protocol(Frames) /\ OnlyOf(Frames, {"delta"}) /\ TrailerTrue
      /\ OnlyOf(Frames, {"delta", "finish", "revision"})
  BY <1>2 DEF Protocol, OnlyOf, InOrder, Has, TrailerTrue
<1>4. SkipLogged
  BY <1>1 DEF SkipLogged, Skipped, OfType
<1>5. FramesOK
  BY <1>1, <1>2, <1>3 DEF FramesOK
<1>6. QED BY <1>4, <1>5, StreamInitEstablishes DEF BodyInv

\* A step that leaves the body alone, and the pipeline too.
LEMMA SameBody ==
    ASSUME FramesOK, Frames' = Frames, UNCHANGED <<events, stage, fallbacks_used>>,
           \E S : sent' \in Seq(S) /\ pending' \in Seq(S),
           stage = "raised" => pending' = << >>
    PROVE  FramesOK'
<1>1. Skipped' <=> Skipped
  BY DEF Skipped
<1>2. TrailerTrue'
  BY <1>1 DEF FramesOK, TrailerTrue
<1>3. QED BY <1>2 DEF FramesOK

\* Taking a frame leaves the body as it was.
LEMMA FrameSentKeepsBody == ASSUME BodyInv, FrameSent PROVE FramesOK'
<1>1. /\ UNCHANGED vars /\ pending # << >>
      /\ sent' = Append(sent, Head(pending)) /\ pending' = Tail(pending)
  BY DEF FrameSent
<1>2. PICK S : sent \in Seq(S) /\ pending \in Seq(S)
  BY DEF BodyInv, FramesOK
<1>3. Frames' = Frames /\ sent' \in Seq(S) /\ pending' \in Seq(S)
  BY <1>1, <1>2, TakenStays DEF Frames
<1>4. stage # "raised" /\ UNCHANGED <<events, stage, fallbacks_used>>
  BY <1>1 DEF BodyInv, FramesOK, vars, loopVars
<1>5. QED BY <1>3, <1>4, SameBody DEF BodyInv

\* A delta behind deltas.
LEMMA DeltaYieldedKeepsBody == ASSUME BodyInv, DeltaYielded PROVE FramesOK'
<1>1. /\ UNCHANGED <<vars, sent>> /\ pending = << >> /\ stage = "initial"
  BY DEF DeltaYielded, Going
<1>2. PICK text \in Deltas : pending' = <<Delta(text)>>
  BY DEF DeltaYielded
<1>3. PICK S : sent \in Seq(S) /\ pending \in Seq(S)
  BY DEF BodyInv, FramesOK
<1> DEFINE T == S \cup {Delta(text)}
<1>4. sent \in Seq(T) /\ pending' \in Seq(T)
  <2>1. pending' \in Seq({Delta(text)})
    BY <1>2
  <2>2. QED BY <1>3, <2>1, SeqsTogether
<1> HIDE DEF T
<1>5. Frames = sent /\ Frames' = sent \o pending'
  BY <1>1, <1>4, ConcatEmptySeq DEF Frames
<1>6. /\ OnlyOf(pending', {"delta"}) /\ InOrder(pending')
  <2>1. Len(pending') = 1 /\ pending'[1].type = "delta"
    BY <1>2 DEF Delta
  <2>2. QED BY <2>1 DEF OnlyOf, InOrder
<1>7. OnlyOf(sent, {"delta"}) /\ InOrder(sent)
  BY <1>1, <1>5 DEF BodyInv, FramesOK, Protocol
<1>8. OnlyOf(Frames', {"delta"})
  BY <1>4, <1>5, <1>6, <1>7, OnlyExtends
<1>9. InOrder(Frames')
  <2>1. \A i \in 1..Len(sent), j \in 1..Len(pending') :
            sent[i].type = pending'[j].type /\ sent[i].type \in {"delta", "revision"}
    BY <1>6, <1>7 DEF OnlyOf
  <2>2. QED BY <1>4, <1>5, <1>6, <1>7, <2>1, OrderExtends
<1>10. /\ Protocol(Frames') /\ OnlyOf(Frames', {"delta", "finish", "revision"})
       /\ TrailerTrue'
  BY <1>8, <1>9 DEF Protocol, OnlyOf, Has, FrameTypes, TrailerTrue
<1>11. stage' = "initial"
  BY <1>1 DEF vars
<1>12. QED BY <1>1, <1>4, <1>8, <1>10, <1>11 DEF FramesOK

\* The finish chunk closes the deltas.
LEMMA InitialStreamEndsKeepsBody == ASSUME BodyInv, InitialStreamEnds PROVE FramesOK'
<1>1. /\ sent' = sent /\ pending = << >> /\ stage = "initial" /\ pending' = <<Finished>>
      /\ stage' \in {"reflect", "advise"}
  BY DEF InitialStreamEnds, Going, StageAfter
<1>2. PICK S : sent \in Seq(S) /\ pending \in Seq(S)
  BY DEF BodyInv, FramesOK
<1> DEFINE T == S \cup {Finished}
<1>3. sent \in Seq(T) /\ pending' \in Seq(T)
  <2>1. pending' \in Seq({Finished})
    BY <1>1
  <2>2. QED BY <1>2, <2>1, SeqsTogether
<1> HIDE DEF T
<1>4. Frames = sent /\ Frames' = sent \o pending'
  BY <1>1, <1>3, ConcatEmptySeq DEF Frames
<1>5. OnlyOf(pending', {"finish"}) /\ InOrder(pending') /\ Has(pending', "finish")
  <2>1. Len(pending') = 1 /\ pending'[1].type = "finish"
    BY <1>1 DEF Finished
  <2>2. QED BY <2>1 DEF OnlyOf, InOrder, Has
<1>6. OnlyOf(sent, {"delta"}) /\ InOrder(sent)
  BY <1>1, <1>4 DEF BodyInv, FramesOK, Protocol
<1>7. OnlyOf(Frames', {"delta", "finish"})
  <2>1. OnlyOf(sent, {"delta", "finish"}) /\ OnlyOf(pending', {"delta", "finish"})
    BY <1>5, <1>6 DEF OnlyOf
  <2>2. QED BY <1>3, <1>4, <2>1, OnlyExtends
<1>8. InOrder(Frames')
  <2>1. Rank["delta"] = 1 /\ Rank["finish"] = 2
    BY DEF Rank
  <2>2. \A i \in 1..Len(sent), j \in 1..Len(pending') :
            Rank[sent[i].type] < Rank[pending'[j].type]
    BY <1>5, <1>6, <2>1 DEF OnlyOf
  <2>3. QED BY <1>3, <1>4, <1>5, <1>6, <2>2, OrderExtends
<1>9. Has(Frames', "finish")
  BY <1>3, <1>4, <1>5, HasExtends
<1>10. /\ Protocol(Frames') /\ OnlyOf(Frames', {"delta", "finish", "revision"})
       /\ TrailerTrue'
  BY <1>7, <1>8, <1>9 DEF Protocol, OnlyOf, Has, FrameTypes, TrailerTrue
<1>11. QED BY <1>1, <1>3, <1>9, <1>10 DEF FramesOK

\* A body that breaks in the initial answer stays as it is.
LEMMA InitialStreamBreaksKeepsBody == ASSUME BodyInv, InitialStreamBreaks PROVE FramesOK'
<1>1. /\ UNCHANGED <<sent, pending, events, fallbacks_used>> /\ pending = << >>
      /\ stage = "initial" /\ stage' = "raised"
  BY DEF InitialStreamBreaks, InitialRaises, Going, loopVars
<1>2. Frames' = Frames /\ (Skipped' <=> Skipped)
  BY <1>1 DEF Frames, Skipped
<1>3. QED BY <1>1, <1>2 DEF BodyInv, FramesOK, TrailerTrue

\* A body that is cut keeps to the protocol.
LEMMA ClientLeavesKeepsBody == ASSUME BodyInv, ClientLeaves PROVE FramesOK'
<1>1. /\ UNCHANGED <<sent, events, fallbacks_used>> /\ pending' = << >>
      /\ stage' = IF stage = "done" THEN "done" ELSE "raised"
  BY DEF ClientLeaves, loopVars
<1>2. PICK S : sent \in Seq(S) /\ pending \in Seq(S)
  BY DEF BodyInv, FramesOK
<1>3. pending' \in Seq(S) /\ Frames' = sent
  BY <1>1, <1>2, ConcatEmptySeq DEF Frames
<1>4. Protocol(Frames')
  BY <1>2, <1>3, PrefixKeeps DEF BodyInv, FramesOK, Frames
<1>5. stage' # "done" => OnlyOf(Frames', {"delta", "finish", "revision"})
  BY <1>1, <1>2, <1>3, OnlyExtends DEF BodyInv, FramesOK, Frames
<1>6. TrailerTrue'
  <2>1. \A i \in 1..Len(sent) : i \in 1..Len(Frames) /\ Frames[i] = sent[i]
    BY <1>2, ConcatElements DEF Frames
  <2>2. Skipped' <=> Skipped
    BY <1>1 DEF Skipped
  <2>3. QED BY <1>1, <1>3, <2>1, <2>2 DEF BodyInv, FramesOK, TrailerTrue
<1>7. QED BY <1>1, <1>2, <1>3, <1>4, <1>5, <1>6 DEF FramesOK

(***************************************************************************)
(* Skips are logged.                                                       *)
(***************************************************************************)
OtherEntries == {e \in Entries : e.type # "advisor_skipped"}

\* Whatever other entries a log grows by, its skips stay.
LEMMA SkipsStay ==
    ASSUME NEW s \in Seq(Entries), NEW r \in Seq(OtherEntries)
    PROVE  /\ s \o r \in Seq(Entries)
           /\ OfType(s \o r, "advisor_skipped") = OfType(s, "advisor_skipped")
<1>1. s \in Seq(Entries \cup OtherEntries) /\ r \in Seq(Entries \cup OtherEntries)
  BY SeqsTogether
<1>2. Entries \cup OtherEntries = Entries
  BY DEF OtherEntries
<1>3. r \in Seq(Entries)
  BY <1>1, <1>2
<1> DEFINE q == s \o r
<1>4. /\ q \in Seq(Entries) /\ Len(s) \in Nat /\ Len(r) \in Nat
      /\ Len(q) = Len(s) + Len(r)
      /\ \A i \in 1..Len(s) : q[i] = s[i]
      /\ \A i \in 1..Len(q) :
            \/ i \in 1..Len(s) /\ q[i] = s[i]
            \/ i - Len(s) \in 1..Len(r) /\ q[i] = r[i - Len(s)]
  BY <1>3, ConcatElements
<1>5. DOMAIN q = 1..Len(q) /\ DOMAIN s = 1..Len(s)
  BY <1>4, LenProperties
<1> HIDE DEF q
<1>6. \A i \in 1..Len(r) : r[i].type # "advisor_skipped"
  <2>1. \A i \in 1..Len(r) : r[i] \in OtherEntries
    BY ElementOfSeq
  <2>2. QED BY <2>1 DEF OtherEntries
<1>7. \A i \in 1..Len(q) : q[i].type = "advisor_skipped"
          <=> i \in 1..Len(s) /\ s[i].type = "advisor_skipped"
  <2> SUFFICES ASSUME NEW i \in 1..Len(q)
               PROVE  q[i].type = "advisor_skipped"
                        <=> i \in 1..Len(s) /\ s[i].type = "advisor_skipped"
    OBVIOUS
  <2>1. CASE i \in 1..Len(s) /\ q[i] = s[i]
    BY <2>1
  <2>2. CASE i - Len(s) \in 1..Len(r) /\ q[i] = r[i - Len(s)]
    <3>1. i \notin 1..Len(s)
      BY <1>4, <2>2
    <3>2. QED BY <1>6, <2>2, <3>1
  <2>3. QED BY <1>4, <2>1, <2>2
<1>8. \A i \in 1..Len(s) : i \in 1..Len(q)
  BY <1>4
<1>9. OfType(q, "advisor_skipped") = OfType(s, "advisor_skipped")
  BY <1>5, <1>7, <1>8 DEF OfType
<1>10. QED BY <1>4, <1>9 DEF q

\* The same for one entry.
LEMMA SkipsStayAfter ==
    ASSUME NEW s \in Seq(Entries), NEW e \in OtherEntries
    PROVE  /\ Append(s, e) \in Seq(Entries)
           /\ OfType(Append(s, e), "advisor_skipped") = OfType(s, "advisor_skipped")
<1>1. e \in Entries
  BY DEF OtherEntries
<1>2. Append(s, e) = s \o <<e>>
  BY <1>1, AppendIsConcat
<1>3. <<e>> \in Seq(OtherEntries)
  OBVIOUS
<1>4. QED BY <1>2, <1>3, SkipsStay

\* An optional entry is a log as well.
LEMMA OtherOptional ==
    ASSUME NEW condition, NEW e \in OtherEntries
    PROVE  Optional(condition, e) \in Seq(OtherEntries)
BY DEF Optional

\* A turn of the loop logs no skip.
LEMMA CritiqueLogsNoSkip ==
    ASSUME NEW log, NEW t \in Turns, NEW c \in CritiqueTexts, NEW a \in Texts
    PROVE  CritiqueEvents(cfg, log, t, c, a) \in Seq(OtherEntries)
<1>1. Critiqued(t, c, a) \in OtherEntries
  BY DEF OtherEntries, Entries, Critiqued
<1>2. /\ Note("reflect_fresh_context", t) \in OtherEntries
      /\ Note("reflect_score", t) \in OtherEntries /\ EarlyExit(t) \in OtherEntries
  BY DEF OtherEntries, Entries, Note, EarlyExit
<1> DEFINE one == <<Critiqued(t, c, a)>>
           two == Optional(cfg.fresh_context /\ OfType(log, "reflect_fresh_context") = {},
                           Note("reflect_fresh_context", t))
           three == Optional(c.score # NoScore, Note("reflect_score", t))
           four == Optional(ExitsUnrevised(cfg, t, c), EarlyExit(t))
<1>3. /\ two \in Seq(OtherEntries) /\ three \in Seq(OtherEntries)
      /\ four \in Seq(OtherEntries)
  BY <1>2, OtherOptional
<1>4. one \in Seq(OtherEntries)
  BY <1>1
<1>5. CritiqueEvents(cfg, log, t, c, a) = ((one \o two) \o three) \o four
  BY DEF CritiqueEvents
<1> HIDE DEF one, two, three, four
<1>6. one \o two \in Seq(OtherEntries)
  BY <1>3, <1>4, ConcatProperties
<1>7. (one \o two) \o three \in Seq(OtherEntries)
  BY <1>3, <1>6, ConcatProperties
<1>8. ((one \o two) \o three) \o four \in Seq(OtherEntries)
  BY <1>3, <1>7, ConcatProperties
<1>9. QED BY <1>5, <1>8

\* Nor does its revision.
LEMMA RevisionLogsNoSkip ==
    ASSUME NEW t \in Turns, NEW c, NEW text \in Texts, NEW a \in Texts
    PROVE  RevisionEvents(cfg, t, c, text, a) \in Seq(OtherEntries)
<1>1. Revised(t, text, a) \in OtherEntries /\ EarlyExit(t) \in OtherEntries
  BY DEF OtherEntries, Entries, Revised, Note, EarlyExit
<1> DEFINE one == <<Revised(t, text, a)>>
           two == Optional(ClearsThreshold(cfg, c), EarlyExit(t))
<1>2. one \in Seq(OtherEntries) /\ two \in Seq(OtherEntries)
  BY <1>1, OtherOptional
<1>3. RevisionEvents(cfg, t, c, text, a) = one \o two
  BY DEF RevisionEvents
<1> HIDE DEF one, two
<1>4. QED BY <1>2, <1>3, ConcatProperties

\* A request is marked as skipped exactly in the step that logs the skip.
LEMMA StepLogsSkip ==
    ASSUME OInv, SkipLogged, PipelineNext, stage # "initial"
    PROVE  SkipLogged'
<1>1. /\ events \in Seq(Entries) /\ answer \in Texts /\ initial_answer \in Texts
      /\ turn \in Turns
  BY DEF OInv, TypesOK, PipelineTypeOK
<1>2. ASSUME NEW r \in Seq(OtherEntries), events' = events \o r, skip' = skip
      PROVE  SkipLogged'
  BY <1>1, <1>2, SkipsStay DEF SkipLogged, Skipped
<1>3. ASSUME NEW e \in OtherEntries, events' = Append(events, e), skip' = skip
      PROVE  SkipLogged'
  BY <1>1, <1>3, SkipsStayAfter DEF SkipLogged, Skipped
<1>4. ASSUME UNCHANGED <<events, skip>> PROVE SkipLogged'
  BY <1>4 DEF SkipLogged, Skipped
<1>5. ASSUME NEW reply \in CritiqueReplies, ReflectionCritique(reply) PROVE SkipLogged'
  <2>1. /\ events' = events \o CritiqueEvents(cfg, events, turn, reply.text, answer)
        /\ skip' = skip /\ reply.text \in CritiqueTexts
    BY <1>5, RepliesAssumption DEF ReflectionCritique, CritiqueReturns, advisorVars
  <2>2. QED BY <1>1, <1>2, <2>1, CritiqueLogsNoSkip
<1>6. ASSUME NEW reply \in RevisionReplies, ReflectionRevision(reply) PROVE SkipLogged'
  <2>1. /\ events' = events \o RevisionEvents(cfg, turn, critique, reply.text, answer)
        /\ skip' = skip /\ reply.text \in Texts
    BY <1>6, RepliesAssumption DEF ReflectionRevision, RevisionReturns, advisorVars
  <2>2. QED BY <1>1, <1>2, <2>1, RevisionLogsNoSkip
<1>7. ASSUME NEW reply \in AdvisorReplies, AdviceReturns(reply) PROVE SkipLogged'
  <2> DEFINE e == [type |-> "advisor", text |-> reply.text, judged |-> answer]
             r == Optional(reply.text.score # NoScore, [type |-> "advisor_score"])
  <2>1. events' = Append(events, e) \o r /\ skip' = skip
    BY <1>7 DEF AdviceReturns
  <2>2. e \in OtherEntries /\ r \in Seq(OtherEntries)
    <3>1. reply.text \in AdvisorTexts
      BY PipelineRepliesAssumption
    <3>2. e \in OtherEntries
      BY <1>1, <3>1 DEF OtherEntries, Entries
    <3>3. [type |-> "advisor_score"] \in OtherEntries
      BY DEF OtherEntries, Entries
    <3>4. QED BY <3>2, <3>3, OtherOptional
  <2> HIDE DEF e, r
  <2>3. /\ Append(events, e) \in Seq(Entries)
        /\ OfType(Append(events, e), "advisor_skipped") = OfType(events, "advisor_skipped")
    BY <1>1, <2>2, SkipsStayAfter
  <2>4. OfType(events', "advisor_skipped") = OfType(events, "advisor_skipped")
    BY <2>1, <2>2, <2>3, SkipsStay
  <2>5. QED BY <2>1, <2>4 DEF SkipLogged, Skipped
<1>8. ASSUME PluginsDone PROVE SkipLogged'
  <2>1. Advice.feedback \in Texts
    BY <1>8, AdviceIsText DEF PluginsDone, AdvisorTexts
  <2>2. /\ [type |-> "advisor_approve"] \in OtherEntries
        /\ [type |-> "advisor_revised", text |-> Advice.feedback] \in OtherEntries
    BY <2>1 DEF OtherEntries, Entries
  <2>3. /\ skip' = skip
        /\ \/ events' = Append(events, [type |-> "advisor_approve"])
           \/ events' = Append(events, [type |-> "advisor_revised", text |-> Advice.feedback])
    BY <1>8 DEF PluginsDone
  <2>4. QED BY <1>3, <2>2, <2>3
<1>9. ASSUME NEW reply \in RevisionReplies, AdvisorRevisionReturns(reply)
      PROVE  SkipLogged'
  <2> DEFINE e == [type |-> "advisor_revision", text |-> reply.text, judged |-> answer]
  <2>1. events' = Append(events, e) /\ skip' = skip
    BY <1>9 DEF AdvisorRevisionReturns
  <2>2. e \in OtherEntries
    BY <1>1, RepliesAssumption DEF OtherEntries, Entries
  <2>3. QED BY <1>3, <2>1, <2>2
<1>10. ASSUME NEW reply \in CritiqueReplies, SelfCritiqueReturns(reply) PROVE SkipLogged'
  <2> DEFINE e == SelfEvent("reflect_critique", reply.text)
             one == Optional(
                 cfg.fresh_context /\ OfType(events, "reflect_fresh_context") = {},
                 Note("reflect_fresh_context", 0))
             two == Optional(SelfClears(reply.text),
                             SelfEvent("reflect_early_exit", reply.text))
  <2>1. events' = (Append(events, e) \o one) \o two /\ skip' = skip
    BY <1>10 DEF SelfCritiqueReturns
  <2>2. e \in OtherEntries /\ one \in Seq(OtherEntries) /\ two \in Seq(OtherEntries)
    <3>1. reply.text \in CritiqueTexts
      BY RepliesAssumption
    <3>2. e \in OtherEntries /\ SelfEvent("reflect_early_exit", reply.text) \in OtherEntries
      BY <1>1, <3>1 DEF OtherEntries, Entries, SelfEvent, Turns
    <3>3. Note("reflect_fresh_context", 0) \in OtherEntries
      BY DEF OtherEntries, Entries, Note, Turns
    <3>4. QED BY <3>2, <3>3, OtherOptional
  <2> HIDE DEF e, one, two
  <2>3. /\ Append(events, e) \in Seq(Entries)
        /\ OfType(Append(events, e), "advisor_skipped") = OfType(events, "advisor_skipped")
    BY <1>1, <2>2, SkipsStayAfter
  <2>4. /\ Append(events, e) \o one \in Seq(Entries)
        /\ OfType(Append(events, e) \o one, "advisor_skipped")
               = OfType(events, "advisor_skipped")
    BY <2>2, <2>3, SkipsStay
  <2>5. OfType(events', "advisor_skipped") = OfType(events, "advisor_skipped")
    BY <2>1, <2>2, <2>4, SkipsStay
  <2>6. QED BY <2>1, <2>5 DEF SkipLogged, Skipped
<1>11. ASSUME NEW reply \in RevisionReplies, SelfRevisionReturns(reply) PROVE SkipLogged'
  <2> DEFINE e == SelfEvent("reflect_revised", reply.text)
  <2>1. events' = Append(events, e) /\ skip' = skip
    BY <1>11 DEF SelfRevisionReturns
  <2>2. e \in OtherEntries
    BY <1>1, RepliesAssumption DEF OtherEntries, Entries, SelfEvent, Turns
  <2>3. QED BY <1>3, <2>1, <2>2
<1>12. ASSUME SkipAdvisor PROVE SkipLogged'
  <2>1. /\ skip' = SkipReason /\ SkipReason # "insufficient_signal"
        /\ events' = Append(events, [type |-> "advisor_skipped"])
    BY <1>12 DEF SkipAdvisor
  <2>2. skip' # "none"
    BY <2>1 DEF SkipReason, SkipReasonOf
  <2>3. [type |-> "advisor_skipped"] \in Entries
    BY DEF Entries
  <2>4. /\ Len(events') = Len(events) + 1 /\ events' \in Seq(Entries)
        /\ events'[Len(events) + 1] = [type |-> "advisor_skipped"]
    BY <1>1, <2>1, <2>3, AppendProperties
  <2>5. Len(events) + 1 \in OfType(events', "advisor_skipped")
    <3>1. DOMAIN events' = 1..Len(events') /\ Len(events) \in Nat
      BY <1>1, <2>4, LenProperties
    <3>2. QED BY <2>4, <3>1 DEF OfType
  <2>6. QED BY <2>2, <2>5 DEF SkipLogged, Skipped
<1>13. StartReflection \/ EndReflection \/ ReflectionRaises \/ AdvisorDisabled
       \/ StartAdvisor \/ EndAdvisor \/ AdvisorRaises \/ ReflectorRaises
          => UNCHANGED <<events, skip>>
  BY DEF StartReflection, EndReflection, ReflectionRaises, AdvisorDisabled, StartAdvisor,
     EndAdvisor, AdvisorRaises, ReflectorRaises, CallRaises, loopVars, advisorVars
<1>14. ~InitialRaises /\ \A reply : ~InitialReturns(reply)
  BY DEF InitialRaises, InitialReturns
<1>15. QED BY <1>4, <1>5, <1>6, <1>7, <1>8, <1>9, <1>10, <1>11, <1>12, <1>13, <1>14
           DEF PipelineNext, CallOrStage, Plugins

\* Behind the initial answer a step stays in its stage, ends in a failure, or
\* goes on to the next stage; behind the last there is none.
LEMMA StageMoves ==
    ASSUME OInv, PipelineNext, stage # "initial"
    PROVE  /\ stage # "done"
           /\ \/ stage' = stage
              \/ stage' \in {"raised", "hung"}
              \/ /\ stage \in {"reflect", "advise"} /\ stage' = StageAfter(stage)
                 /\ stage' \in {"reflect", "advise", "done"}
<1>1. stage # "done"
  BY NothingLeftToRun DEF OInv, Paths
<1>2. ASSUME NEW s PROVE StageAfter(s) \in {"reflect", "advise", "done"}
  BY DEF StageAfter
<1>3. ASSUME NEW reply, ReflectionCritique(reply) \/ ReflectionRevision(reply)
      PROVE  stage' = stage
  BY <1>3 DEF ReflectionCritique, ReflectionRevision
<1>4. ASSUME NEW reply, AdviceReturns(reply) \/ AdvisorRevisionReturns(reply)
                        \/ SelfCritiqueReturns(reply) \/ SelfRevisionReturns(reply)
      PROVE  stage' = stage
  BY <1>4 DEF AdviceReturns, AdvisorRevisionReturns, SelfCritiqueReturns,
     SelfRevisionReturns
<1>5. EndReflection \/ AdvisorDisabled \/ SkipAdvisor \/ EndAdvisor
          => /\ stage \in {"reflect", "advise"} /\ stage' = StageAfter(stage)
             /\ stage' \in {"reflect", "advise", "done"}
  BY <1>2 DEF EndReflection, AdvisorDisabled, SkipAdvisor, EndAdvisor
<1>6. StartReflection \/ StartAdvisor \/ PluginsDone => stage' = stage
  BY DEF StartReflection, StartAdvisor, PluginsDone
<1>7. ReflectionRaises \/ AdvisorRaises \/ ReflectorRaises => stage' \in {"raised", "hung"}
  BY DEF ReflectionRaises, AdvisorRaises, ReflectorRaises
<1>8. ~InitialRaises /\ \A reply : ~InitialReturns(reply)
  BY DEF InitialRaises, InitialReturns
<1>9. QED BY <1>1, <1>3, <1>4, <1>5, <1>6, <1>7, <1>8 DEF PipelineNext, CallOrStage, Plugins

\* What is read from the log at the end of a stage: revisions, in a row.
LEMMA RevisionsRead ==
    ASSUME events' \in Seq(Entries)
    PROVE  /\ \E S : ReflectionFrames' \in Seq(S)
           /\ OnlyOf(ReflectionFrames', {"revision"}) /\ InOrder(ReflectionFrames')
           /\ \E S : AdvisorFrames' \in Seq(S)
           /\ OnlyOf(AdvisorFrames', {"revision"}) /\ InOrder(AdvisorFrames')
<1> DEFINE chosen == OfType(events', "reflect_revised")
           n == Cardinality(chosen)
           r == ReflectionFrames'
           a == AdvisorFrames'
<1>1. n \in Nat
  <2>1. Len(events') \in Nat /\ chosen \in SUBSET (1..Len(events'))
    BY LenProperties DEF OfType
  <2>2. IsFiniteSet(1..Len(events'))
    BY <2>1, FS_Interval
  <2>3. IsFiniteSet(chosen)
    BY <2>1, <2>2, FS_Subset
  <2>4. QED BY <2>3, FS_CardinalityType
<1>2. r = [k \in 1..n |->
              [type |-> "revision", of |-> LogOrder(chosen)[k],
               text |-> events'[LogOrder(chosen)[k]].text]]
  BY DEF ReflectionFrames, RevisionsOf, RevisionOf
<1> HIDE DEF n, r
<1>3. r = [k \in 1..n |-> r[k]] /\ \A k \in 1..n : r[k].type = "revision"
  BY <1>2
<1>4. (\E S : r \in Seq(S)) /\ OnlyOf(r, {"revision"}) /\ InOrder(r)
  BY <1>1, <1>3, RevisionsInARow
<1>5. a = << >> \/ \E f : a = <<f>> /\ f.type = "revision"
  <2> DEFINE of == {i \in OfType(events', "advisor_revised") : events'[i].text # Blank}
             f == [type |-> "revision", of |-> Min(of), text |-> events'[Min(of)].text]
  <2>1. a = IF of = {} THEN << >> ELSE <<f>>
    BY DEF AdvisorFrames, RevisionOf
  <2>2. f.type = "revision"
    OBVIOUS
  <2> HIDE DEF of, f
  <2>3. QED BY <2>1, <2>2
<1> HIDE DEF a
<1>6. (\E S : a \in Seq(S)) /\ OnlyOf(a, {"revision"}) /\ InOrder(a)
  <2>1. CASE a = << >>
    <3>1. a \in Seq({}) /\ Len(a) = 0
      BY <2>1
    <3>2. QED BY <3>1 DEF OnlyOf, InOrder
  <2>2. CASE \E f : a = <<f>> /\ f.type = "revision"
    <3>1. PICK f : a = <<f>> /\ f.type = "revision"
      BY <2>2
    <3>2. a \in Seq({f}) /\ Len(a) = 1 /\ a[1] = f
      BY <3>1
    <3>3. \A i \in 1..Len(a) : i = 1
      BY <3>2
    <3>4. OnlyOf(a, {"revision"})
      BY <3>1, <3>2, <3>3 DEF OnlyOf
    <3>5. InOrder(a)
      BY <3>3 DEF InOrder
    <3>6. QED BY <3>2, <3>4, <3>5
  <2>3. QED BY <1>5, <2>1, <2>2
<1>7. QED BY <1>4, <1>6 DEF r, a

\* What a stage yields when it has ended: revisions, and behind the last stage
\* a trailer that is true, and the end marker.
LEMMA StageFramesShape ==
    ASSUME events' \in Seq(Entries), SkipLogged', stage' # stage,
           stage' \notin {"raised", "hung"}
    PROVE  LET r == StageFrames
           IN  /\ \E S : r \in Seq(S)
               /\ OnlyOf(r, {"revision", "trailer", "done"}) /\ InOrder(r)
               /\ stage' # "done" => OnlyOf(r, {"revision"})
               /\ Has(r, "done") => Has(r, "trailer")
               /\ \A i \in 1..Len(r) : r[i].type = "trailer" =>
                     /\ r[i].turns = Cardinality(OfType(events', "reflect_critique"))
                     /\ r[i].skipped <=> Skipped'
                     /\ r[i].fallbacks = fallbacks_used'
<1> DEFINE revs == IF stage = "reflect" THEN ReflectionFrames' ELSE AdvisorFrames'
           trailer == Trailer'
<1>1. StageFrames = revs \o (IF stage' = "done" THEN <<trailer, Done>> ELSE << >>)
  BY DEF StageFrames, Closing
<1>2. (\E S : revs \in Seq(S)) /\ OnlyOf(revs, {"revision"}) /\ InOrder(revs)
  BY RevisionsRead
<1>3. /\ trailer.type = "trailer"
      /\ trailer.turns = Cardinality(OfType(events', "reflect_critique"))
      /\ trailer.skipped <=> Skipped'
      /\ trailer.fallbacks = fallbacks_used'
  BY DEF Trailer, SkipLogged
<1> HIDE DEF revs, trailer
<1>4. PICK S : revs \in Seq(S)
  BY <1>2
<1>5. CASE stage' # "done"
  <2>1. StageFrames = revs
    BY <1>1, <1>4, <1>5, ConcatEmptySeq
  <2>2. OnlyOf(revs, {"revision", "trailer", "done"}) /\ ~Has(revs, "done")
        /\ \A i \in 1..Len(revs) : revs[i].type # "trailer"
    BY <1>2 DEF OnlyOf, Has
  <2>3. QED BY <1>2, <1>5, <2>1, <2>2
<1>6. CASE stage' = "done"
  <2> DEFINE T == S \cup {trailer, Done}
             q == revs \o <<trailer, Done>>
  <2>1. revs \in Seq(T) /\ trailer \in T /\ Done \in T
    <3>1. << >> \in Seq({trailer, Done})
      OBVIOUS
    <3>2. QED BY <1>4, <3>1, SeqsTogether
  <2> HIDE DEF T
  <2>2. /\ q \in Seq(T) /\ InOrder(q) /\ Has(q, "trailer")
        /\ OnlyOf(q, {"revision", "trailer", "done"})
        /\ \A i \in 1..Len(q) : q[i].type = "trailer" => q[i] = trailer
    BY <1>2, <1>3, <2>1, RevisionsClosed
  <2>3. StageFrames = q
    BY <1>1, <1>6
  <2> HIDE DEF q
  <2>4. \A i \in 1..Len(q) : q[i].type = "trailer" =>
            /\ q[i].turns = Cardinality(OfType(events', "reflect_critique"))
            /\ q[i].skipped <=> Skipped'
            /\ q[i].fallbacks = fallbacks_used'
    BY <1>3, <2>2
  <2>5. QED BY <1>6, <2>2, <2>3, <2>4
<1>7. QED BY <1>5, <1>6

\* A step of the stages adds what the protocol allows.
LEMMA StagesKeepBody ==
    ASSUME BodyInv, Stages(CallOrStage) \/ Stages(Plugins), StreamInv'
    PROVE  SkipLogged' /\ FramesOK'
<1>1. /\ PipelineNext /\ stage # "initial" /\ pending' = StageFrames /\ sent' = sent
      /\ pending = << >>
  BY DEF Stages, PipelineNext, Going, BodyInv, FramesOK
<1>2. OInv /\ SkipLogged /\ events' \in Seq(Entries)
  BY DEF BodyInv, StreamInv, OInv, TypesOK
<1>3. SkipLogged'
  BY <1>1, <1>2, StepLogsSkip
<1>4. /\ stage # "done"
      /\ \/ stage' = stage
         \/ stage' \in {"raised", "hung"}
         \/ stage \in {"reflect", "advise"} /\ stage' \in {"reflect", "advise", "done"}
  BY <1>1, <1>2, StageMoves
<1>5. PICK S : sent \in Seq(S)
  BY DEF BodyInv, FramesOK
<1>6. Frames = sent
  BY <1>1, <1>5, ConcatEmptySeq DEF Frames
<1>7. /\ Protocol(sent) /\ OnlyOf(sent, {"delta", "finish", "revision"})
      /\ stage \in {"reflect", "advise"} => Has(sent, "finish")
  BY <1>4, <1>6 DEF BodyInv, FramesOK
<1>8. CASE stage' = stage \/ stage' \in {"raised", "hung"}
  <2>1. pending' = << >>
    BY <1>1, <1>8 DEF StageFrames
  <2>2. Frames' = sent /\ \E T : sent' \in Seq(T) /\ pending' \in Seq(T)
    BY <1>1, <1>5, <2>1, ConcatEmptySeq DEF Frames
  <2>3. TrailerTrue'
    BY <1>7, <2>2 DEF TrailerTrue, OnlyOf
  <2>4. stage' # "initial" /\ stage' # "done"
    BY <1>1, <1>4, <1>8
  <2>5. stage' \in {"reflect", "advise"} => Has(Frames', "finish")
    BY <1>7, <1>8, <2>2
  <2>6. QED BY <1>3, <1>7, <2>1, <2>2, <2>3, <2>4, <2>5 DEF FramesOK
<1>9. CASE /\ stage' # stage /\ stage' \notin {"raised", "hung"}
           /\ stage \in {"reflect", "advise"} /\ stage' \in {"reflect", "advise", "done"}
  <2> DEFINE r == StageFrames
  <2>1. /\ \E T : r \in Seq(T)
        /\ OnlyOf(r, {"revision", "trailer", "done"}) /\ InOrder(r)
        /\ stage' # "done" => OnlyOf(r, {"revision"})
        /\ Has(r, "done") => Has(r, "trailer")
        /\ \A i \in 1..Len(r) : r[i].type = "trailer" =>
              /\ r[i].turns = Cardinality(OfType(events', "reflect_critique"))
              /\ r[i].skipped <=> Skipped'
              /\ r[i].fallbacks = fallbacks_used'
    BY <1>2, <1>3, <1>9, StageFramesShape
  <2>2. pending' = r
    BY <1>1
  <2> HIDE DEF r
  <2>3. PICK T : sent \in Seq(T) /\ r \in Seq(T)
    <3>1. PICK T : r \in Seq(T)
      BY <2>1
    <3>2. sent \in Seq(S \cup T) /\ r \in Seq(S \cup T)
      BY <1>5, <3>1, SeqsTogether
    <3>3. QED BY <3>2
  <2>4. Frames' = sent \o r
    BY <1>1, <2>2 DEF Frames
  <2>5. Protocol(sent \o r) /\ Has(sent \o r, "finish")
    BY <1>7, <1>9, <2>1, <2>3, StageExtends
  <2>6. stage' # "done" => OnlyOf(sent \o r, {"delta", "finish", "revision"})
    <3>1. stage' # "done" => OnlyOf(r, {"delta", "finish", "revision"})
      BY <2>1 DEF OnlyOf
    <3>2. QED BY <1>7, <2>3, <3>1, OnlyExtends
  <2>7. TrailerTrue'
    <3> DEFINE q == sent \o r
    <3>1. ASSUME NEW i \in 1..Len(q), q[i].type = "trailer"
          PROVE  /\ q[i].turns = Cardinality(OfType(events', "reflect_critique"))
                 /\ q[i].skipped <=> Skipped'
                 /\ q[i].fallbacks = fallbacks_used'
      <4>1. \/ i \in 1..Len(sent) /\ q[i] = sent[i]
            \/ i - Len(sent) \in 1..Len(r) /\ q[i] = r[i - Len(sent)]
        BY <2>3, ConcatElements
      <4> HIDE DEF q
      <4>2. ~(i \in 1..Len(sent) /\ q[i] = sent[i])
        BY <1>7, <3>1 DEF OnlyOf
      <4>3. QED BY <2>1, <3>1, <4>1, <4>2
    <3>2. Frames' = q
      BY <2>4
    <3> HIDE DEF q
    <3>3. QED BY <3>1, <3>2 DEF TrailerTrue
  <2>8. sent' \in Seq(T) /\ pending' \in Seq(T)
    BY <1>1, <2>2, <2>3
  <2>9. QED BY <1>3, <1>9, <2>4, <2>5, <2>6, <2>7, <2>8 DEF FramesOK
<1>10. QED BY <1>4, <1>8, <1>9

\* No step of a stream leaves the invariant of its body.
LEMMA BodyStepKeeps == BodyInv /\ [StreamNext]_streamVars => BodyInv'
<1> SUFFICES ASSUME BodyInv, [StreamNext]_streamVars PROVE BodyInv'
  OBVIOUS
<1>1. StreamInv'
  BY StreamStepKeeps DEF BodyInv
<1>2. UNCHANGED <<events, skip>> => SkipLogged'
  BY DEF BodyInv, SkipLogged, Skipped
<1>3. CASE DeltaYielded
  <2>1. UNCHANGED <<events, skip>>
    BY <1>3 DEF DeltaYielded, vars, loopVars, advisorVars
  <2>2. QED BY <1>1, <1>2, <1>3, <2>1, DeltaYieldedKeepsBody DEF BodyInv
<1>4. CASE InitialStreamEnds
  <2>1. SkipLogged'
    <3>1. skip' = skip /\ events = << >> /\ stage = "initial"
      BY <1>4 DEF InitialStreamEnds, advisorVars, BodyInv, StreamInv, OInv, Chain
    <3>2. events' = Append(events, [type |-> "initial", text |-> InitialText(sent)])
      BY <1>4 DEF InitialStreamEnds
    <3>3. OfType(events, "advisor_skipped") = {} /\ OfType(events', "advisor_skipped") = {}
      BY <3>1, <3>2 DEF OfType
    <3>4. QED BY <3>1, <3>3 DEF BodyInv, SkipLogged, Skipped
  <2>2. QED BY <1>1, <1>4, <2>1, InitialStreamEndsKeepsBody DEF BodyInv
<1>5. CASE InitialStreamBreaks
  <2>1. UNCHANGED <<events, skip>>
    BY <1>5 DEF InitialStreamBreaks, InitialRaises, loopVars, advisorVars
  <2>2. QED BY <1>1, <1>2, <1>5, <2>1, InitialStreamBreaksKeepsBody DEF BodyInv
<1>6. CASE Stages(CallOrStage) \/ Stages(Plugins)
  BY <1>1, <1>6, StagesKeepBody DEF BodyInv
<1>7. CASE FrameSent
  <2>1. UNCHANGED <<events, skip>>
    BY <1>7 DEF FrameSent, vars, loopVars, advisorVars
  <2>2. QED BY <1>1, <1>2, <1>7, <2>1, FrameSentKeepsBody DEF BodyInv
<1>8. CASE ClientLeaves
  <2>1. UNCHANGED <<events, skip>>
    BY <1>8 DEF ClientLeaves, loopVars
  <2>2. QED BY <1>1, <1>2, <1>8, <2>1, ClientLeavesKeepsBody DEF BodyInv
<1>9. CASE UNCHANGED streamVars
  <2>1. UNCHANGED <<events, skip, stage, sent, pending, fallbacks_used>>
    BY <1>9 DEF streamVars, vars, loopVars, advisorVars
  <2>2. Frames' = Frames
    BY <2>1 DEF Frames
  <2>3. FramesOK'
    BY <2>1, <2>2, SameBody DEF BodyInv, FramesOK
  <2>4. QED BY <1>1, <1>2, <2>1, <2>3 DEF BodyInv
<1>10. QED BY <1>3, <1>4, <1>5, <1>6, <1>7, <1>8, <1>9 DEF StreamNext, Progress

\* The invariant of the body holds all through a stream.
LEMMA BodyInvariance == Stream => []BodyInv
BY BodyInitEstablishes, BodyStepKeeps, PTL DEF Stream

\* Frames over one set are numbered.
LEMMA FramesNumbered ==
    ASSUME BodyInv
    PROVE  DOMAIN Frames = 1..Len(Frames)
<1>1. PICK S : sent \in Seq(S) /\ pending \in Seq(S)
  BY DEF BodyInv, FramesOK
<1>2. Frames \in Seq(S)
  BY <1>1, ConcatProperties DEF Frames
<1>3. QED BY <1>2, LenProperties

\* Wherever a failure or the client cuts a stream, its body keeps to the order
\* deltas, finish chunk, revisions, trailer, end marker.
THEOREM BodiesAreInOrder == Stream => []FramesInOrder
<1>1. BodyInv => FramesInOrder
  <2> SUFFICES ASSUME BodyInv PROVE FramesInOrder
    OBVIOUS
  <2>1. Protocol(Frames)
    BY DEF BodyInv, FramesOK
  <2>2. \A type : FramesOf(type) # {} <=> Has(Frames, type)
    BY FramesNumbered DEF FramesOf, Has
  <2>3. \A i, j \in DOMAIN Frames :
            i < j => \/ Rank[Frames[i].type] < Rank[Frames[j].type]
                     \/ /\ Frames[i].type = Frames[j].type
                        /\ Frames[i].type \in {"delta", "revision"}
    BY <2>1, FramesNumbered DEF Protocol, InOrder
  <2>4. /\ FramesOf("revision") \cup FramesOf("trailer") # {} => FramesOf("finish") # {}
        /\ FramesOf("done") # {} => FramesOf("trailer") # {}
    BY <2>1, <2>2 DEF Protocol
  <2>5. QED BY <2>3, <2>4 DEF FramesInOrder
<1>2. QED BY <1>1, BodyInvariance, PTL

\* The end marker is sent for finished pipelines only, all coroutines back and
\* the trailer true.
THEOREM MarkersAreEarned == Stream => []EndMarkerEarned
<1>1. BodyInv => EndMarkerEarned
  <2> SUFFICES ASSUME BodyInv, FramesOf("done") # {}
               PROVE  /\ stage = "done"
                      /\ ~Awaiting(advisor) /\ ~Awaiting(reflector)
                      /\ \A i \in FramesOf("trailer") :
                            /\ Frames[i].turns
                                  = Cardinality(OfType(events, "reflect_critique"))
                            /\ Frames[i].skipped <=> Skipped
    BY DEF EndMarkerEarned
  <2>1. stage = "done"
    BY FramesNumbered DEF FramesOf, BodyInv, FramesOK, OnlyOf
  <2>2. ~Awaiting(advisor) /\ ~Awaiting(reflector)
    BY <2>1 DEF BodyInv, StreamInv, OInv, Paths
  <2>3. \A i \in FramesOf("trailer") :
            /\ Frames[i].turns = Cardinality(OfType(events, "reflect_critique"))
            /\ Frames[i].skipped <=> Skipped
    BY FramesNumbered DEF FramesOf, BodyInv, FramesOK, TrailerTrue
  <2>4. QED BY <2>1, <2>2, <2>3
<1>2. QED BY <1>1, BodyInvariance, PTL

ClientKnown == client \in {"reading", "left"}

\* A client reads until it has left.
LEMMA ClientReadsOrLeft == Stream => []ClientKnown
<1>1. StreamInit => ClientKnown
  BY DEF StreamInit, ClientKnown
<1>2. ClientKnown /\ [StreamNext]_streamVars => ClientKnown'
  BY DEF ClientKnown, StreamNext, Progress, DeltaYielded, InitialStreamEnds, InitialStreamBreaks, Stages,
     FrameSent, ClientLeaves, streamVars
<1>3. QED BY <1>1, <1>2, PTL DEF Stream

\* Wherever a stream is cut, its pipeline keeps its types and its frames are of
\* the kinds the protocol names.
THEOREM StreamedTypes == Stream => []StreamTypeOK
<1>1. BodyInv /\ ClientKnown => StreamTypeOK
  <2> SUFFICES ASSUME BodyInv, ClientKnown PROVE StreamTypeOK
    OBVIOUS
  <2>1. PipelineTypeOK
    BY DEF BodyInv, StreamInv, OInv, TypesOK
  <2>2. OnlyOf(Frames, FrameTypes) /\ DOMAIN Frames = 1..Len(Frames)
    BY FramesNumbered DEF BodyInv, FramesOK, Protocol
  <2>3. QED BY <2>1, <2>2 DEF ClientKnown, StreamTypeOK, OnlyOf, FrameTypes
<1>2. QED BY <1>1, BodyInvariance, ClientReadsOrLeft, PTL

-----------------------------------------------------------------------------
(***************************************************************************)
(* The replay of the log.  Told: the types of events whose stage has ended *)
(* and been replayed.  What a body quotes is in the log and of these       *)
(* types, nothing is quoted twice, and to a client that reads on every     *)
(* event of these types that is worth a frame has been told.               *)
(***************************************************************************)
Told ==
    IF stage = "initial" \/ (stage \in {"reflect", "advise"} /\ StageAfter(stage) # "done")
    THEN {}
    ELSE IF stage = "reflect" THEN {"advisor_revised"}
    ELSE IF stage = "advise" THEN {"reflect_revised"}
    ELSE {"reflect_revised", "advisor_revised"}

Worth(e) ==
    \/ e.type = "reflect_revised" /\ ~OffPath(e)
    \/ e.type = "advisor_revised" /\ e.text # Blank

Tells(s, i) == \E k \in 1..Len(s) : s[k].type = "revision" /\ s[k].of = i

Quotes(s, log, types) ==
    \A k \in 1..Len(s) : s[k].type = "revision" =>
        /\ s[k].of \in 1..Len(log)
        /\ log[s[k].of].type \in types
        /\ s[k].text = log[s[k].of].text

Unrepeated(s, log) ==
    \A k, l \in 1..Len(s) :
        k < l /\ s[k].type = "revision" /\ s[l].type = "revision" =>
            /\ s[k].of # s[l].of
            /\ log[s[k].of].type = "reflect_revised" /\ log[s[l].of].type = "reflect_revised"
                  => s[k].of < s[l].of

\* text is what the deltas of a body say.
Opens(s, text) ==
    \/ /\ text = Blank
       /\ \A k \in 1..Len(s) : s[k].type = "delta" => s[k].text = Blank
    \/ /\ text # Blank
       /\ \E m \in 1..Len(s) :
             /\ s[m].type = "delta" /\ s[m].text = text
             /\ \A k \in 1..Len(s) : m < k /\ s[k].type = "delta" => s[k].text = Blank

Single(log, type) ==
    \A i, j \in 1..Len(log) : log[i].type = type /\ log[j].type = type => i = j

\* The advisor asks for a revision at most once, and before it gets one.
AskedOnce ==
    /\ advisor.at \in {"off", "advice", "plugins"} => ~Has(events, "advisor_revised")
    /\ advisor.at = "revision" => Has(events, "advisor_revised")
    /\ Has(events, "advisor_revision") => Has(events, "advisor_revised")
    /\ Single(events, "advisor_revised")

\* The log of a pipeline that is going on begins with the initial answer, and
\* has no other.
BeginsInitial ==
    stage \in {"reflect", "advise", "done"} =>
        /\ 1 \in 1..Len(events)
        /\ events[1].type = "initial" /\ events[1].text = initial_answer
        /\ \A i \in 1..Len(events) : events[i].type = "initial" => i = 1

AllTold(s, log, types) ==
    \A i \in 1..Len(log) : log[i].type \in types /\ Worth(log[i]) => Tells(s, i)

Replayed ==
    /\ Quotes(Frames, events, Told) /\ Unrepeated(Frames, events)
    /\ client = "reading" /\ stage \in {"reflect", "advise", "done"} =>
          AllTold(Frames, events, Told) /\ Opens(Frames, initial_answer)
    /\ client = "left" => ~Has(Frames, "done")

ReplayInv == BodyInv /\ AskedOnce /\ BeginsInitial /\ Replayed

-----------------------------------------------------------------------------
\* What a body quotes and tells, after frames have been added.
LEMMA QuotesExtend ==
    ASSUME NEW S, NEW s \in Seq(S), NEW r \in Seq(S), NEW log, NEW types
    PROVE  /\ Quotes(s \o r, log, types) <=> Quotes(s, log, types) /\ Quotes(r, log, types)
           /\ \A i : Tells(s \o r, i) <=> Tells(s, i) \/ Tells(r, i)
<1> DEFINE q == s \o r
<1>1. /\ Len(s) \in Nat /\ Len(r) \in Nat /\ Len(q) = Len(s) + Len(r)
      /\ \A i \in 1..Len(s) : q[i] = s[i]
      /\ \A i \in 1..Len(r) : q[Len(s) + i] = r[i]
      /\ \A i \in 1..Len(q) :
            \/ i \in 1..Len(s) /\ q[i] = s[i]
            \/ i - Len(s) \in 1..Len(r) /\ q[i] = r[i - Len(s)]
  BY ConcatElements
<1> HIDE DEF q
<1>2. /\ \A i \in 1..Len(s) : i \in 1..Len(q) /\ q[i] = s[i]
      /\ \A i \in 1..Len(r) : Len(s) + i \in 1..Len(q) /\ q[Len(s) + i] = r[i]
  BY <1>1
<1>3. ASSUME Quotes(s, log, types), Quotes(r, log, types) PROVE Quotes(q, log, types)
  <2> DEFINE Quoted(f) ==
          f.type = "revision" => /\ f.of \in 1..Len(log) /\ log[f.of].type \in types
                                 /\ f.text = log[f.of].text
  <2>1. (\A k \in 1..Len(s) : Quoted(s[k])) /\ (\A k \in 1..Len(r) : Quoted(r[k]))
    BY <1>3 DEF Quotes
  <2> HIDE DEF Quoted
  <2>2. \A k \in 1..Len(q) : Quoted(q[k])
    BY <1>1, <2>1
  <2>3. QED BY <2>2 DEF Quotes, Quoted
<1>4. ASSUME Quotes(q, log, types) PROVE Quotes(s, log, types) /\ Quotes(r, log, types)
  <2>1. Quotes(s, log, types)
    BY <1>2, <1>4 DEF Quotes
  <2>2. ASSUME NEW k \in 1..Len(r), r[k].type = "revision"
        PROVE  /\ r[k].of \in 1..Len(log) /\ log[r[k].of].type \in types
               /\ r[k].text = log[r[k].of].text
    <3>1. Len(s) + k \in 1..Len(q) /\ q[Len(s) + k] = r[k]
      BY <1>2
    <3>2. QED BY <1>4, <2>2, <3>1 DEF Quotes
  <2>3. QED BY <2>1, <2>2 DEF Quotes
<1>5. ASSUME NEW i PROVE Tells(q, i) <=> Tells(s, i) \/ Tells(r, i)
  <2>1. Tells(q, i) => Tells(s, i) \/ Tells(r, i)
    BY <1>1 DEF Tells
  <2>2. Tells(s, i) => Tells(q, i)
    BY <1>2 DEF Tells
  <2>3. ASSUME NEW k \in 1..Len(r), r[k].type = "revision", r[k].of = i
        PROVE  Tells(q, i)
    <3>1. Len(s) + k \in 1..Len(q) /\ q[Len(s) + k] = r[k]
      BY <1>2
    <3>2. QED BY <2>3, <3>1 DEF Tells
  <2>4. QED BY <2>1, <2>2, <2>3 DEF Tells
<1>6. QED BY <1>3, <1>4, <1>5 DEF q

\* A body that is cut repeats nothing either.
LEMMA PrefixUnrepeated ==
    ASSUME NEW S, NEW s \in Seq(S), NEW r \in Seq(S), NEW log, Unrepeated(s \o r, log)
    PROVE  Unrepeated(s, log)
<1> DEFINE q == s \o r
<1>1. \A i \in 1..Len(s) : i \in 1..Len(q) /\ q[i] = s[i]
  BY ConcatElements
<1>2. Unrepeated(q, log)
  OBVIOUS
<1> HIDE DEF q
<1>3. QED BY <1>1, <1>2 DEF Unrepeated

\* Quotations of other types repeat none of those before them.
LEMMA UnrepeatedExtends ==
    ASSUME NEW S, NEW s \in Seq(S), NEW r \in Seq(S), NEW log, NEW old, NEW new,
           Quotes(s, log, old), Quotes(r, log, new), old \cap new = {},
           Unrepeated(s, log), Unrepeated(r, log)
    PROVE  Unrepeated(s \o r, log)
<1> DEFINE q == s \o r
           Follows(a, b) ==
               /\ a.of # b.of
               /\ log[a.of].type = "reflect_revised" /\ log[b.of].type = "reflect_revised"
                     => a.of < b.of
<1>1. /\ Len(s) \in Nat /\ Len(r) \in Nat /\ Len(q) = Len(s) + Len(r)
      /\ \A i \in 1..Len(q) :
            \/ i \in 1..Len(s) /\ q[i] = s[i]
            \/ i - Len(s) \in 1..Len(r) /\ q[i] = r[i - Len(s)]
  BY ConcatElements
<1> HIDE DEF q
<1>2. /\ \A k, l \in 1..Len(s) :
            k < l /\ s[k].type = "revision" /\ s[l].type = "revision" => Follows(s[k], s[l])
      /\ \A k, l \in 1..Len(r) :
            k < l /\ r[k].type = "revision" /\ r[l].type = "revision" => Follows(r[k], r[l])
  BY DEF Unrepeated
<1>3. \A k \in 1..Len(s), l \in 1..Len(r) :
          s[k].type = "revision" /\ r[l].type = "revision" => Follows(s[k], r[l])
  <2> SUFFICES ASSUME NEW k \in 1..Len(s), NEW l \in 1..Len(r),
                      s[k].type = "revision", r[l].type = "revision"
               PROVE  Follows(s[k], r[l])
    OBVIOUS
  <2>1. log[s[k].of].type \in old /\ log[r[l].of].type \in new
    BY DEF Quotes
  <2>2. QED BY <2>1
<1> HIDE DEF Follows
<1>4. ASSUME NEW k \in 1..Len(q), NEW l \in 1..Len(q), k < l,
             q[k].type = "revision", q[l].type = "revision"
      PROVE  Follows(q[k], q[l])
  <2>1. CASE k \in 1..Len(s) /\ q[k] = s[k] /\ l \in 1..Len(s) /\ q[l] = s[l]
    BY <1>2, <1>4, <2>1
  <2>2. CASE /\ k \in 1..Len(s) /\ q[k] = s[k]
             /\ l - Len(s) \in 1..Len(r) /\ q[l] = r[l - Len(s)]
    BY <1>3, <1>4, <2>2
  <2>3. CASE /\ k - Len(s) \in 1..Len(r) /\ q[k] = r[k - Len(s)]
             /\ l - Len(s) \in 1..Len(r) /\ q[l] = r[l - Len(s)]
    <3>1. k - Len(s) < l - Len(s)
      BY <1>1, <1>4
    <3>2. QED BY <1>2, <1>4, <2>3, <3>1
  <2>4. CASE k - Len(s) \in 1..Len(r) /\ l \in 1..Len(s)
    BY <1>1, <1>4, <2>4
  <2>5. QED BY <1>1, <2>1, <2>2, <2>3, <2>4
<1>5. QED BY <1>4 DEF Unrepeated, Follows, q

\* Behind the deltas nothing changes what they say.
LEMMA OpensStays ==
    ASSUME NEW S, NEW s \in Seq(S), NEW r \in Seq(S), NEW text, Opens(s, text),
           ~Has(r, "delta")
    PROVE  Opens(s \o r, text)
<1> DEFINE q == s \o r
<1>1. /\ \A i \in 1..Len(s) : i \in 1..Len(q) /\ q[i] = s[i]
      /\ \A i \in 1..Len(q) :
            \/ i \in 1..Len(s) /\ q[i] = s[i]
            \/ i - Len(s) \in 1..Len(r) /\ q[i] = r[i - Len(s)]
  BY ConcatElements
<1> HIDE DEF q
<1>2. \A i \in 1..Len(q) : q[i].type = "delta" => i \in 1..Len(s) /\ q[i] = s[i]
  BY <1>1 DEF Has
<1>3. Opens(q, text)
  <2>1. CASE /\ text = Blank
             /\ \A k \in 1..Len(s) : s[k].type = "delta" => s[k].text = Blank
    BY <1>2, <2>1 DEF Opens
  <2>2. CASE /\ text # Blank
             /\ \E m \in 1..Len(s) :
                   /\ s[m].type = "delta" /\ s[m].text = text
                   /\ \A k \in 1..Len(s) : m < k /\ s[k].type = "delta"
                                                => s[k].text = Blank
    <3>1. PICK m \in 1..Len(s) :
              /\ s[m].type = "delta" /\ s[m].text = text
              /\ \A k \in 1..Len(s) : m < k /\ s[k].type = "delta" => s[k].text = Blank
      BY <2>2
    <3>2. m \in 1..Len(q) /\ q[m].type = "delta" /\ q[m].text = text
      BY <1>1, <3>1
    <3>3. \A k \in 1..Len(q) : m < k /\ q[k].type = "delta" => q[k].text = Blank
      BY <1>2, <3>1
    <3>4. QED BY <2>2, <3>2, <3>3 DEF Opens
  <2>3. QED BY <2>1, <2>2 DEF Opens
<1>4. QED BY <1>3 DEF q

\* A log that grows is quoted as before.
LEMMA QuotesStay ==
    ASSUME NEW log \in Seq(Entries), NEW r \in Seq(Entries), NEW s, NEW types,
           Quotes(s, log, types), Unrepeated(s, log)
    PROVE  Quotes(s, log \o r, types) /\ Unrepeated(s, log \o r)
<1> DEFINE grown == log \o r
<1>1. \A i \in 1..Len(log) : i \in 1..Len(grown) /\ grown[i] = log[i]
  BY ConcatElements
<1> HIDE DEF grown
<1>2. Quotes(s, grown, types)
  BY <1>1 DEF Quotes
<1>3. \A k \in 1..Len(s) : s[k].type = "revision" => grown[s[k].of] = log[s[k].of]
  BY <1>1 DEF Quotes
<1>4. Unrepeated(s, grown)
  BY <1>3 DEF Unrepeated
<1>5. QED BY <1>2, <1>4 DEF grown

\* The walk over the log comes to each of the chosen positions once, the first
\* ones first.
LEMMA InLogOrder ==
    ASSUME NEW n \in Nat, NEW chosen \in SUBSET (1..n)
    PROVE  LET c == Cardinality(chosen)
               o == LogOrder(chosen)
           IN  /\ c \in Nat
               /\ \A k \in 1..c : o[k] \in chosen
               /\ \A k, l \in 1..c : k < l => o[k] < o[l]
               /\ \A i \in chosen : \E k \in 1..c : o[k] = i
<1> DEFINE c == Cardinality(chosen)
           o == LogOrder(chosen)
           upTo(i) == {j \in chosen : j <= i}
           rank == [i \in chosen |-> Cardinality(upTo(i))]
<1>1. \A i \in chosen : i \in Nat
  OBVIOUS
<1>2. IsFiniteSet(chosen) /\ c \in Nat
  <2>1. IsFiniteSet(1..n)
    BY FS_Interval
  <2>2. QED BY <2>1, FS_Subset, FS_CardinalityType
<1>3. ASSUME NEW i \in chosen PROVE rank[i] \in 1..c
  <2>1. upTo(i) \in SUBSET chosen /\ i \in upTo(i)
    BY <1>1
  <2>2. /\ IsFiniteSet(upTo(i)) /\ Cardinality(upTo(i)) <= c
        /\ Cardinality(upTo(i)) \in Nat
    BY <1>2, <2>1, FS_Subset, FS_CardinalityType
  <2>3. Cardinality(upTo(i)) # 0
    BY <2>1, <2>2, FS_EmptySet
  <2>4. rank[i] = Cardinality(upTo(i))
    OBVIOUS
  <2> HIDE DEF upTo, rank
  <2>5. QED BY <1>2, <2>2, <2>3, <2>4
<1>4. ASSUME NEW i \in chosen, NEW j \in chosen, i < j PROVE rank[i] < rank[j]
  <2>1. upTo(i) \in SUBSET upTo(j) /\ j \in upTo(j) /\ j \notin upTo(i)
    <3>1. i \in Nat /\ j \in Nat /\ \A x \in chosen : x \in Nat /\ (x <= i => x <= j)
      BY <1>1, <1>4
    <3>2. j \in upTo(j) /\ j \notin upTo(i)
      BY <1>4, <3>1
    <3>3. QED BY <3>1, <3>2
  <2>2. IsFiniteSet(upTo(j))
    <3>1. upTo(j) \in SUBSET chosen
      OBVIOUS
    <3>2. QED BY <1>2, <3>1, FS_Subset
  <2>3. Cardinality(upTo(i)) <= Cardinality(upTo(j))
        /\ Cardinality(upTo(j)) # Cardinality(upTo(i))
    BY <2>1, <2>2, FS_Subset
  <2>4. rank[i] = Cardinality(upTo(i)) /\ rank[j] = Cardinality(upTo(j))
    OBVIOUS
  <2>5. rank[i] \in Nat /\ rank[j] \in Nat
    BY <1>2, <1>3
  <2> HIDE DEF upTo, rank
  <2>6. QED BY <2>3, <2>4, <2>5
<1>5. rank \in [chosen -> 1..c]
  BY <1>3
<1>6. /\ \A i \in chosen : rank[i] = Cardinality(upTo(i))
      /\ \A k \in 1..c : o[k] = CHOOSE i \in chosen : Cardinality(upTo(i)) = k
  BY DEF LogOrder
<1> HIDE DEF rank, o, upTo
<1>7. ASSUME NEW i \in chosen, NEW j \in chosen, rank[i] = rank[j] PROVE i = j
  <2>1. i \in Nat /\ j \in Nat /\ rank[i] \in 1..c
    BY <1>1, <1>3
  <2>2. ~(i < j) /\ ~(j < i)
    BY <1>2, <1>4, <1>7, <2>1
  <2>3. QED BY <2>1, <2>2
<1>8. rank \in Surjection(chosen, 1..c)
  <2>1. rank \in Injection(chosen, 1..c)
    BY <1>5, <1>7 DEF Injection, IsInjective
  <2>2. IsFiniteSet(1..c) /\ Cardinality(1..c) = c
    BY <1>2, FS_Interval
  <2>3. QED BY <2>1, <2>2, FS_Injection
<1>9. ASSUME NEW k \in 1..c PROVE o[k] \in chosen /\ rank[o[k]] = k
  <2>1. \E i \in chosen : Cardinality(upTo(i)) = k
    BY <1>6, <1>8 DEF Surjection
  <2>2. o[k] = CHOOSE i \in chosen : Cardinality(upTo(i)) = k
    BY <1>6
  <2>3. o[k] \in chosen /\ Cardinality(upTo(o[k])) = k
    BY <2>1, <2>2
  <2>4. QED BY <1>6, <2>3
<1>10. ASSUME NEW k \in 1..c, NEW l \in 1..c, k < l PROVE o[k] < o[l]
  <2>1. /\ o[k] \in chosen /\ rank[o[k]] = k /\ o[l] \in chosen /\ rank[o[l]] = l
        /\ k \in Nat /\ l \in Nat
    BY <1>2, <1>9
  <2>2. ~(o[l] < o[k])
    <3>1. o[l] < o[k] => rank[o[l]] < rank[o[k]]
      BY <1>4, <2>1
    <3>2. QED BY <1>10, <2>1, <3>1
  <2>3. o[l] # o[k]
    BY <1>10, <2>1
  <2>4. o[k] \in Nat /\ o[l] \in Nat
    BY <1>1, <2>1
  <2>5. QED BY <2>2, <2>3, <2>4
<1>11. ASSUME NEW i \in chosen PROVE \E k \in 1..c : o[k] = i
  <2>1. rank[i] \in 1..c
    BY <1>3
  <2>2. o[rank[i]] \in chosen /\ rank[o[rank[i]]] = rank[i]
    BY <1>9, <2>1
  <2>3. o[rank[i]] = i
    BY <1>7, <2>2
  <2>4. QED BY <2>1, <2>3
<1>12. QED BY <1>2, <1>9, <1>10, <1>11 DEF o

(***************************************************************************)
(* What a step behind the initial answer writes to the log: a revision of  *)
(* the loop in the reflection stage only, and one demand of the advisor    *)
(* when the plugins let its advice through.                                *)
(***************************************************************************)
Writes(r) ==
    /\ events' = events \o r /\ initial_answer' = initial_answer /\ route' = route
    /\ \A i \in 1..Len(r) :
          /\ r[i].type # "initial"
          /\ r[i].type = "reflect_revised" /\ ~OffPath(r[i]) => stage = "reflect"
          /\ r[i].type = "advisor_revised" => advisor.at = "plugins" /\ Len(r) = 1
          /\ r[i].type = "advisor_revision" => advisor.at = "revision"
    /\ Has(r, "advisor_revised") => advisor'.at = "revision"
    /\ advisor'.at \in {"off", "advice", "plugins"}
          => advisor.at \in {"off", "advice", "plugins"}
    /\ advisor'.at = "revision" => advisor.at = "revision" \/ Has(r, "advisor_revised")

PlainEntries ==
    {e \in Entries : /\ e.type \notin {"initial", "advisor_revised", "advisor_revision"}
                     /\ e.type = "reflect_revised" => OffPath(e)}
LoopEntries ==
    {e \in Entries : e.type \in {"reflect_revised", "reflect_early_exit"}}

\* The entries of a turn are those its critique and its revision log.
LEMMA TurnLogs ==
    ASSUME NEW S, NEW log, NEW t, NEW c, NEW a, NEW text
    PROVE  /\ /\ Critiqued(t, c, a) \in S /\ Note("reflect_fresh_context", t) \in S
              /\ Note("reflect_score", t) \in S /\ EarlyExit(t) \in S
              => CritiqueEvents(cfg, log, t, c, a) \in Seq(S)
           /\ Revised(t, text, a) \in S /\ EarlyExit(t) \in S
              => RevisionEvents(cfg, t, c, text, a) \in Seq(S)
<1>1. ASSUME NEW condition, NEW e \in S PROVE Optional(condition, e) \in Seq(S)
  BY DEF Optional
<1>2. ASSUME Critiqued(t, c, a) \in S, Note("reflect_fresh_context", t) \in S,
             Note("reflect_score", t) \in S, EarlyExit(t) \in S
      PROVE  CritiqueEvents(cfg, log, t, c, a) \in Seq(S)
  <2> DEFINE one == <<Critiqued(t, c, a)>>
             two == Optional(
                 cfg.fresh_context /\ OfType(log, "reflect_fresh_context") = {},
                 Note("reflect_fresh_context", t))
             three == Optional(c.score # NoScore, Note("reflect_score", t))
             four == Optional(ExitsUnrevised(cfg, t, c), EarlyExit(t))
  <2>1. one \in Seq(S) /\ two \in Seq(S) /\ three \in Seq(S) /\ four \in Seq(S)
    BY <1>1, <1>2
  <2>2. CritiqueEvents(cfg, log, t, c, a) = ((one \o two) \o three) \o four
    BY DEF CritiqueEvents
  <2> HIDE DEF one, two, three, four
  <2>3. one \o two \in Seq(S)
    BY <2>1, ConcatProperties
  <2>4. (one \o two) \o three \in Seq(S)
    BY <2>1, <2>3, ConcatProperties
  <2>5. ((one \o two) \o three) \o four \in Seq(S)
    BY <2>1, <2>4, ConcatProperties
  <2>6. QED BY <2>2, <2>5
<1>3. ASSUME Revised(t, text, a) \in S, EarlyExit(t) \in S
      PROVE  RevisionEvents(cfg, t, c, text, a) \in Seq(S)
  <2> DEFINE one == <<Revised(t, text, a)>>
             two == Optional(ClearsThreshold(cfg, c), EarlyExit(t))
  <2>1. one \in Seq(S) /\ two \in Seq(S)
    BY <1>1, <1>3
  <2>2. RevisionEvents(cfg, t, c, text, a) = one \o two
    BY DEF RevisionEvents
  <2> HIDE DEF one, two
  <2>3. QED BY <2>1, <2>2, ConcatProperties
<1>4. QED BY <1>2, <1>3

\* Where to put the brackets behind an entry is of no importance.
LEMMA AppendedPlain ==
    ASSUME NEW log \in Seq(Entries), NEW e \in PlainEntries,
           NEW r \in Seq(PlainEntries), NEW s \in Seq(PlainEntries)
    PROVE  /\ <<e>> \o r \in Seq(PlainEntries)
           /\ Append(log, e) \o r = log \o (<<e>> \o r)
           /\ (<<e>> \o r) \o s \in Seq(PlainEntries)
           /\ (Append(log, e) \o r) \o s = log \o ((<<e>> \o r) \o s)
<1>1. e \in Entries /\ PlainEntries \cup Entries = Entries
  BY DEF PlainEntries
<1>2. r \in Seq(Entries) /\ s \in Seq(Entries)
  BY <1>1, SeqsTogether
<1>3. <<e>> \in Seq(PlainEntries) /\ <<e>> \in Seq(Entries)
  BY <1>1
<1>4. <<e>> \o r \in Seq(PlainEntries) /\ <<e>> \o r \in Seq(Entries)
  BY <1>2, <1>3, ConcatProperties
<1>5. (<<e>> \o r) \o s \in Seq(PlainEntries)
  BY <1>4, ConcatProperties
<1>6. Append(log, e) = log \o <<e>>
  BY <1>1, AppendIsConcat
<1>7. (log \o <<e>>) \o r = log \o (<<e>> \o r)
  BY <1>2, <1>3, ConcatAssociative
<1>8. (log \o (<<e>> \o r)) \o s = log \o ((<<e>> \o r) \o s)
  <2> DEFINE er == <<e>> \o r
  <2>1. er \in Seq(Entries)
    BY <1>4
  <2> HIDE DEF er
  <2>2. (log \o er) \o s = log \o (er \o s)
    BY <1>2, <2>1, ConcatAssociative
  <2>3. QED BY <2>2 DEF er
<1>9. QED BY <1>4, <1>5, <1>6, <1>7, <1>8

\* A step that writes plain entries and moves the advisor on.
LEMMA WritesPlain ==
    ASSUME NEW r \in Seq(PlainEntries), events' = events \o r,
           initial_answer' = initial_answer, route' = route,
           \/ advisor'.at = advisor.at
           \/ advisor.at \in {"off", "advice"} /\ advisor'.at # "revision"
           \/ advisor'.at \in {"finished", "failed"}
    PROVE  r \in Seq(Entries) /\ Writes(r)
<1>1. r \in Seq(Entries)
  <2>1. r \in Seq(PlainEntries \cup Entries)
    BY SeqsTogether
  <2>2. PlainEntries \cup Entries = Entries
    BY DEF PlainEntries
  <2>3. QED BY <2>1, <2>2
<1>2. \A i \in 1..Len(r) :
          /\ r[i].type \notin {"initial", "advisor_revised", "advisor_revision"}
          /\ r[i].type = "reflect_revised" => OffPath(r[i])
  <2>1. \A i \in 1..Len(r) : r[i] \in PlainEntries
    BY ElementOfSeq
  <2>2. QED BY <2>1 DEF PlainEntries
<1>3. ~Has(r, "advisor_revised")
  BY <1>2 DEF Has
<1>4. QED BY <1>1, <1>2, <1>3 DEF Writes

\* Every step behind the initial answer writes such entries.
LEMMA StepWrites ==
    ASSUME OInv, PipelineNext, stage # "initial"
    PROVE  \E r \in Seq(Entries) : Writes(r)
<1>1. /\ events \in Seq(Entries) /\ answer \in Texts /\ initial_answer \in Texts
      /\ turn \in Turns
      /\ advisor.at \in {"advice", "plugins", "revision", "off", "finished", "failed"}
      /\ advisor = [advisor EXCEPT !.at = advisor.at]
  BY DEF OInv, TypesOK, PipelineTypeOK, CoroutineOK
<1>2. ASSUME UNCHANGED <<events, initial_answer, route>>,
             \/ advisor' = advisor
             \/ advisor.at = "off" /\ advisor'.at = "advice"
             \/ advisor'.at = "failed"
      PROVE  \E r \in Seq(Entries) : Writes(r)
  <2>1. << >> \in Seq(PlainEntries)
    OBVIOUS
  <2>2. events' = events \o << >>
    BY <1>1, <1>2, ConcatEmptySeq
  <2>3. QED BY <1>2, <2>1, <2>2, WritesPlain
<1>3. ASSUME NEW reply \in CritiqueReplies, ReflectionCritique(reply)
      PROVE  \E r \in Seq(Entries) : Writes(r)
  <2> DEFINE r == CritiqueEvents(cfg, events, turn, reply.text, answer)
  <2>1. /\ events' = events \o r /\ UNCHANGED <<initial_answer, route, advisor>>
    BY <1>3 DEF ReflectionCritique, CritiqueReturns, advisorVars
  <2>2. r \in Seq(PlainEntries)
    <3>1. reply.text \in CritiqueTexts
      BY RepliesAssumption
    <3>2. /\ Critiqued(turn, reply.text, answer) \in PlainEntries
          /\ Note("reflect_fresh_context", turn) \in PlainEntries
          /\ Note("reflect_score", turn) \in PlainEntries
          /\ EarlyExit(turn) \in PlainEntries
      BY <1>1, <3>1 DEF PlainEntries, Entries, Critiqued, Note, EarlyExit
    <3>3. QED BY <3>2, TurnLogs
  <2> HIDE DEF r
  <2>3. QED BY <2>1, <2>2, WritesPlain
<1>4. ASSUME NEW reply \in RevisionReplies, ReflectionRevision(reply)
      PROVE  \E r \in Seq(Entries) : Writes(r)
  <2> DEFINE r == RevisionEvents(cfg, turn, critique, reply.text, answer)
  <2>1. /\ events' = events \o r /\ UNCHANGED <<initial_answer, route, advisor>>
        /\ stage = "reflect"
    BY <1>4 DEF ReflectionRevision, RevisionReturns, advisorVars
  <2>2. r \in Seq(LoopEntries)
    <3>1. reply.text \in Texts
      BY RepliesAssumption
    <3>2. Revised(turn, reply.text, answer) \in LoopEntries /\ EarlyExit(turn) \in LoopEntries
      BY <1>1, <3>1 DEF LoopEntries, Entries, Revised, Note, EarlyExit
    <3>3. QED BY <3>2, TurnLogs
  <2> HIDE DEF r
  <2>3. r \in Seq(Entries)
    <3>1. r \in Seq(LoopEntries \cup Entries)
      BY <2>2, SeqsTogether
    <3>2. LoopEntries \cup Entries = Entries
      BY DEF LoopEntries
    <3>3. QED BY <3>1, <3>2
  <2>4. \A i \in 1..Len(r) : r[i].type \in {"reflect_revised", "reflect_early_exit"}
    <3>1. \A i \in 1..Len(r) : r[i] \in LoopEntries
      BY <2>2, ElementOfSeq
    <3>2. QED BY <3>1 DEF LoopEntries
  <2>5. ~Has(r, "advisor_revised")
    BY <2>4 DEF Has
  <2>6. Writes(r)
    BY <2>1, <2>4, <2>5 DEF Writes
  <2>7. QED BY <2>3, <2>6
<1>5. ASSUME NEW reply \in AdvisorReplies, AdviceReturns(reply)
      PROVE  \E r \in Seq(Entries) : Writes(r)
  <2> DEFINE e == [type |-> "advisor", text |-> reply.text, judged |-> answer]
             o == Optional(reply.text.score # NoScore, [type |-> "advisor_score"])
  <2>1. /\ events' = Append(events, e) \o o /\ UNCHANGED <<initial_answer, route>>
        /\ advisor.at = "advice" /\ advisor'.at = "plugins"
    BY <1>1, <1>5 DEF AdviceReturns
  <2>2. e \in PlainEntries /\ [type |-> "advisor_score"] \in PlainEntries
    <3>1. reply.text \in AdvisorTexts
      BY PipelineRepliesAssumption
    <3>2. QED BY <1>1, <3>1 DEF PlainEntries, Entries
  <2>3. o \in Seq(PlainEntries)
    BY <2>2 DEF Optional
  <2> HIDE DEF e, o
  <2>4. /\ <<e>> \o o \in Seq(PlainEntries)
        /\ events' = events \o (<<e>> \o o)
    BY <1>1, <2>1, <2>2, <2>3, AppendedPlain
  <2>5. QED BY <2>1, <2>4, WritesPlain
<1>6. ASSUME PluginsDone PROVE \E r \in Seq(Entries) : Writes(r)
  <2> DEFINE e == [type |-> "advisor_revised", text |-> Advice.feedback]
  <2>1. /\ Advice.feedback \in Texts /\ advisor.at = "plugins"
    BY <1>6, AdviceIsText DEF PluginsDone, AdvisorTexts
  <2>2. UNCHANGED <<initial_answer, route>>
    BY <1>6 DEF PluginsDone
  <2>3. CASE /\ events' = Append(events, [type |-> "advisor_approve"])
             /\ advisor' = [advisor EXCEPT !.at = "finished", !.final = answer]
    <3>1. [type |-> "advisor_approve"] \in PlainEntries
      BY DEF PlainEntries, Entries
    <3>2. /\ <<[type |-> "advisor_approve"]>> \in Seq(PlainEntries)
          /\ events' = events \o <<[type |-> "advisor_approve"]>>
      BY <1>1, <2>3, <3>1, AppendIsConcat DEF PlainEntries
    <3>3. advisor'.at = "finished"
      BY <1>1, <2>3
    <3>4. QED BY <2>2, <3>2, <3>3, WritesPlain
  <2>4. CASE /\ events' = Append(events, e)
             /\ advisor' = [advisor EXCEPT !.at = "revision"]
    <3>1. e \in Entries /\ e.type = "advisor_revised"
      BY <2>1 DEF Entries
    <3> HIDE DEF e
    <3>2. <<e>> \in Seq(Entries) /\ events' = events \o <<e>>
      BY <1>1, <2>4, <3>1, AppendIsConcat
    <3>3. advisor'.at = "revision"
      BY <1>1, <2>4
    <3>4. Len(<<e>>) = 1 /\ <<e>>[1] = e /\ \A i \in 1..Len(<<e>>) : i = 1
      OBVIOUS
    <3>5. Writes(<<e>>)
      BY <2>1, <2>2, <3>1, <3>2, <3>3, <3>4 DEF Writes, Has
    <3>6. QED BY <3>2, <3>5
  <2>5. QED BY <1>6, <2>3, <2>4 DEF PluginsDone
<1>7. ASSUME NEW reply \in RevisionReplies, AdvisorRevisionReturns(reply)
      PROVE  \E r \in Seq(Entries) : Writes(r)
  <2> DEFINE e == [type |-> "advisor_revision", text |-> reply.text, judged |-> answer]
  <2>1. /\ events' = Append(events, e) /\ UNCHANGED <<initial_answer, route>>
        /\ advisor.at = "revision" /\ advisor'.at = "finished"
    BY <1>1, <1>7 DEF AdvisorRevisionReturns, Finish
  <2>2. e \in Entries /\ e.type = "advisor_revision"
    BY <1>1, RepliesAssumption DEF Entries
  <2> HIDE DEF e
  <2>3. <<e>> \in Seq(Entries) /\ events' = events \o <<e>>
    BY <1>1, <2>1, <2>2, AppendIsConcat
  <2>4. Len(<<e>>) = 1 /\ <<e>>[1] = e /\ \A i \in 1..Len(<<e>>) : i = 1
    OBVIOUS
  <2>5. ~Has(<<e>>, "advisor_revised")
    BY <2>2, <2>4 DEF Has
  <2>6. Writes(<<e>>)
    BY <2>1, <2>2, <2>3, <2>4, <2>5 DEF Writes
  <2>7. QED BY <2>3, <2>6
<1>8. ASSUME NEW reply \in CritiqueReplies, SelfCritiqueReturns(reply)
      PROVE  \E r \in Seq(Entries) : Writes(r)
  <2> DEFINE e == SelfEvent("reflect_critique", reply.text)
             one == Optional(
                 cfg.fresh_context /\ OfType(events, "reflect_fresh_context") = {},
                 Note("reflect_fresh_context", 0))
             two == Optional(SelfClears(reply.text),
                             SelfEvent("reflect_early_exit", reply.text))
  <2>1. /\ events' = (Append(events, e) \o one) \o two
        /\ UNCHANGED <<initial_answer, route, advisor>>
    BY <1>8 DEF SelfCritiqueReturns
  <2>2. e \in PlainEntries /\ one \in Seq(PlainEntries) /\ two \in Seq(PlainEntries)
    <3>1. reply.text \in CritiqueTexts
      BY RepliesAssumption
    <3>2. /\ e \in PlainEntries
          /\ SelfEvent("reflect_early_exit", reply.text) \in PlainEntries
      BY <1>1, <3>1 DEF PlainEntries, Entries, SelfEvent, Turns
    <3>3. Note("reflect_fresh_context", 0) \in PlainEntries
      BY DEF PlainEntries, Entries, Note, Turns
    <3>4. QED BY <3>2, <3>3 DEF Optional
  <2> HIDE DEF e, one, two
  <2>3. /\ (<<e>> \o one) \o two \in Seq(PlainEntries)
        /\ events' = events \o ((<<e>> \o one) \o two)
    <3>1. events \in Seq(Entries)
      BY <1>1
    <3>2. /\ (<<e>> \o one) \o two \in Seq(PlainEntries)
          /\ (Append(events, e) \o one) \o two = events \o ((<<e>> \o one) \o two)
      BY <2>2, <3>1, AppendedPlain, SMTT(20)
    <3>3. QED BY <2>1, <3>2
  <2>4. QED BY <2>1, <2>3, WritesPlain
<1>9. ASSUME NEW reply \in RevisionReplies, SelfRevisionReturns(reply)
      PROVE  \E r \in Seq(Entries) : Writes(r)
  <2> DEFINE e == SelfEvent("reflect_revised", reply.text)
  <2>1. events' = Append(events, e) /\ UNCHANGED <<initial_answer, route, advisor>>
    BY <1>9 DEF SelfRevisionReturns
  <2>2. e \in PlainEntries
    BY <1>1, RepliesAssumption DEF PlainEntries, Entries, SelfEvent, Turns, OffPath
  <2> HIDE DEF e
  <2>3. <<e>> \in Seq(PlainEntries) /\ events' = events \o <<e>>
    BY <1>1, <2>1, <2>2, AppendIsConcat DEF PlainEntries
  <2>4. QED BY <2>1, <2>3, WritesPlain
<1>10. ASSUME SkipAdvisor PROVE \E r \in Seq(Entries) : Writes(r)
  <2> DEFINE e == [type |-> "advisor_skipped"]
  <2>1. events' = Append(events, e) /\ UNCHANGED <<initial_answer, route, advisor>>
    BY <1>10 DEF SkipAdvisor
  <2>2. e \in PlainEntries
    BY DEF PlainEntries, Entries
  <2> HIDE DEF e
  <2>3. <<e>> \in Seq(PlainEntries) /\ events' = events \o <<e>>
    BY <1>1, <2>1, <2>2, AppendIsConcat DEF PlainEntries
  <2>4. QED BY <2>1, <2>3, WritesPlain
<1>11. StartReflection \/ EndReflection \/ ReflectionRaises \/ AdvisorDisabled
       \/ EndAdvisor \/ ReflectorRaises
          => UNCHANGED <<events, initial_answer, route, advisor>>
  BY DEF StartReflection, EndReflection, ReflectionRaises, AdvisorDisabled,
     EndAdvisor, ReflectorRaises, CallRaises, loopVars, advisorVars
<1>12. StartAdvisor => /\ UNCHANGED <<events, initial_answer, route>>
                       /\ advisor.at = "off" /\ advisor'.at = "advice"
  BY DEF StartAdvisor, loopVars, Coroutine
<1>13. AdvisorRaises => /\ UNCHANGED <<events, initial_answer, route>>
                        /\ advisor'.at = "failed"
  BY <1>1 DEF AdvisorRaises, loopVars
<1>14. ~InitialRaises /\ \A reply : ~InitialReturns(reply)
  BY DEF InitialRaises, InitialReturns
<1>15. QED BY <1>2, <1>3, <1>4, <1>5, <1>6, <1>7, <1>8, <1>9, <1>10, <1>11, <1>12, <1>13,
              <1>14 DEF PipelineNext, CallOrStage, Plugins

\* The revisions read at the end of a stage quote the log: those of the loop all
\* of its revisions, in order, that of the advisor the only one there is.
LEMMA RevisionsQuoted ==
    ASSUME events' \in Seq(Entries), Single(events', "advisor_revised")
    PROVE  LET r == ReflectionFrames'
               a == AdvisorFrames'
           IN  /\ Quotes(r, events', {"reflect_revised"}) /\ Unrepeated(r, events')
               /\ AllTold(r, events', {"reflect_revised"})
               /\ Quotes(a, events', {"advisor_revised"}) /\ Unrepeated(a, events')
               /\ AllTold(a, events', {"advisor_revised"})
<1> DEFINE chosen == OfType(events', "reflect_revised")
           c == Cardinality(chosen)
           o == LogOrder(chosen)
           r == ReflectionFrames'
           of == {i \in OfType(events', "advisor_revised") : events'[i].text # Blank}
           a == AdvisorFrames'
<1>1. Len(events') \in Nat /\ DOMAIN events' = 1..Len(events')
  BY LenProperties
<1>2. chosen \in SUBSET (1..Len(events'))
  BY <1>1 DEF OfType
<1>3. /\ c \in Nat /\ \A k \in 1..c : o[k] \in chosen
      /\ \A k, l \in 1..c : k < l => o[k] < o[l]
      /\ \A i \in chosen : \E k \in 1..c : o[k] = i
  BY <1>1, <1>2, InLogOrder
<1>4. /\ \A i \in chosen : i \in 1..Len(events') /\ events'[i].type = "reflect_revised"
      /\ \A i \in 1..Len(events') : events'[i].type = "reflect_revised" => i \in chosen
  BY <1>1 DEF OfType
<1>5. r = [k \in 1..c |->
              [type |-> "revision", of |-> o[k], text |-> events'[o[k]].text]]
  BY DEF ReflectionFrames, RevisionsOf, RevisionOf
<1> HIDE DEF chosen, c, o, r
<1>6. Len(r) = c /\ \A k \in 1..c : /\ r[k].type = "revision" /\ r[k].of = o[k]
                                   /\ r[k].text = events'[o[k]].text
  <2>1. DOMAIN r = 1..c
    BY <1>5
  <2>2. r \in [1..c -> {r[k] : k \in 1..c}]
    BY <1>5
  <2>3. Len(r) = c
    BY <1>3, <2>2, SeqDef, LenProperties
  <2>4. QED BY <1>5, <2>3
<1>7. Quotes(r, events', {"reflect_revised"})
  BY <1>3, <1>4, <1>6 DEF Quotes
<1>8. Unrepeated(r, events')
  <2> SUFFICES ASSUME NEW k \in 1..c, NEW l \in 1..c, k < l
               PROVE  r[k].of # r[l].of /\ r[k].of < r[l].of
    BY <1>6 DEF Unrepeated
  <2>1. o[k] < o[l] /\ o[k] \in Nat /\ o[l] \in Nat
    BY <1>1, <1>3, <1>4
  <2>2. QED BY <1>6, <2>1
<1>9. AllTold(r, events', {"reflect_revised"})
  <2> SUFFICES ASSUME NEW i \in chosen PROVE Tells(r, i)
    BY <1>4 DEF AllTold
  <2>1. PICK k \in 1..c : o[k] = i
    BY <1>3
  <2>2. QED BY <1>6, <2>1 DEF Tells
<1>10. /\ \A i \in of : /\ i \in 1..Len(events') /\ events'[i].type = "advisor_revised"
                        /\ \A j \in of : j = i
       /\ \A i \in 1..Len(events') :
             events'[i].type = "advisor_revised" /\ events'[i].text # Blank => i \in of
  BY <1>1 DEF OfType, Single
<1>11. a = IF of = {} THEN << >>
           ELSE <<[type |-> "revision", of |-> Min(of), text |-> events'[Min(of)].text]>>
  BY DEF AdvisorFrames, RevisionOf
<1> HIDE DEF of, a
<1>12. CASE of = {}
  <2>1. Len(a) = 0
    BY <1>11, <1>12
  <2>2. /\ Quotes(a, events', {"advisor_revised"}) /\ Unrepeated(a, events')
    BY <2>1 DEF Quotes, Unrepeated
  <2>3. AllTold(a, events', {"advisor_revised"})
    BY <1>10, <1>12 DEF AllTold, Worth
  <2>4. QED BY <1>7, <1>8, <1>9, <2>2, <2>3 DEF r, a
<1>13. CASE of # {}
  <2>1. PICK m : m \in of
    BY <1>13
  <2>2. /\ m \in 1..Len(events') /\ events'[m].type = "advisor_revised"
        /\ \A j \in of : j = m
    BY <1>10, <2>1
  <2>3. Min(of) = m
    <3>1. m <= m
      BY <1>1, <2>2
    <3>2. QED BY <2>1, <2>2, <3>1 DEF Min
  <2>4. a = <<[type |-> "revision", of |-> m, text |-> events'[m].text]>>
    BY <1>11, <1>13, <2>3
  <2>5. /\ Len(a) = 1 /\ a[1].type = "revision" /\ a[1].of = m
        /\ a[1].text = events'[m].text /\ \A k \in 1..Len(a) : k = 1
    BY <2>4
  <2>6. Quotes(a, events', {"advisor_revised"})
    BY <2>2, <2>5 DEF Quotes
  <2>7. Unrepeated(a, events')
    BY <2>5 DEF Unrepeated
  <2>8. AllTold(a, events', {"advisor_revised"})
    <3> SUFFICES ASSUME NEW i \in 1..Len(events'), events'[i].type = "advisor_revised",
                        events'[i].text # Blank
                 PROVE  Tells(a, i)
      BY DEF AllTold, Worth
    <3>1. i = m
      BY <1>10, <2>2
    <3>2. QED BY <2>5, <3>1 DEF Tells
  <2>9. QED BY <1>7, <1>8, <1>9, <2>6, <2>7, <2>8 DEF r, a
<1>14. QED BY <1>12, <1>13

StageType == IF stage = "reflect" THEN "reflect_revised" ELSE "advisor_revised"

\* So does what a stage yields when it has ended.
LEMMA StageFramesQuote ==
    ASSUME events' \in Seq(Entries), Single(events', "advisor_revised"),
           stage' # stage, stage' \notin {"raised", "hung"}
    PROVE  LET f == StageFrames
           IN  /\ Quotes(f, events', {StageType}) /\ Unrepeated(f, events')
               /\ AllTold(f, events', {StageType})
<1> DEFINE revs == IF stage = "reflect" THEN ReflectionFrames' ELSE AdvisorFrames'
           trailer == Trailer'
           closing == IF stage' = "done" THEN <<trailer, Done>> ELSE << >>
<1>1. StageFrames = revs \o closing
  BY DEF StageFrames, Closing
<1>2. /\ Quotes(revs, events', {StageType}) /\ Unrepeated(revs, events')
      /\ AllTold(revs, events', {StageType})
  BY RevisionsQuoted DEF StageType
<1>3. \E S : revs \in Seq(S)
  BY RevisionsRead
<1>4. /\ closing \in Seq({trailer, Done})
      /\ \A k \in 1..Len(closing) : closing[k].type # "revision"
  <2>1. trailer.type # "revision" /\ Done.type # "revision"
    BY DEF Trailer, Done
  <2> HIDE DEF trailer
  <2>2. << >> \in Seq({trailer, Done}) /\ <<trailer, Done>> \in Seq({trailer, Done})
    OBVIOUS
  <2>3. closing = << >> \/ closing = <<trailer, Done>>
    OBVIOUS
  <2> HIDE DEF closing
  <2>4. closing \in Seq({trailer, Done})
    BY <2>2, <2>3
  <2>5. \A k \in 1..Len(closing) : closing[k] \in {trailer, Done}
    BY <2>4, ElementOfSeq
  <2>6. \A k \in 1..Len(closing) : closing[k].type # "revision"
    BY <2>1, <2>5
  <2>7. QED BY <2>4, <2>6
<1> HIDE DEF revs, trailer, closing
<1>5. PICK S : revs \in Seq(S) /\ closing \in Seq(S)
  <2>1. PICK S : revs \in Seq(S)
    BY <1>3
  <2>2. /\ revs \in Seq(S \cup {trailer, Done})
        /\ closing \in Seq(S \cup {trailer, Done})
    BY <1>4, <2>1, SeqsTogether
  <2>3. QED BY <2>2
<1>6. /\ Quotes(closing, events', {}) /\ Quotes(closing, events', {StageType})
      /\ Unrepeated(closing, events')
  BY <1>4 DEF Quotes, Unrepeated
<1>7. Quotes(revs \o closing, events', {StageType})
  BY <1>2, <1>5, <1>6, QuotesExtend
<1>8. Unrepeated(revs \o closing, events')
  <2>1. {StageType} \cap {} = {}
    OBVIOUS
  <2>2. QED BY <1>2, <1>5, <1>6, <2>1, UnrepeatedExtends
<1>9. AllTold(revs \o closing, events', {StageType})
  <2>1. \A i : Tells(revs, i) => Tells(revs \o closing, i)
    BY <1>5, QuotesExtend
  <2>2. QED BY <1>2, <2>1 DEF AllTold
<1>10. QED BY <1>1, <1>7, <1>8, <1>9

\* The advisor that asks does so once.
LEMMA AskedAfter ==
    ASSUME OInv, AskedOnce, NEW r \in Seq(Entries), Writes(r)
    PROVE  AskedOnce'
<1>1. events \in Seq(Entries) /\ events' = events \o r
  BY DEF OInv, TypesOK, Writes
<1>2. \A type : Has(events', type) <=> Has(events, type) \/ Has(r, type)
  BY <1>1, HasExtends
<1>3. Has(r, "advisor_revised") =>
          advisor.at = "plugins" /\ Len(r) = 1 /\ advisor'.at = "revision"
  BY DEF Writes, Has
<1>4. Has(r, "advisor_revision") => advisor.at = "revision"
  BY DEF Writes, Has
<1>5. advisor'.at \in {"off", "advice", "plugins"} => ~Has(events', "advisor_revised")
  BY <1>2, <1>3 DEF AskedOnce, Writes
<1>6. advisor'.at = "revision" => Has(events', "advisor_revised")
  BY <1>2 DEF AskedOnce, Writes
<1>7. Has(events', "advisor_revision") => Has(events', "advisor_revised")
  BY <1>2, <1>4 DEF AskedOnce
<1>8. Single(events', "advisor_revised")
  <2>1. /\ Len(events) \in Nat /\ Len(r) \in Nat
        /\ Len(events') = Len(events) + Len(r)
        /\ \A i \in 1..Len(events') :
              \/ i \in 1..Len(events) /\ events'[i] = events[i]
              \/ i - Len(events) \in 1..Len(r) /\ events'[i] = r[i - Len(events)]
    BY <1>1, ConcatElements
  <2>2. CASE Has(r, "advisor_revised")
    <3>1. Len(r) = 1 /\ ~Has(events, "advisor_revised")
      BY <1>3, <2>2 DEF AskedOnce
    <3>2. \A i \in 1..Len(events') :
              events'[i].type = "advisor_revised" => i = Len(events) + 1
      BY <2>1, <3>1 DEF Has
    <3>3. QED BY <3>2 DEF Single
  <2>3. CASE ~Has(r, "advisor_revised")
    <3>1. \A i \in 1..Len(events') : events'[i].type = "advisor_revised" =>
              i \in 1..Len(events) /\ events[i].type = "advisor_revised"
      BY <2>1, <2>3 DEF Has
    <3>2. QED BY <3>1 DEF AskedOnce, Single
  <2>4. QED BY <2>2, <2>3
<1>9. QED BY <1>5, <1>6, <1>7, <1>8 DEF AskedOnce

\* The log begins as it did.
LEMMA BeginsAfter ==
    ASSUME OInv, BeginsInitial, NEW r \in Seq(Entries), Writes(r),
           stage' \in {"reflect", "advise", "done"} => stage \in {"reflect", "advise", "done"}
    PROVE  BeginsInitial'
<1> SUFFICES ASSUME stage' \in {"reflect", "advise", "done"}
             PROVE  /\ 1 \in 1..Len(events')
                    /\ events'[1].type = "initial" /\ events'[1].text = initial_answer'
                    /\ \A i \in 1..Len(events') : events'[i].type = "initial" => i = 1
  BY DEF BeginsInitial
<1>1. /\ events \in Seq(Entries) /\ events' = events \o r /\ initial_answer' = initial_answer
      /\ \A i \in 1..Len(r) : r[i].type # "initial"
  BY DEF OInv, TypesOK, Writes
<1>2. /\ Len(events) \in Nat /\ Len(r) \in Nat /\ Len(events') = Len(events) + Len(r)
      /\ \A i \in 1..Len(events) : events'[i] = events[i]
      /\ \A i \in 1..Len(events') :
            \/ i \in 1..Len(events) /\ events'[i] = events[i]
            \/ i - Len(events) \in 1..Len(r) /\ events'[i] = r[i - Len(events)]
  BY <1>1, ConcatElements
<1>3. /\ 1 \in 1..Len(events)
      /\ events[1].type = "initial" /\ events[1].text = initial_answer
      /\ \A i \in 1..Len(events) : events[i].type = "initial" => i = 1
  BY DEF BeginsInitial
<1>4. 1 \in 1..Len(events') /\ events'[1] = events[1]
  BY <1>2, <1>3
<1>5. \A i \in 1..Len(events') : events'[i].type = "initial" => i = 1
  BY <1>1, <1>2, <1>3
<1>6. QED BY <1>1, <1>3, <1>4, <1>5

\* Behind the stages that are told nothing is written that would have to be.
LEMMA NothingNewToTell ==
    ASSUME OInv, stage \in {"reflect", "advise"}, NEW r \in Seq(Entries), Writes(r),
           NEW s, AllTold(s, events, Told)
    PROVE  AllTold(s, events', Told)
<1>1. /\ events \in Seq(Entries) /\ events' = events \o r
  BY DEF OInv, TypesOK, Writes
<1>2. /\ Len(events) \in Nat /\ Len(r) \in Nat /\ Len(events') = Len(events) + Len(r)
      /\ \A i \in 1..Len(events') :
            \/ i \in 1..Len(events) /\ events'[i] = events[i]
            \/ i - Len(events) \in 1..Len(r) /\ events'[i] = r[i - Len(events)]
  BY <1>1, ConcatElements
<1>3. ASSUME NEW i \in 1..Len(r) PROVE ~(r[i].type \in Told /\ Worth(r[i]))
  <2>1. /\ r[i].type = "reflect_revised" /\ ~OffPath(r[i]) => stage = "reflect"
        /\ r[i].type = "advisor_revised" => stage = "advise"
    <3>1. advisor.at = "plugins" => stage = "advise"
      BY DEF OInv, Paths, Awaiting
    <3>2. QED BY <3>1 DEF Writes
  <2>2. /\ stage = "reflect" => "reflect_revised" \notin Told
        /\ stage = "advise" => "advisor_revised" \notin Told
    BY DEF Told
  <2>3. QED BY <2>1, <2>2 DEF Worth
<1>4. QED BY <1>2, <1>3 DEF AllTold

\* A stage that has ended is told.
LEMMA ToldGrows ==
    ASSUME stage \in {"reflect", "advise"}, stage' = StageAfter(stage), route' = route
    PROVE  Told' = Told \cup {StageType} /\ Told \cap {StageType} = {}
BY DEF Told, StageAfter, StageType

-----------------------------------------------------------------------------
\* A body that quotes nothing.
LEMMA NothingQuoted ==
    ASSUME NEW s, ~Has(s, "revision")
    PROVE  \A log, types : Quotes(s, log, types) /\ Unrepeated(s, log)
BY DEF Has, Quotes, Unrepeated

\* What quotes some types quotes more.
LEMMA QuotesWiden ==
    ASSUME NEW s, NEW log, NEW types, NEW more, types \subseteq more, Quotes(s, log, types)
    PROVE  Quotes(s, log, more)
BY DEF Quotes

\* A replay starts with nothing told.
LEMMA ReplayInitEstablishes == StreamInit => ReplayInv
<1> SUFFICES ASSUME StreamInit PROVE ReplayInv
  OBVIOUS
<1>1. /\ sent = << >> /\ pending = << >> /\ stage = "initial" /\ events = << >>
      /\ advisor.at = "off" /\ client = "reading"
  BY DEF StreamInit, PipelineInit, Coroutine
<1>2. Frames = << >> /\ Len(Frames) = 0 /\ Len(events) = 0
  BY <1>1 DEF Frames
<1>3. AskedOnce
  BY <1>1, <1>2 DEF AskedOnce, Has, Single
<1>4. BeginsInitial
  BY <1>1 DEF BeginsInitial
<1>5. Quotes(Frames, events, Told) /\ Unrepeated(Frames, events)
  BY <1>2 DEF Quotes, Unrepeated
<1>6. Replayed
  BY <1>1, <1>5 DEF Replayed
<1>7. QED BY <1>3, <1>4, <1>6, BodyInitEstablishes DEF ReplayInv

\* A step that leaves the frames, the log and the place in the pipeline alone.
LEMMA SameReplay ==
    ASSUME AskedOnce, BeginsInitial, Replayed, Frames' = Frames,
           UNCHANGED <<events, stage, advisor, route, initial_answer, client>>
    PROVE  AskedOnce' /\ BeginsInitial' /\ Replayed'
<1>1. Told' = Told
  BY DEF Told, StageAfter
<1>2. AskedOnce' /\ BeginsInitial'
  BY DEF AskedOnce, BeginsInitial
<1>3. Replayed'
  BY <1>1 DEF Replayed
<1>4. QED BY <1>2, <1>3

\* Neither does a delta behind deltas tell anything.
LEMMA DeltaYieldedReplays ==
    ASSUME ReplayInv, BodyInv', DeltaYielded
    PROVE  AskedOnce' /\ BeginsInitial' /\ Replayed'
<1>1. /\ UNCHANGED <<events, stage, advisor, route, initial_answer, client>>
      /\ stage' = "initial" /\ client' = "reading"
  BY DEF DeltaYielded, Going, vars, loopVars, advisorVars
<1>2. ~Has(Frames', "revision")
  BY <1>1 DEF BodyInv, FramesOK, OnlyOf, Has
<1>3. Quotes(Frames', events', Told') /\ Unrepeated(Frames', events')
  BY <1>2, NothingQuoted
<1>4. Replayed'
  BY <1>1, <1>3 DEF Replayed
<1>5. AskedOnce' /\ BeginsInitial'
  BY <1>1 DEF ReplayInv, AskedOnce, BeginsInitial
<1>6. QED BY <1>4, <1>5

\* The initial answer is the first thing logged, and what the deltas say.
LEMMA InitialStreamEndsReplays ==
    ASSUME ReplayInv, InitialStreamEnds
    PROVE  AskedOnce' /\ BeginsInitial' /\ Replayed'
<1> DEFINE text == InitialText(sent)
           first == [type |-> "initial", text |-> text]
<1>1. /\ sent' = sent /\ pending = << >> /\ pending' = <<Finished>>
      /\ stage = "initial" /\ stage' \in {"reflect", "advise"}
      /\ client' = "reading" /\ advisor' = advisor /\ advisor.at = "off"
      /\ events' = <<first>> /\ initial_answer' = text
  <2>1. events = << >>
    BY DEF InitialStreamEnds, ReplayInv, BodyInv, StreamInv, OInv, Chain
  <2>2. advisor.at = "off"
    BY DEF InitialStreamEnds, ReplayInv, BodyInv, StreamInv, OInv, Paths
  <2>3. QED BY <2>1, <2>2 DEF InitialStreamEnds, Going, StageAfter, advisorVars
<1>2. Len(events') = 1 /\ events'[1] = first /\ \A i \in 1..Len(events') : i = 1
  BY <1>1
<1>3. first.type = "initial" /\ first.text = text
  OBVIOUS
<1> HIDE DEF first
<1>4. sent \in Seq(DeltaFrames) /\ LastSaid(sent)
  BY <1>1 DEF ReplayInv, BodyInv, StreamInv, Reading
<1> DEFINE T == DeltaFrames \cup {Finished}
<1>5. sent \in Seq(T) /\ pending' \in Seq(T)
  <2>1. pending' \in Seq({Finished})
    BY <1>1
  <2>2. QED BY <1>4, <2>1, SeqsTogether
<1> HIDE DEF T
<1>6. Frames' = sent \o pending'
  BY <1>1 DEF Frames
<1>7. ~Has(pending', "delta") /\ ~Has(pending', "revision")
  <2>1. Len(pending') = 1 /\ pending'[1].type = "finish"
    BY <1>1 DEF Finished
  <2>2. QED BY <2>1 DEF Has
<1>8. \A i \in 1..Len(sent) : sent[i].type = "delta"
  <2>1. \A i \in 1..Len(sent) : sent[i] \in DeltaFrames
    BY <1>4, ElementOfSeq
  <2>2. QED BY <2>1 DEF DeltaFrames
<1>9. ~Has(Frames', "revision")
  BY <1>5, <1>6, <1>7, <1>8, HasExtends DEF Has
<1>10. Opens(Frames', text)
  <2>1. Opens(sent, text)
    BY <1>4, <1>8, InitialTextSaid DEF Opens
  <2> HIDE DEF text
  <2>2. QED BY <1>5, <1>6, <1>7, <2>1, OpensStays
<1> HIDE DEF text
<1>11. AskedOnce'
  <2>1. \A type : Has(events', type) => type = "initial"
    BY <1>2, <1>3 DEF Has
  <2>2. QED BY <1>1, <1>2, <2>1 DEF AskedOnce, Single
<1>12. BeginsInitial'
  BY <1>1, <1>2, <1>3 DEF BeginsInitial
<1>13. AllTold(Frames', events', Told')
  BY <1>2, <1>3 DEF AllTold, Worth
<1>14. Replayed'
  <2>1. Quotes(Frames', events', Told') /\ Unrepeated(Frames', events')
    BY <1>9, NothingQuoted
  <2>2. QED BY <1>1, <1>10, <1>13, <2>1 DEF Replayed
<1>15. QED BY <1>11, <1>12, <1>14

\* A body that breaks tells no more.
LEMMA InitialStreamBreaksReplays ==
    ASSUME ReplayInv, InitialStreamBreaks
    PROVE  AskedOnce' /\ BeginsInitial' /\ Replayed'
<1>1. /\ UNCHANGED <<events, advisor, sent, pending, client>>
      /\ stage = "initial" /\ stage' = "raised" /\ client = "reading"
  BY DEF InitialStreamBreaks, InitialRaises, Going, loopVars, advisorVars
<1>2. Frames' = Frames /\ Told \subseteq Told'
  BY <1>1 DEF Frames, Told
<1>3. Quotes(Frames', events', Told') /\ Unrepeated(Frames', events')
  BY <1>1, <1>2, QuotesWiden DEF ReplayInv, Replayed
<1>4. QED BY <1>1, <1>3 DEF ReplayInv, AskedOnce, BeginsInitial, Replayed

\* The end marker is the last frame.
LEMMA MarkerIsLast ==
    ASSUME NEW S, NEW s \in Seq(S), NEW r \in Seq(S), InOrder(s \o r), OnlyOf(s \o r, FrameTypes),
           r # << >>
    PROVE  ~Has(s, "done")
<1> DEFINE q == s \o r
<1>1. /\ Len(s) \in Nat /\ Len(r) \in Nat /\ Len(q) = Len(s) + Len(r)
      /\ \A i \in 1..Len(s) : q[i] = s[i]
  BY ConcatElements
<1>2. Len(r) # 0
  BY EmptySeq
<1>3. InOrder(q) /\ OnlyOf(q, FrameTypes)
  OBVIOUS
<1> HIDE DEF q
<1>4. SUFFICES ASSUME NEW i \in 1..Len(s), s[i].type = "done" PROVE FALSE
  BY DEF Has
<1>5. i \in 1..Len(q) /\ Len(q) \in 1..Len(q) /\ i < Len(q) /\ q[i].type = "done"
  BY <1>1, <1>2, <1>4
<1>6. \/ Rank[q[i].type] < Rank[q[Len(q)].type]
      \/ q[i].type = q[Len(q)].type /\ q[i].type \in {"delta", "revision"}
  BY <1>3, <1>5 DEF InOrder
<1>7. Rank["done"] < Rank[q[Len(q)].type]
  BY <1>5, <1>6
<1>8. q[Len(q)].type \in FrameTypes
  BY <1>3, <1>5 DEF OnlyOf
<1>9. QED BY <1>7, <1>8 DEF FrameTypes, Rank

\* A body that is cut has told what it has, and has no end marker.
LEMMA ClientLeavesReplays ==
    ASSUME ReplayInv, ClientLeaves
    PROVE  AskedOnce' /\ BeginsInitial' /\ Replayed'
<1>1. /\ sent' = sent /\ pending' = << >> /\ client' = "left"
      /\ UNCHANGED <<events, route, initial_answer>>
      /\ stage' = IF stage = "done" THEN "done" ELSE "raised"
      /\ advisor' = Cancelled(advisor)
      /\ stage = "done" => pending # << >>
  BY DEF ClientLeaves, BodyEnded, loopVars
<1>2. PICK S : sent \in Seq(S) /\ pending \in Seq(S)
  BY DEF ReplayInv, BodyInv, FramesOK
<1>3. Frames = sent \o pending /\ Frames' = sent
  BY <1>1, <1>2, ConcatEmptySeq DEF Frames
<1>4. AskedOnce'
  <2>1. advisor' = advisor \/ advisor'.at = "failed"
    <3>1. CoroutineOK(advisor, {"advice", "plugins", "revision"})
      BY DEF ReplayInv, BodyInv, StreamInv, OInv, TypesOK, PipelineTypeOK
    <3>2. QED BY <1>1, <3>1, CancelledStops
  <2>2. QED BY <1>1, <2>1 DEF ReplayInv, AskedOnce
<1>5. BeginsInitial'
  BY <1>1 DEF ReplayInv, BeginsInitial
<1>6. Told \subseteq Told'
  BY <1>1 DEF Told
<1>7. Quotes(Frames', events', Told')
  <2>1. Quotes(sent, events, Told)
    BY <1>2, <1>3, QuotesExtend DEF ReplayInv, Replayed
  <2>2. QED BY <1>1, <1>3, <1>6, <2>1, QuotesWiden
<1>8. Unrepeated(Frames', events')
  BY <1>1, <1>2, <1>3, PrefixUnrepeated DEF ReplayInv, Replayed
<1>9. ~Has(Frames', "done")
  <2>1. CASE stage = "done"
    BY <1>1, <1>2, <1>3, <2>1, MarkerIsLast DEF ReplayInv, BodyInv, FramesOK, Protocol
  <2>2. CASE stage # "done"
    <3>1. ~Has(Frames, "done")
      BY <2>2 DEF ReplayInv, BodyInv, FramesOK, OnlyOf, Has
    <3>2. QED BY <1>2, <1>3, <3>1, HasExtends
  <2>3. QED BY <2>1, <2>2
<1>10. Replayed'
  BY <1>1, <1>7, <1>8, <1>9 DEF Replayed
<1>11. QED BY <1>4, <1>5, <1>10

\* When a stage has ended, what it has logged is told.
LEMMA StagesReplay ==
    ASSUME ReplayInv, BodyInv', Stages(CallOrStage) \/ Stages(Plugins)
    PROVE  AskedOnce' /\ BeginsInitial' /\ Replayed'
<1>1. /\ PipelineNext /\ stage # "initial" /\ pending' = StageFrames /\ sent' = sent
      /\ pending = << >> /\ client' = client /\ (client = "reading" \/ stage = "raised")
  BY DEF Stages, PipelineNext, Going, ReplayInv, BodyInv, FramesOK
<1>2. /\ OInv /\ AskedOnce /\ BeginsInitial /\ Replayed
      /\ events \in Seq(Entries) /\ events' \in Seq(Entries)
  BY DEF ReplayInv, BodyInv, StreamInv, OInv, TypesOK
<1>3. PICK r \in Seq(Entries) : Writes(r)
  BY <1>1, <1>2, StepWrites
<1>4. AskedOnce'
  BY <1>2, <1>3, AskedAfter
<1>5. \/ stage' = stage
      \/ stage' \in {"raised", "hung"}
      \/ /\ stage \in {"reflect", "advise"} /\ stage' = StageAfter(stage)
         /\ stage' \in {"reflect", "advise", "done"}
  BY <1>1, <1>2, StageMoves
<1>6. stage # "done"
  BY <1>1, <1>2, StageMoves
<1>7. BeginsInitial'
  <2>1. stage' \in {"reflect", "advise", "done"} => stage \in {"reflect", "advise", "done"}
    BY <1>5
  <2>2. QED BY <1>2, <1>3, <2>1, BeginsAfter
<1>8. PICK S : sent \in Seq(S)
  BY DEF ReplayInv, BodyInv, FramesOK
<1>9. Frames = sent
  BY <1>1, <1>8, ConcatEmptySeq DEF Frames
<1>10. /\ events' = events \o r /\ initial_answer' = initial_answer /\ route' = route
  BY <1>3 DEF Writes
<1>11. Quotes(sent, events', Told) /\ Unrepeated(sent, events')
  BY <1>2, <1>9, <1>10, QuotesStay DEF Replayed
<1>12. client = "reading" /\ stage \in {"reflect", "advise"} =>
           AllTold(sent, events', Told) /\ Opens(sent, initial_answer)
  BY <1>2, <1>3, <1>9, NothingNewToTell DEF Replayed
<1>13. CASE stage' = stage \/ stage' \in {"raised", "hung"}
  <2>1. Frames' = sent
    <3>1. pending' = << >>
      BY <1>1, <1>13 DEF StageFrames
    <3>2. QED BY <1>1, <1>8, <3>1, ConcatEmptySeq DEF Frames
  <2>2. /\ Told \subseteq Told'
        /\ stage' \in {"reflect", "advise", "done"} => Told' = Told
    BY <1>10, <1>13 DEF Told, StageAfter
  <2>3. Quotes(Frames', events', Told') /\ Unrepeated(Frames', events')
    BY <1>11, <2>1, <2>2, QuotesWiden
  <2>4. client' = "left" => ~Has(Frames', "done")
    BY <1>1, <1>2, <1>9, <2>1 DEF Replayed
  <2>5. client' = "reading" /\ stage' \in {"reflect", "advise", "done"} =>
            AllTold(Frames', events', Told') /\ Opens(Frames', initial_answer')
    <3>1. stage' \in {"reflect", "advise", "done"} => stage \in {"reflect", "advise"}
      BY <1>6, <1>13
    <3>2. QED BY <1>1, <1>10, <1>12, <2>1, <2>2, <3>1
  <2>6. Replayed'
    BY <2>3, <2>4, <2>5 DEF Replayed
  <2>7. QED BY <1>4, <1>7, <2>6
<1>14. CASE /\ stage' # stage /\ stage' \notin {"raised", "hung"}
            /\ stage \in {"reflect", "advise"} /\ stage' = StageAfter(stage)
            /\ stage' \in {"reflect", "advise", "done"}
  <2> DEFINE f == StageFrames
  <2>1. /\ \E T : f \in Seq(T)
        /\ OnlyOf(f, {"revision", "trailer", "done"})
    BY <1>2, <1>14, StageFramesShape DEF BodyInv
  <2>2. /\ Quotes(f, events', {StageType}) /\ Unrepeated(f, events')
        /\ AllTold(f, events', {StageType})
    BY <1>2, <1>4, <1>14, StageFramesQuote DEF AskedOnce
  <2>3. pending' = f
    BY <1>1
  <2> HIDE DEF f
  <2>4. PICK T : sent \in Seq(T) /\ f \in Seq(T)
    <3>1. PICK T : f \in Seq(T)
      BY <2>1
    <3>2. sent \in Seq(S \cup T) /\ f \in Seq(S \cup T)
      BY <1>8, <3>1, SeqsTogether
    <3>3. QED BY <3>2
  <2>5. Frames' = sent \o f
    BY <1>1, <2>3 DEF Frames
  <2>6. Told' = Told \cup {StageType} /\ Told \cap {StageType} = {}
    BY <1>10, <1>14, ToldGrows
  <2>7. Quotes(sent \o f, events', Told')
    <3>1. Quotes(sent, events', Told') /\ Quotes(f, events', Told')
      BY <1>11, <2>2, <2>6, QuotesWiden
    <3>2. QED BY <2>4, <3>1, QuotesExtend
  <2>8. Unrepeated(sent \o f, events')
    BY <1>11, <2>2, <2>4, <2>6, UnrepeatedExtends
  <2>9. client = "reading"
    BY <1>1, <1>14
  <2>10. AllTold(sent \o f, events', Told')
    <3>1. \A i : Tells(sent, i) \/ Tells(f, i) => Tells(sent \o f, i)
      BY <2>4, QuotesExtend
    <3>2. AllTold(sent, events', Told)
      BY <1>12, <1>14, <2>9
    <3>3. QED BY <2>2, <2>6, <3>1, <3>2 DEF AllTold
  <2>11. Opens(sent \o f, initial_answer')
    <3>1. ~Has(f, "delta")
      BY <2>1 DEF OnlyOf, Has
    <3>2. Opens(sent, initial_answer)
      BY <1>12, <1>14, <2>9
    <3>3. QED BY <1>10, <2>4, <3>1, <3>2, OpensStays
  <2>12. Replayed'
    BY <1>1, <2>5, <2>7, <2>8, <2>9, <2>10, <2>11 DEF Replayed
  <2>13. QED BY <1>4, <1>7, <2>12
<1>15. QED BY <1>5, <1>13, <1>14

\* No step of a stream leaves the invariant of the replay.
LEMMA ReplayStepKeeps == ReplayInv /\ [StreamNext]_streamVars => ReplayInv'
<1> SUFFICES ASSUME ReplayInv, [StreamNext]_streamVars PROVE ReplayInv'
  OBVIOUS
<1>1. BodyInv'
  BY BodyStepKeeps DEF ReplayInv
<1>2. SUFFICES AskedOnce' /\ BeginsInitial' /\ Replayed'
  BY <1>1 DEF ReplayInv
<1>3. CASE DeltaYielded
  BY <1>1, <1>3, DeltaYieldedReplays
<1>4. CASE InitialStreamEnds
  BY <1>4, InitialStreamEndsReplays
<1>5. CASE InitialStreamBreaks
  BY <1>5, InitialStreamBreaksReplays
<1>6. CASE Stages(CallOrStage) \/ Stages(Plugins)
  BY <1>1, <1>6, StagesReplay
<1>7. CASE FrameSent
  <2>1. /\ UNCHANGED vars /\ client' = client /\ pending # << >>
        /\ sent' = Append(sent, Head(pending)) /\ pending' = Tail(pending)
    BY <1>7 DEF FrameSent
  <2>2. PICK S : sent \in Seq(S) /\ pending \in Seq(S)
    BY DEF ReplayInv, BodyInv, FramesOK
  <2>3. Frames' = Frames
    BY <2>1, <2>2, TakenStays DEF Frames
  <2>4. UNCHANGED <<events, stage, advisor, route, initial_answer, client>>
    BY <2>1 DEF vars, loopVars, advisorVars
  <2>5. QED BY <2>3, <2>4, SameReplay DEF ReplayInv
<1>8. CASE ClientLeaves
  BY <1>8, ClientLeavesReplays
<1>9. CASE UNCHANGED streamVars
  <2>1. UNCHANGED <<events, stage, advisor, route, initial_answer, client, sent, pending>>
    BY <1>9 DEF streamVars, vars, loopVars, advisorVars
  <2>2. Frames' = Frames
    BY <2>1 DEF Frames
  <2>3. QED BY <2>1, <2>2, SameReplay DEF ReplayInv
<1>10. QED BY <1>3, <1>4, <1>5, <1>6, <1>7, <1>8, <1>9 DEF StreamNext, Progress

\* The invariant of the replay holds all through a stream.
LEMMA ReplayInvariance == Stream => []ReplayInv
BY ReplayInitEstablishes, ReplayStepKeeps, PTL DEF Stream


-----------------------------------------------------------------------------
\* A body with an end marker is that of a client that read to the end of a
\* pipeline, every stage of which has been told.
LEMMA MarkerEndsReplay ==
    ASSUME ReplayInv, ClientKnown, FramesOf("done") # {}
    PROVE  /\ stage = "done" /\ Told = {"reflect_revised", "advisor_revised"}
           /\ AllTold(Frames, events, Told) /\ Opens(Frames, initial_answer)
<1>1. DOMAIN Frames = 1..Len(Frames)
  BY FramesNumbered DEF ReplayInv
<1>2. Has(Frames, "done")
  BY <1>1 DEF FramesOf, Has
<1>3. stage = "done"
  BY <1>2 DEF ReplayInv, BodyInv, FramesOK, OnlyOf, Has
<1>4. client = "reading"
  BY <1>2 DEF ReplayInv, Replayed, ClientKnown
<1>5. QED BY <1>3, <1>4 DEF ReplayInv, Replayed, Told

\* The replay of the log after each stage repeats nothing and loses nothing, for
\* any number of turns and wherever the stream is cut: no revision is sent
\* twice, those of the loop are sent in the order of the turns, and a client
\* that got the end marker got every one of them (_emit_post_reflection_events
\* and the walk behind the advisor).
THEOREM RevisionsAreSentOnce == Stream => []RevisionsOnce
<1>1. ReplayInv /\ ClientKnown => RevisionsOnce
  <2> SUFFICES ASSUME ReplayInv, ClientKnown PROVE RevisionsOnce
    OBVIOUS
  <2>1. /\ DOMAIN Frames = 1..Len(Frames) /\ Len(Frames) \in Nat
        /\ DOMAIN events = 1..Len(events)
    <3>1. PICK S : sent \in Seq(S) /\ pending \in Seq(S)
      BY DEF ReplayInv, BodyInv, FramesOK
    <3>2. Frames \in Seq(S) /\ events \in Seq(Entries)
      BY <3>1, ConcatProperties DEF Frames, ReplayInv, BodyInv, StreamInv, OInv, TypesOK
    <3>3. QED BY <3>2, LenProperties
  <2>2. Unrepeated(Frames, events)
    BY DEF ReplayInv, Replayed
  <2>3. ASSUME NEW i \in DOMAIN events PROVE Cardinality(Sent(i)) <= 1
    <3>1. \A k \in Sent(i) : /\ k \in 1..Len(Frames) /\ Frames[k].type = "revision"
                             /\ Frames[k].of = i
      BY <2>1 DEF Sent, FramesOf
    <3>2. \A k, l \in Sent(i) : ~(k < l)
      BY <2>2, <3>1 DEF Unrepeated
    <3>3. \A k, l \in Sent(i) : k = l
      <4> SUFFICES ASSUME NEW k \in Sent(i), NEW l \in Sent(i) PROVE k = l
        OBVIOUS
      <4>1. k \in Nat /\ l \in Nat
        BY <2>1, <3>1
      <4>2. QED BY <3>2, <4>1
    <3>4. Sent(i) = {} \/ \E k : Sent(i) = {k}
      BY <3>3
    <3>5. Cardinality(Sent(i)) = 0 \/ Cardinality(Sent(i)) = 1
      BY <3>4, FS_EmptySet, FS_Singleton
    <3>6. QED BY <3>5
  <2>4. \A k, l \in FramesOf("revision") :
            /\ k < l
            /\ events[Frames[k].of].type = "reflect_revised"
            /\ events[Frames[l].of].type = "reflect_revised"
            => Frames[k].of < Frames[l].of
    BY <2>1, <2>2 DEF FramesOf, Unrepeated
  <2>5. ASSUME FramesOf("done") # {}, NEW i \in DOMAIN events,
               \/ OnPath(i) /\ events[i].type = "reflect_revised"
               \/ events[i].type = "advisor_revised" /\ events[i].text # Blank
        PROVE  Sent(i) # {}
    <3>1. events[i].type \in Told /\ Worth(events[i])
      BY <2>5, MarkerEndsReplay DEF Worth, OnPath, OffPath
    <3>2. Tells(Frames, i)
      BY <2>1, <2>5, <3>1, MarkerEndsReplay DEF AllTold
    <3>3. QED BY <2>1, <3>2 DEF Tells, Sent, FramesOf
  <2>6. QED BY <2>3, <2>4, <2>5 DEF RevisionsOnce
<1>2. QED BY <1>1, ReplayInvariance, ClientReadsOrLeft, PTL

\* What the last of some positions is.
LEMMA LastPosition ==
    ASSUME NEW n \in Nat, NEW positions \in SUBSET (1..n), NEW m \in positions,
           \A k \in positions : ~(m < k)
    PROVE  Max(positions) = m
<1>1. /\ \A k \in positions : k \in Nat /\ m >= k
      /\ \A x \in positions : (\A k \in positions : x >= k) => x = m
  OBVIOUS
<1>2. QED BY <1>1 DEF Max

\* Without an advisor's or a reflector's say, the answer is that of the last
\* revision the loop has kept or, when there is none, the initial one.
LEMMA AnswerIsToldLast ==
    ASSUME ReplayInv, stage = "done", OfType(events, "advisor_revised") = {},
           \A i \in OfType(events, "reflect_revised") : OnPath(i)
    PROVE  \/ \E m \in 1..Len(events) :
                 /\ events[m].type = "reflect_revised" /\ events[m].text = answer
                 /\ ~OffPath(events[m]) /\ ~Dropped(answer)
                 /\ \A j \in 1..Len(events) :
                       m < j /\ events[j].type = "reflect_revised" => Dropped(events[j].text)
           \/ /\ initial_answer = answer
              /\ \A j \in 1..Len(events) :
                    events[j].type = "reflect_revised" => Dropped(events[j].text)
<1>1. events \in Seq(Entries)
  BY DEF ReplayInv, BodyInv, StreamInv, OInv, TypesOK
<1>2. Len(events) \in Nat /\ DOMAIN events = 1..Len(events)
  BY <1>1, LenProperties
<1>3. ~Has(events, "advisor_revised") /\ ~Has(events, "advisor_revision")
  BY <1>2 DEF OfType, Has, ReplayInv, AskedOnce
<1>4. \A i \in 1..Len(events) :
          events[i].type = "reflect_revised" /\ ~Dropped(events[i].text)
             => events[i] \in Keepers(route)
  BY <1>1, <1>2 DEF OfType, OnPath, OffPath, Gives, Givers, Keepers, Dropped
<1>5. KeptLast(route, events, answer)
  BY DEF ReplayInv, BodyInv, StreamInv, OInv, Chain, Held
<1>6. PICK m \in 1..Len(events) :
          /\ events[m] \in Keepers(route) /\ events[m].text = answer
          /\ \A j \in 1..Len(events) : m < j => events[j] \notin Keepers(route)
  BY <1>2, <1>5 DEF KeptLast, LatestIn
<1>7. /\ events[m].type \in {"initial", "reflect_revised"} /\ ~OffPath(events[m])
      /\ events[m].type = "reflect_revised" => ~Dropped(answer)
  BY <1>3, <1>6 DEF Keepers, Givers, Gives, Has, Dropped
<1>8. CASE events[m].type = "reflect_revised"
  BY <1>4, <1>6, <1>7, <1>8
<1>9. CASE events[m].type = "initial"
  <2>1. m = 1 /\ events[m].text = initial_answer /\ events[1].type = "initial"
    BY <1>9 DEF ReplayInv, BeginsInitial
  <2>2. \A j \in 1..Len(events) : j # 1 => 1 < j
    BY <1>2
  <2>3. \A j \in 1..Len(events) :
            events[j].type = "reflect_revised" => Dropped(events[j].text)
    BY <1>4, <1>6, <2>1, <2>2
  <2>4. QED BY <1>6, <2>1, <2>3
<1>10. QED BY <1>7, <1>8, <1>9

\* Whatever the deltas, turns and failures, and whether or not the loop left
\* early: unless the advisor or the reflector beside it has had a say, the last
\* text a client has got by the end marker is the answer the pipeline ended with,
\* the empty revisions a parallel loop drops passed over.
THEOREM ClientsHaveTheAnswer == Stream => []ClientHasAnswer
<1>1. ReplayInv /\ ClientKnown => ClientHasAnswer
  <2> SUFFICES ASSUME ReplayInv, ClientKnown, FramesOf("done") # {},
                      OfType(events, "advisor_revised") = {},
                      \A i \in OfType(events, "reflect_revised") : OnPath(i)
               PROVE  LastText = answer
    BY DEF ClientHasAnswer
  <2> DEFINE revisions == FramesOf("revision")
             kept == KeptRevisions
             said == {i \in FramesOf("delta") : Frames[i].text # Blank}
  <2>1. DOMAIN Frames = 1..Len(Frames) /\ Len(Frames) \in Nat
    <3>1. PICK S : sent \in Seq(S) /\ pending \in Seq(S)
      BY DEF ReplayInv, BodyInv, FramesOK
    <3>2. Frames \in Seq(S)
      BY <3>1, ConcatProperties DEF Frames
    <3>3. QED BY <3>2, LenProperties
  <2>2. /\ kept \in SUBSET revisions
        /\ revisions \in SUBSET (1..Len(Frames)) /\ said \in SUBSET (1..Len(Frames))
        /\ \A k \in 1..Len(Frames) :
              /\ k \in revisions <=> Frames[k].type = "revision"
              /\ k \in kept <=> k \in revisions /\ ~Dropped(Frames[k].text)
              /\ k \in said <=> Frames[k].type = "delta" /\ Frames[k].text # Blank
    BY <2>1 DEF FramesOf, KeptRevisions
  <2>3. LastText = IF kept # {} THEN Frames[Max(kept)].text
                   ELSE IF said # {} THEN Frames[Max(said)].text ELSE Blank
    BY DEF LastText
  <2>4. /\ stage = "done" /\ Told = {"reflect_revised", "advisor_revised"}
        /\ AllTold(Frames, events, Told) /\ Opens(Frames, initial_answer)
    BY MarkerEndsReplay
  <2>5. /\ Quotes(Frames, events, Told) /\ Unrepeated(Frames, events)
        /\ ~Has(events, "advisor_revised")
    <3>1. events \in Seq(Entries)
      BY DEF ReplayInv, BodyInv, StreamInv, OInv, TypesOK
    <3>2. DOMAIN events = 1..Len(events)
      BY <3>1, LenProperties
    <3>3. QED BY <3>2 DEF ReplayInv, Replayed, OfType, Has
  <2>6. \A k \in revisions : /\ Frames[k].of \in 1..Len(events)
                             /\ events[Frames[k].of].type = "reflect_revised"
                             /\ Frames[k].text = events[Frames[k].of].text
    BY <2>2, <2>4, <2>5 DEF Quotes, Has
  <2> HIDE DEF revisions, kept, said
  <2>7. ASSUME NEW m \in 1..Len(events), events[m].type = "reflect_revised",
               events[m].text = answer, ~OffPath(events[m]), ~Dropped(answer),
               \A j \in 1..Len(events) :
                  m < j /\ events[j].type = "reflect_revised" => Dropped(events[j].text)
        PROVE  LastText = answer
    <3>1. PICK k \in 1..Len(Frames) : Frames[k].type = "revision" /\ Frames[k].of = m
      BY <2>4, <2>7 DEF AllTold, Worth, Tells
    <3>2. \A l \in kept : ~(k < l)
      <4> SUFFICES ASSUME NEW l \in kept, k < l PROVE FALSE
        OBVIOUS
      <4>1. /\ l \in revisions /\ l \in 1..Len(Frames) /\ Frames[l].type = "revision"
            /\ ~Dropped(Frames[l].text)
        BY <2>2
      <4>2. Frames[k].of < Frames[l].of
        BY <2>5, <2>6, <2>7, <3>1, <4>1 DEF Unrepeated
      <4>3. QED BY <2>6, <2>7, <3>1, <4>1, <4>2
    <3>3. k \in revisions /\ Frames[k].text = answer /\ k \in kept
      BY <2>2, <2>6, <2>7, <3>1
    <3>4. Max(kept) = k
      <4>1. kept \in SUBSET (1..Len(Frames))
        BY <2>2
      <4>2. QED BY <2>1, <3>2, <3>3, <4>1, LastPosition
    <3>5. QED BY <2>3, <3>3, <3>4
  <2>8. ASSUME initial_answer = answer,
               \A j \in 1..Len(events) :
                  events[j].type = "reflect_revised" => Dropped(events[j].text)
        PROVE  LastText = answer
    <3>1. kept = {}
      BY <2>2, <2>6, <2>8
    <3>2. CASE answer = Blank /\ said = {}
      BY <2>3, <3>1, <3>2
    <3>3. CASE answer # Blank
      <4>1. PICK m \in 1..Len(Frames) :
                /\ Frames[m].type = "delta" /\ Frames[m].text = answer
                /\ \A k \in 1..Len(Frames) :
                      m < k /\ Frames[k].type = "delta" => Frames[k].text = Blank
        BY <2>4, <2>8, <3>3 DEF Opens
      <4>2. m \in said /\ \A k \in said : ~(m < k)
        BY <2>2, <3>3, <4>1
      <4>3. Max(said) = m
        BY <2>1, <2>2, <4>2, LastPosition
      <4>4. QED BY <2>3, <3>1, <4>1, <4>2, <4>3
    <3>4. answer = Blank => said = {}
      BY <2>2, <2>4, <2>8 DEF Opens
    <3>5. QED BY <3>2, <3>3, <3>4
  <2>9. QED BY <2>4, <2>7, <2>8, AnswerIsToldLast
<1>2. QED BY <1>1, ReplayInvariance, ClientReadsOrLeft, PTL


-----------------------------------------------------------------------------
(***************************************************************************)
(* Reports.  The stages behind a stream decide and count as those of a     *)
(* buffered run; a client that hangs up at the end changes nothing, and    *)
(* before that leaves a failed run behind.                                 *)
(***************************************************************************)
LEMMA LeavingSeen ==
    ASSUME OInv, ClientLeaves
    PROVE  /\ UNCHANGED <<loopVars, route, skip, fallbacks_used, consulted>>
           /\ \/ stage = "done" /\ stage' = "done" /\ UNCHANGED <<advisor, reflector>>
              \/ stage # "done" /\ stage' = "raised"
           /\ advisor' = advisor \/ advisor'.at = "failed"
           /\ reflector' = reflector \/ reflector'.at = "failed"
           /\ ~Awaiting(advisor)'
           /\ reflector.at = "off" => reflector' = reflector
<1>1. /\ UNCHANGED <<loopVars, route, skip, fallbacks_used, consulted>>
      /\ stage' = IF stage = "done" THEN "done" ELSE "raised"
      /\ advisor' = Cancelled(advisor) /\ reflector' = Cancelled(reflector)
  BY DEF ClientLeaves
<1>2. /\ CoroutineOK(advisor, {"advice", "plugins", "revision"})
      /\ CoroutineOK(reflector, {"critique", "revision"})
  BY DEF OInv, TypesOK, PipelineTypeOK
<1>3. /\ advisor' = advisor \/ advisor'.at = "failed"
      /\ reflector' = reflector \/ reflector'.at = "failed"
      /\ ~Awaiting(advisor)'
  BY <1>1, <1>2, CancelledStops DEF Awaiting
<1>4. stage = "done" => UNCHANGED <<advisor, reflector>>
  BY <1>1 DEF OInv, Paths, Cancelled
<1>5. reflector.at = "off" => reflector' = reflector
  BY <1>1 DEF Cancelled, Awaiting
<1>6. QED BY <1>1, <1>3, <1>4, <1>5

\* What was decided stays decided when the client leaves.
LEMMA ClientLeavesJudged ==
    ASSUME AloneInv, ClientLeaves
    PROVE  LoopJudged' /\ Undecided' /\ Decided' /\ Alone'
<1>1. OInv
  BY DEF AloneInv, ReportInv
<1>2. /\ UNCHANGED <<events, cfg, critique, signal, step, route, skip>>
      /\ \/ stage = "done" /\ stage' = "done" /\ UNCHANGED <<advisor, reflector>>
         \/ stage # "done" /\ stage' = "raised"
      /\ advisor' = advisor \/ advisor'.at = "failed"
      /\ ~Awaiting(advisor)'
      /\ reflector.at = "off" => reflector' = reflector
  BY <1>1, LeavingSeen DEF loopVars
<1>3. /\ LoopJudged' /\ (Unskipped(events)' <=> Unskipped(events))
      /\ (HasAdvice(events)' <=> HasAdvice(events)) /\ (NotSpared' <=> NotSpared)
  BY <1>2, SilentJudged DEF AloneInv
<1>4. Spared' <=> Spared
  BY <1>2 DEF Spared
<1>5. Undecided'
  BY <1>2, <1>3 DEF AloneInv, ReportInv, Undecided
<1>6. Decided'
  BY <1>2, <1>3, <1>4 DEF AloneInv, ReportInv, Decided
<1>7. SkipReason' = SkipReason
  BY <1>2, SameReason
<1>8. Alone'
  BY <1>2, <1>7 DEF AloneInv, Alone, Together
<1>9. QED BY <1>3, <1>5, <1>6, <1>8

StreamReports == StreamInv /\ AloneInv

\* A stream starts with nothing decided.
LEMMA ReportsInitEstablishes == StreamInit => StreamReports
BY StreamInitEstablishes, AloneInitEstablishes DEF StreamInit, StreamReports

\* No step of a stream leaves what its stages decide by.
LEMMA ReportsStepKeeps == StreamReports /\ [StreamNext]_streamVars => StreamReports'
<1> SUFFICES ASSUME StreamReports, [StreamNext]_streamVars PROVE StreamReports'
  OBVIOUS
<1>1. StreamInv' /\ OInv'
  BY StreamStepKeeps DEF StreamReports, StreamInv
<1>2. SUFFICES AloneInv'
  BY <1>1 DEF StreamReports
<1>3. AloneInv
  BY DEF StreamReports
<1>4. ASSUME [PipelineNext]_vars PROVE AloneInv'
  BY <1>3, <1>4, AloneStepKeeps
<1>5. CASE DeltaYielded \/ FrameSent \/ UNCHANGED streamVars
  <2>1. UNCHANGED vars
    BY <1>5 DEF DeltaYielded, FrameSent, streamVars
  <2>2. QED BY <1>4, <2>1
<1>6. CASE Stages(CallOrStage) \/ Stages(Plugins) \/ InitialStreamBreaks
  <2>1. PipelineNext
    BY <1>6 DEF Stages, InitialStreamBreaks, PipelineNext, CallOrStage
  <2>2. QED BY <1>4, <2>1
<1>7. CASE InitialStreamEnds
  <2>1. /\ stage = "initial" /\ stage' = StageAfter("initial")
        /\ events' = Append(events, [type |-> "initial", text |-> InitialText(sent)])
        /\ UNCHANGED <<advisor, reflector, route, skip, step, cfg>>
    BY <1>7 DEF InitialStreamEnds, advisorVars
  <2>2. InitialText(sent) \in Texts
    BY <2>1, InitialTextTyped DEF StreamReports, StreamInv, Reading
  <2>3. LoopJudged' /\ Undecided' /\ Decided'
    BY <1>3, <2>1, <2>2, FirstLogged DEF AloneInv
  <2>4. Alone'
    <3>1. OInv /\ Alone
      BY <1>3 DEF AloneInv, ReportInv
    <3>2. advisor.at = "off"
      BY <2>1, <3>1 DEF OInv, Paths
    <3>3. QED BY <2>1, <3>1, <3>2, StageKeepsAlone
  <2>5. QED BY <1>1, <2>3, <2>4 DEF AloneInv, ReportInv
<1>8. CASE ClientLeaves
  BY <1>1, <1>3, <1>8, ClientLeavesJudged DEF AloneInv, ReportInv
<1>9. QED BY <1>5, <1>6, <1>7, <1>8 DEF StreamNext, Progress

LEMMA ReportsInvariance == Stream => []StreamReports
BY ReportsInitEstablishes, ReportsStepKeeps, PTL DEF Stream

\* Behind a stream, too, an early exit in the log stands behind a critique that
\* gave a signal, and a signal that reaches the threshold.
THEOREM StreamExitsAreEarned == Stream => []EarlyExitEarned
<1>1. StreamReports => EarlyExitEarned
  BY ExitsEarnedInLog DEF StreamReports, AloneInv
<1>2. QED BY <1>1, ReportsInvariance, PTL

\* Wherever a stream is cut: if it has finished, it has skipped a configured
\* advisor exactly if the last critique was confident or scored high, and with
\* advice first never.
THEOREM StreamSkipsFollowCritiques == Stream => []SkipFollowsLastCritique
<1>1. StreamReports => SkipFollowsLastCritique
  BY SkipsFollowInLog DEF StreamReports, AloneInv
<1>2. QED BY <1>1, ReportsInvariance, PTL

(***************************************************************************)
(* Fallbacks.  The stages count theirs as in a buffered run.  The stream   *)
(* of the initial answer reports none, and nothing else is missing from    *)
(* the trailer.                                                            *)
(***************************************************************************)
NoInitialFallback == Fallbacks \subseteq {<< >>}

Unused == stage = "initial" => fallbacks_used = << >>

StreamCounts == StreamInv /\ CountInv /\ Unused

\* A client that leaves leaves the counts.
LEMMA ClientLeavesCounted ==
    ASSUME CountInv, ClientLeaves
    PROVE  Fresh' /\ Counted'
<1>1. OInv
  BY DEF CountInv
<1>2. /\ UNCHANGED <<step, fallbacks, route, fallbacks_used, consulted>>
      /\ \/ stage = "done" /\ stage' = "done" /\ UNCHANGED <<advisor, reflector>>
         \/ stage # "done" /\ stage' = "raised"
      /\ advisor' = advisor \/ advisor'.at = "failed"
      /\ reflector' = reflector \/ reflector'.at = "failed"
  BY <1>1, LeavingSeen DEF loopVars
<1>3. Fresh'
  BY <1>2 DEF CountInv, Fresh
<1>4. Counted'
  BY <1>2 DEF CountInv, Counted, InLoop, InAdvisor, InReflector
<1>5. QED BY <1>3, <1>4

\* No step of a stream whose initial answer took no fallback loses one.
LEMMA CountsStepKeeps ==
    ASSUME NoInitialFallback
    PROVE  StreamCounts /\ [StreamNext]_streamVars => StreamCounts'
<1> SUFFICES ASSUME StreamCounts, [StreamNext]_streamVars PROVE StreamCounts'
  OBVIOUS
<1>1. StreamInv' /\ OInv' /\ OInv /\ CountInv
  BY StreamStepKeeps DEF StreamCounts, StreamInv
<1>2. SUFFICES CountInv' /\ Unused'
  BY <1>1 DEF StreamCounts
<1>3. ASSUME [PipelineNext]_vars PROVE CountInv'
  BY <1>1, <1>3, CountStepKeeps
<1>4. CASE DeltaYielded \/ FrameSent \/ UNCHANGED streamVars
  <2>1. UNCHANGED vars
    BY <1>4 DEF DeltaYielded, FrameSent, streamVars
  <2>2. Unused'
    BY <2>1 DEF StreamCounts, Unused, vars
  <2>3. QED BY <1>3, <2>1, <2>2
<1>5. CASE Stages(CallOrStage) \/ Stages(Plugins) \/ InitialStreamBreaks
  <2>1. PipelineNext
    BY <1>5 DEF Stages, InitialStreamBreaks, PipelineNext, CallOrStage
  <2>2. stage' # "initial"
    <3>1. CASE InitialStreamBreaks
      BY <3>1 DEF InitialStreamBreaks, InitialRaises
    <3>2. CASE stage # "initial"
      BY <1>1, <2>1, <3>2, StageMoves
    <3>3. QED BY <1>5, <3>1, <3>2 DEF Stages
  <2>3. QED BY <1>3, <2>1, <2>2 DEF Unused
<1>6. CASE InitialStreamEnds
  <2>1. /\ stage = "initial" /\ stage' = StageAfter("initial")
        /\ UNCHANGED <<advisor, reflector, fallbacks, step, fallbacks_used>>
        /\ consulted' \in Fallbacks
    BY <1>6 DEF InitialStreamEnds, advisorVars
  <2>2. consulted' = << >> /\ fallbacks_used' = << >> /\ << >> \in Seq(Models)
    BY <2>1 DEF NoInitialFallback, StreamCounts, Unused
  <2>3. Fresh' /\ Counted'
    BY <1>1, <2>1, <2>2, FirstCounted
  <2>4. stage' # "initial"
    BY <2>1 DEF StageAfter
  <2>5. QED BY <1>1, <2>3, <2>4 DEF CountInv, Unused
<1>7. CASE ClientLeaves
  <2>1. stage' # "initial"
    BY <1>1, <1>7, LeavingSeen
  <2>2. QED BY <1>1, <1>7, <2>1, ClientLeavesCounted DEF CountInv, Unused
<1>8. QED BY <1>4, <1>5, <1>6, <1>7 DEF StreamNext, Progress

\* The trailer loses the fallbacks of the initial stream only: for any number of
\* turns and any replies, one behind an initial answer that took no fallback
\* reports every fallback of every call as often as it was consulted.
THEOREM OnlyInitialFallbacksAreLost ==
    ASSUME NoInitialFallback
    PROVE  Stream => []TrailerReportsFallbacks
<1>1. StreamInit => StreamCounts
  BY StreamInitEstablishes, CountInitEstablishes DEF StreamInit, PipelineInit, StreamCounts,
     Unused
<1>2. StreamCounts /\ BodyInv => TrailerReportsFallbacks
  <2> SUFFICES ASSUME StreamCounts, BodyInv, NEW i \in FramesOf("trailer"), NEW m \in Models
               PROVE  Times(m, Frames[i].fallbacks) = Times(m, consulted)
    BY DEF TrailerReportsFallbacks
  <2>1. i \in 1..Len(Frames) /\ Frames[i].type = "trailer"
    BY FramesNumbered DEF FramesOf
  <2>2. stage = "done"
    BY <2>1 DEF BodyInv, FramesOK, OnlyOf
  <2>3. Frames[i].fallbacks = fallbacks_used
    BY <2>1 DEF BodyInv, FramesOK, TrailerTrue
  <2>4. Times(m, fallbacks_used) = Times(m, consulted)
    BY <2>2, AllCountedAtEnd DEF StreamCounts, FallbacksAllReported
  <2>5. QED BY <2>3, <2>4
<1>3. Stream => []StreamCounts
  BY <1>1, CountsStepKeeps, PTL DEF Stream
<1>4. QED BY <1>2, <1>3, BodyInvariance, PTL

=============================================================================
