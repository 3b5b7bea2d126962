----------------------------- MODULE StreamRun ------------------------------
(***************************************************************************)
(* Orchestrator.stream_run: the pipeline of one request with stream: true. *)
(* The initial answer is passed on delta by delta; the stages after it are *)
(* those of the buffered run (Orchestrator), and when one ends the log is  *)
(* walked for what it has to say to the client.  The generator stands      *)
(* still at every yield until its frame is taken, and the client may hang  *)
(* up at any time.                                                         *)
(***************************************************************************)
EXTENDS Orchestrator

CONSTANTS Deltas,            \* what one delta carries; Blank is the empty string
          Fallbacks,         \* fallbacks the streaming walker may have consulted
          MaxDeltas          \* bound: deltas of the initial answer (for safety)

ASSUME StreamAssumption ==
    /\ Deltas \subseteq Texts
    /\ Fallbacks \subseteq Seq(Models)
    /\ MaxDeltas \in Nat

VARIABLES
    pending,      \* frames the generator has yet to yield before it goes on
    sent,         \* frames the client has got
    client        \* "reading" or "left"

streamVars == <<vars, pending, sent, client>>

(***************************************************************************)
(* Frames.  `of', the event a revision was read from, is history.          *)
(***************************************************************************)
Delta(text)  == [type |-> "delta", text |-> text]
Finished     == [type |-> "finish"]
Done         == [type |-> "done"]
RevisionOf(i) == [type |-> "revision", of |-> i, text |-> events[i].text]

\* The chosen positions as the walk over the log comes to them.
LogOrder(chosen) ==
    [k \in 1..Cardinality(chosen) |->
        CHOOSE i \in chosen : Cardinality({j \in chosen : j <= i}) = k]
RevisionsOf(chosen) ==
    [k \in 1..Cardinality(chosen) |-> RevisionOf(LogOrder(chosen)[k])]

ReflectionFrames_Break ==                 \* variant: leaves the walk like the other
    LET revised == OfType(events, "reflect_revised")
    IN  IF revised = {} THEN << >> ELSE <<RevisionOf(Min(revised))>>

ReflectionFrames == RevisionsOf(OfType(events, "reflect_revised"))

AdvisorFrames_WholeLog ==                  \* variant
    RevisionsOf(OfType(events, "advisor_revised") \cup OfType(events, "reflect_revised"))

\* The first event with a text; an empty revision is not worth a frame.
AdvisorFrames ==
    LET revised == {i \in OfType(events, "advisor_revised") : events[i].text # Blank}
    IN  IF revised = {} THEN << >> ELSE <<RevisionOf(Min(revised))>>

\* build_response_headers, for the headers whose value the stages decide.
Trailer ==
    [type |-> "trailer",
     turns |-> Cardinality(OfType(events, "reflect_critique")),
     fallbacks |-> fallbacks_used,
     skipped |-> skip # "none",
     reason |-> SkipReasonHeader]

-----------------------------------------------------------------------------
StreamInit ==
    /\ PipelineInit
    /\ pending = << >> /\ sent = << >> /\ client = "reading"

Going == client = "reading" /\ pending = << >>

InitialText(frames) ==
    LET said == {i \in DOMAIN frames : frames[i].text # Blank}
    IN  IF said = {} THEN Blank ELSE frames[Max(said)].text

DeltaYielded ==
    /\ stage = "initial" /\ Going
    /\ Len(sent) < MaxDeltas
    /\ \E text \in Deltas : pending' = <<Delta(text)>>
    /\ UNCHANGED <<vars, sent, client>>

InitialStreamEnds_Unfinished ==            \* variant: no finish chunk
    /\ stage = "initial" /\ Going
    /\ initial_answer' = InitialText(sent) /\ answer' = InitialText(sent)
    /\ events' = Append(events, [type |-> "initial", text |-> InitialText(sent)])
    /\ consulted' \in Fallbacks
    /\ stage' = StageAfter("initial")
    /\ UNCHANGED <<cfg, step, turn, critique, usage, signal, fallbacks, route,
                   last_answer, advisorVars, fallbacks_used, pending, sent, client>>

\* The text is what the deltas say together (abstracted to one of them).  The
\* stream yields neither usage nor the list of fallbacks it consulted.
InitialStreamEnds ==
    /\ stage = "initial" /\ Going
    /\ initial_answer' = InitialText(sent) /\ answer' = InitialText(sent)
    /\ events' = Append(events, [type |-> "initial", text |-> InitialText(sent)])
    /\ consulted' \in Fallbacks
    /\ stage' = StageAfter("initial")
    /\ pending' = <<Finished>>
    /\ UNCHANGED <<cfg, step, turn, critique, usage, signal, fallbacks, route,
                   last_answer, advisorVars, fallbacks_used, sent, client>>

\* The error is logged and the body just ends.
InitialStreamBreaks ==
    /\ Going
    /\ InitialRaises
    /\ UNCHANGED <<pending, sent, client>>

\* What the generator yields when the stage it was in has ended.
Closing == IF stage' = "done" THEN <<Trailer', Done>> ELSE << >>

StageFrames ==
    IF stage' = stage \/ stage' \in {"raised", "hung"} THEN << >>
    ELSE (IF stage = "reflect" THEN ReflectionFrames' ELSE AdvisorFrames') \o Closing

\* One step of the stages after the initial answer.  A coroutine left behind by
\* a failure goes on without the generator.
Stages(step_) ==
    /\ stage # "initial"
    /\ Going \/ stage = "raised"
    /\ step_
    /\ pending' = StageFrames
    /\ UNCHANGED <<sent, client>>

FrameSent ==
    /\ client = "reading" /\ pending # << >>
    /\ sent' = Append(sent, Head(pending))
    /\ pending' = Tail(pending)
    /\ UNCHANGED <<vars, client>>

BodyEnded ==
    \/ client = "left"
    \/ stage = "raised"
    \/ stage = "done" /\ pending = << >>

Cancelled(coroutine) ==
    IF Awaiting(coroutine) THEN [coroutine EXCEPT !.at = "failed"] ELSE coroutine

ClientLeaves_AdvisorOnly ==                \* variant
    /\ ~BodyEnded
    /\ client' = "left" /\ pending' = << >>
    /\ stage' = IF stage = "done" THEN "done" ELSE "raised"
    /\ advisor' = Cancelled(advisor)
    /\ UNCHANGED <<loopVars, route, initial_answer, last_answer, reflector, skip,
                   advisor_score, fallbacks_used, consulted, sent>>

\* The server cancels the task that runs the generator; a gather passes the
\* cancellation on to both coroutines.
ClientLeaves ==
    /\ ~BodyEnded
    /\ client' = "left" /\ pending' = << >>
    /\ stage' = IF stage = "done" THEN "done" ELSE "raised"
    /\ advisor' = Cancelled(advisor) /\ reflector' = Cancelled(reflector)
    /\ UNCHANGED <<loopVars, route, initial_answer, last_answer, skip, advisor_score,
                   fallbacks_used, consulted, sent>>

Progress ==
    \/ DeltaYielded \/ InitialStreamEnds \/ InitialStreamBreaks
    \/ Stages(CallOrStage)

StreamNext == Progress \/ Stages(Plugins) \/ FrameSent \/ ClientLeaves

\* The calls of the stages end, as in the buffered run.  Nothing makes the stream
\* of the initial answer end (the read timeout starts again with every chunk),
\* nor a client read on or a plugin come back.
Stream == /\ StreamInit /\ [][StreamNext]_streamVars
          /\ WF_streamVars(Stages(CallOrStage))

-----------------------------------------------------------------------------
(***************************************************************************)
(* Properties                                                              *)
(***************************************************************************)
Frames == sent \o pending
FramesOf(type) == {i \in DOMAIN Frames : Frames[i].type = type}

\* The pipeline below keeps its types and frames are of the kinds the protocol
\* names.
StreamTypeOK ==
    /\ PipelineTypeOK
    /\ client \in {"reading", "left"}
    /\ \A i \in DOMAIN Frames :
          Frames[i].type \in {"delta", "finish", "revision", "trailer", "done"}

Rank == [delta |-> 1, finish |-> 2, revision |-> 3, trailer |-> 4, done |-> 5]

\* Whatever the order of the stages and wherever a failure or the client cuts
\* the stream: deltas, one finish chunk, revisions, one trailer, one end marker,
\* in this order; and a revision is never sent before the initial answer is
\* closed (the six numbered kinds of events in stream_run's docstring).
FramesInOrder ==
    /\ \A i, j \in DOMAIN Frames :
          i < j => \/ Rank[Frames[i].type] < Rank[Frames[j].type]
                   \/ /\ Frames[i].type = Frames[j].type
                      /\ Frames[i].type \in {"delta", "revision"}
    /\ FramesOf("revision") \cup FramesOf("trailer") # {} => FramesOf("finish") # {}
    /\ FramesOf("done") # {} => FramesOf("trailer") # {}

Sent(i) == {k \in FramesOf("revision") : Frames[k].of = i}

\* The replay of the log after each stage repeats nothing and loses nothing: a
\* client that got the end marker got every revision of the reflection loop
\* once, in the order of the turns, and an advisor's revision once.
RevisionsOnce ==
    /\ \A i \in DOMAIN events : Cardinality(Sent(i)) <= 1
    /\ \A k, l \in FramesOf("revision") :
          /\ k < l
          /\ events[Frames[k].of].type = "reflect_revised"
          /\ events[Frames[l].of].type = "reflect_revised"
          => Frames[k].of < Frames[l].of
    /\ FramesOf("done") # {} =>
          \A i \in DOMAIN events :
              \/ OnPath(i) /\ events[i].type = "reflect_revised"
              \/ events[i].type = "advisor_revised" /\ events[i].text # Blank
              => Sent(i) # {}

\* The end marker is earned: it is sent only for a pipeline that ran to its end,
\* whose coroutines are all back and whose trailer tells of every critique and
\* of a skipped advisor; a stream that broke ends without it.
EndMarkerEarned ==
    FramesOf("done") # {} =>
        /\ stage = "done"
        /\ ~Awaiting(advisor) /\ ~Awaiting(reflector)
        /\ \A i \in FramesOf("trailer") :
              /\ Frames[i].turns = Cardinality(OfType(events, "reflect_critique"))
              /\ Frames[i].skipped <=> Skipped

\* The frames of revisions the answer can have come from.
KeptRevisions == {i \in FramesOf("revision") : ~Dropped(Frames[i].text)}

LastText ==
    LET said == {i \in FramesOf("delta") : Frames[i].text # Blank}
    IN  IF KeptRevisions # {} THEN Frames[Max(KeptRevisions)].text
        ELSE IF said # {} THEN Frames[Max(said)].text ELSE Blank

\* Unless the advisor or the reflector beside it has had a say, the last text a
\* client has got by the end marker is the answer the pipeline ended with.  An
\* empty revision of a parallel loop does not count: it is sent, though the
\* pipeline goes on with the answer before it.
ClientHasAnswer ==
    /\ FramesOf("done") # {}
    /\ OfType(events, "advisor_revised") = {}
    /\ \A i \in OfType(events, "reflect_revised") : OnPath(i)
    => LastText = answer

\* Once the client has hung up, nothing more is called for it or written to its
\* log: the cancellation reaches both coroutines of a parallel advisor.
QuietAfterLeaving ==
    [][client = "left" => UNCHANGED <<events, usage, consulted>>]_streamVars

\* The body of a stream ends unless the upstream stream of the initial answer
\* never does, a plugin never comes back, a turn of the parallel loop raised, or
\* the client neither reads nor hangs up.
BodyEnds ==
    \/ <>BodyEnded
    \/ <>[](stage = "initial")
    \/ <>[](advisor.at = "plugins")
    \/ <>[](stage = "hung")
    \/ <>[](pending # << >>)

\* The documented parity of the two paths: the fallbacks header of the trailer
\* aggregates what every call consulted, as it does in a buffered response.
TrailerReportsFallbacks ==
    \A i \in FramesOf("trailer") : \A m \in Models :
        Times(m, Frames[i].fallbacks) = Times(m, consulted)
=============================================================================
