# Moaxy in TLA+

Moaxy is an OpenAI-compatible chat proxy. It answers one
`POST /v1/chat/completions` with several calls to an upstream model: an initial
answer, turns of self-reflection, an advisor that approves or asks for a
revision, each call walking a chain of fallback models with retries. This
directory specifies that program: what one call can end in, the walkers, the two
reflection loops, the pipeline as it answers at once and as it streams, and the
server around it with its key gate, its route table and the admin calls that change
it. TLC checks the models on small instances; TLAPS proves every safety property
that holds, and the refinements by walkers, parallel loop and server, for every value
of the constants, in eight proof modules.

Paths below are relative to `src/src/moaxy/`.

## The system

| Component | State it keeps | Operations | Hard part | What makes it correct |
|---|---|---|---|---|
| Adapters (`adapters/ollama.py`, `openrouter.py`) | an HTTP client | `chat`, `stream` | every way an exchange fails | each failure ends in the error class that says whether another try may help |
| Buffered walker (`pipeline/fallback.py`) | loop counters of one call | `call_with_fallbacks` | retries and fallbacks in two nested loops | budget spent in chain order, truthful report, truthful error |
| Streaming walker (same file) | the same, and a consumer | `call_with_fallbacks_stream` | a stream breaks after it delivered | budget as above; what the consumer has got |
| Sequential reflection (`pipeline/orchestrator.py`) | answer, turn, log | `_run_reflection` | early exit on the last or an earlier turn | an exit is earned by a well-formed critique |
| Parallel reflection | one asyncio task per turn | `_run_reflection_parallel` | tasks, events, cancellation, gather | the same as the sequential loop |
| Pipeline | the request's `PipelineContext` | `run` | two stage orders, two coroutines on one context | answers chain; skips follow the last critique; nothing runs on |
| Advisor (`pipeline/advisor.py`) | none | `parse_advisor_response` | precedence of decision line and markers | one verdict per text |
| Streaming pipeline | context and frames sent | `stream_run` | replays the log as SSE frames, client leaves | every answer sent once, in order, with an end |
| Proxy route (`server/routes/proxy.py`) | none | `chat_completions` | order of checks, error translation | the status tells whose fault it was |
| Route matcher (`routing/matcher.py`) | routes, a selector each | `match`, `add_route`, `remove_route` | CRUD between requests, round robin | first match wins; every backend has its turn |
| Admin API (`server/routes/admin.py`) | none (the matcher's) | list, get, create, delete | conflicts with requests in flight | names stay unique |
| Auth gate (`server/auth_gate.py`) | principal index | one check a request | exempt paths, several headers | no request passes without a principal |
| Error translation (`server/errors.py`) | none | exception to status | one family of errors per cause | as the proxy route |
| Plugin manager (`plugins/manager.py`) | registry, loaded flag | `load`, `run`, `shutdown` | never made by the served program | out of scope |
| Configuration (`config/`, `models/config.py`) | none | load at start-up | declarative | the ranges the other parts rely on |
| Benchmark (`benchmark/`) | result files | runs the server | none the server depends on | out of scope |

A request goes auth gate -> proxy -> matcher -> `Orchestrator.run` or
`stream_run` -> walker -> adapter. Everything runs on one asyncio event loop, so
code between two `await`s is atomic; requests share the matcher and the adapters
and nothing else. The stages of one request share its `PipelineContext` (`events`,
`usage`, `last_confidence`, `last_score`, `fallbacks_used`); the parallel modes
let several coroutines write to it at once.

What is hard: sequences of transient and permanent failures; an exception in one
of several tasks gathered together; cancellation by an early exit or by a caller
who leaves; a stream that breaks when part of it has been delivered; values left on
the context by an earlier critique and read later. `PROJECT.json` lists each of
these at its line, with the properties that would catch it.

## Modules

| Module | Models | Composed with |
|---|---|---|
| `Upstream` | outcomes of an adapter call, `_is_transient`, `_translate_upstream_exception` (definitions only) | extended by both walkers |
| `Failover` | the promise of a walker (abstract) | implemented by both walkers |
| `FallbackWalker` | `call_with_fallbacks` | |
| `StreamWalker` | `call_with_fallbacks_stream` with its consumer | |
| `ReflectionTurn` | what one turn decides and logs (definitions only) | extended by all loops |
| `Reflection` | `_run_reflection`, and the specification the parallel loop implements | extended by `Orchestrator` |
| `ReflectionParallel` | `_run_reflection_parallel` | `INSTANCE Reflection` |
| `Orchestrator` | `run` with its stages | extends `Reflection` |
| `StreamRun` | `stream_run` with the client behind it | extends `Orchestrator` |
| `Routing` | `RouteMatcher`, the backend selectors, the validators of the route list; also the abstract specification of the matcher (`RoutingSpec`) | implemented by `Server` |
| `AuthGate` | keys, the headers that carry them (definitions only) | extended by `Server` |
| `Server` | requests in flight: gate, chat handler, admin handlers, errors | extends `Routing`, `AuthGate`, `Upstream` |
| `FallbackWalkerProofs`, `StreamWalkerProofs`, `ReflectionParallelProofs`, `OrchestratorProofs`, `RoutingProofs`, `ServerProofs`, `PipelineReportsProofs`, `StreamRunProofs` | theorems | each extends the module it is about; `PipelineReportsProofs` also builds on `OrchestratorProofs`, and `StreamRunProofs` on both |
| `MC...` | model values and replies for TLC | |

**Upstream.** `Errors` is the set of exceptions a call may raise, by kind and
HTTP status. `ChatErrors` and `StreamOpenErrors`/`MidStreamErrors` are what the
two adapters make of httpx exceptions, statuses and bodies; both adapters map them
alike, so one set serves both. Kind `other` is any exception outside the
`UpstreamError` family: JSON of the wrong shape raises `AttributeError`.

**FallbackWalker.** One behaviour is one call. `index` and `attempt` are the two
`for` loops; every outcome of `adapter.chat` is an action: `CallSucceeds`,
`CallFailsForGood` (the `raise`), `CallFailsRetry` (the `continue`),
`CallFailsNextModel` (the `break`, and the exception after the loops). `tries` is
history.

**StreamWalker.** `phase` separates opening a stream, reading it and standing at
the `yield`, because an attempt may fail in the first two and the consumer may
leave in all three. The consumer is part of the module. A generator has no return
value, so `Failover`'s report of fallbacks is read off the position in the chain.

**ReflectionTurn, Reflection, ReflectionParallel.** A critique is the triple the
parsers see: is the marker there, the confidence in percent, the score. Weights
and threshold are percents, so `parse_weighted_signal` is exact integer
arithmetic; the code's floating-point rounding is not modelled. An answer is a
model value, `Blank` the empty text. In the parallel module `task[t]` is where
`_turn_pair(t)` stands, `turn_ready` and `latest_answers` are the arrays of the
code, `gather` the caller. `judged` in an event is history: the answer the call
worked on. `last_combined_signal` is written and never read by the code and is left
out.

**Orchestrator.** A stage is a value of `stage`; the reflection stage runs the
turns of the sequential `Reflection`, for `reflection.parallel` routes too: the run
`reflection_parallel` and the theorem behind it show that the task graph logs and
reports the same. What the two loops return differs by the fold over the turns, which
passes a blank revision over in the parallel loop: `Dropped` says when, and
`last_answer` is the fold so far, while `answer` is what the next turn works on. The
one difference in failure, the hang described below, is the stage `hung`. With both
`parallel` flags the advisor stage has two coroutines, `advisor` and `reflector`,
each a record of the await it stands at and what it will return. A plugin call is a
step of its own because it is an await; a deployment without a plugin manager (the
proxy creates the orchestrator without one) takes it at once. `consulted` is
history: fallbacks in the order calls ended.

**StreamRun.** The stages are the actions of `Orchestrator`, conjoined with what the
generator yields when one of them ends: `pending` holds the frames it has yet to
yield, and no stage moves while there are any (`Going`), because the generator
stands still at `yield` until the frame is taken (`FrameSent`). The initial answer
comes from `StreamWalker`'s code, so here it is a series of deltas and the chain the
walk may have used. The text that deltas say together is abstracted to the last one
that is not empty. `ClientLeaves` is the cancellation of the generator: it reaches
every coroutine of the request, in one step.

**Routing.** `AddRoute`, `RemoveRoute` and `Match` are the three methods. A route's
globs are abstracted to the set of models they match on the chat path; the position
in the table decides, as in the code. A selector is made at the first match of its
route's name. `random.choices`-like weighting becomes the set of positions some
random target selects, the target being its whole part; `index` is the
ever-growing counter of the code modulo the length of the list, the only thing read
of it. `served` is history: how often each backend had its turn.

**AuthGate, Server.** A slot of `requests` is one HTTP request; its `phase` is the
await it stands at: the gate is passed in one step (`GateAdmits`, `GateRejects`), a
handler that reads a body suspends at `await request.json()` (phase `body`), the
chat handler again while the pipeline runs. Everything between two awaits is one
action, as on the event loop. Several slots share `routes` and `selectors`. A
pipeline may end in every error `Upstream` knows, and `PipelineEnds` gives it the
status of `_translate_upstream_exception`. `ledger` is history: what the responses
have told clients about each name.

## Runs

| Run | Question | Result |
|---|---|---|
| `walker` | does the buffered walker keep its promise? | holds |
| `stream_walker` | does the streaming one, wherever a stream breaks? | holds |
| `stream_walker_winner` | is only the successful stream delivered? | violated |
| `reflection_parallel` | is the task graph the sequential loop? | holds |
| `reflection_parallel_hang` | does the failure of a turn reach the caller? | violated |
| `reflection_parallel_blank` | also when a revision is blank? | violated |
| `pipeline` | do stages, skips, fallbacks and coroutines fit together? | holds |
| `pipeline_skip_reason` | does a skip reason mean a skip? | violated |
| `pipeline_torn_down` | is nothing left running after a failure? | violated |
| `stream_run` | does the body of a stream tell what the stages did, in order, and end? | holds |
| `stream_fallbacks` | does the trailer report every fallback consulted? | violated |
| `server` | do concurrent chat and admin requests leave a sound route table, and each a truthful answer? | holds |

### What holds

* `BudgetSpentInOrder`, `StreamBudgetInOrder`: no model is called more than
  `max(retry, 0) + 1` times, nor before each model ahead of it has spent its budget.
* `ExhaustedMeansSpent`: exhaustion is never reported early, and is never turned
  into a client error by the proxy.
* `ImplementsFailover`, `StreamWalksChain`: each walker implements `Failover`; the
  buffered one reports exactly the fallbacks it consulted, in order.
* `DeltasInWalkOrder`: text of an earlier attempt never follows that of a later one.
* `OneTurnInFlight`, `EarlyExitIsFinal`, `ImplementsSequential`: the tasks take
  turns, an early exit ends the loop although the cancelled tasks are somewhere,
  and log, usage, signal, answer and fallbacks are those of the sequential loop.
* `AnswersChain`: in both orders every call of the loop works on the answer given
  last, the advisor's calls work on the answer kept last, and the response carries
  that one. The two part only behind a blank revision of a parallel loop: the next
  turn gets it, the stages after the loop do not.
* `SkipFollowsLastCritique`: a finished run has skipped the advisor exactly if the
  last critique said 85 % or scored 8. With advice first it never skips.
* `EarlyExitEarned`: the loop leaves early only on a critique with a signal that
  reaches the threshold, at a threshold of zero too. The self-reflection beside the
  advisor has no malformed check; the property speaks of the loop only.
* `FallbacksAllReported`, `PathsJoined`: nothing of a parallel path is lost, and
  none is running when the run goes on.
* `FramesInOrder`, `RevisionsOnce`: deltas, finish chunk, revisions, trailer and end
  marker come in this order, and each loop revision is sent once, in log order.
* `EndMarkerEarned`: `[DONE]` is sent only by a run that has finished all its stages,
  behind a trailer that agrees with what they left: a stream without it has failed.
* `ClientHasAnswer`: the last text a finished stream has shown is the answer, blank
  revisions of a parallel loop passed over. The advisor's own revisions and those of a
  reflector beside it are the exceptions named in the property.
* `QuietAfterLeaving`: once the client has hung up nothing is called, logged or sent.
* `SelectorsFollowRoutes`: a name removed and created again is never served from the
  old list or from the middle of the old cycle.
* `RoundRobinFair`: no backend of a round-robin route is more than one request ahead
  of another. `WeightlessIdle`: an entry of weight zero gets nothing while some
  other entry has a weight.
* `NeverPreempted`: a created route takes no model from a route that stays.
* `TableAddsUp`: creations and deletions overlapping at the await of the body are
  answered so that the answers add up to the table.
* `UnknownBackendIsRuntime`: only a route created at run time can be refused for an
  unknown backend; the validators of the configuration stop the others.
* `AliasTransparent`: a request under an alias gets the chain and the budget its
  target would get.
* `OnlyKeyHoldersChangeRoutes`: the table changes only with the acknowledgement of an
  admin request that presented a known key, whatever is exempt from the gate.
* `EndsUnlessTurnFails`, `RunEnds`, `BodyEnds`: see fairness.

### What does not

The six violated runs each state what a comment or docstring of the code
promises (quoted in `PROJECT.json`, "findings").

1. *A failing turn hangs the parallel loop.* With two or more turns, a turn other
   than the last that raises never sets the next turn's event; the gather waits for
   ever.
2. *Blank revisions.* The sequential loop returns a blank revision, the parallel
   one the last answer that was not blank.
3. *Skip reason.* The header names the reason for which the advisor would be
   skipped now. With advice first, a confident critique after the advisor ran reads
   as a skip.
4. *Torn down cleanly.* When one of the two parallel paths raises, the other goes on
   after the run has failed.
5. *Only the winner's text.* Deltas of a stream that broke are followed by the whole
   text of the next attempt.
6. *Fallbacks of a streamed initial answer.* The trailer omits the fallbacks the
   initial call consulted; the streaming walker has no way to report them.

Smaller divergences met while modelling, which no run states:

* The frame of an advisor revision carries the text of the logged event, which is
  the advisor's feedback and not the answer the primary made of it.
* With advice first and both `parallel` flags the run discards the answer of the
  self-reflection, but its revision is still streamed.
* A blank revision of a `reflection.parallel` route is streamed, though the pipeline
  goes on with the answer before it (finding 2, as a client sees it).
* The comment at `server/routes/proxy.py:434` speaks of a final SSE error event; the
  generator logs and returns.
* The HTTP headers of a stream are built from an empty context, while the comment in
  `stream_run` has the trailer mirror them.
* Where a request carries several keys, the order of the request's headers decides
  and not that of `header_names`, as the docs of the gate suggest.

### Bounds

* Walkers: chains of up to three models (primary, a fallback in the middle, a last
  one; for the buffered walker a model that occurs twice), budgets from a negative
  value to three attempts (two when streaming), one status of each class the code
  tells apart. The code looks at no more than the position in the chain, so a fourth
  model repeats the middle one. The theorems remove these bounds for both walkers.
* `MaxDeltas = 2`: an attempt can break before, between and after its deltas.
* Reflection: `turns` is 0 to 3, as the configuration allows, so that is no bound.
  Critiques: clears on confidence, clears only by its score, misses, malformed; the
  thresholds 0 and 72 %.
* Pipeline: up to two turns, so that there is a last turn and one before it.
  Critiques at 85 %, at 84 % with score 7, at 60 % with score 8, and malformed;
  revisions with a text and blank ones, under both loops, in the streamed run as well.
* Advisor: approve by marker, revise by decision line against the marker, and
  neither; when streaming, also a revision.
* Stream: `MaxDeltas = 2`, with empty deltas; up to two turns. Frames of three turns
  differ from those of two in number only. The code bounds no stream: the bound is for
  safety, and `BodyEnds` does not rest on it.
* Server: `MaxRequests = 4` in all and two slots, interchangeable (symmetry). Four
  requests make the longest history a property needs: a match, a removal, a creation
  of the same name and a match again, or a full round of a list of two and one
  more, with any two of them overlapping. Routes: a round-robin one with an alias, a
  weighted catch-all with a zero weight, one with an unknown backend and one with
  none, the last two redefining the names of the first two. The theorems remove
  these bounds.

Deadlock is not checked: each model is one call or one request, or serves a bounded
number of them, and stops when it has ended.

## Fairness

* `FallbackWalker`, `StreamWalker`: none. The timeout of an adapter bounds one read
  and starts anew with each, and a consumer may stop asking, so the code guarantees no
  end of a call, and none is stated.
* `ReflectionParallel`: weak fairness of the tasks together and of the gather. The
  event loop runs what is ready. Assumed: every awaited call ends, as it does when the
  upstream answers, fails or falls silent (the read timeout, and the bounded loops of
  the walk); an upstream that trickles for ever is left out. No fairness makes the
  caller leave.
* `Orchestrator`: weak fairness of calls and stages, under the same assumption; none of
  plugins, which are the operator's code and may never return; `RunEnds` says so.
* `StreamRun`: weak fairness of the calls and stages behind the initial answer. None of
  the initial stream, which nothing in the code ends, of plugins, of the client taking
  frames, or of it leaving; `BodyEnds` therefore says that a body ends, or the initial
  stream never does, or a plugin never comes back, or a turn of the parallel loop
  raised, or the client takes no more.
* `Server`: none. Every property of it is one of safety.

## Proofs

Each theorem is over the module's own specification, for all values of its
constants under the named ASSUMEs of the modules it extends (arguments are
sequences over the models, thresholds and counters are numbers, routes are records
of the right shape); the runs evaluate those assumptions. In each proof module an
invariant is shown to hold initially and to be kept by every action, one lemma or
step per action, and the theorems follow from it.

| Module | Theorems | Proved property |
|---|---|---|
| `FallbackWalkerProofs` | `WalkerTypes`, `WalkerBudget`, `WalkerExhaustion`, `WalkerImplementsFailover` | `TypeOK`, `BudgetSpentInOrder`, `ExhaustedMeansSpent`, `ImplementsFailover` |
| `StreamWalkerProofs` | `StreamTypes`, `StreamBudget`, `StreamDeltas`, `StreamImplementsFailover` | `TypeOK`, `StreamBudgetInOrder`, `DeltasInWalkOrder`, `StreamWalksChain` |
| `ReflectionParallelProofs` | `ParallelTypes`, `TurnsTakeTurns`, `ExitEndsLoop`; without blank revisions `ParallelIsSequential`, `ReturnsSequentialAnswer` | `TypeOK`, `OneTurnInFlight`, `EarlyExitIsFinal`; `ImplementsSequential`, `SameAnswerAsSequential` |
| `OrchestratorProofs` | `PipelineTypes`, `PathsAreJoined`, `AnswersAreHandedOn` | `PipelineTypeOK`, `PathsJoined`, `AnswersChain` |
| `PipelineReportsProofs` | `FallbacksAreReported`, `ExitsAreEarned`, `SkipsFollowCritiques`; for some routes `LoneAdvisorsAreTornDown`, `ReasonsAreTrueReflectingFirst` | `FallbacksAllReported`, `EarlyExitEarned`, `SkipFollowsLastCritique`; `TornDownCleanly`, `ReasonMeansSkipped` |
| `StreamRunProofs` | `StreamedTypes`, `StreamAnswersAreHandedOn`, `NothingForTheGone`, `BodiesAreInOrder`, `MarkersAreEarned`, `RevisionsAreSentOnce`, `ClientsHaveTheAnswer`, `StreamExitsAreEarned`, `StreamSkipsFollowCritiques`; without initial fallbacks `OnlyInitialFallbacksAreLost` | `StreamTypeOK`, `AnswersChain`, `QuietAfterLeaving`, `FramesInOrder`, `EndMarkerEarned`, `RevisionsOnce`, `ClientHasAnswer`, `EarlyExitEarned`, `SkipFollowsLastCritique`; `TrailerReportsFallbacks` |
| `RoutingProofs` | `RoutingTypes`, `SelectorsBelong`, `RoundRobinIsFair`, `NobodyPreempted`, `WeightlessStaysIdle` | `RoutingTypeOK`, `SelectorsFollowRoutes`, `RoundRobinFair`, `NeverPreempted`, `WeightlessIdle` |
| `ServerProofs` | `ServerIsMatcher`, `ServerSelectors`, `ServerRoundRobin`, `ServerPreemptsNobody`, `ServerWeights`, `ServerTypes`, `ServerAddsUp`, `ServerBackends`, `ServerAliases`, `ServerKeyHolders` | `Spec => RoutingSpec`, the four of the matcher, `ServerTypeOK`, `TableAddsUp`, `UnknownBackendIsRuntime`, `AliasTransparent`, `OnlyKeyHoldersChangeRoutes` |

**Walkers.** `BudgetSpentInOrder` is not inductive: it does not tie `tries` to the
loop counters. `IInv` adds `Progress` (positions before `index` have spent their
budget, `index` has been tried `attempt` times while calling, later ones never),
`Noted` (`fallbacks_used` is `SubSeq(chain, 2, index - 1)` while calling, and up to
`index` afterwards) and `Left` (what the last error was when the walk moved on or
gave up). The refinement theorem maps `StartWalk` and retries to stutters and uses
`Noted` for the report. The streaming walker has the same shape; its `Progress` also
covers a stream being read, and the deltas are tied to the position in the chain.

**Parallel reflection.** `OneTurnInFlight` follows from `Woken` (a task past its wait
has its event set) and `InTurn` (where an event is set, every earlier task has
returned). This is the whole argument for the array of events. `EarlyExitIsFinal` is
part of the invariant; it needs that the task that logged the exit was the only one in
flight.

`ParallelIsSequential` is the refinement: a critique or a revision of a task is the
same step of the loop, the bookkeeping of tasks, events and gather a stutter. `RInv`
has what it needs: a woken turn holds the answer of the turn before it (`Handed`), one
that heard no critique has nothing to return (`Untouched`), the number of critiques in
the log tells the turn that is on (`Counted`), and the gather returns when no task is
left (`GatherWaits`), with what they left (`Reported`). `Spoken` says that a returned
task has a text. That is where the refinement needs `NoRevisionIsBlank`, and finding 2
is its counterexample without.

**Pipeline.** `PathsJoined` needs that a coroutine stands at an await only while its
stage is open or the run has failed (`Paths`). `AnswersChain` speaks of every position
of the log, and is proved from `Chain`, which describes the log backwards: whatever has
been appended, the current answer is the text of the latest event that gave one,
`last_answer` that of the latest event whose text is kept, the event's `judged` is the
latest before it, and an advisor that has finished before its self-reflection holds the
answer the stage will hand on (`Held`). That only a loop drops a text, and none before
the loop begins (`NothingDropped`), makes given and kept the same where a stage starts. `AdviceLogged` ties
the advisor's progress to what it has logged.

**Reports of the pipeline.** Two more invariants over that one. `Counted` says where the
fallbacks not yet reported are: with the loop or with a coroutine of the stage that is
open; a stage starts with nothing (`Fresh`). It counts each model, since the two
coroutines return in either order, and rests on a lemma that occurrences add up in a
concatenation. `Undecided` ties the signal of the request to the last critique of the
loop until the advisor is decided upon, and `Decided` holds the decision against that
critique afterwards, whatever the reflector beside the advisor logs or does to the
signal. `LoopJudged` says that a loop that revises holds the critique its log ends with.

**Streaming pipeline.** The stages behind a stream are steps of `Orchestrator`, so
`StreamInv` carries the invariant of the pipeline over; it adds `Reading` (only deltas
have been sent before the first answer, and there is a last one that says something,
if any does, so the answer is one of the texts) and `Left` (a client that has gone
leaves no coroutine at an await, which gives `QuietAfterLeaving`). `BodyInv` adds the
frames, sent and held back together: they follow the protocol, hold nothing of the
end before the last stage has ended, and a trailer among them is still true. That it
stays true rests on the pipeline doing nothing after `done`, and on `SkipLogged`: the
run carries a skip reason exactly when a skip is in the log.

`RevisionsOnce` and `ClientHasAnswer` are about the replay of the log when a stage ends.
`ReplayInv` compares frames with the log: every revision frame quotes an event of a
stage that has been replayed (`Told`, `Quotes`), no event is quoted twice
(`Unrepeated`), and for a client that reads on every such event worth a frame is sent or
held back (`AllTold`). That the walk through the log takes its positions once each and
in order is an argument about injections of finite sets. The log itself has each
question once (`AskedOnce`) and begins with the initial answer (`BeginsInitial`), so the
last revision told that is not dropped is the answer kept last, which `Chain` makes the
answer.

The reports of a stream are those of the buffered run: `StreamReports` and
`StreamCounts` show that the client's leaving and the frames disturb nothing in them.

**How far the findings reach.** Four of the six properties found violated are proved
where the code does keep them. `LoneAdvisorsAreTornDown` (finding 4): only a route
with both parallel flags leaves a coroutine behind. `ReasonsAreTrueReflectingFirst`
(finding 3): with reflection first and no reflector beside the advisor, a reason means
a skip; a reflector beside it overwrites the confidence and breaks this too. Both use
`Alone`: without both flags the reflector stays off, a failed run has no advisor at an
await, and behind a reflection an advisor that was called finds no reason to skip it
afterwards either. `OnlyInitialFallbacksAreLost` (finding 6): the trailer is short of
nothing but what the stream of the initial answer consulted. And finding 2 as above.

**Matcher and server.** The invariant of the matcher is the type,
`SelectorsFollowRoutes` and `Cycles`: while the index of a round-robin selector is k,
the first k entries are one ahead of the rest. Fairness of the round robin is a
consequence. `WeightlessIdle` needs that the weighted choice never lands on an entry of
weight zero: the cumulated weights grow only at an entry with a weight, by induction
over positions (`CountingUp`, which takes a set of numbers and no operator, so the
prover can use it). `ServerIsMatcher` shows that every action of the server is a step of
`RoutingSpec` or leaves the table alone, and carries the theorems of the matcher over.
The rest of the server needs `LedgerOK` (the ledger is 1 for the names in the table and
0 for others), `ConfiguredOK` (a configuration that passed the validators names known
backends) and `RequestsOK` (what a request in each phase knows of its caller and its
match).

Only model-checked: liveness (`EndsUnlessTurnFails`, `RunEnds`, `BodyEnds`), since the prover handles neither fairness nor ENABLED here. The six
violated properties are theorems under the stated conditions or not at all.

## Not modelled

* Prompts and message lists (`message_builders.py`, `prompts.py`): pure
  construction.
* Parsing down to characters: the models start from what the parsers return.
* Token arithmetic of `UsageAccumulator`: usage is the number of replies added.
* A cancelled caller of the buffered pipeline: uvicorn does not cancel the handler
  of a buffered request when the client goes.
* The plugin manager (`plugins/`): `create_app` never makes one, so load, run and
  shutdown are unreachable in the served program. The pipeline has the await at which
  plugins would run.
* Configuration files and environment substitution, start-up wiring, request ids,
  access logs, health and model listing: I/O, or no state that changes. Of the
  configuration, the validators of the route list are in `Routing`.
* Glob matching, secret scrubbing and error messages: text.
* The benchmark: a client of the server.

## Plan

Done, in this order: the walkers and their promise, the reflection loops, the
buffered pipeline, the matcher, the server, the streaming pipeline; then the proofs of
both walkers, the matcher, the server, the parallel loop with its refinement, and both
pipelines with the replay of the log; then how far the findings reach.

Left:

1. The failing turn (finding 1) as a step the sequential loop does not have: a theorem
   that a parallel loop which hangs has logged what the sequential one would have
   before the failure.
2. The pipeline as a component of `Server`. Today a request there is in the pipeline
   until `PipelineEnds`; nothing of the pipeline touches the table, so the composition
   would check no property the two modules do not.
3. `PluginManager`, should the served program come to make one.
