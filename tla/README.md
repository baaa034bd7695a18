# A verification project for codex-agent-builder

TLA+ models of the agent runtime in `src/`, model-checked with TLC on small
instances, with theorems checked by TLAPS for every instance. Paths below are
those of the repository: `src/src/...` is its TypeScript source.

## 1. The system

A run takes a user request to a plan of steps and executes the plan's tools
under policy, retry and approval rules (`src/README.md:13-30`). Around that core
are a general graph execution engine, a flow-document model with its design
agents, the streaming of trace and design events, and two products (flow design,
prompt lab). Everything runs in one JavaScript process: a call runs without
interruption to its next `await`, and calls, timers and promise callbacks
interleave at awaits. The run store is in memory: a run does not survive its
process, though a failed or abandoned one stays in the store. The prompt lab
does persist its sessions, in files several processes share, so there a process
may die between any two steps and the next one reads what it left.

| Component | State | Operations | Hard behaviour | What makes it correct |
|---|---|---|---|---|
| Agent runtime (`agent/runtime.ts`, `approval.ts`) | none of its own: the stored run, the position of each call | `run`, `runWithSkill`, `resume` | `resume` calls of one run overlap; every step is several awaits; a pause ends the call | results in step order, effects once, gated steps decided by an operator, a quiet run is resumable or ended |
| Step executor (`step-executor.ts`, `step-references.ts`) | a circuit breaker shared by all runs | `executeStep`, `executeApprovedTool` | parallel calls that fail apart, tools that outlive their timeout | no tool runs that policy forbids, no call stays pending |
| Run store (`state/`) | the run records | `save`, `get`, `update`, `appendStepResult` | append and update are two calls | the log and the index agree |
| Planner (`agent/planner.ts`, `llm/fake-plan-builders.ts`) | none | `createPlan`, `validatePlan`, fallback plans | a model's plan with bad references, a fallback that has to pass the same rules | a created plan's references resolve to earlier steps that give what is asked |
| Graph planner (`graph/planner.ts`) | none | `plan` | nested loops, joins | components are the loops, batches are layers |
| Graph engine (`graph/executor.ts`) | ready queue, slots, records, results | `run` | completions in any order, timeouts that go on, aborts, limits | once each, after dependencies, within limits, one honest and final result |
| Resilience (`resilience/`, `policy/`) | the breaker's entries | `resilientExecute` | concurrent calls of one tool, attempts that overlap | refusals have a cause and end, attempts within policy |
| Trace connection (`observability/websocket-trace-connection.ts`) | buffer, window, timer, drop count | `send`, `flush`, `close`, `updateConfig` | timers against sends, settings that change | order, bound, no silent loss, everything leaves |
| Tracer and timeline (`tracer.ts`, `unified-timeline.ts`) | sessions, connections, sequence numbers | `log`, `attach`, `detach`, `flush` | several runs, one default connection | events of a run in order, to its connections |
| Flow document (`flow/document.ts`) | an immutable document | `createNode`, `connectPorts`, `setPortPacket`, `propagatePortPacket` | id allocation, coercion, fan-out | ids unique, one edge per input, types compatible |
| Flow runtime (`flow/runtime.ts`, `executeFlowDesignSample` in `flow/design/core.ts`) | the document of a run | `execute` of each node | loops, missing inputs, conversions that fail half-way | a node reads what this run wrote, no write is lost |
| Flow design session (`flow/design-monitor.ts`) | document, visuals, started | node and edge mutations, `start`, `clear`, `complete` | stale visuals, events after completion | each event shows the document after its mutation |
| Flow design (`flow/design/`, `output-contract.ts`, `block-matching.ts`) | a cache of output contracts | contract, task type and graph, delegation, matching, brief, draft, reflection | rankings and fallbacks over a catalog, a model asked only when the catalog is unclear | a verdict agrees with the blocks, missing parts are named and suffice |
| Flow design agent (`flow/agent/agent.ts`, `skills.ts`) | the attempts, the notes | `design` | retries on one live session, a skill that throws anywhere | the observer is left with the returned flow; a retry learns |
| Resources, advisors (`resources/`, `advisors/`) | a cache of load promises | `loadResource`, `runLiteAdvisor` | loads that overlap, a load that fails, a fallback that throws | all loads of a process agree (a failure stays as well); an answer counts once |
| Flow design product (`product/`) | none | `design`, normalisation | fallbacks, mock models, synthetic samples hidden in a result | nothing is called fulfilled that is not |
| Prompt lab (`prompt-lab/`) | files of sessions, two histories, the last-run file; the process environment and listeners during a run | CLI commands, `runRequirement`, `runAdvisorEvaluation` | overlapping runs, torn files, processes that die | the last session is found, artifacts tell the outcome, nothing leaks |
| Diagnostics (`diagnostics/logger.ts`) | the global listeners | `add`, `remove`, `log...` | several runs | a run's listener goes with it |

The runtime calls the planner, the executor, the reflector and the finalizer and
awaits each; the executor calls `resilientExecute`, which calls the tool
registry; all of them write to the tracer, which sends each event to the
connections. The flow tools build documents through design sessions, whose
events join the trace on the unified timeline. The graph engine and the flow
runtime are called by tools and applications, not by the agent runtime; a sample
run of a flow gives the graph engine one node at a time. The prompt lab runs the
product, which runs the runtime, inside an environment it sets for the whole
process; both ask the same cache for their resources.

`PROJECT.json` lists the components with their files, and under "hazards" what
can go wrong in this code that a test would hardly reach, with the properties
that look for it.

## 2. The modules

| Module | Models | Kind |
|---|---|---|
| `RunLifecycle` | what the runtime promises about one run | abstract specification |
| `AgentRuntime` | runtime, step executor, references, store | specification, implements `RunLifecycle` |
| `AgentRuntimeProofs` | | theorems about `AgentRuntime` and `CreatedPlans` |
| `PlanPreparation` | `createPlan`, the repair of references, the fallback plans | operators |
| `CreatedPlans` | the replies of a model, step by step | specification over `PlanPreparation` |
| `GraphPlanner` | the plan and the scope of a graph | operators |
| `GraphPlans` | graphs with their start nodes, edge by edge | specification over `GraphPlanner` |
| `GraphExecutor` | one run of the graph engine | specification |
| `GraphProofs` | | theorems about `GraphPlans` and `GraphExecutor` |
| `Resilience` | `resilientExecute` and the circuit breaker | specification |
| `ResilienceProofs` | | theorems about `Resilience` |
| `TraceConnection` | one WebSocket trace connection | specification |
| `TraceConnectionProofs` | | theorems about `TraceConnection` |
| `FlowDocument` | flow documents: ids, ports, edges, packets, conversions | operators |
| `FlowSampleRun` | building a flow and running it on the graph engine | specification over `FlowDocument` |
| `FlowSampleRunProofs` | | theorems about `FlowSampleRun` |
| `FlowDesignSession` | a live design session and its events | specification over `FlowDocument` |
| `FlowDesignAgent` | the agent's attempts, its draft on a session, its judgement | specification that extends `FlowDesignSession` |
| `FlowDesignProofs` | | theorems about `FlowDesignSession`, `FlowDesignAgent` and `JudgedRequests` |
| `FlowFeasibility` | from a request to the verdict whether the blocks can serve it | operators |
| `JudgedRequests` | task graphs node by node, requests word by word | specification over `FlowFeasibility` |
| `RequirementAssessment` | the design brief, the assessment of a result, the policy of automatic runs | operators |
| `LabRequests` | the requests put to the lab, word by word | specification over `RequirementAssessment` |
| `LabMeasurements` | advisor decisions and their evaluation, timing of a run | operators |
| `MeasuredRuns` | evaluations scenario by scenario, the trace of a run event by event | specification over `LabMeasurements` |
| `PromptLab` | sessions of the prompt lab, their files and processes | specification |
| `PromptLabProofs` | | theorems about `PromptLab`, `LabRequests` and `MeasuredRuns` |
| `Recursion` | | lemmas on recursive functions, on intervals and on finite sets, for the proofs |
| `MCAlgorithms` | the five specifications over operators, one at a time | the instance TLC checks |
| `MC...` | the other instances TLC checks | |

Definitions named `Mutant: ...` in a comment are deliberate bugs: put in place of
the definition after them, each makes the property named in `PROJECT.json` fail.
They are used by no specification.

### AgentRuntime

*State.* `status`, `plan`, `currentStepIndex`, `pendingApproval` and
`stepResults` are the stored run. `pc` and `at` are the local state of each call
of `run` or `resume`: where it stands and the index of the snapshot it works
with. `started` and `live` record the tool executions, by caller, step and call:
those that outlive their timeout stay `live`.

*Actions.* One per stretch between two awaits that another call can observe.
`SaveRun` and `PlanningThrows` are `startRun`; `ResumeRefused`, `ResumeReject`,
`ResumeApprove` the guard and decision of `resume`, `RejectRecorded`,
`ApprovedToolSucceeds/Fails`, `ResumeAdvance` the rest of it. `EnterLoop` to
`FinalizingThrows` are `executeUntilPauseOrComplete` with `executeStep` in
`StepWithoutTools`, `SingleTool`, `ParallelTools`, `ToolSucceeds` and
`ToolFails`.

The trace connections and the factories that make them are the caller's, and
`tracer.log` gives them events without a try (`tracer.ts:53-57`). Wherever one may
throw through the runtime there is an action: `ResumeUntold` (at the report of a
decision, before anything is done), `ConnectingThrows` (the factories and
`attachConnection` of `resume`, `runtime.ts:243-263`, after the decision was stored
and before its `try`), `StepUntold` (inside a step, which fails), `FailureUntold`
(at the report of an error, in the catch itself, `:331`), and `Ends` (at `run_end`,
when the outcome is stored). `ConnectingThrows` and `FailureUntold` leave the stored
run `running` in the middle of its plan, for ever; the call is then at "cut".

All store operations are atomic: `InMemoryRunStateStore` has no
await inside them.

*Abstractions.* A tool call is a record of what the executor asks about the tool;
arguments are the set of steps they refer to; a result is the step it settles
and whether it was executed. The retries of one tool call are a single await
here (module `Resilience` has them). A plan may contain anything the schema
lets through. An approval's edited arguments change nothing that is modelled.

*`Spec` and `SerialSpec`.* `Spec` lets `resume` calls of one run overlap, as the
code does. `SerialSpec` has the next `resume` made when no call is in progress,
which is how the repository's own callers (tests, demo, prompt lab) use it; the
strong properties hold only there.

*`QuietRunIsResumableOrAtItsEnd`* says which runs nobody can move any more: those
whose reflector, finalizer or connection threw behind the last step, and those cut
short by an exception of a connection or its factory at the two places above. Every
other way a call may end leaves the run waiting for an approval, or ended.

### PlanPreparation

A plan is a sequence of steps with their calls; an argument is a reference to an
earlier step and a part of its result, or a value that its schema accepts or
not. `Validated` is `validatePlan` with `validateReferenceOnlyArgs`, `Created`
the whole of `createPlan`: the model's reply is repaired and validated, and if
that fails in a way the planner mends, the fallback plan of the request is.
`DesignerPlan`, `PreflightPlan` and `NodeConfigPlan` are the plans of
`llm/fake-plan-builders.ts`, pass by pass. `Gives` says which tool's result has
which part. `CreatedPlans` has the replies: how one may fail, or a plan step by step, in one
of several surroundings (the fallback plan of the request, the tools of the run).

### GraphPlanner

Operators for `validateGraph`, Tarjan's algorithm, the batches and
`buildExecutionGraph`. A recursion or a loop of the code is a recursive function from a
number of steps to the state they led to: `Search` makes one step of Tarjan's algorithm at
a time (`Enter`, `LookAt`, `Return` with `Close`), with the calls of `strongConnect`
that have not returned as a field `path`. Ids are numbers in the order the code sorts
strings. `GraphPlans` draws any graph edge by edge and names any start nodes. The code numbers batches
from 1 (`planner.ts:198`), as the model does, where two comments say zero-based
(`types.ts:86`, `types.ts:109`).

### GraphExecutor

*State.* The variables of `executeScoped` under their names; `pump` is the
position of the scheduler's loop, `pc` and `at` that of each component, `inFlight`
the node calls that have not ended, `calls` a log of calls with the results each
was given, `outcome` and `executions` the result of `run`.

*Actions.* `Begin`, `StartComponent`, `StartAborted` and `PumpEnds` are `pump`,
which never awaits: while it loops no component moves, but the signal may abort
in between, from a node's or a handler's synchronous part. `NodeCompletes`,
`ComponentCompletes`, `NodeFails`, `NodeEndsLate` are what follows the await in
`runComponent`; `CatchFailure`, `Release` and `ReleaseFailed` are the catch,
finally and then of `pump`, each a microtask of its own. `StartEmpty` is a component
without nodes, which completes with no await in between.

*Plans.* A caller may pass a plan of their own. `validatePlanAgainstGraph` compares sets
of ids, so it lets through components that form a circle, components without nodes, and
a node in several places, of one component or of several. A place is a component and an
index: `order`, `calls` and `inFlight` are about places, and `Home` is the component
that dependencies take a node to be in, the one listed last (`executor.ts:725-729`). A node
in two places runs twice, as `NodesRunOnceAfterDependencies` allows; each place runs
once, and a node in one place (every node of a `Partition`, as the planner's plans are)
once. The components of a plan are taken to have different ids, which the code does not
check.

*Abstractions.* Node results, events and depths are left out. The ready queue is
kept sorted by the code, so it is a set here and the least component starts.
`plan.batches` plays no part in scheduling: `graph/types.ts:129` says that earlier
batches complete before later ones start, the engine goes by each component's own
dependencies.

### Resilience

Calls are instances of `resilientExecute`; `entries` is the breaker's map;
`begun` and `live` are executions, so that a timed-out attempt can outlive its
call; `streak` is a history variable independent of the breaker: the failures of
each tool since its last success. Time is a tick that ages open entries up to
the cool-down. A failure is a rejection, retryable or not, or a timeout, which is
always retryable. Back-off lengths are left out: a sleeping call wakes at any
time. The breaker belongs to the executor, so its calls may come from several
runs.

### TraceConnection

Every method is one action, since none awaits. The serializer and the transport are
the caller's, and either may throw at a message (`emit`, `:196`); the method then ends
where it stands, which is an action of its own (`SendFirstThrows`, `SendOverflowThrows`,
`UpdateConfigThrows`, and `FlushThrows` within a full buffer, the timer and `flush`). Events are numbered in the order
they are offered, messages carry events or a drop notice, and `sent` is the
transport. `config` ranges over the settings after `mergeConfig`, which starts
from the defaults each time: `updateConfig` with some of the settings sets the
others back to their defaults. `flush()` and `close()` do the same to this state.

*What an exception leaves behind.* The first send of a window throws when the window is
open and the timer not yet set (`:62-64`), and a timer that throws is not set again
(`:118-121`; there nobody catches the exception, which ends a Node process without a
handler). Either way the window stays open without a timer, and what is buffered waits until
the buffer is full, somebody flushes or `updateConfig` sets the timer: `BufferedEventsLeave`
promises that events leave only where the timer is set or nothing has thrown. A
batch is taken from the buffer before it is sent (`:109`, `:149`), so it is lost, and
`droppedEvents` does not count it: `failed` does in the model, for `DropsAreReported`. An
exception while `updateConfig` makes room leaves more in the buffer than the new settings
allow, but no more than settings in force before (`BufferIsBounded`).

### FlowDocument

A document is immutable in the code, so its operations are operators: `CreateNode`,
`ConnectPorts`, `SetPortPacket` and `PropagatePortPacket` are the new document,
`CanCreateNode`, `CanConnectPorts`, `Accepts` and `CanPropagate` say when the
code throws instead. Blocks with their typed ports are constants. Node ids are pairs,
so that generated ids (`block-1`) and ids of the same form that callers choose can
meet; edges have the generated ids, so an edge is its two ports. A value is one of
nine kinds, as many as the conversions of `coercePacketValue` tell apart: five of text
(a number, a JSON object, a JSON string around a word or a number, no JSON), finite and
other numbers, objects, null. A conversion maps kinds to kinds or to `Invalid`, where the
code throws. Labels, timestamps and all configuration but the texts nodes need are left out.

### FlowSampleRun

*State.* `flow` is `currentFlow`; `running` has for each running node the document
it was called with; `written` is a history of what nodes wrote.

*Actions.* `AddNode`, `Connect` and `SetPacket` build any document in any order.
`StartRun` plans it; `StartNode` is the call of a node with the current document,
`EndNode` the assignment of the document it returns after its await, `FailNode` its
exception. `Emitted` and `WriteOutputPacket` are the four kinds of executable nodes;
blocks without an executor throw. The graph engine appears by what
`GraphExecutor` shows of it: dependencies first, the nodes of a loop one by one in id
order, at most `MaxConcurrency` components, the end at the first failure.
`MaxConcurrency` is one because the code says so, and `NoWriteIsLost` fails with two:
the code reads `currentFlow` before the await and replaces it after.

### FlowDesignSession

*State.* The fields of the class under their names. `snapshot` is what the last
event carried, `shown` the graph of an observer who applies only the data of the events,
`staged` the ids callers announced before creating them.

*Actions.* One per method; none awaits, and each ends with its event, whose snapshot
shows the state after the change. The first event is preceded by `graph_started`, which
has the same snapshot. `deleteNode` sets a phase "deleted" for the
duration of the event and removes it, which no snapshot shows. A node is created under
an id of the caller's or a generated one.

### FlowDesignAgent

*State.* `request` is what design() was called with, as far as it matters: which of the
three checkable wants it has, the number of attempts, whether there is a session,
a provider of notes, a valid flow, and which connection of the draft, if any, the caller's
blocks refuse: `ensureRequiredFlowBlocks` looks at their ids only, so blocks with the
built-in ids but other ports make `connectPorts` throw in the middle of the draft
(`Throws`). What was drawn by then stays on the session (`Abandoned`), no flow is returned. `state` is the `FlowDesignAgentState` of the attempt,
`skill` the next skill, `step` the place in the draft, `attempts` the iterations,
`result` what was returned.

*Actions.* `Begin` starts the session; `Analyze`, `DraftStep` (one call of the session
per step) or `DraftAlone`, `Validate`, `Execute`, `Reflect` and `Improve` are the default
skills, `Skip` one that does not apply; `Fail` is an exception of any skill, caught by
`design`; `Succeed`, `Exhaust` and `Retry` the end of an attempt. `Draft` is the
four-node flow `designFlowDraft` makes of every feasible request, call by call, and
`Built` the same without a session.

*Composition.* It EXTENDS `FlowDesignSession`: its steps are steps of that module, and
`MCFlowDesignSession` has a `driver`, so that the properties of the session are
checked in the hands of any callers and in the hands of the agent.

*Corners.* The draft's `complete()` closes the connection (`design/core.ts:416`) before
validation and retries send more events; the repository's connections go on after
`close()`, which the model assumes.

### FlowFeasibility

The chain of operators from a request to the draft's decision: `Contract` and
`Recalled` (the output contract and its cache: the first answer stays), `TaskType`
(scores over signals and examples with adjustments), `Recommended` (the catalog of
task graphs), `Candidates` (blocks ranked lexicographically by their `Merits`),
`BriefOf` (the brief the tools pass on; `NoBrief` for callers that pass the request only),
`Delegable` and `Delegated` (left to the AI block by rule or by a model), `Assessed`
(feasibility, missing capabilities, proposed blocks), `Refined`, `Prevalidated` and
`DraftFeasibility`. The words of requests are those the catalog's Korean entries look
for, named in English. Scores are recursive functions over the entries; `Sorted` names the
place of each block by how many go before it, which is what a stable sort does.
`JudgedRequests` builds the task graphs and the requests, asks for a request's contract as
often as one likes, and quantifies over what a model may answer.

*Observations.* The contract is cached per request, the task type is not.
A count in a request is taken as it is, one of a model clamped to 20.
A model may delegate the reading and sending of e-mail to the AI block.
`missingCapabilities` names all that the unserved nodes require, also what some block
offers. The strategy rules out the trait of the e-mail workflow for every task type the
catalog has (`architecture.ts:180`), so with a brief that workflow is never chosen
(`email_request`, section 3).

### RequirementAssessment

`Brief` is the strategy of `architecture.ts` with the knowledge of its data file,
`Assessment` that of `product/normalize.ts`, `Review` and `Adjusted` the prompt lab's
correction, `GoesOn` and `Warns` the policy of automatic runs. Texts are named by what
they are about.

*Observations.* An adjusted assessment with thin evidence says "uncertain" in its
summary whatever its level is (`prompt-lab/product.ts:323`), and the summary of the
result, composed before, is not touched. A request for blog titles that does not say
"generate" gets a trait both preferred and disallowed. The source of a sample is
"synthetic" also for a request that contains a concrete graph, where `normalize.ts`
excludes that case.

### LabMeasurements

`Decisions`, `Fallbacks` and `Outcome` are `runLiteAdvisor` for each kind of answer;
`Suite` and `Report` are `advisor-evaluation.ts` with its rates in thousandths, each
suite with limits of its own;
`ToolTimes` and `Stages` are `summarizeExecutionTiming`, which takes whichever call of a
tool settles for the one that started first. An answer that names nothing in the catalog
is reported twice, as the model's and as an error; approved tools log no `tool_start`.
`Missing` is the value for undefined. Sums, the buckets and the starts are recursive
functions over the events. `MeasuredRuns` makes the events: planning with or
without a fallback, calls that overlap, a failure, the end of a run; `LabRequests` the
requests that `RequirementAssessment` is asked about.

### PromptLab

*State.* Per call: `phase`, the session directory `dir`, the files it still writes
(`todo`, `open`), what it read, saved and loaded. Per process: the environment, the
diagnostic listeners, the cache of load promises. On disk: the last-run file, the two
histories, the files of each session, torn or whole. Per call as well: `flow`, how its
run of the runtime ended. The rest are histories for the properties, marked as ghosts.

*Actions.* A file is written in two steps, `Open` empties it and `Write` gives it its
text, as `writeFile` does; between them other calls read it and a process may die
(`Crash`); `WriteFails` is an error of either, caught where the code catches.
`ReadHistory`, `Create`, `Enter`, `StartFlow`, `PlanFlow`, `EndFlow`, `Load`, `Assess`,
`Return`, `Review`, `Finalize`, `Prompt`, `Finish` and `Evaluate` are the stretches of
`main`, `runRequirement` and `runAdvisorEvaluation`, `Reported` the end of their catch
blocks; `ReadSettles` is the promise of a resource.

*Abstractions.* A resource stands for all that the product loads; a name in `todo` may
stand for files written one after the other. Menus, arguments, rendering and
reports are left out. Sessions of one millisecond and one slug share a directory, and
`LastSessionIsFound` and `ArtifactsTellTheOutcome` say nothing of those.

### MCAlgorithms

The modules of operators have no steps of their own. Their inputs are built piece by
piece in `GraphPlans`, `CreatedPlans`, `LabRequests`, `MeasuredRuns` and
`JudgedRequests`, each with a specification (`PlannerSpec`, `PlanSpec`, `RequestSpec`,
`MeasuredSpec`, `JudgedSpec`) and one invariant, which the theorems are about.
Here they are put side by side: `about` chooses which of them moves, so that one run
reaches every input within the bounds. The invariants compare the operators with
definitions made in another way: loops with mutual reachability, a repaired plan with
the resolution of references, a verdict with the run it is about, sums of times with
the true times of the calls.

## 3. The runs

| Run | Instance | Checks |
|---|---|---|
| `runtime_serial` | `SerialSpec`, 11 plans, `run` and three `resume` calls | `ResultsInStepOrder`, `EffectsRunOnce`, `CompletedRunIsWhole`, `QuietRunIsResumableOrAtItsEnd`, `SettledStepsDoNotRun`, and the refinement of `RunLifecycle` as `KeepsLifecycle` |
| `runtime_overlap` | `Spec`, the same plans, two `resume` calls | `ProgressIsRecorded`, `CallsSettle` |
| `resume_race` | as above | `ResumeActsOnWaitingRun` is violated |
| `algorithms` | graphs on four nodes with at most one start node, plans of three steps in 12 surroundings (steps in two of them), requests of four words, three scenarios in suites with different limits, three calls of two tools, task graphs of two nodes, four catalog words with what models may answer | `PlansAreSound`, `CreatedPlansResolve`, `VerdictsAreHonest`, `FeasibilityIsHonest`, `MeasurementsAreTrue` |
| `email_request` | requests of the catalog's words alone | `EmailRequestIsRefused` is violated |
| `graph_executor` | graphs of up to five nodes with a join, a loop, a diamond, keyed components, a circular plan, a plan with an empty component and nodes in two places, two slots | `NodesRunOnceAfterDependencies`, `WorkIsBounded`, `OutcomeIsHonest`, `SettledRunIsFrozen`, `RunSettles` |
| `resilience` | three calls of a read-only tool, one of a tool with effects, threshold 2, two attempts, cool-down of one tick | `ExecutesWithinPolicy`, `RefusalsHaveCause`, `CallsSettle`, `RefusalsEnd` |
| `trace_connection` | six settings, eight events, two changes of settings, one message that throws (`MaxThrows`) | `EventsKeepOrder`, `DropsAreReported`, `BufferIsBounded`, `BufferedEventsLeave` |
| `trace_update` | as above | `UpdateKeepsBuffered` is violated |
| `flow_sample` | six blocks (the built-in ones and one without executor), up to three nodes, three edges, one packet set beforehand | `PacketsFitTheirPorts`, `NoWriteIsLost`, `NodesReadThisRun` |
| `design_session` | `MCSpec`: any callers with two blocks, two nodes, ids up to three; or the agent, with one or three attempts | `DocumentIsSound`, `StreamTellsDocument`, `VisualsHaveSubjects`, `GeneratedIdsAreFresh`, `StreamEndsWithResult`, `RetriesLearn` |
| `prompt_lab` | two calls at a time, runs of one process, evaluations of two, or command lines; histories of two entries, one fault | `LastSessionIsFound`, `NothingLeaks`, `ArtifactsTellTheOutcome`, `HistoriesAreRecent`, `LoadsAgree` |

No run checks type correctness by itself: where it matters it is a theorem (section 4).

*Why the bounds are enough.* The plans of the runtime have one example for each path
through the executor, and two consecutive gated steps; a third `resume` shows a decision
after a failed approval and one more pause. The overlapping run needs two
`resume` calls, since the races are between pairs. On four nodes there are two
disjoint loops, loops that touch and nested loops; each of them, and every
order of edges, occurs. Three steps give a reference the producer it means, one
that is too late, and one between them; four words of a request combine a format,
a subject, an operation and a word that contradicts it; three scenarios give two
suites and each mixture of answers in one; three calls let calls of one tool settle in
another order than they started, with one left open. Two slots with three ready
components make the limits
bind; one key has a limit of zero, which the code takes for one, the other has
none. Two attempts and two
failures are the least for which a retry runs while the breaker is open, and
three calls the least for a success, a failure and a refusal to meet. Eight
events overflow each of the settings at least once after the first send, twice
for the smaller ones. Three nodes and three edges give every
chain, fan-out, fan-in and loop with a tail, and each pair of blocks is
connected; one packet set beforehand suffices for a stale one. Two nodes suffice
for a design session, where all that is kept is about one node or one edge; numbers up
to three let a generated id follow one that was chosen and one that was deleted. With
three attempts a suggestion comes up twice and one of the first attempt reaches the
third; zero attempts are taken for one. Two calls of the prompt lab are the least that
overlap, one fault tears every file once at each place, and a history of two drops an
entry when a third comes.

*Deadlock* is not checked, in any run, because every instance may stop: a run of the
runtime, a graph execution, a flow, a design of the agent and a set of calls end, the
events of a trace connection and the calls of the lab are bounded, the inputs of the
algorithms reach their bounds, and then nothing more happens. That nothing stops
too early is what the liveness properties and `QuietRunIsResumableOrAtItsEnd` say.

*Fairness.* `AgentRuntime`: every call that can continue eventually does: tool
calls have timeouts (`tool-policy.ts`), the store answers, and the model calls
are assumed to return or throw, which the gateways leave to their clients.
Nobody has to resume a run, and a tool whose timeout passed may never end.
`GraphExecutor`: the scheduler and the running components continue, an awaited
node settles or times out; where no timeout is configured this assumes nodes
that settle. No caller has to abort. `Resilience`: attempts settle or time out,
pauses end, time passes. `TraceConnection`: a timer that is set fires;
`updateConfig` sets it anew, so it is assumed to be called finitely often. The other
specifications state none: what is checked of them is safety.

### What the violated properties show

- `ResumeActsOnWaitingRun`. `resume` checks the status (`runtime.ts:203`) and
  updates the run after the tool or the append, without a second look. Two
  overlapping calls both pass, and the second moves a run on that is no longer
  waiting; a step is skipped, or a completed run runs again. What survives such
  overlaps is `ProgressIsRecorded`: the log accounts for every advance, and a run
  completes only past its last step.
- `UpdateKeepsBuffered`. The comment at `websocket-trace-connection.ts:81` says
  that new settings drop nothing already buffered. With the drop strategy and a
  smaller bound they do. A related corner is in the statement of
  `DropsAreReported`: after a change from "drop" to "flush" that empties the
  buffer, or with a bound of zero, unreported drops are forgotten at the next
  flush (`:163`).
- `EmailRequestIsRefused`. Tests (`agent/tool-registry.spec.ts:176-225` and `:290-307`,
  `agent/runtime.spec.ts:131-155`, `product/flow-design-product.spec.ts:16-27`) expect the
  request to check the e-mail and reply to be infeasible, with `email-read` and
  `email-reply` missing. Without a brief it is. The tools pass the brief, whose strategy rules
  out the trait of the e-mail workflow unless the task type is `email-reply`
  (`architecture.ts:180`), which is no type of the catalog: the request is then taken for one
  to edit a text, and nothing is missing. The scores are those of the catalog files with
  the advisors that need no model.

### What the passing properties had to allow for

Some statements are weaker than one would first write them, because of what the code does:

- `NothingLeaks`: overlapping runs of one process set and restore the same environment
  variables, so a run may resolve its models by another run's settings and the process
  may end up with the wrong ones; the property speaks of processes whose runs never
  overlapped. A run whose planning throws keeps its diagnostic listener (`runtime.ts:113`).
- `HistoriesAreRecent`: a history is read, changed and written with awaits between; two
  writers lose an entry, a death in the middle of a write loses the history.
- `LoadsAgree`: one read serves all callers of a process, so an error of it stays for
  all of them until the process ends.
- `CreatedPlansResolve`: references that a model wrote itself are not checked to point
  backwards unless the tool's argument must be one; a plan whose step ids repeat may
  resolve to another step.
- `QuietRunIsResumableOrAtItsEnd`, `DropsAreReported`, `BufferIsBounded` and
  `BufferedEventsLeave` except what an exception of a connection, serializer or transport
  leaves behind (see `AgentRuntime` and `TraceConnection`).
- `StreamEndsWithResult`: when the caller's blocks refuse a connection of the draft, no flow
  is returned and the observer is left with what was drawn before.
- `FeasibilityIsHonest` is about the verdict on a task graph; whether a request gets the
  task graph it is about is another question (`email_request`).
- `PacketsFitTheirPorts` does not see that a JSON input parses its text twice: the node
  does (`flow/runtime.ts:171`), and the write to its JSON port once more
  (`flow/document.ts:449`). The valid text `"hello"`, with its quotes, makes the node fail, and
  `"12"` leaves as the number 12, where `BLOCK_POOL.yml:75` says that the text is emitted
  as a JSON packet. The model has both parses (`Emitted`, `Parsed`).

## 4. The proofs

TLC says what holds of the instances above; the theorems hold for all constants
that satisfy the named `ASSUME`s of the modules.

**`AgentRuntimeProofs`.** `TypeCorrect` (for `Spec`, all overlaps) and
`TypeCorrectSerial`. `SerialInvariant` is the inductive invariant behind the
rest: none of the properties is inductive, since none says where the calls are.
It adds (a) at most one call is active, and only that call may be at a place
that writes the store, (b) what its place says of the log (the result of the
current step is stored exactly between the append and the update), of its
snapshot index and of `status` and `pendingApproval`, and (c) which executions
exist: those of steps before the index, or of the current step by the active call
or by earlier, failed approvals. From it follow `ResultsStayInStepOrder`,
`EffectsRunAtMostOnce`, `QuietRunsAreResumable` and, as a step property,
`SettledStepsRest`. They hold for any set of plans, any number of `resume` calls,
tools that end at any time and connections that throw anywhere: that a call was cut short
is in the invariant, too, with a run that stays `running` and that no other call acts on.

In the same module, `ProgressStaysRecorded` is about `Spec`, where calls
overlap: with the types and the finiteness of the set of calls that are about to advance
the run, the property is inductive, since an append adds a result before its call is
counted among them. `CompletedRunsAreWhole` and `LifecycleIsKept`, the refinement of
`RunLifecycle`, are about `SerialSpec`. `OutcomeInv` adds to the serial invariant that a
result is of an executed step only if those its step refers to are, that gates and
references were checked before a tool runs, and that the loop is left only at a gate, a
failure or the end; each step of the runtime is then a step of the abstract run or
leaves it alone.

About `CreatedPlans` the module has `CreatedPlansAlwaysResolve`, for replies of any
length and any calls. Validation repairs the arguments of each call in turn; of a repaired
reference the proof shows that it names the last of the earlier steps with a producer
(`LastCandidate`), that in a well-numbered plan an id names one step, so that it resolves
there (`RepairFindsLatest`), and that no inline flow is left (`RepairedHasNoInline`). What
the theorem says of the fallback plans rests on `SurroundingsAssumption`: that those fixed
plans, where their tools are there, validate and resolve. They are finitely many, each
written out in the source; TLC evaluates the assumption on all of them in the run
`algorithms`.

**`GraphProofs`.** About the planner, `PlansStaySound`: whatever finite graph is drawn,
the components are its classes of mutually reachable nodes, each component is in the one
batch right after what it depends on, and the scope of start nodes is what they lead to.
`SearchInv` is the invariant of Tarjan's algorithm: the numbers of the nodes rise along the
stack and along the open calls (`NumbersFit`), a call returns when none of its edges are
left (`EdgesFit`), a low link is the number of a stacked node that the node leads to
(`LinksFit`), and that of a call accounts for the edges of all above it up to the next call
(`LinksReach`), a call leads to all above it and each stacked node to a call below it
(`CallsLead`), and what was closed is a class, from which edges lead only to classes
closed before (`ComponentsFit`). `ToDo`
(nodes, open calls and edges left) falls with each step, so the steps that `StepsOf` allows
suffice. That a component is whole is `CloseKeeps`: a node with its own number as low
link and all above it on the stack lead to each other and to nothing else there. The
batches are layers, with the count of what each component still waits for
(`Layered`), and as edges of components go to components closed earlier, some count is zero
while any component is left.
The only fact used of the order of nodes is that `Min` picks a member.
`PlannedRunsNeverStall` brings planner and engine together: if every graph of
`GraphExecutor` has the components of the plan of some graph (`PlanOf`), a run fails only
when an execution failed, never with components that wait for each other. Without that
hypothesis it is false of the code, which runs circular plans when a caller passes them.

About the engine the module has `GraphTypesKeep`, `RunsFollowDependencies`, `WorkStaysBounded`,
`OutcomesAreHonest` and `SettledRunsStayFrozen`, for every plan the engine accepts
(`PlannedGraph`, with component ids that differ), any number of slots, keys and limits. `GraphInv` says of each variable how it fits the others: what the
place of the scheduler means for the queue and the record it starts (`PumpFits`,
`QueueFits`), that a component's place agrees with its record and its results (`RecordsFit`,
`ResultsFit`), that the calls in the log were given what their dependencies had left
(`CallsFit`, `ParentsFit`), that slots and key counts are the components that hold them
(`SlotsFit`, `CallsHoldSlots`, `WorkFits`: a component holds its slot between its start
and its release, which comes after its record is settled). The properties speak of
calls and slots only, and none is preserved without the places.

**`ResilienceProofs`.** `ResilienceInvariant` adds to the types what the place of
a call says about its attempt counter, that every execution has a number up to
that counter, and that the breaker never counts more failures than there were in
a row. From it: `ResilienceTypeCorrect`, `RefusalsAlwaysHaveCause` (a refusal
needs an open entry, so the threshold of failures, so as many in a row) and
`AlwaysExecutesWithinPolicy` (the numbers of a call's executions map them
injectively into `1..maxAttempts`).

**`TraceConnectionProofs`.** `EventsAlwaysKeepOrder`, `BufferStaysBounded` and
`DropsAreAlwaysReported`, for any settings with bounds and sizes as `ConfigsAssumption`
has them, any number of events and of updates. For the first two the invariant adds that a
closed connection buffers nothing and that the events of the messages sent, followed by
those of the buffer, are in order and below the next number: the order of the messages
alone says nothing of what the next flush sends. `DropsInv` adds that only events that were
offered are sent or buffered, and that where a notice is due there is an event in the
buffer it can go ahead of (`NoticeCanGo`): a flush that finds the buffer empty forgets the
drops that are not reported yet. All three hold whatever messages throw, any number of
times: a method that ends half-way has sent some of its batches in order and keeps the
rest without the one that threw. The count of the
notices is a recursive function over the messages. That it exists and grows by the new
message's count is proved from `Recursion`.

**`Recursion`.** The library states induction with operator parameters, which the provers
here cannot instantiate. `LeastOf` (a non-empty set of naturals has a least element, by
well-foundedness) gives the forms the proofs use, with sets in place of predicates: a set
that contains 0 and successors up to `n` contains all of `0..n` (`UpTo`), a function
defined by recursion on `0..n` exists (`Recursive`), takes its values in the set its steps
keep (`RecursiveType`), and a family of sets that contains `{}` and is closed under adding
an element contains every finite set (`Finitely`).

**`FlowDesignProofs`.** `SessionInv` adds to the five properties of the
session the shape of its documents, a bound on the numbers of their ids, and `Follows`:
the observer has the document also before the first event, without which
`StreamTellsDocument` is not inductive. From it: `SessionTypeCorrect`,
`DocumentStaysSound`, `StreamAlwaysTellsDocument`, `VisualsAlwaysHaveSubjects` and
`GeneratedIdsAlwaysFresh`, for documents of any size. Two lemmas carry most of the weight:
what soundness says of the edges that stay depends on the blocks of their nodes only
(`SoundAfter`), and a bounded set of naturals has a greatest element (`MaxOfBounded`, by
the well-foundedness of the naturals, since induction is out of reach). `OwnIdsAssumption`
says that callers' ids have the form of generated ones.

About the agent the module has `StreamAlwaysEndsWithResult` and `RetriesAlwaysLearn`, for
any budget of attempts, any notes and any outcome of each skill. `AgentInv` is what both
rest on. `Drawing` relates the session to the place of the draft in its calls: before call
`k` the document is `DocumentAt(k)` and the phases shown are those of `PhasesAt(k)`, and
outside of the draft the document is the attempt's flow, or empty before there is one. From
it follows that no call of the draft throws, whatever an earlier attempt left in the session,
since the draft starts by emptying it, except the connection that the caller's blocks
refuse (`DraftThrows`). `Progress` says what the skill reached means for
the fields of the attempt (a flow that is valid was executed and reflected on by the end),
`Learned` relates each finished attempt to all later ones: `RetriesLearn` alone is not
inductive, since it does not say that the notes of the current attempt, before they are
drafted with, hold what the last one suggested. `Extended` is a recursive function, and
what it returns (a list without repetition that begins with the notes and holds the
suggestions) is proved with `Recursion`. `NoneAssumption` says that the value for
undefined is no flow, name or record.

About `JudgedRequests` the module has `FeasibilityStaysHonest`, for task graphs of any
length whose nodes require any finite sets of capabilities and any answers of a model on
leaving them to the AI block, and for any requests and contracts. It says nothing of which
task graph a request gets. Its parts are:

- `SortedFirst`: merits are compared by a strict total order on integers (`BeforeOrders`),
  so of the blocks ranked one has none before it; a block that lacks nothing goes before any
  that does (`BestCandidateCovers`).
- `AssessedIs`: a graph is feasible if and only if each of its nodes is served, and what
  is missing is what the others require. The proposals list all of these nodes
  (`ProposalsAreEnough`), and refining, which adds what a generating
  node requires, lets no node be served that was not (`RefinedIs`, `RefinedServes`).
- `JudgedInv`, the inductive part: of a request, the only contract used is the one that
  is remembered.

The catalog of blocks is that of the data file; the theorem is about this catalog, not
about any.

**`FlowSampleRunProofs`.** `PacketsAlwaysFit`, `WritesAreNeverLost` and
`NodesAlwaysReadThisRun`, for any catalog of blocks, any texts and results and flows of any
size, under `PortsAssumption` (a port has one of the known types), `KindAssumption` (which
ports the executable kinds have), `DataAssumption` and `RankAssumption` (the order of the
nodes of a loop is total). `RunInv` adds to the properties the shape of documents, one
edge per input, that a node runs only in its turn, and that at most one node runs, on the
document that is current: without the last a node that ends could replace a document that
another had changed. That one component is active at a time is the engine's limit; that
in it one node runs follows from the order of its nodes, since two of them cannot both be
next.

**`PromptLabProofs`.** `LoadsAlwaysAgree`, `NothingEverLeaks`, `ArtifactsAlwaysTell`,
`HistoriesStayRecent` and `LastSessionAlwaysFound`, for any finite set of calls on any
processes and any length of the histories, where any write may fail and any process die
between two steps. The assumptions are that an earlier process left a history as the code
leaves it (each entry once, within the limit) and that the values for undefined and for a
torn file are no others. `LabInv` has a part for each piece of shared state, and each says
what the places of the calls mean for it:

- `CallsFit`: what a call has still to write is a rest of the list of its phase, and
  what it holds (directory, result, models, an open file) is what that phase has;
- `LoadFits`: what a call loaded is what its process has in the cache, for good;
- `ListenersFit`, `EnvironmentFits`: who may have listeners, and that in a process whose runs
  never overlapped the environment is the running call's or the original one, and what is
  saved is the original (otherwise the restore would put back another run's values);
- `HistoriesFit`: a history is a cut of what was used, most recent first, or torn while its
  only writer is in the middle, with what the writer read being that cut. Recording an entry in
  the cut is the cut of recording it in all (`RecordOfCut`), which is what makes entries that
  were cut away not matter;
- `SessionsFit`: between the files a phase may have reached (`Reached`) and those it needs
  (`Needed`), what is whole, what is torn and what is still to be written (`Script`);
- `LastFits`: `last` is torn or names a session there is, and no recorded call began after
  that session was over. That a newest complete session exists when `last`
  is torn is by induction over the finite set of directories.

The module also has `VerdictsStayHonest`, about every request of `LabRequests` and every
run. It follows from `VerdictsOfAllRuns` and `TraitsOfAllRequests`: for every request
in one of the formats, with any words and any
task type, and every run with any status and claim of success, the verdict is as
`VerdictIsHonest` says. The argument follows the list of reasons as it is built: each piece adds a
code that is not in it yet, so it has no code twice and is empty only if no condition held
(`ListingMore`), and neither the strategy's ceiling nor thin evidence takes a
reason away (`AdjustedFacts`).

`MeasurementsStayTrue` is about `MeasuredRuns`, for any number of suites and scenarios, any
limits of each suite that ask for some passes, and traces of any length, with calls of any tools that
overlap in any way and take any time.

- Evaluations: the report is suitable only if each suite's average, rounded, is within the
  limit. A rounded average within it says `2000 * total < (2000 * limit + 1) * n` of the
  suite (`Fits`); such inequalities add up over the suites (`Flattened`), and together they
  say that the average of all scenarios, rounded, is within the largest of the limits.
- Times: `MeasuredInv` has `SuitesTyped` and `RunFits`. The summary forgets which call a
  start was of, so `Counts` says that the starts it has left can be matched one to one to the
  calls of the tool that are under way, none earlier than its call (`Matching`), and that its
  total is what the settled calls took and what those starts are late (`Weights`). A call
  that settles takes the oldest start; exchanging its match with that of the call which had
  the oldest keeps the sum. When none is under way, the total is the true one. The
  maximum is within what some call has taken so far, the last failure is the last event of
  its kind, and the stages of planning are those of the events before the first step.

That a bucket may be too large while calls of a tool are open is the code's behaviour
(`cli.ts:436`), and the property says no more.

**Only model-checked.** Liveness: `RunSettles`, `CallsSettle` (of the runtime and of
`resilientExecute`), `RefusalsEnd` and `BufferedEventsLeave` are out of the prover's
reach. Each safety invariant and each action property of a passing run is stated by a
theorem. The validity of the fixed fallback plans stays with TLC inside one of them
(`SurroundingsAssumption`, see above).

## 5. Not modelled

- The graph renderer, the formatters of results, menus, argument parsing and reports:
  presentation, with no order of events to get wrong.
- The tool registry and repository: registration and validation of data; the runtime's
  model takes whether a tool is known and allowed from the plan.
- The serialization of flows: a conversion to strings and back.
- The tracer's sessions and the unified timeline: several runs on one connection, and
  sequence numbers that start over at each resume, are listed as hazards without a
  property. So is a connection that really closes at `close()`.
- Diagnostics beyond its listeners, the loading of the environment, the wrapping of
  errors, the demo; the gateways' requests to models: a call that answers or throws.
- Node configuration, the probes of blocks and the rationale texts of flow design.

## 6. The plan

Done: the runtime with its abstract specification, planning and graph execution,
resilience, the trace connection, flow documents with their sample runs, design sessions
and the agent that drives them, the judgements of design, product and lab, and the
lab's sessions; theorems about the runtime and the plans it creates, the graph planner and engine,
resilience, the trace connection, design sessions and their agent, feasibility, sample
runs, the prompt lab, its verdicts and its measurements.

Next, in this order:

1. `Tracer` (tracer.ts, unified-timeline.ts): sessions and connections of overlapping
   runs, composed with `TraceConnection`; then a design session over a connection that
   closes.
2. The header-and-records representation of the store, shown to implement the
   atomic operations `AgentRuntime` uses.
3. Serialization of flows as operators over `FlowDocument`; node configuration.
