---------------------------- MODULE AgentRuntime ----------------------------
(***************************************************************************)
(* One run of the agent runtime (src/src/agent/runtime.ts) with the store  *)
(* that persists it, the step executor that runs its tools and the calls   *)
(* that drive it: the call of run() that starts it and the calls of        *)
(* resume() that operators make while it waits for an approval.            *)
(*                                                                         *)
(* JavaScript runs a call up to its next await without interruption, so an *)
(* action is what one call does between two awaits whose order another     *)
(* call could observe.  Every store operation is one action: the in-memory *)
(* store never awaits inside save, get, update or appendStepResult.        *)
(*                                                                         *)
(* The caller supplies connections that the trace of the run is sent to,   *)
(* and the factories that make them.  Either may throw, and it throws      *)
(* through the runtime: tracer.log hands an event to send() without a try. *)
(***************************************************************************)
EXTENDS Naturals, Sequences, FiniteSets

CONSTANTS
  Starter,    \* the call of run() or runWithSkill()
  Resumers,   \* the calls of resume() for this run, each made at most once
  Plans,      \* the plans the planner may return
  None        \* pendingApproval === undefined

Callers == Resumers \cup {Starter}

(***************************************************************************)
(* A tool call of a plan step.  effect: the tool's riskLevel is not        *)
(* read-only.  confirm: requiresConfirmation.  allowed: the skill allows   *)
(* the tool.  registered: the registry has it.  refs: the steps (by their  *)
(* index) whose results the arguments name with $fromStep.                 *)
(***************************************************************************)
ToolCall == [effect : BOOLEAN, confirm : BOOLEAN, parallelSafe : BOOLEAN,
             allowed : BOOLEAN, registered : BOOLEAN, refs : SUBSET Nat]

Step == [mode : {"parallel-tools", "single-tool", "reasoning", "finalize"},
         calls : Seq(ToolCall)]

ASSUME CallersAssumption == Starter \notin Resumers
ASSUME PlansAssumption == Plans \subseteq Seq(Step)
ASSUME NoneAssumption == None \notin Nat

VARIABLES
  status,            \* the stored status; "none" before the first save
  plan,              \* the stored plan
  currentStepIndex,  \* zero-based, as in the code
  pendingApproval,   \* the step index awaiting a decision, or None
  stepResults,       \* the result records in resultNo order
  pc,                \* where each call stands
  at,                \* the step index of the snapshot each call works with
  started,           \* every tool execution ever begun: <<caller, step, call>>
  live               \* the tool executions that have not ended

store == <<status, plan, currentStepIndex, pendingApproval, stepResults>>
tools == <<started, live>>
vars  == <<store, pc, at, tools>>

\* "cut": it threw out of the call, past the try that would have failed the run.
Settled == {"returned", "thrown", "cut"}
PCs == {"idle", "planning", "enter", "step", "tool", "advance", "pause", "fail",
        "rejecting", "approved", "resumeAdvance"} \cup Settled

Active(c) == pc[c] \notin Settled \cup {"idle"}

\* No call is in progress: each has settled or was never made.
Quiet == \A c \in Callers : ~Active(c)

Goto(c, label) == pc' = [pc EXCEPT ![c] = label]

\* The call ends; a connection that throws at the report of the end, run_end,
\* makes it throw, although the store has the outcome.
Ends(c) == Goto(c, "returned") \/ Goto(c, "thrown")

CurrentStep(c) == plan[at[c] + 1]
Exec(c, k) == <<c, at[c], k>>

\* A result record: the step it settles, FALSE when an operator rejected it.
Result == [step : Nat, executed : BOOLEAN]
Record(c, executed) ==
  stepResults' = Append(stepResults, [step |-> at[c], executed |-> executed])

(***************************************************************************)
(* The references of a call resolve when the store holds a result under    *)
(* the id of each step they name; the record of a rejected step has        *)
(* another id (approval-<index>).                                          *)
(***************************************************************************)
\* Mutant: the record of a rejected step resolves a reference, too.
ResolvesToRejected(call) ==
  \A r \in call.refs : \E i \in 1..Len(stepResults) : stepResults[i].step = r

Resolves(call) ==
  \A r \in call.refs :
    \E i \in 1..Len(stepResults) :
      stepResults[i].step = r /\ stepResults[i].executed

Executable(call) == call.allowed /\ call.registered /\ Resolves(call)

-----------------------------------------------------------------------------
Init ==
  /\ status = "none"
  /\ plan = <<>>
  /\ currentStepIndex = 0
  /\ pendingApproval = None
  /\ stepResults = <<>>
  /\ pc = [c \in Callers |-> IF c = Starter THEN "planning" ELSE "idle"]
  /\ at = [c \in Callers |-> 0]
  /\ started = {}
  /\ live = {}

-----------------------------------------------------------------------------
(* startRun *)

\* The planner returns a plan and the initial state is saved.
SaveRun(p) ==
  /\ pc[Starter] = "planning"
  /\ status' = "running"
  /\ plan' = p
  /\ Goto(Starter, "enter")
  /\ UNCHANGED <<currentStepIndex, pendingApproval, stepResults, at, tools>>

\* Skill selection, the planner or its provider throws before the save.
PlanningThrows ==
  /\ pc[Starter] = "planning"
  /\ Goto(Starter, "thrown")
  /\ UNCHANGED <<store, at, tools>>

-----------------------------------------------------------------------------
(* resume *)

AwaitsApproval == status = "waiting_for_approval" /\ pendingApproval # None

\* No such run, or it is not waiting for approval.
ResumeRefused(c) ==
  /\ pc[c] = "idle"
  /\ ~AwaitsApproval
  /\ Goto(c, "thrown")
  /\ UNCHANGED <<store, at, tools>>

\* A connection throws at the report of the decision, before anything is done.
ResumeUntold(c) ==
  /\ pc[c] = "idle"
  /\ AwaitsApproval
  /\ Goto(c, "thrown")
  /\ UNCHANGED <<store, at, tools>>

\* The operator rejects: the synthetic result is not yet stored.
ResumeReject(c) ==
  /\ pc[c] = "idle"
  /\ AwaitsApproval
  /\ at' = [at EXCEPT ![c] = pendingApproval]
  /\ Goto(c, "rejecting")
  /\ UNCHANGED <<store, tools>>

\* approve or edit-and-approve: the tool runs at once.  The pause came after
\* the checks that it is registered and allowed, and neither set changes.
ResumeApprove(c) ==
  /\ pc[c] = "idle"
  /\ AwaitsApproval
  /\ at' = [at EXCEPT ![c] = pendingApproval]
  /\ LET exec == <<c, pendingApproval, 1>>
     IN  /\ started' = started \cup {exec}
         /\ live' = live \cup {exec}
  /\ Goto(c, "approved")
  /\ UNCHANGED store

\* Mutant: the synthetic result is not stored.
RejectUnrecorded(c) ==
  /\ pc[c] = "rejecting"
  /\ Goto(c, "resumeAdvance")
  /\ UNCHANGED <<store, at, tools>>

RejectRecorded(c) ==
  /\ pc[c] = "rejecting"
  /\ Record(c, FALSE)
  /\ Goto(c, "resumeAdvance")
  /\ UNCHANGED <<status, plan, currentStepIndex, pendingApproval, at, tools>>

ApprovedToolSucceeds(c) ==
  /\ pc[c] = "approved"
  /\ live' = live \ {Exec(c, 1)}
  /\ Record(c, TRUE)
  /\ Goto(c, "resumeAdvance")
  /\ UNCHANGED <<status, plan, currentStepIndex, pendingApproval, at, started>>

\* The tool fails or times out (its execution then goes on): resume throws
\* and leaves the stored run as it was.
ApprovedToolFails(c) ==
  /\ pc[c] = "approved"
  /\ live' \in {live, live \ {Exec(c, 1)}}
  /\ Goto(c, "thrown")
  /\ UNCHANGED <<store, at, started>>

\* Mutant: the patch does not clear pendingApproval.
ResumeKeepsPending(c) ==
  /\ pc[c] = "resumeAdvance"
  /\ status' = "running"
  /\ currentStepIndex' = currentStepIndex + 1
  /\ Goto(c, "enter")
  /\ UNCHANGED <<plan, pendingApproval, stepResults, at, tools>>

\* Mutant: the patch does not move past the decided step.
ResumeStaysOnStep(c) ==
  /\ pc[c] = "resumeAdvance"
  /\ pendingApproval' = None
  /\ status' = "running"
  /\ Goto(c, "enter")
  /\ UNCHANGED <<plan, currentStepIndex, stepResults, at, tools>>

ResumeAdvance(c) ==
  /\ pc[c] = "resumeAdvance"
  /\ pendingApproval' = None
  /\ status' = "running"
  /\ currentStepIndex' = currentStepIndex + 1
  /\ Goto(c, "enter")
  /\ UNCHANGED <<plan, stepResults, at, tools>>

\* The run is stored as running when resume() makes the connections of the
\* resumed run and attaches them, before its try: a factory that throws leaves
\* the run there, and no later resume() takes it.
ConnectingThrows(c) ==
  /\ pc[c] = "enter"
  /\ c \in Resumers
  /\ Goto(c, "cut")
  /\ UNCHANGED <<store, at, tools>>

-----------------------------------------------------------------------------
(* executeUntilPauseOrComplete and executeStep *)

\* Mutant: a resumed loop starts over.
EnterLoopAtFirstStep(c) ==
  /\ pc[c] = "enter"
  /\ at' = [at EXCEPT ![c] = 0]
  /\ Goto(c, "step")
  /\ UNCHANGED <<store, tools>>

\* The loop works with the snapshot it reads here and after each update.
EnterLoop(c) ==
  /\ pc[c] = "enter"
  /\ at' = [at EXCEPT ![c] = currentStepIndex]
  /\ Goto(c, "step")
  /\ UNCHANGED <<store, tools>>

AtStep(c) == pc[c] = "step" /\ at[c] < Len(plan)

\* A reasoning or finalize step, or a parallel step without calls.
StepWithoutTools(c) ==
  /\ AtStep(c)
  /\ \/ CurrentStep(c).mode \in {"reasoning", "finalize"}
     \/ CurrentStep(c).mode = "parallel-tools" /\ CurrentStep(c).calls = <<>>
  /\ Record(c, TRUE)
  /\ Goto(c, "advance")
  /\ UNCHANGED <<status, plan, currentStepIndex, pendingApproval, at, tools>>

StartTools(c, K) ==
  /\ started' = started \cup {Exec(c, k) : k \in K}
  /\ live' = live \cup {Exec(c, k) : k \in K}

\* Only the first call of a single-tool step counts.
SingleTool(c) ==
  /\ AtStep(c)
  /\ CurrentStep(c).mode = "single-tool"
  /\ LET calls == CurrentStep(c).calls
         runnable == calls # <<>> /\ Executable(calls[1])
     IN  \/ ~runnable /\ Goto(c, "fail") /\ UNCHANGED tools
         \/ runnable /\ calls[1].confirm /\ Goto(c, "pause") /\ UNCHANGED tools
         \/ runnable /\ ~calls[1].confirm /\ Goto(c, "tool") /\ StartTools(c, {1})
  /\ UNCHANGED <<store, at>>

ParallelReady(call) == call.registered /\ ~call.effect /\ call.parallelSafe

\* One blocked call fails the step before any tool starts; a call that throws
\* later (not allowed, unresolved reference, confirmation) fails it while the
\* other calls run on.
ParallelTools(c) ==
  /\ AtStep(c)
  /\ CurrentStep(c).mode = "parallel-tools"
  /\ LET calls == CurrentStep(c).calls
         K == {k \in DOMAIN calls : Executable(calls[k]) /\ ~calls[k].confirm}
     IN  /\ calls # <<>>
         /\ \/ /\ \E k \in DOMAIN calls : ~ParallelReady(calls[k])
               /\ Goto(c, "fail")
               /\ UNCHANGED tools
            \/ /\ \A k \in DOMAIN calls : ParallelReady(calls[k])
               /\ Goto(c, IF K = DOMAIN calls THEN "tool" ELSE "fail")
               /\ StartTools(c, K)
  /\ UNCHANGED <<store, at>>

\* A connection throws at the report that the step or one of its tools starts,
\* or that it waits for an approval: the step fails, though some of its parallel
\* tools may run.  (At the report of an end, the tool failed: ToolFails.)
StepUntold(c) ==
  /\ AtStep(c)
  /\ LET calls == CurrentStep(c).calls
         K == {k \in DOMAIN calls : Executable(calls[k]) /\ ~calls[k].confirm}
     IN  \/ UNCHANGED tools
         \/ /\ CurrentStep(c).mode = "parallel-tools"
            /\ \A k \in DOMAIN calls : ParallelReady(calls[k])
            /\ \E J \in SUBSET K : StartTools(c, J)
  /\ Goto(c, "fail")
  /\ UNCHANGED <<store, at>>

Awaited(c, k) == pc[c] = "tool" /\ Exec(c, k) \in live

\* The last call to succeed settles the step.
ToolSucceeds(c, k) ==
  /\ Awaited(c, k)
  /\ live' = live \ {Exec(c, k)}
  /\ \/ /\ \E j \in DOMAIN CurrentStep(c).calls \ {k} : Exec(c, j) \in live
        /\ UNCHANGED <<stepResults, pc>>
     \/ /\ \A j \in DOMAIN CurrentStep(c).calls \ {k} : Exec(c, j) \notin live
        /\ Record(c, TRUE)
        /\ Goto(c, "advance")
  /\ UNCHANGED <<status, plan, currentStepIndex, pendingApproval, at, started>>

\* Mutant: the rejection of a tool's promise is swallowed.
ToolFailureIsLost(c, k) ==
  /\ Awaited(c, k)
  /\ live' = live \ {Exec(c, k)}
  /\ UNCHANGED <<store, pc, at, started>>

\* resilientExecute gives up on a call: its last attempt failed or timed out
\* (and then goes on).  The other calls of the step are no longer awaited.
ToolFails(c, k) ==
  /\ Awaited(c, k)
  /\ live' \in {live, live \ {Exec(c, k)}}
  /\ Goto(c, "fail")
  /\ UNCHANGED <<store, at, started>>

ToolSettles(c) ==
  /\ pc[c] = "tool"
  /\ \E k \in DOMAIN CurrentStep(c).calls : ToolSucceeds(c, k) \/ ToolFails(c, k)

\* An execution nobody awaits any more ends.
DetachedToolEnds(e) ==
  /\ e \in live
  /\ ~(pc[e[1]] \in {"tool", "approved"} /\ at[e[1]] = e[2])
  /\ live' = live \ {e}
  /\ UNCHANGED <<store, pc, at, started>>

\* Mutant: the loop keeps its old snapshot after the update.
AdvanceStale(c) ==
  /\ pc[c] = "advance"
  /\ currentStepIndex' = currentStepIndex + 1
  /\ Goto(c, "step")
  /\ UNCHANGED <<status, plan, pendingApproval, stepResults, at, tools>>

Advance(c) ==
  /\ pc[c] = "advance"
  /\ currentStepIndex' = currentStepIndex + 1
  /\ at' = [at EXCEPT ![c] = currentStepIndex + 1]
  /\ Goto(c, "step")
  /\ UNCHANGED <<status, plan, pendingApproval, stepResults, tools>>

Pause(c) ==
  /\ pc[c] = "pause"
  /\ pendingApproval' = at[c]
  /\ status' = "waiting_for_approval"
  /\ Ends(c)
  /\ UNCHANGED <<plan, currentStepIndex, stepResults, at, tools>>

FailRun(c) ==
  /\ pc[c] = "fail"
  /\ status' = "failed"
  /\ Ends(c)
  /\ UNCHANGED <<plan, currentStepIndex, pendingApproval, stepResults, at, tools>>

\* The catch of a failed step reports the error before it stores the failure: a
\* connection that throws at the report leaves the run running.
FailureUntold(c) ==
  /\ pc[c] = "fail"
  /\ Goto(c, "cut")
  /\ UNCHANGED <<store, at, tools>>

\* Mutant: the loop's bound is off by one.
PastLastButOneStep(c) == pc[c] = "step" /\ at[c] + 1 >= Len(plan)

PastLastStep(c) == pc[c] = "step" /\ at[c] >= Len(plan)

\* The reflector and the finalizer return.
CompleteRun(c) ==
  /\ PastLastStep(c)
  /\ status' = "completed"
  /\ Ends(c)
  /\ UNCHANGED <<plan, currentStepIndex, pendingApproval, stepResults, at, tools>>

\* One of them throws, or a connection that hears of them does, outside the
\* loop's try: the stored status stays.
FinalizingThrows(c) ==
  /\ PastLastStep(c)
  /\ Goto(c, "thrown")
  /\ UNCHANGED <<store, at, tools>>

-----------------------------------------------------------------------------
Start == PlanningThrows \/ \E p \in Plans : SaveRun(p)

Resume(c) ==
  ResumeRefused(c) \/ ResumeUntold(c) \/ ResumeReject(c) \/ ResumeApprove(c)

\* What a call does without anyone's help once its awaits settle.
Continue(c) ==
  \/ RejectRecorded(c) \/ ApprovedToolSucceeds(c) \/ ApprovedToolFails(c)
  \/ ResumeAdvance(c) \/ ConnectingThrows(c) \/ EnterLoop(c)
  \/ StepWithoutTools(c) \/ SingleTool(c) \/ ParallelTools(c) \/ StepUntold(c)
  \/ ToolSettles(c) \/ Advance(c) \/ Pause(c) \/ FailRun(c) \/ FailureUntold(c)
  \/ CompleteRun(c) \/ FinalizingThrows(c)

Next ==
  \/ Start
  \/ \E c \in Resumers : Resume(c)
  \/ \E c \in Callers : Continue(c)
  \/ \E e \in live : DetachedToolEnds(e)

(***************************************************************************)
(* The discipline of the callers the repository has: the next resume() of  *)
(* a run is made after the call before it settled.                         *)
(***************************************************************************)
SerialNext ==
  \/ Start
  \/ Quiet /\ \E c \in Resumers : Resume(c)
  \/ \E c \in Callers : Continue(c)
  \/ \E e \in live : DetachedToolEnds(e)

\* Promises settle: every tool call has a timeout, the store and the planner
\* answer.  Nothing obliges an operator to resume or a detached tool to end.
Fairness == WF_vars(Start) /\ \A c \in Callers : WF_vars(Continue(c))

Spec == Init /\ [][Next]_vars /\ Fairness
SerialSpec == Init /\ [][SerialNext]_vars /\ Fairness

-----------------------------------------------------------------------------
(* Properties *)

TypeOK ==
  /\ status \in {"none", "running", "waiting_for_approval", "completed", "failed"}
  /\ plan \in Seq(Step)
  /\ currentStepIndex \in Nat
  /\ pendingApproval \in Nat \cup {None}
  /\ stepResults \in Seq(Result)
  /\ pc \in [Callers -> PCs]
  /\ at \in [Callers -> Nat]
  /\ started \subseteq Callers \X Nat \X Nat
  /\ live \subseteq started

(***************************************************************************)
(* The result records are the plan's steps in order, each once: the store  *)
(* appends the record and moves currentStepIndex in two separate awaits    *)
(* (runtime.ts:214-221, 234-240, 324-328), so between them the log is one  *)
(* ahead, and never otherwise.                                             *)
(***************************************************************************)
ResultsInStepOrder ==
  /\ \A i \in 1..Len(stepResults) : stepResults[i].step = i - 1
  /\ Len(stepResults) \in {currentStepIndex, currentStepIndex + 1}
  /\ Quiet => Len(stepResults) = currentStepIndex

(***************************************************************************)
(* A tool with side effects runs at most once for the run, unless its step *)
(* needs an approval: then each execution is another operator's approval,  *)
(* given after the one before it failed.                                   *)
(***************************************************************************)
Call(e) == plan[e[2] + 1].calls[e[3]]

EffectsRunOnce ==
  \A e, f \in started :
    Call(e).effect /\ e[2] = f[2] /\ e[3] = f[3] =>
      e = f \/ (Call(e).confirm /\ {e[1], f[1]} \subseteq Resumers)

(***************************************************************************)
(* No tool of a step begins once the step has a result, executed or        *)
(* rejected: neither a second decision nor a resumed loop repeats it.      *)
(***************************************************************************)
SettledStepsDoNotRun ==
  [][\A e \in started' \ started :
       \A i \in 1..Len(stepResults) : stepResults[i].step # e[2]]_vars

(***************************************************************************)
(* A completed run has a result for every step, and no step of it refers   *)
(* to a step the operator rejected: rejecting a step that a later step     *)
(* names with $fromStep fails the run instead of completing it.            *)
(***************************************************************************)
UsesCall(step, k) ==
  step.mode = "parallel-tools" \/ (step.mode = "single-tool" /\ k = 1)

\* Step i (counted from 1) refers to earlier steps only, which were executed.
ReferencesExecuted(i) ==
  \A k \in DOMAIN plan[i].calls :
    UsesCall(plan[i], k) =>
      \A r \in plan[i].calls[k].refs : r < i - 1 /\ stepResults[r + 1].executed

CompletedRunIsWhole ==
  status = "completed" =>
    /\ Len(stepResults) = Len(plan)
    /\ \A i \in 1..Len(plan) : stepResults[i].executed => ReferencesExecuted(i)

(***************************************************************************)
(* What a run looks like when no call drives it: it was never saved, it    *)
(* waits at its current step for a decision (and can be resumed), it ended *)
(* or it is stuck in "running", where no resume() takes it.  Two things    *)
(* leave it stuck, a reflector, finalizer or connection that threw behind  *)
(* the last step (runtime.ts:347-358), and a connection that threw at one  *)
(* of the two places between the steps that no try guards: when resume()   *)
(* makes the connections (243-263) and when the catch reports the error    *)
(* (331).  No other failure, of a step, a tool or a decision, does.        *)
(***************************************************************************)
Gated(step) == step.mode = "single-tool" /\ step.calls # <<>> /\ step.calls[1].confirm

CutShort == \E c \in Callers : pc[c] = "cut"

QuietRunIsResumableOrAtItsEnd ==
  Quiet =>
    /\ status = "running" => currentStepIndex = Len(plan) \/ CutShort
    /\ CutShort => status = "running"
    /\ status = "waiting_for_approval" =>
         /\ pendingApproval = currentStepIndex
         /\ currentStepIndex < Len(plan)
         /\ Gated(plan[currentStepIndex + 1])
    /\ status # "waiting_for_approval" => pendingApproval = None

(***************************************************************************)
(* Every call that was made settles, whatever fails on its way: no error   *)
(* path leaves run() or resume() pending.                                  *)
(***************************************************************************)
CallsSettle == \A c \in Callers : Active(c) ~> pc[c] \in Settled

(***************************************************************************)
(* Also when resume() calls overlap: the log is ahead of currentStepIndex  *)
(* by the calls that stored a result and have not yet advanced.            *)
(***************************************************************************)
Advancing == {c \in Callers : pc[c] \in {"advance", "resumeAdvance"}}

ProgressIsRecorded == Len(stepResults) = currentStepIndex + Cardinality(Advancing)

(***************************************************************************)
(* What the guard of resume() says, "Run ... is not waiting for approval"  *)
(* (runtime.ts:203-205): a call of resume() acts on a waiting run.  Its    *)
(* update, two awaits later, should find the run still waiting for it.     *)
(***************************************************************************)
ResumeActsOnWaitingRun ==
  [][\A c \in Resumers : pc[c] = "resumeAdvance" /\ pc'[c] = "enter" =>
       AwaitsApproval /\ pendingApproval = at[c]]_vars

(***************************************************************************)
(* With one call at a time the runtime keeps the promise of RunLifecycle:  *)
(* a step is settled when currentStepIndex moves past it.                  *)
(***************************************************************************)
GatesOf(p) == [i \in 1..Len(p) |-> Gated(p[i])]

Lifecycle == INSTANCE RunLifecycle WITH
  Gatings <- {GatesOf(p) : p \in Plans},
  phase <- IF status = "waiting_for_approval" THEN "waiting" ELSE status,
  gates <- GatesOf(plan),
  log <- [i \in 1..currentStepIndex |-> stepResults[i].executed]

KeepsLifecycle == Lifecycle!Spec
=============================================================================
