--------------------------- MODULE CreatedPlans ---------------------------
(***************************************************************************)
(* The plans that a model may reply with, step by step, where a run may    *)
(* ask for one, and what createPlan (src/agent/planner.ts) promises of the *)
(* plan that it makes of the reply.                                        *)
(***************************************************************************)
EXTENDS Naturals, Sequences, FiniteSets, SequencesExt

CONSTANTS
  ReplyErrors,   \* how a reply may fail, "none" if it does not
  CallLists,     \* the calls that a step of a reply may make
  Surroundings,  \* where a plan is created, each [fallback, tools]
  Replying,      \* bound: in which of them a reply may have steps
  MaxSteps       \* bound: at most so many

P == INSTANCE PlanPreparation

VARIABLE replies  \* the reply of a model, once there is one, and where it is made

PlanInit == replies = {}

Reply(error, surroundings) ==
  /\ replies = {}
  /\ replies' = {[answer |-> [error |-> error, steps |-> <<>>],
                  fallback |-> surroundings.fallback, tools |-> surroundings.tools]}

AddStep(id, calls) ==
  \E reply \in replies :
    /\ reply.answer.error = "none" /\ Len(reply.answer.steps) < MaxSteps
    /\ [fallback |-> reply.fallback, tools |-> reply.tools] \in Replying
    /\ replies' = {[reply EXCEPT !.answer.steps = Append(@, [id |-> id, calls |-> calls])]}

PlanNext ==
  \/ \E error \in ReplyErrors, surroundings \in Surroundings : Reply(error, surroundings)
  \/ \E id \in 1..MaxSteps, calls \in CallLists : AddStep(id, calls)

PlanSpec == PlanInit /\ [][PlanNext]_replies

-----------------------------------------------------------------------------
(* The argument of the call in that place of a plan, a reference, resolves *)
(* when the step runs to a result of its kind, and to the latest one.      *)
FindsLatest(plan, place, arg, tools) ==
  LET call == plan[place[1]].calls[place[2]]
      reference == call.args[arg]
      producers == IF call.tool = "designFlowNodeConfigurations" /\ arg = "flow"
                   THEN {"designFlowDraft"} ELSE DOMAIN tools
  IN  /\ P!Resolved(plan, place[1], reference) = arg
      /\ P!Latest(plan, place[1], arg, reference, producers)

References(call) == {arg \in DOMAIN call.args : P!IsReference(call.args[arg])}

\* A plan: steps that are numbered from 1, each with its calls.
IsPlan(steps) ==
  /\ steps \in Seq(ToSet(steps))
  /\ \A step \in ToSet(steps) : step.id \in Nat \ {0} /\ step.calls \in Seq(ToSet(step.calls))

ASSUME CallListsAssumption == \A calls \in CallLists : calls \in Seq(ToSet(calls))

\* A fallback plan is valid where its tools are available, and what it refers
\* to is there.
ASSUME SurroundingsAssumption ==
  \A s \in Surroundings :
    /\ IsPlan(s.fallback)
    /\ s.fallback # <<>> /\ P!ToolsOf(s.fallback) \subseteq DOMAIN s.tools =>
         LET validated == P!Validated(s.fallback, s.tools)
         IN  /\ validated.error = "none"
             /\ \A place \in P!Places(validated.steps) :
                  \A arg \in References(validated.steps[place[1]].calls[place[2]]) :
                    FindsLatest(validated.steps, place, arg, s.tools)

(***************************************************************************)
(* A plan that leaves createPlan calls available tools only and refers to  *)
(* flows and preflights instead of holding them.  Every reference that the *)
(* planner itself put there, by repair or fallback, resolves when the step *)
(* runs, to a result of the right kind, and to the latest one: a revision  *)
(* never works on a draft or a task graph that an earlier pass produced.   *)
(* A configuration that is designed again starts from the latest draft.    *)
(* After an error that another plan may mend there is a plan whenever the  *)
(* tools for it are there.  The plan must be well numbered for this: a     *)
(* repaired reference names a step by its id and takes its first result.   *)
(***************************************************************************)
ReferencesResolve(plan, replied, tools) ==
  \A place \in P!Places(plan) :
    LET call == plan[place[1]].calls[place[2]]
        given(arg) == /\ Len(replied) = Len(plan)
                      /\ replied[place[1]].calls[place[2]].args[arg] = call.args[arg]
    IN  /\ call.tool \in DOMAIN tools
        /\ P!Inline(call) = {}
        /\ \A arg \in References(call) :
             given(arg) \/ ~P!WellNumbered(plan) \/ FindsLatest(plan, place, arg, tools)

CreatedPlansResolve ==
  \A reply \in replies :
    LET created == P!Created(reply.answer, reply.fallback, reply.tools)
    IN  /\ created.error = "none" =>
             ReferencesResolve(created.steps, reply.answer.steps, reply.tools)
        /\ /\ reply.answer.error \in P!Mendable
           /\ reply.fallback # <<>> /\ P!ToolsOf(reply.fallback) \subseteq DOMAIN reply.tools
           => created.error = "none"
=============================================================================
