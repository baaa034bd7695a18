-------------------------- MODULE PlanPreparation --------------------------
(***************************************************************************)
(* How a run comes by its plan: src/agent/planner.ts (createPlan with its  *)
(* validation, repair of arguments and deterministic fallback) and the     *)
(* plans of src/llm/fake-plan-builders.ts it falls back on.                *)
(*                                                                         *)
(* A step is its id and its calls; a call is its tool and its arguments.   *)
(* An argument is [from |-> step id, path |-> what], a reference, or, from *)
(* no step, a value: its path is what the tool's schema says of it.        *)
(* Ids are numbers from 1; descriptions and reasoning texts are left out.  *)
(***************************************************************************)
EXTENDS Naturals, Sequences, FiniteSets, SequencesExt

\* REFERENCE_ONLY_TOOL_ARGS
ReferenceOnly == [
  designFlowDraft |-> {"preflight"},
  validateFlowDraft |-> {"flow"},
  runFlowSample |-> {"flow"},
  designFlowNodeConfigurations |-> {"flow"},
  validateFlowNodeConfigurations |-> {"flow"}]

\* REFERENCE_ARG_PRODUCERS: the tools and the part of their result.
Producers == [
  designFlowDraft |->
    [tools |-> {"prevalidateFlowDesignRequest", "assessFlowFeasibility"}, path |-> "data"],
  designFlowNodeConfigurations |-> [tools |-> {"designFlowDraft"}, path |-> "flow"],
  validateFlowNodeConfigurations |->
    [tools |-> {"designFlowNodeConfigurations", "designFlowDraft"}, path |-> "flow"],
  validateFlowDraft |->
    [tools |-> {"designFlowNodeConfigurations", "designFlowDraft"}, path |-> "flow"],
  runFlowSample |->
    [tools |-> {"designFlowNodeConfigurations", "designFlowDraft"}, path |-> "flow"]]

To(id, path) == [from |-> id, path |-> path]
Valid == To(0, "valid")
Invalid == To(0, "invalid")
IsReference(arg) == arg.from # 0

MaxOf(S) == CHOOSE n \in S : \A k \in S : k <= n
MinOf(S) == CHOOSE n \in S : \A k \in S : n <= k

-----------------------------------------------------------------------------
(* Validation: validatePlan, validateReferenceOnlyArgs, findPreviousReference *)

Calls(step, tools) == {k \in DOMAIN step.calls : step.calls[k].tool \in tools}

\* The steps before step i that call one of the tools.
Candidates(steps, i, tools) == {j \in 1..(i - 1) : Calls(steps[j], tools) # {}}

\* Mutant: the first producer is taken, not the one before the call.
FirstReference(steps, i, tool) ==
  To(steps[MinOf(Candidates(steps, i, Producers[tool].tools))].id, Producers[tool].path)

PreviousReference(steps, i, tool) ==
  To(steps[MaxOf(Candidates(steps, i, Producers[tool].tools))].id, Producers[tool].path)

\* The arguments of a call that may only be references and are not.
Inline(call) ==
  IF call.tool \notin DOMAIN ReferenceOnly THEN {}
  ELSE {a \in ReferenceOnly[call.tool] \cap DOMAIN call.args : ~IsReference(call.args[a])}

Repairable(steps, i, call) == Candidates(steps, i, Producers[call.tool].tools) # {}

RepairedArgs(steps, i, call) ==
  [a \in DOMAIN call.args |->
     IF a \in Inline(call) THEN PreviousReference(steps, i, call.tool) ELSE call.args[a]]

\* What validation says of call k of step i: "ok" or the error it throws.
\* required gives the arguments without which a tool's schema fails.
Verdict(steps, i, k, required) ==
  LET call == steps[i].calls[k]
  IN  CASE call.tool \notin DOMAIN required -> "TOOL_UNAVAILABLE"
        [] /\ call.tool \in DOMAIN required
           /\ Inline(call) # {} /\ ~Repairable(steps, i, call) -> "PLANNER_REFERENCE_REQUIRED"
        [] /\ call.tool \in DOMAIN required
           /\ Inline(call) = {} \/ Repairable(steps, i, call) ->
             LET args == RepairedArgs(steps, i, call)
             IN  IF \/ ~(required[call.tool] \subseteq DOMAIN args)
                    \/ \E a \in DOMAIN args : args[a] = Invalid
                   THEN "INVALID_ARGS" ELSE "ok"

Places(steps) == UNION {{i} \X DOMAIN steps[i].calls : i \in DOMAIN steps}
Before(p, q) == p[1] < q[1] \/ (p[1] = q[1] /\ p[2] < q[2])

\* The error of the first call that fails, or the plan with its arguments repaired.
Validated(steps, required) ==
  LET failing == {p \in Places(steps) : Verdict(steps, p[1], p[2], required) # "ok"}
      first == CHOOSE p \in failing : \A q \in failing : p = q \/ Before(p, q)
  IN  IF steps = <<>> THEN [error |-> "EMPTY_PLAN", steps |-> <<>>]
      ELSE IF failing # {}
        THEN [error |-> Verdict(steps, first[1], first[2], required), steps |-> <<>>]
        ELSE [error |-> "none",
              steps |-> [i \in DOMAIN steps |-> [id |-> steps[i].id,
                calls |-> [k \in DOMAIN steps[i].calls |->
                  [tool |-> steps[i].calls[k].tool,
                   args |-> RepairedArgs(steps, i, steps[i].calls[k])]]]]]

-----------------------------------------------------------------------------
(* The deterministic plans *)

Step(id, tool, args) == [id |-> id, calls |-> <<[tool |-> tool, args |-> args]>>]
Thinking(id) == [id |-> id, calls |-> <<>>]   \* a reasoning or finalize step
Request == [userRequest |-> Valid]

PreflightPlan == <<
  Step(1, "inferTaskGraph", Request),
  Step(2, "analyzeTaskGraphCompatibility", [taskGraph |-> To(1, "taskGraph")]),
  Step(3, "proposeMissingBlocks", [nodeAnalyses |-> To(2, "nodeAnalyses")]),
  Step(4, "prevalidateFlowDesignRequest", Request),
  Thinking(5)>>

NodeConfigPlan == <<Thinking(1), Thinking(2)>>

\* The first step of a design pass, its preflight and its reflection.
First(pass) == IF pass = 1 THEN 3 ELSE 9 + 8 * (pass - 2)
Preflight(pass) == IF pass = 1 THEN 1 ELSE First(pass) + 1
Reflection(pass) == First(pass + 1) - 1

\* What a later pass takes from the reflection before it.
Notes(pass) == IF pass = 1 THEN <<>>
               ELSE [improvementNotes |-> To(Reflection(pass - 1), "improvementNotes")]
With(f, g) == [a \in DOMAIN f \cup DOMAIN g |-> IF a \in DOMAIN f THEN f[a] ELSE g[a]]

Refine(pass) == <<
  Step(First(pass), "refineTaskGraph",
    With([taskGraph |-> To(Preflight(pass - 1), "taskGraph"),
          issues |-> To(Reflection(pass - 1), "issues")], Notes(pass))),
  Step(First(pass) + 1, "prevalidateFlowDesignRequest",
    [userRequest |-> Valid, taskGraph |-> To(First(pass), "taskGraph")])>>

DesignPass(pass) ==
  LET draft == Reflection(pass) - 5
      configured == To(draft + 1, "flow")
      reflection == Reflection(pass - 1)
  IN  (IF pass = 1 THEN <<>> ELSE Refine(pass)) \o <<
        Step(draft, "designFlowDraft",
          With([userRequest |-> Valid, preflight |-> To(Preflight(pass), "data")], Notes(pass))),
        Step(draft + 1, "designFlowNodeConfigurations",
          With([userRequest |-> Valid, flow |-> To(draft, "flow"), probeResult |-> To(2, "data")],
               IF pass = 1 THEN <<>>
               ELSE With([strategyDirectives |-> To(reflection, "nodeConfigStrategyDirectives"),
                          strategyNotes |-> To(reflection, "nodeConfigSkillImprovements")],
                         Notes(pass)))),
        Step(draft + 2, "validateFlowNodeConfigurations", [flow |-> configured]),
        Step(draft + 3, "validateFlowDraft", [flow |-> configured]),
        Step(draft + 4, "runFlowSample",
          With([userRequest |-> Valid, flow |-> configured], Notes(pass))),
        Step(draft + 5, "reflectFlowResult",
          [userRequest |-> Valid, sampleResult |-> To(draft + 4, "data")])>>

DesignPasses[n \in 0..3] == IF n = 0 THEN <<>> ELSE DesignPasses[n - 1] \o DesignPass(n)

\* A request about mail is refused after the preflight; one about JSON or
\* several results gets three passes, any other two.
DesignerPlan(request) ==
  LET prevalidation == Step(1, "prevalidateFlowDesignRequest", Request)
      passes == IF request = "several" THEN 3 ELSE 2
  IN  IF request = "mail" THEN <<prevalidation, Thinking(2), Thinking(3)>>
      ELSE <<prevalidation, Step(2, "probeFlowBlock", [blockId |-> Valid])>>
           \o DesignPasses[passes] \o <<Thinking(Reflection(passes) + 1)>>

FallbackPlan(skill, request) ==
  CASE skill = "flow-designer" -> DesignerPlan(request)
    [] skill = "flow-preflight-validator" -> PreflightPlan
    [] skill = "node-config-designer" -> NodeConfigPlan
    [] OTHER -> <<>>

ToolsOf(steps) == {steps[p[1]].calls[p[2]].tool : p \in Places(steps)}

\* buildDeterministicFallbackPlan: only after errors that another plan may mend,
\* and only when every tool of the plan is available.
Mendable == {"PLAN_ARGS_JSON_INVALID", "STRUCTURED_PARSE_FAILED", "INVALID_ARGS"}

HasFallback(error, fallback, required) ==
  error \in Mendable /\ fallback # <<>> /\ ToolsOf(fallback) \subseteq DOMAIN required

\* The plan if it is valid, else the fallback if there is one.
OrFallback(validated, fallback, required) ==
  IF HasFallback(validated.error, fallback, required) THEN Validated(fallback, required)
  ELSE validated

\* createPlan: reply is what the model's plan is, [error |-> ..., steps |-> ...],
\* fallback the FallbackPlan of the skill and the request.
Created(reply, fallback, required) ==
  CASE reply.error = "none" -> OrFallback(Validated(reply.steps, required), fallback, required)
    [] reply.error # "none" -> OrFallback(reply, fallback, required)

-----------------------------------------------------------------------------
(* What a reference is to when the plan runs (step-references.ts:67-99) *)

\* The kinds of value the parts of a tool's result have.
Gives(tool, path) ==
  CASE path = "data" /\ tool \in {"prevalidateFlowDesignRequest", "assessFlowFeasibility"} -> "preflight"
    [] path = "data" /\ tool = "probeFlowBlock" -> "probeResult"
    [] path = "data" /\ tool = "runFlowSample" -> "sampleResult"
    [] path = "flow" /\ tool \in {"designFlowDraft", "designFlowNodeConfigurations"} -> "flow"
    [] path = "taskGraph" /\ tool \in {"inferTaskGraph", "refineTaskGraph",
                                       "prevalidateFlowDesignRequest"} -> "taskGraph"
    [] path = "nodeAnalyses" /\ tool = "analyzeTaskGraphCompatibility" -> "nodeAnalyses"
    [] path = "nodeConfigStrategyDirectives" /\ tool = "reflectFlowResult" -> "strategyDirectives"
    [] path = "nodeConfigSkillImprovements" /\ tool = "reflectFlowResult" -> "strategyNotes"
    [] path \in {"improvementNotes", "issues"} /\ tool = "reflectFlowResult" -> path
    [] OTHER -> "nothing"

\* The first result of the first step of that id: toolResults.0.
Resolved(steps, i, reference) ==
  LET found == {j \in 1..(i - 1) : steps[j].id = reference.from}
  IN  IF found = {} \/ steps[MinOf(found)].calls = <<>> THEN "nothing"
      ELSE Gives(steps[MinOf(found)].calls[1].tool, reference.path)

\* No call of the tools between the step referred to and step i gives another
\* of that kind.
Latest(steps, i, kind, reference, tools) ==
  \A from, j \in 1..(i - 1) : steps[from].id = reference.from /\ from < j =>
    \A k \in Calls(steps[j], tools) : Gives(steps[j].calls[k].tool, reference.path) # kind

\* Ids are told apart, and a step that produces what others refer to has one call.
WellNumbered(steps) ==
  /\ \A i, j \in DOMAIN steps : steps[i].id = steps[j].id => i = j
  /\ \A i \in DOMAIN steps : \A k \in DOMAIN steps[i].calls :
       k > 1 => \A tool \in DOMAIN Producers : steps[i].calls[k].tool \notin Producers[tool].tools
=============================================================================
