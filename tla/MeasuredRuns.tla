---------------------------- MODULE MeasuredRuns ----------------------------
(***************************************************************************)
(* The runs that the lab measures, event by event, with the tool calls     *)
(* that their events are about, the scenarios that it tries advisors on,   *)
(* and what it promises of its measurements.                               *)
(***************************************************************************)
EXTENDS Naturals, FiniteSets, SequencesExt

CONSTANTS
  Scenarios,      \* the scenarios of an evaluation, each [answer, ms, passed]
  Limits,         \* what each suite accepts, suite by suite
  MaxScenarios,   \* bound: so many scenarios are tried
  TimedTools,     \* the tools that a run calls
  PlanningTimes,  \* how long planning may take, each [llm, fallback, validation]
  Gaps,           \* the time that may pass before a call starts
  Delays,         \* and before it settles or the run ends
  MaxCalls,       \* bound: so many calls are made
  Missing

ASSUME ScenariosAssumption ==
  Scenarios \subseteq [answer : {"good", "throws", "weak", "unknown"}, ms : Nat, passed : BOOLEAN]

\* A suite that asks for no passes would accept a model that never does.
ASSUME LimitsAssumption ==
  Limits \in Seq([pass : Nat \ {0}, fallback : Nat, average : Nat, p95 : Nat])

ASSUME TimesAssumption ==
  /\ PlanningTimes \subseteq [llm : Nat, fallback : Nat, validation : Nat]
  /\ Gaps \subseteq Nat /\ Delays \subseteq Nat
  /\ Missing \notin Nat
  /\ Missing \notin [type : {"tool_error"}, tool : TimedTools, ts : Nat]

VARIABLES
  suites,     \* the scenarios tried so far, by suite
  trace,      \* the events of a run
  toolCalls,  \* the calls it made, each [tool, start, end]
  underWay    \* those that have not settled

M == INSTANCE LabMeasurements

runVars == <<trace, toolCalls, underWay>>
measuredVars == <<suites, runVars>>

MeasuredInit == suites = <<>> /\ trace = <<>> /\ toolCalls = <<>> /\ underWay = {}

-----------------------------------------------------------------------------
\* In the suite that is open or in one of its own.
AddScenario(scenario, opens) ==
  /\ Len(FlattenSeq(suites)) < MaxScenarios
  /\ \/ /\ opens /\ Len(suites) < Len(Limits)
        /\ suites' = Append(suites, <<scenario>>)
     \/ /\ ~opens /\ suites # <<>>
        /\ suites' = [suites EXCEPT ![Len(suites)] = Append(@, scenario)]
  /\ UNCHANGED runVars

-----------------------------------------------------------------------------
(* Events: planning, with or without a fallback, tool calls that overlap,  *)
(* the end of the run.                                                     *)

Event(type, tool, ts) == [type |-> type, tool |-> tool, ts |-> ts]
Plain(type, ts) == Event(type, Missing, ts)

\* What is logged before the first step: the model's plan is valid, or there
\* is none, or it is not.
Planned(plan, time) ==
  LET asked == time.llm
      fallenBack == asked + time.fallback
      checked == asked + time.validation
      mended == checked + time.fallback
  IN  CASE plan = "valid" ->
             <<Plain("run_start", 0), Plain("planner_call", 0),
               Plain("planner_llm_start", 0), Plain("planner_llm_end", asked),
               Plain("planner_validation_start", asked), Plain("planner_validation_end", checked),
               Plain("step_start", checked)>>
        [] plan = "none" ->
             <<Plain("run_start", 0), Plain("planner_call", 0),
               Plain("planner_llm_start", 0), Plain("planner_llm_end", asked),
               Plain("planner_fallback_start", asked), Plain("planner_fallback_end", fallenBack),
               Plain("planner_validation_start", fallenBack),
               Plain("planner_validation_end", fallenBack + time.validation),
               Plain("step_start", fallenBack + time.validation)>>
        [] plan = "invalid" ->
             <<Plain("run_start", 0), Plain("planner_call", 0),
               Plain("planner_llm_start", 0), Plain("planner_llm_end", asked),
               Plain("planner_validation_start", asked), Plain("planner_validation_end", checked),
               Plain("planner_fallback_start", checked), Plain("planner_fallback_end", mended),
               Plain("planner_validation_start", mended),
               Plain("planner_validation_end", mended + time.validation),
               Plain("step_start", mended + time.validation)>>

Now == Last(trace).ts
Has(type) == \E i \in DOMAIN trace : trace[i].type = type

StartRun(plan, time) ==
  /\ trace = <<>>
  /\ trace' = Planned(plan, time)
  /\ UNCHANGED <<suites, toolCalls, underWay>>

StartCall(tool, ts) ==
  /\ ~Has("tool_error") /\ ~Has("run_end") /\ Len(toolCalls) < MaxCalls
  /\ trace' = Append(trace, Event("tool_start", tool, ts))
  /\ toolCalls' = Append(toolCalls, [tool |-> tool, start |-> ts, end |-> ts])
  /\ underWay' = underWay \cup {Len(toolCalls')}
  /\ UNCHANGED suites

SettleCall(c, type, ts) ==
  /\ trace' = Append(trace, Event(type, toolCalls[c].tool, ts))
  /\ toolCalls' = [toolCalls EXCEPT ![c].end = ts]
  /\ underWay' = underWay \ {c}
  /\ UNCHANGED suites

EndRun(ts) ==
  /\ ~Has("run_end")
  /\ \/ /\ Has("tool_error")
        /\ trace' = trace \o <<Plain("error", ts), Plain("run_end", ts)>>
     \/ /\ ~Has("tool_error") /\ underWay = {}
        /\ trace' = trace \o <<Plain("reflector_call", ts), Plain("finalizer_call", ts),
                               Plain("run_end", ts + 1)>>
  /\ UNCHANGED <<suites, toolCalls, underWay>>

RunNext ==
  \/ \E plan \in {"valid", "none", "invalid"}, time \in PlanningTimes : StartRun(plan, time)
  \/ /\ trace # <<>>
     /\ \/ \E tool \in TimedTools, gap \in Gaps : StartCall(tool, Now + gap)
        \/ \E c \in underWay, type \in {"tool_end", "tool_error"}, delay \in Delays :
             SettleCall(c, type, Now + delay)
        \/ \E delay \in Delays : EndRun(Now + delay)

MeasuredNext ==
  \/ \E scenario \in Scenarios, opens \in BOOLEAN : AddScenario(scenario, opens)
  \/ RunNext

MeasuredSpec == MeasuredInit /\ [][MeasuredNext]_measuredVars

-----------------------------------------------------------------------------
(***************************************************************************)
(* An evaluation judges the answers of the model only: a scenario counts   *)
(* for it exactly when its answer was used, which is when no fallback ran. *)
(* A suite is inconclusive exactly when every scenario ended in an error,  *)
(* and the report recommends the model only if it decided in every suite   *)
(* and was accepted there, with acceptable latencies: then, although they  *)
(* are rounded by suite, the average over all scenarios is acceptable to   *)
(* the suite that accepts the most.                                        *)
(***************************************************************************)
EvaluationsAreFair ==
  suites # <<>> =>
    LET report == M!Report(suites, Limits)
        Used(s) == M!Fallbacks(s.answer, TRUE) = 0
        Erred(s) == s.answer \in {"throws", "unknown"}
    IN  /\ \A i \in DOMAIN suites :
             LET suite == suites[i] result == report.suites[i]
             IN  /\ \A s \in ToSet(suite) :
                      M!ByModel(s) <=> Used(s) /\ M!Resolution(s.answer, TRUE) = "model"
                 /\ result.status = "inconclusive" <=> \A s \in ToSet(suite) : Erred(s)
                 /\ result.status = "passed" => \E s \in ToSet(suite) : Used(s) /\ s.passed
                 /\ result.status = "inconclusive" => result.risk # "acceptable"
        /\ report.suitable =>
             /\ \A i \in DOMAIN suites : \E s \in ToSet(suites[i]) : Used(s) /\ s.passed
             /\ \A i \in DOMAIN suites :
                  (\A j \in DOMAIN suites : Limits[j].average <= Limits[i].average) =>
                    report.timing.average <= 1000 * Limits[i].average
        /\ report.quality = "inconclusive" <=>
             \A i \in DOMAIN suites : \A s \in ToSet(suites[i]) : Erred(s)

(***************************************************************************)
(* The summary of a run's times: although the events do not say which call *)
(* of a tool settled (cli.ts:436), each tool has as many calls as settled, *)
(* and once all of them have, exactly their total time and no longer       *)
(* maximum than the true one; before, the total is never too small.  The   *)
(* failure reported is the last of a tool, and what planning is made of    *)
(* never takes longer than planning.                                       *)
(***************************************************************************)
TrueTime(c) == toolCalls[c].end - toolCalls[c].start
CallsOf(tool) == {c \in DOMAIN toolCalls : toolCalls[c].tool = tool}

\* The time of the settled calls of the tool, by call.
TrueTimes(tool) ==
  [c \in DOMAIN toolCalls |-> IF c \in CallsOf(tool) \ underWay THEN TrueTime(c) ELSE 0]

TimesOfTools(read) ==
  \A tool \in TimedTools :
    LET bucket == read.buckets[tool]
    IN  /\ bucket.count = Cardinality(CallsOf(tool) \ underWay)
        /\ bucket.total >= M!Total(TrueTimes(tool))
        /\ CallsOf(tool) \cap underWay = {} =>
             /\ bucket.total = M!Total(TrueTimes(tool))
             /\ CallsOf(tool) # {} => \E c \in CallsOf(tool) : bucket.max <= TrueTime(c)

LastFailure(read) ==
  LET failures == {i \in DOMAIN trace : trace[i].type = "tool_error"}
  IN  \A i \in failures : (\A j \in failures : j <= i) => read.failure = trace[i]

TimesOfPlanning(stages) ==
  trace # <<>> =>
    /\ stages.fallback # Missing => stages.llm + stages.validation <= stages.planner
    /\ stages.llm <= stages.planner

TimesAreTrue ==
  LET read == M!ToolTimes(trace, TimedTools)
  IN  TimesOfTools(read) /\ LastFailure(read) /\ TimesOfPlanning(M!Stages(trace))

\* What the lab measures of advisors and of runs is what happened.
MeasurementsAreTrue == EvaluationsAreFair /\ TimesAreTrue
=============================================================================
