-------------------------- MODULE LabMeasurements --------------------------
(***************************************************************************)
(* What the prompt lab measures: the decisions of lite advisors            *)
(* (src/advisors/lite.ts) and their evaluation                             *)
(* (src/flow/design/advisor-evaluation.ts), and the timing of a run, from  *)
(* its trace (summarizeExecutionTiming in src/prompt-lab/cli.ts).          *)
(*                                                                         *)
(* Rates are in thousandths, as round() leaves them; times are naturals.   *)
(***************************************************************************)
EXTENDS Naturals, Sequences, FiniteSets, SequencesExt

CONSTANT Missing

Rounded(a, b) == (2000 * a + b) \div (2 * b)    \* round(a / b)

Total(times) ==
  LET sum[i \in 0..Len(times)] == IF i = 0 THEN 0 ELSE sum[i - 1] + times[i]
  IN  sum[Len(times)]

-----------------------------------------------------------------------------
(* A lite advisor is asked once: answer is what the gateway gives, "none"  *)
(* without a gateway, "weak" below the threshold, "unknown" when it names  *)
(* nothing in the catalog.  The fallback works or throws.                  *)

\* The decisions reported, in order.
Decisions(answer, fallbackWorks) ==
  CASE answer = "none" -> <<"fallback-no-gateway">>
    [] answer = "throws" -> <<"fallback-error">>
    [] answer = "weak" -> IF fallbackWorks THEN <<"fallback-threshold">>
                          ELSE <<"fallback-threshold", "fallback-error">>
    [] answer = "unknown" -> <<"model", "fallback-error">>
    [] answer = "good" -> <<"model">>

\* How often the fallback is run.
Fallbacks(answer, fallbackWorks) ==
  CASE answer = "good" -> 0
    [] answer = "weak" /\ ~fallbackWorks -> 2
    [] OTHER -> 1

Outcome(answer, fallbackWorks) ==
  IF answer = "good" THEN "model" ELSE IF fallbackWorks THEN "deterministic" ELSE "throws"

\* Mutant: the first decision is kept.
FirstResolution(answer, fallbackWorks) == Head(Decisions(answer, fallbackWorks))

\* buildDecisionTracker: the last decision is kept.
Resolution(answer, fallbackWorks) == Last(Decisions(answer, fallbackWorks))

-----------------------------------------------------------------------------
(* The evaluation of the advisors on scenarios, each [answer, ms, passed]. *)
(* The fallbacks of the evaluated advisors are deterministic and work.     *)

ByModel(scenario) == Outcome(scenario.answer, TRUE) = "model"
Failed(scenario) == Resolution(scenario.answer, TRUE) = "fallback-error"

\* Which scenarios the model decided.
Decided(scenarios) == {i \in DOMAIN scenarios : ByModel(scenarios[i])}

InOrder(times) == SortSeq(times, <)

\* computeTimingStats; the average is in thousandths.
Timing(scenarios) ==
  LET n == Len(scenarios)
      times == [i \in 1..n |-> scenarios[i].ms]
      sorted == InOrder(times)
      p95 == (95 * n + 99) \div 100
  IN  [average |-> Rounded(Total(times), n), p95 |-> sorted[p95], max |-> sorted[n]]

Exceeded(timing, limits) ==
  {k \in {"average", "p95"} :
     timing[k] > IF k = "average" THEN 1000 * limits.average ELSE limits.p95}

\* computeLatencyRisk
LatencyRisk(timing, limits, allErrors) ==
  LET exceeded == Exceeded(timing, limits)
  IN  CASE allErrors \/ Cardinality(exceeded) = 1 -> "warning"
        [] ~allErrors /\ Cardinality(exceeded) = 2 -> "high"
        [] ~allErrors /\ exceeded = {} -> "acceptable"

AllErrors(scenarios) == \A i \in DOMAIN scenarios : Failed(scenarios[i])

\* evaluateSuite
Suite(scenarios, limits) ==
  LET n == Len(scenarios)
      decided == Decided(scenarios)
      decisions == Cardinality(decided)
      passed == Cardinality({i \in decided : scenarios[i].passed})
      decisionRate == Rounded(decisions, n)
      passRate == IF decisions > 0 THEN Rounded(passed, decisions) ELSE 0
      fallbackRate == Rounded(n - decisions, n)
      accepted == decisionRate > 0 /\ passRate >= limits.pass /\ fallbackRate <= limits.fallback
      borderline == decisionRate >= 500 /\ passRate >= 600 /\ fallbackRate <= 500
      allErrors == AllErrors(scenarios)
  IN  [accepted |-> accepted,
       status |-> IF allErrors THEN "inconclusive" ELSE IF accepted THEN "passed" ELSE "failed",
       suitability |-> CASE allErrors -> "inconclusive"
                         [] ~allErrors /\ accepted -> "suitable"
                         [] OTHER -> IF borderline THEN "borderline" ELSE "not-suitable",
       risk |-> LatencyRisk(Timing(scenarios), limits, allErrors)]

\* evaluateFlowDesignAdvisors, of the suites' scenarios and their limits.
Report(suites, limits) ==
  LET results == [i \in DOMAIN suites |-> Suite(suites[i], limits[i])]
      accepted == {i \in DOMAIN results : results[i].accepted}
      inconclusive == {i \in DOMAIN results : results[i].status = "inconclusive"}
      risks == {results[i].risk : i \in DOMAIN results}
      quality == CASE accepted = DOMAIN results -> "suitable"
                   [] accepted # DOMAIN results /\ inconclusive = DOMAIN results -> "inconclusive"
                   [] OTHER -> IF accepted # {} THEN "borderline" ELSE "not-suitable"
      risk == CASE "high" \in risks -> "high"
                [] "high" \notin risks /\ "warning" \in risks -> "warning"
                [] risks = {"acceptable"} -> "acceptable"
  IN  [quality |-> quality, risk |-> risk, suitable |-> quality = "suitable" /\ risk = "acceptable",
       timing |-> Timing(FlattenSeq(suites)), suites |-> results]

-----------------------------------------------------------------------------
(* The timing of a run.  An event of the trace is [type, tool, ts]; it     *)
(* does not tell which of the calls of its tool it is about.               *)

NoTimes == [count |-> 0, total |-> 0, max |-> 0]
Max2(a, b) == IF a > b THEN a ELSE b

\* One call of a tool that started then settles; rest are the starts left.
Counted(times, event, start, rest) ==
  [times EXCEPT !.starts[event.tool] = rest,
     !.buckets[event.tool] = [count |-> @.count + 1, total |-> @.total + event.ts - start,
                              max |-> Max2(@.max, event.ts - start)]]

\* The starts of a tool are used in their order, whichever call settles;
\* what settles without a start is not counted.
Settled(times, event) ==
  LET starts == times.starts[event.tool]
  IN  IF starts = <<>> THEN times ELSE Counted(times, event, Head(starts), Tail(starts))

Read(times, event) ==
  CASE event.type = "tool_start" ->
         [times EXCEPT !.starts[event.tool] = Append(@, event.ts)]
    [] event.type = "tool_end" -> Settled(times, event)
    [] event.type = "tool_error" -> [Settled(times, event) EXCEPT !.failure = event]
    [] event.type = "error" /\ times.failure = Missing -> [times EXCEPT !.failure = event]
    [] OTHER -> times

Unread(tools) ==
  [starts |-> [t \in tools |-> <<>>], buckets |-> [t \in tools |-> NoTimes], failure |-> Missing]

\* The buckets of the tools and the failure reported.
ToolTimes(trace, tools) ==
  LET read[i \in 0..Len(trace)] ==
        IF i = 0 THEN Unread(tools) ELSE Read(read[i - 1], trace[i])
  IN  read[Len(trace)]

\* The time of the first event of a type, and a stage between two.
At(trace, type) ==
  LET found == {i \in DOMAIN trace : trace[i].type = type}
  IN  IF found = {} THEN Missing ELSE trace[CHOOSE i \in found : \A j \in found : i <= j].ts

Between(from, to) == IF Missing \in {from, to} THEN Missing ELSE to - from

\* The stages of planning, reflecting and finalizing; Missing when not reported.
Stages(trace) ==
  LET end == At(trace, "run_end")
      or(at) == IF at = Missing THEN end ELSE at
  IN  [planner |-> Between(At(trace, "planner_call"), or(At(trace, "step_start"))),
       llm |-> Between(At(trace, "planner_llm_start"), At(trace, "planner_llm_end")),
       validation |-> Between(At(trace, "planner_validation_start"), At(trace, "planner_validation_end")),
       fallback |-> Between(At(trace, "planner_fallback_start"), At(trace, "planner_fallback_end")),
       reflector |-> Between(At(trace, "reflector_call"), or(At(trace, "finalizer_call"))),
       finalizer |-> Between(At(trace, "finalizer_call"), end)]
=============================================================================
