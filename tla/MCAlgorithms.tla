---------------------------- MODULE MCAlgorithms ----------------------------
(***************************************************************************)
(* The parts of the system that compute and keep no state, on inputs that  *)
(* are built up piece by piece: the graph planner on every graph with the  *)
(* nodes 1..N, the preparation of plans on plans of a few steps, the       *)
(* assessment on requests of a few words, the evaluation of advisors on a  *)
(* few scenarios, the timing on traces of a few tool calls, feasibility on *)
(* task graphs of a few nodes and on requests of a few words.              *)
(***************************************************************************)
EXTENDS GraphPlans, CreatedPlans, LabRequests, MeasuredRuns, JudgedRequests

VARIABLE about  \* which of them is built up

vars == <<plannerVars, replies, requests, measuredVars, judgedVars, about>>

-----------------------------------------------------------------------------
(* Plans that a model may reply, of steps that do well or badly.           *)

Tools ==
  [inferTaskGraph |-> {"userRequest"}, analyzeTaskGraphCompatibility |-> {"taskGraph"},
   proposeMissingBlocks |-> {"nodeAnalyses"}, refineTaskGraph |-> {"taskGraph"},
   prevalidateFlowDesignRequest |-> {"userRequest"}, probeFlowBlock |-> {"blockId"},
   designFlowDraft |-> {"userRequest"}, designFlowNodeConfigurations |-> {"userRequest", "flow"},
   validateFlowNodeConfigurations |-> {"flow"}, validateFlowDraft |-> {"flow"},
   runFlowSample |-> {"userRequest", "flow"}, reflectFlowResult |-> {"userRequest", "sampleResult"}]
ToolSets == {Tools, [t \in DOMAIN Tools \ {"refineTaskGraph"} |-> Tools[t]]}

Call(tool, args) == [tool |-> tool, args |-> args]
Inline == [userRequest |-> P!Valid, flow |-> P!Invalid]
Drafts == {Call("designFlowDraft", [userRequest |-> P!Valid, preflight |-> P!Invalid]),
           Call("designFlowDraft", [userRequest |-> P!Valid, preflight |-> P!To(1, "data")])}
Probe == Call("probeFlowBlock", [blockId |-> P!Valid])
MCCallLists ==
  {<<>>, <<Probe>>, <<Call("prevalidateFlowDesignRequest", P!Request)>>,
   <<Call("designFlowNodeConfigurations", Inline)>>, <<Call("runFlowSample", Inline)>>,
   <<Call("validateFlowDraft", [flow |-> P!Valid])>>, <<Call("validateFlowDraft", P!Request)>>,
   <<Call("sendMail", P!Request)>>}
  \cup {<<d>> : d \in Drafts} \cup {<<Probe, d>> : d \in Drafts}

MCSurroundings ==
  [fallback : {<<>>, P!PreflightPlan, P!NodeConfigPlan} \cup
                {P!DesignerPlan(request) : request \in {"one", "several", "mail"}},
   tools : ToolSets]
MCReplying == [fallback : {<<>>, P!DesignerPlan("one")}, tools : {Tools}]

-----------------------------------------------------------------------------
(* A scenario may pass whoever answered it. *)

MCScenarios == [answer : {"good"}, ms : {1, 9}, passed : BOOLEAN]
               \cup [answer : {"throws", "weak", "unknown"}, ms : {1, 9}, passed : {TRUE}]
\* The suites differ in what they accept.
MCLimits == <<[pass |-> 800, fallback |-> 250, average |-> 4, p95 |-> 6],
              [pass |-> 600, fallback |-> 500, average |-> 5, p95 |-> 9],
              [pass |-> 800, fallback |-> 250, average |-> 4, p95 |-> 6]>>
MCPlanningTimes == {[llm |-> 1, fallback |-> 1, validation |-> 1]}

-----------------------------------------------------------------------------
(* Task graphs, and requests that mention json and markdown.               *)

MCTaskNodes == {F!Node(operation, capabilities) :
                  operation \in {"generate", "read"},
                  capabilities \in {c \in SUBSET {"text-input", "ai-generation", "email-read", "hangul"} :
                                     Cardinality(c) <= 2}}
MCSignalWords == UNION {F!Signals(e) : e \in ToSet(F!Templates)} \cup {"check", "please", "generate"}
MCMentioned == {[json |-> j, markdown |-> d] @@ ("plain-text" :> "unsaid") :
                  j \in F!Mentions \ {"output", "aside"}, d \in {"unsaid", "plain"}}
MCModelContracts == {F!ModelContract([format |-> f, count |-> 25]) : f \in {"json", "unspecified"}}

-----------------------------------------------------------------------------
Init ==
  /\ PlannerInit /\ PlanInit /\ RequestInit /\ MeasuredInit /\ JudgedInit
  /\ about \in {"graph", "plan", "request", "advisors", "trace", "tasks", "flow"}

Next ==
  \/ /\ about = "graph" /\ PlannerNext
     /\ UNCHANGED <<replies, requests, measuredVars, judgedVars, about>>
  \/ /\ about = "plan" /\ PlanNext
     /\ UNCHANGED <<plannerVars, requests, measuredVars, judgedVars, about>>
  \/ /\ about = "request" /\ RequestNext
     /\ UNCHANGED <<plannerVars, replies, measuredVars, judgedVars, about>>
  \/ /\ about = "advisors"
     /\ \E scenario \in Scenarios, opens \in BOOLEAN : AddScenario(scenario, opens)
     /\ UNCHANGED <<plannerVars, replies, requests, judgedVars, about>>
  \/ /\ about = "trace" /\ RunNext
     /\ UNCHANGED <<plannerVars, replies, requests, judgedVars, about>>
  \/ /\ about = "tasks" /\ TaskNext
     /\ UNCHANGED <<plannerVars, replies, requests, measuredVars, about>>
  \/ /\ about = "flow" /\ AskNext
     /\ UNCHANGED <<plannerVars, replies, requests, measuredVars, about>>

Spec == Init /\ [][Next]_vars
=============================================================================
