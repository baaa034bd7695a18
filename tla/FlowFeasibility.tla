-------------------------- MODULE FlowFeasibility --------------------------
(***************************************************************************)
(* How a request for a flow is understood and whether the blocks there are *)
(* can serve it: the output contract (src/flow/output-contract.ts), the    *)
(* task type (design/task-types.ts), the task graph (design/task-graphs.ts)*)
(* and the analysis of its nodes (design/analysis.ts, ai-delegation.ts,    *)
(* src/flow/block-matching.ts), up to the decision of the draft to go on   *)
(* (design/core.ts).                                                       *)
(*                                                                         *)
(* A request is [words, format] as in RequirementAssessment.  The words    *)
(* are those of the Korean entries of the catalog that the patterns and    *)
(* signals look for, named in English: email, reply, check, please, edit,  *)
(* log, diagnose, extract, count, summarize, explain, graph, json,         *)
(* markdown, title, generate.                                              *)
(***************************************************************************)
EXTENDS Integers, FiniteSets, SequencesExt

R == INSTANCE RequirementAssessment

Lesser(a, b) == IF a < b THEN a ELSE b
Greater(a, b) == IF a > b THEN a ELSE b

-----------------------------------------------------------------------------
(* The output contract.  A format may be mentioned in a clause that speaks *)
(* of output, of input, of both, or in neither: plainly, in words that ask *)
(* for it ("a JSON object"), or only aside.                                *)

Mentions == {"unsaid", "output", "input", "both", "plain", "aside"}

Wanted(mentions, format) == mentions[format] \in {"output", "both", "plain"}

\* inferFlowOutputContract: number is the first number in the request, 0 for
\* none, and several says that it asks for more than one without a number.
Contract(mentions, number, several) ==
  LET wanted == SelectSeq(<<"json", "markdown", "plain-text">>, LAMBDA f : Wanted(mentions, f))
  IN  [format |-> IF wanted = <<>> THEN "unspecified" ELSE Head(wanted),
       count |-> CASE number > 0 -> number
                   [] number = 0 /\ several -> 5
                   [] number = 0 /\ ~several -> 1]

\* What is made of a model's answer.
MaxCount == 20
ModelContract(answer) == [answer EXCEPT !.count = Greater(1, Lesser(MaxCount, @))]

\* inferFlowOutputContractWithAdvisor: a request, once answered, is answered
\* in the same way by whichever advisor it is put to.
Recalled(cache, request, recommended) ==
  IF request \in DOMAIN cache THEN cache[request] ELSE recommended

-----------------------------------------------------------------------------
(* Scores against the catalog (data/skills/flow-designer/                  *)
(* FLOW_DESIGN_MANIFEST.yml).  Types and templates of one name have the    *)
(* same entries.                                                           *)

TaskTypes == <<"blog-title-generation", "json-generation", "text-generation", "text-editing",
               "text-summarization", "keyword-analysis", "text-analysis", "text-counting",
               "graph-explanation">>
Templates == <<"email-reply", "text-editing", "blog-title-generation", "text-counting",
               "text-summarization", "keyword-analysis", "text-analysis", "generic-generation",
               "graph-explanation">>

Signals(entry) ==
  CASE entry = "email-reply" -> {"email", "reply"}
    [] entry = "blog-title-generation" -> {"title"}
    [] entry = "json-generation" -> {"json"}
    [] entry = "text-editing" -> {"edit"}
    [] entry = "text-summarization" -> {"summarize"}
    [] entry = "keyword-analysis" -> {"extract"}
    [] entry = "text-analysis" -> {"log", "diagnose"}
    [] entry = "text-counting" -> {"count"}
    [] entry = "graph-explanation" -> {"explain", "graph", "json", "markdown"}
    [] OTHER -> {}

\* The words of each example.
Examples(entry) ==
  CASE entry = "email-reply" -> <<{"email", "reply", "check", "please"}>>
    [] entry = "blog-title-generation" -> <<{"title"}>>
    [] entry = "json-generation" -> <<{"json"}, {"json"}>>
    [] entry = "text-editing" -> <<{"email"}>>
    [] entry = "keyword-analysis" -> <<{"please"}>>
    [] entry = "text-counting" -> <<{"count"}>>
    [] entry = "graph-explanation" -> <<{"please"}, {"json"}>>
    [] OTHER -> <<>>

ExampleScore(examples, words) ==
  LET sum[i \in 0..Len(examples)] ==
        IF i = 0 THEN 0 ELSE sum[i - 1] + Lesser(3, Cardinality(examples[i] \cap words))
  IN  sum[Len(examples)]

TextScore(entry, words) ==
  2 * Cardinality(Signals(entry) \cap words) + ExampleScore(Examples(entry), words)

\* The entry with the greatest score, the first of several.
Best(entries, score) ==
  LET Better(e, best) == IF score[e] > score[best] THEN e ELSE best
      best[i \in 0..Len(entries)] ==
        IF i = 0 THEN Head(entries) ELSE Better(entries[i], best[i - 1])
  IN  best[Len(entries)]

\* adjustScoreForOperationHints
Adjustment(type, words) ==
  LET On(hints, change) == IF words \cap hints # {} THEN change ELSE 0
  IN  CASE type = "text-summarization" ->
             On({"summarize"}, 6) + On({"extract"}, -3) + On({"title"}, -2)
        [] type = "text-editing" -> On({"edit"}, 6) + On({"title"}, -2)
        [] type = "text-counting" -> On({"count"}, 6)
        [] type = "text-analysis" -> On({"log", "diagnose"}, 7) + On({"title"}, -4)
        [] type = "keyword-analysis" -> On({"extract"}, 6)
        [] type = "graph-explanation" -> On({"log", "diagnose"}, -4)
        [] type = "blog-title-generation" ->
             On({"summarize"}, -4) + On({"edit"}, -3) + On({"count"}, -3)
             + On({"log", "diagnose"}, -4) + On({"extract"}, -3) + On({"title"}, 5)
        [] OTHER -> 0

Plain == ToSet(TaskTypes) \ {"blog-title-generation", "json-generation"}

TypeScore(type, request) ==
  TextScore(type, request.words) + Adjustment(type, request.words)
  + CASE request.format = "json" -> IF type = "json-generation" THEN 4 ELSE 0
      [] request.format # "json" -> IF type \in Plain THEN 1 ELSE 0

\* The deterministic advisor.
TaskType(request) ==
  LET score == [type \in ToSet(TaskTypes) |-> TypeScore(type, request)]
      best == Best(TaskTypes, score)
  IN  IF score[best] > 0 THEN best
      ELSE IF request.format = "json" THEN "json-generation" ELSE "text-generation"

\* What a model chooses from the catalog, or, with "none" where there is no
\* model or its advisor falls back, the deterministic choice.
Advised(choice, deterministic) == IF choice = "none" THEN deterministic ELSE choice

Normalized(request, choice) ==
  [words |-> request.words, format |-> request.format, taskType |-> Advised(choice, TaskType(request))]

OperationModels(template) ==
  CASE template = "email-reply" -> {"reply", "read", "send"}
    [] template = "text-editing" -> {"edit", "transform", "validate"}
    [] template = "blog-title-generation" -> {"generate"}
    [] template = "text-counting" -> {"count", "transform", "extract"}
    [] template = "text-summarization" -> {"summarize", "transform", "extract"}
    [] template = "keyword-analysis" -> {"extract", "classify", "transform"}
    [] template = "text-analysis" -> {"diagnose", "explain", "extract", "transform"}
    [] template = "generic-generation" -> {"generate", "transform"}
    [] template = "graph-explanation" -> {"explain", "transform"}

Traits(template) ==
  CASE template = "email-reply" -> {"email-integration"}
    [] template = "text-editing" -> {"editing-workflow"}
    [] template = "blog-title-generation" -> {"title-generation", "list-output"}
    [] template = "text-counting" -> {"counting-workflow"}
    [] template = "text-summarization" -> {"summary-workflow"}
    [] template = "keyword-analysis" -> {"extraction-workflow", "list-output"}
    [] template = "text-analysis" -> {"analysis-workflow", "diagnostic-analysis"}
    [] template = "generic-generation" -> {}
    [] template = "graph-explanation" -> {"graph-structured-input"}

\* A caller of the assessment that tells the advisor nothing but the request,
\* as some tests do; the tools and the draft all tell it of the design brief.
NoBrief == [taskType |-> "none", operations |-> {}, preferred |-> {}, disallowed |-> {}]

\* What the advisor is told of the design brief.
BriefOf(request, choice) ==
  LET normalized == Normalized(request, choice)
      brief == R!Brief(normalized)
  IN  [taskType |-> normalized.taskType, operations |-> brief.operations,
       preferred |-> brief.facets.preferred, disallowed |-> brief.facets.disallowed]

\* scoreTemplate
TemplateScore(template, words, brief) ==
  LET Points(n, condition) == IF condition THEN n ELSE 0
      generic == template = "generic-generation"
  IN  TextScore(template, words)
      + Points(3, \/ generic /\ brief.taskType = "text-generation"
                  \/ ~generic /\ template = brief.taskType)
      + 3 * Cardinality(brief.operations \cap OperationModels(template))
      - Points(4, generic /\ brief.operations \ {"generate", "transform"} # {})
      - Points(3, generic /\ brief.taskType \notin {"none", "text-generation"})
      - Points(8, template = "email-reply" /\ words \cap {"reply", "check"} = {})
      + 4 * Cardinality(brief.preferred \cap Traits(template))
      - 6 * Cardinality(brief.disallowed \cap Traits(template))

\* The deterministic advisor; confidence is in percent.
Recommended(words, brief) ==
  LET score == [template \in ToSet(Templates) |-> TemplateScore(template, words, brief)]
      best == Best(Templates, score)
  IN  IF score[best] > 0
      THEN [template |-> best, confidence |-> Lesser(95, 50 + 10 * score[best])]
      ELSE [template |-> "generic-generation", confidence |-> 40]

-----------------------------------------------------------------------------
(* Blocks (data/flow/BLOCK_POOL.yml) and what matches a task node.  A pool *)
(* gives the capabilities of each block, in its order.                     *)

Block(id, capabilities) == [id |-> id, capabilities |-> capabilities]
BlockPool ==
  <<Block("text-input", {"text-input"}), Block("json-input", {"json-input"}),
    Block("input", {"text-input"}), Block("buffer", {"delay"}),
    Block("view", {"view-log", "text-output"}),
    Block("ai-generate", {"ai-generation", "structured-output", "text-output"})>>

\* getAvailableFlowCapabilities
Available(pool) == UNION {block.capabilities : block \in ToSet(pool)}

Category(capability) ==
  CASE capability \in {"text-input", "json-input"} -> "input"
    [] capability \in {"text-output", "delay"} -> "process"
    [] capability = "view-log" -> "view"
    [] capability \in {"ai-generation", "structured-output"} -> "ai"
    [] OTHER -> "none"

CategoryPriority == <<"input", "ai", "process", "view">>
BlockPriority == <<"input", "ai-generate", "buffer", "view", "text-input">>

\* The priority of the first of the list that is in S: earlier is more.
Priority(S, list) == Cardinality({j \in DOMAIN list : \E i \in 1..j : list[i] \in S})

Matched(block, required) == block.capabilities \cap required
Covers(block, required) == required \subseteq block.capabilities

\* sortCandidates, from the most to the least important.
Merits(block, required) ==
  <<IF Covers(block, required) THEN 1 ELSE 0,
    Priority({Category(c) : c \in Matched(block, required)}, CategoryPriority),
    Priority({block.id}, BlockPriority),
    Cardinality(Matched(block, required))>>

Before(a, b) == \E i \in DOMAIN a : a[i] > b[i] /\ \A j \in 1..(i - 1) : a[j] = b[j]

\* The blocks at some places of the pool, the best first; those of equal
\* merits keep the order of the pool, which is that of their ids.
Sorted(pool, places, required) ==
  LET merits == [i \in places |-> Merits(pool[i], required)]
      Ahead(i, j) == Before(merits[i], merits[j]) \/ (merits[i] = merits[j] /\ i < j)
      rank == [i \in places |-> Cardinality({j \in places : Ahead(j, i)})]
  IN  [n \in 1..Cardinality(places) |-> pool[CHOOSE i \in places : rank[i] = n - 1]]

\* matchFlowBlocksByCapabilities
Matching(pool, required) ==
  {i \in DOMAIN pool : Matched(pool[i], required) # {} \/ required = {}}
Candidates(pool, required) == Sorted(pool, Matching(pool, required), required)

-----------------------------------------------------------------------------
(* Task graphs.  A node is [operation, capabilities], its operation named  *)
(* by the prefix that matters; a graph is the sequence of its nodes.       *)

Node(operation, capabilities) == [operation |-> operation, capabilities |-> capabilities]

\* The graph of each template.
TaskGraph(template) ==
  CASE template = "email-reply" ->
         <<Node("read", {"email-read"}), Node("draft", {"ai-generation", "text-output"}),
           Node("send", {"email-reply"})>>
    [] template = "graph-explanation" ->
         <<Node("capture", {"json-input"}), Node("explain", {"ai-generation", "text-output"}),
           Node("log", {"view-log"})>>
    [] OTHER ->
         <<Node("capture", {"text-input"}),
           Node(CASE template = "text-editing" -> "revise"
                  [] template = "text-counting" -> "count"
                  [] template = "text-summarization" -> "summarize"
                  [] template = "keyword-analysis" -> "extract"
                  [] template = "text-analysis" -> "analyze"
                  [] OTHER -> "generate",
                {"ai-generation", "text-output"}),
           Node("log", {"view-log"})>>

AiFriendly == {"generate", "analyze", "transform", "classify", "count", "extract", "summarize", "rewrite"}
External == {"email-read", "email-reply", "web-search", "file-read"}

\* isTaskNodeAiDelegableDeterministically
Delegable(node) ==
  /\ node.operation \in AiFriendly
  /\ node.capabilities \cap External = {}
  /\ node.capabilities # {}

\* answer is the model's, or "none" where there is no model or it falls back.
Delegated(node, answer) == IF answer = "none" THEN Delegable(node) ELSE answer = "yes"

\* analyzeTaskGraph: a node that no block covers may be left to ai-generate.
Analysis(node, pool, answer) ==
  LET places == {i \in Matching(pool, node.capabilities) : Covers(pool[i], node.capabilities)}
      covering == Sorted(pool, places, node.capabilities)   \* of the candidates
      delegated == /\ covering = <<>>
                   /\ \E block \in ToSet(pool) : block.id = "ai-generate"
                   /\ Delegated(node, answer)
  IN  [capabilities |-> node.capabilities,
       matched |-> IF delegated THEN <<"ai-generate">>
                   ELSE [i \in DOMAIN covering |-> covering[i].id],
       delegated |-> delegated]

Feasible(analysis) == analysis.matched # <<>>

Required(graph) == UNION {node.capabilities : node \in ToSet(graph)}

\* buildProposedBlocks: one for each node without a block.
Proposed(analyses) ==
  {[node |-> i, capabilities |-> analyses[i].capabilities] :
     i \in {i \in DOMAIN analyses : ~Feasible(analyses[i])}}

\* What some node requires, no block offers and no delegation takes over.
Unavailable(graph, pool, analyses) ==
  Required(graph)
    \ (Available(pool) \cup UNION {a.capabilities : a \in {a \in ToSet(analyses) : a.delegated}})

\* Mutant: only what no block offers is missing.
AssessedByCatalog(graph, pool, answers) ==
  LET analyses == [i \in DOMAIN graph |-> Analysis(graph[i], pool, answers[i])]
  IN  [feasible |-> \A a \in ToSet(analyses) : Feasible(a),
       missing |-> Unavailable(graph, pool, analyses), proposed |-> Proposed(analyses)]

\* assessTaskGraphFeasibility
Assessed(graph, pool, answers) ==
  LET analyses == [i \in DOMAIN graph |-> Analysis(graph[i], pool, answers[i])]
      unavailable == Unavailable(graph, pool, analyses)
      infeasible == {a \in ToSet(analyses) : ~Feasible(a)}
  IN  [feasible |-> unavailable = {} /\ infeasible = {},
       missing |-> unavailable \cup UNION {a.capabilities : a \in infeasible},
       proposed |-> Proposed(analyses)]

\* refineTaskGraph, as far as the analysis asks: wantsJson says that a note of
\* the reflection asks for JSON only.
Refined(graph, wantsJson) ==
  [i \in DOMAIN graph |->
     [graph[i] EXCEPT !.capabilities =
        @ \cup IF wantsJson /\ graph[i].operation = "generate" THEN {"structured-output"} ELSE {}]]

-----------------------------------------------------------------------------
(* Prevalidation and the draft *)

FastPathConfidence == 80
NoAnswers == [i \in 1..3 |-> "none"]

\* assessFlowFeasibility with advisors, after the deterministic
\* recommendation: a model's choice of the template and its answers on
\* delegation.  A confident deterministic choice asks no model.
Prevalidated(recommended, choice, answers) ==
  LET fast == recommended.confidence >= FastPathConfidence
      template == IF fast THEN recommended.template ELSE Advised(choice, recommended.template)
  IN  Assessed(TaskGraph(template), BlockPool, IF fast THEN NoAnswers ELSE answers)

\* shouldRecomputeFeasibility
Recomputes(preflight) == ~preflight.feasible /\ preflight.missing = {}

\* The draft goes on with a preflight it was given, or with its own, without
\* advisors, when that one is incomplete.
DraftFeasibility(preflight, recommended) ==
  IF Recomputes(preflight) THEN Prevalidated(recommended, "none", NoAnswers) ELSE preflight
=============================================================================
