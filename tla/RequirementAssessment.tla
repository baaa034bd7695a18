----------------------- MODULE RequirementAssessment -----------------------
(***************************************************************************)
(* What the product and the prompt lab conclude of a run: the strategy     *)
(* (src/flow/design/architecture.ts, with the knowledge in                 *)
(* data/skills/flow-designer/ARCHITECTURE_KNOWLEDGE.yml), the assessment   *)
(* (src/product/normalize.ts), its correction by the strategy and the      *)
(* policy of automatic runs (src/prompt-lab).                              *)
(*                                                                         *)
(* A request is [words, taskType, format]: the words in it that the        *)
(* patterns of the code look for, in English or Korean, and how it was     *)
(* classified.  Texts are named by what they are about.                    *)
(***************************************************************************)
EXTENDS Naturals, Sequences, SequencesExt

Formats == {"json", "markdown", "plain-text", "unspecified"}
When(condition, S) == IF condition THEN S ELSE {}

-----------------------------------------------------------------------------
(* The sample a design is tried on *)

AsksToExplainGraph(words) ==
  {"graph", "json"} \subseteq words /\ words \cap {"explain", "markdown"} # {}

SampleSource(request) ==
  IF AsksToExplainGraph(request.words) THEN "synthetic-graph-json" ELSE "default"

InputSource(request) ==
  CASE SampleSource(request) # "default" -> "synthetic"
    [] SampleSource(request) = "default" /\ "concrete" \in request.words -> "user-provided"
    [] SampleSource(request) = "default" /\ "concrete" \notin request.words -> "inferred"

-----------------------------------------------------------------------------
(* The strategy *)

OperationWords == {"edit", "count", "diagnose", "extract", "transform", "summarize", "explain",
                   "generate", "validate", "classify"}

\* The name of the task type is matched with the request.
Operations(request) ==
  LET words == request.words \cup CASE request.taskType = "text-editing" -> {"edit"}
                                    [] request.taskType = "text-counting" -> {"count"}
                                    [] request.taskType \in {"keyword-analysis", "text-analysis"} ->
                                         {"analyze"}
                                    [] OTHER -> {}
      named == (words \cap OperationWords)
               \cup When(words \cap {"analyze", "keyword"} # {}, {"extract"})
               \cup When("analyze" \in words, {"classify"})
  IN  IF named = {} THEN {"transform"} ELSE named

InputFormat(words) ==
  CASE {"json", "text"} \subseteq words -> "mixed"
    [] "json" \in words /\ "text" \notin words -> "json"
    [] "json" \notin words /\ "text" \in words -> "text"
    [] OTHER -> "unknown"

Subject(request) ==
  CASE "concrete" \in request.words -> "graph-structured-data"
    [] "concrete" \notin request.words /\ "log" \in request.words -> "log-data"
    [] OTHER ->
       CASE "draft" \in request.words -> "draft-text"
         [] "draft" \notin request.words /\ "keyword" \in request.words
            /\ request.taskType = "blog-title-generation" -> "keyword-seed"
         [] OTHER -> IF "document" \in request.words THEN "document-text" ELSE "general-text"

InputShape(request) ==
  CASE "concrete" \in request.words -> "graph-json"
    [] "concrete" \notin request.words /\ "log" \in request.words -> "log-text"
    [] OTHER -> IF "json" \in request.words THEN "json" ELSE InputFormat(request.words)

Extracts(request, operations) ==
  "extract" \in operations /\ request.taskType = "keyword-analysis"

PreferredTraits(request, operations) ==
  When("summarize" \in operations, {"summary-workflow"})
  \cup When(Extracts(request, operations), {"extraction-workflow", "list-output"})
  \cup When("diagnose" \in operations, {"analysis-workflow", "diagnostic-analysis"})
  \cup When("edit" \in operations, {"editing-workflow"})
  \cup When("count" \in operations, {"counting-workflow"})
  \cup When(Subject(request) = "graph-structured-data", {"graph-structured-input"})
  \cup When(request.taskType = "blog-title-generation", {"title-generation", "list-output"})
  \cup When(request.format = "json", {"json-output"})

DisallowedTraits(request, operations) ==
  When(Subject(request) # "graph-structured-data", {"graph-structured-input"})
  \cup When(request.taskType # "email-reply", {"email-integration"})
  \cup When("summarize" \notin operations, {"summary-workflow"})
  \cup When("diagnose" \notin operations, {"diagnostic-analysis"})
  \cup When(~Extracts(request, operations), {"extraction-workflow"})
  \cup When("generate" \notin operations \/ request.taskType # "blog-title-generation",
            {"title-generation"})

RequiredOutputTraits(request, operations) ==
  When("diagnose" \in operations, {"sectioned-report-output"})
  \cup When(request.taskType = "keyword-analysis", {"list-output"})
  \cup When(request.format \in {"markdown", "json"}, {request.format})

\* The entries of the knowledge resource that say something of a brief or
\* its review: what they match, {} for anything, and what they add.
Entry(operations, sources, formats, adds) ==
  [operations |-> operations, sources |-> sources, formats |-> formats, adds |-> adds]
Synthetic == {"synthetic-graph-json"}
Heuristics == {Entry({"count"}, {}, {}, "deterministic-first"), Entry({"explain"}, {}, {}, "ai-first"),
               Entry({}, Synthetic, {}, "none")}
ValidationPatterns == {Entry({"count"}, {}, {}, "exact-counts"),
                       Entry({"explain"}, {}, {}, "covers-structure")}
KnownRisks == {Entry({}, Synthetic, {}, "synthetic-overclaim"),
               Entry({}, {}, {"json", "markdown"}, "format-drift")}
QualityBars == {Entry({}, Synthetic, {}, "uncertain")}
ReviewRules == {Entry({}, Synthetic, {}, "confirm-with-real-graph")}

Matching(entries, operations, source, format) ==
  {e \in entries : /\ e.operations = {} \/ e.operations \cap operations # {}
                   /\ e.sources = {} \/ source \in e.sources
                   /\ e.formats = {} \/ format \in e.formats}

\* buildDesignBrief of a request whose operations and sample source are told.
\* Of several postures the one listed first is taken.
BriefOf(request, operations, sample, source) ==
  LET Added(entries) == {e.adds : e \in Matching(entries, operations, sample, request.format)}
      postures == Added(Heuristics)
      bars == Added(QualityBars)
  IN  [operations |-> operations,
       input |-> source,
       inputFormat |-> InputFormat(request.words),
       missingInput |-> source # "user-provided" /\ {"explain", "json"} \subseteq request.words,
       facets |-> [subject |-> Subject(request), inputShape |-> InputShape(request),
                   preferred |-> PreferredTraits(request, operations),
                   disallowed |-> DisallowedTraits(request, operations),
                   required |-> RequiredOutputTraits(request, operations)],
       outputFormat |-> request.format,
       posture |-> CASE "deterministic-first" \in postures -> "deterministic-first"
                     [] "deterministic-first" \notin postures /\ "ai-first" \in postures -> "ai-first"
                     [] OTHER -> "hybrid",
       assertions |-> {CASE request.taskType = "graph-explanation" \/ source = "synthetic" -> "explains"
                         [] "count" \in request.words -> "counts"
                         [] OTHER -> "satisfies"} \cup Added(ValidationPatterns),
       risks |-> Added(KnownRisks),
       ceiling |-> IF bars # {} THEN CHOOSE b \in bars : TRUE
                   ELSE IF source = "synthetic" THEN "uncertain" ELSE "fulfilled"]

Brief(request) ==
  BriefOf(request, Operations(request), SampleSource(request), InputSource(request))

-----------------------------------------------------------------------------
(* The assessment.  A run is its status, the success its result claims     *)
(* ("none" when it claims nothing), the capabilities still missing, the    *)
(* fallback and models it used, and the configuration of its AI node.      *)

HasSyntheticSample(request) ==
  AsksToExplainGraph(request.words) /\ "concrete" \notin request.words

\* The reasons, in the order of the code.
Reasons(run, request) ==
  LET if(condition, code) == IF condition THEN <<code>> ELSE <<>>
      json == run.aiNode # "text"
  IN  if(run.taskGraphFallback, "generic-task-graph-fallback")
      \o if(run.mockModel, "mock-model-config")
      \o if(request.format = "json" /\ ~json, "json-contract-not-preserved")
      \o if(request.format = "json" /\ run.aiNode = "json", "json-schema-missing")
      \o if(request.format \in {"plain-text", "markdown"} /\ json, "plain-text-format-drift")
      \o if(run.missing, "missing-capabilities")

Assessed(level, tells, reasons) == [level |-> level, tells |-> tells, reasons |-> reasons]

\* Mutant: the missing capabilities are looked at before the result.
AssessmentOfCapabilities(run, request) ==
  LET reasons == Reasons(run, request)
  IN  CASE run.status # "completed" ->
             Assessed("not-fulfilled", "not completed", <<"execution-failed">> \o reasons)
        [] run.status = "completed" /\ run.missing -> Assessed("partial", "partial", reasons)
        [] run.status = "completed" /\ ~run.missing /\ run.success = "no" ->
             Assessed("not-fulfilled", "not-fulfilled",
                      <<"execution-completed-without-solution">> \o reasons)
        [] OTHER -> IF reasons # <<>> THEN Assessed("uncertain", "uncertain", reasons)
                    ELSE Assessed("fulfilled", "fulfilled", <<>>)

\* collectRequirementAssessment; tells is the level its summary speaks of.
Assessment(run, request) ==
  LET reasons == Reasons(run, request)
      all == reasons \o IF HasSyntheticSample(request) THEN <<"synthetic-sample-validation">> ELSE <<>>
  IN  CASE run.status # "completed" ->
             Assessed("not-fulfilled", "not completed", <<"execution-failed">> \o reasons)
        [] run.status = "completed" /\ run.success = "no" ->
             Assessed("not-fulfilled", "not-fulfilled",
                      <<"execution-completed-without-solution">> \o reasons)
        [] run.status = "completed" /\ run.success # "no" /\ run.missing ->
             Assessed("partial", "partial", reasons)
        [] OTHER -> IF all # <<>> THEN Assessed("uncertain", "uncertain", all)
                    ELSE Assessed("fulfilled", "fulfilled", <<>>)

\* buildArchitectureReview, of the assessment before it is adjusted.
Review(run, brief, assessment) ==
  LET source == IF brief.input = "synthetic" THEN "synthetic-graph-json" ELSE "default"
  IN  [fit |-> IF run.status = "completed" THEN "good" ELSE "mixed",
       evidence |-> CASE brief.assertions = {} -> "insufficient"
                      [] brief.assertions # {} /\ brief.input = "synthetic" -> "thin"
                      [] brief.assertions # {} /\ brief.input # "synthetic" -> "sufficient",
       reliance |-> CASE brief.input = "synthetic" -> "high"
                      [] brief.input = "inferred" -> "bounded"
                      [] brief.input = "user-provided" -> "none",
       findings |-> When(run.status # "completed", {"not-finished"})
         \cup When(brief.input = "synthetic", {"synthetic-evidence"})
         \cup When(assessment.level = "uncertain", {"uncertain"})
         \cup When("generic-task-graph-fallback" \in ToSet(assessment.reasons)
                     /\ brief.operations \ {"generate", "transform"} # {}, {"generic-fallback"})
         \cup {rule.adds : rule \in
                 Matching(ReviewRules, brief.operations, source, brief.outputFormat)}]

\* buildArchitectureAdjustedAssessment
Adjusted(run, brief, evidence, assessment) ==
  LET level == IF assessment.level = "fulfilled"
                  /\ (brief.ceiling = "uncertain" \/ evidence = "thin")
               THEN "uncertain" ELSE assessment.level
      limited == IF brief.ceiling = "uncertain" /\ assessment.level = "fulfilled"
                 THEN <<"architecture-confidence-limited">> ELSE <<>>
      thin == IF evidence = "thin" THEN <<"architecture-evidence-thin">> ELSE <<>>
  IN  IF run.status # "completed" THEN assessment
      ELSE Assessed(level, IF limited \o thin # <<>> THEN "uncertain" ELSE assessment.tells,
                    assessment.reasons \o limited \o thin)

-----------------------------------------------------------------------------
(* The policy of automatic runs, with PROMPT_LAB_AUTO_POLICY.yml *)

Signal(statuses, levels, codes, synthesized) ==
  [statuses |-> statuses, levels |-> levels, codes |-> codes, synthesized |-> synthesized]
StopSignal == Signal({"waiting_for_approval", "failed"}, {"not-fulfilled"}, {}, FALSE)
WarnSignal == Signal({}, {"uncertain", "partial"}, {"synthetic-sample-validation"}, TRUE)

Signals(signal, status, assessment, synthesizedSnapshot) ==
  \/ status \in signal.statuses
  \/ assessment.level \in signal.levels
  \/ signal.codes \cap ToSet(assessment.reasons) # {}
  \/ signal.synthesized /\ synthesizedSnapshot

\* The lab goes on to the prompt by itself, and whether it warns.
GoesOn(status, assessment) == ~Signals(StopSignal, status, assessment, FALSE)
Warns(status, assessment, synthesizedSnapshot) ==
  Signals(WarnSignal, status, assessment, synthesizedSnapshot)

-----------------------------------------------------------------------------
Verdict(run, request) ==
  LET brief == Brief(request)
      assessment == Assessment(run, request)
  IN  Adjusted(run, brief, Review(run, brief, assessment).evidence, assessment)

KeepsFormat(run, format) ==
  CASE format = "json" -> run.aiNode = "json-schema"
    [] format \in {"plain-text", "markdown"} -> run.aiNode = "text"
    [] format = "unspecified" -> TRUE

(***************************************************************************)
(* What the lab concludes is borne out by the run: "fulfilled" needs a     *)
(* completed run that claims no failure, lacks nothing, relied on no       *)
(* fallback, mock model or synthetic sample and kept the output format.    *)
(* Anything less has its reasons, each once.  An automatic run goes on     *)
(* exactly after a completed run that claims no failure, and without a     *)
(* warning only when the requirement is fulfilled.  The summary tells the  *)
(* level, except that with thin evidence it says "uncertain" whatever the  *)
(* level is (product.ts:323).                                              *)
(***************************************************************************)
VerdictIsHonest(run, request) ==
  LET verdict == Verdict(run, request)
      evidence == Review(run, Brief(request), Assessment(run, request)).evidence
      succeeds == run.status = "completed" /\ run.success # "no"
      on == GoesOn(run.status, verdict)
  IN  /\ verdict.level = "fulfilled" =>
           /\ succeeds /\ ~run.missing /\ ~run.taskGraphFallback /\ ~run.mockModel
           /\ KeepsFormat(run, request.format)
           /\ SampleSource(request) = "default" /\ evidence = "sufficient"
      /\ verdict.level # "fulfilled" => verdict.reasons # <<>> /\ IsInjective(verdict.reasons)
      /\ on <=> succeeds
      /\ on /\ ~Warns(run.status, verdict, FALSE) => verdict.level = "fulfilled"
      /\ verdict.tells = verdict.level \/ evidence = "thin" \/ ~succeeds

\* A strategy asks for a trait and rules it out only for requests for titles
\* that do not say "generate" (architecture.ts:165-190).
TraitsAgree(request) ==
  LET facets == Brief(request).facets
  IN  facets.preferred \cap facets.disallowed # {} =>
        request.taskType = "blog-title-generation" /\ "generate" \notin request.words
=============================================================================
