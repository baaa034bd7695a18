-------------------------- MODULE FlowDesignAgent --------------------------
(***************************************************************************)
(* The agent that designs a flow in several attempts                       *)
(* (src/src/flow/agent/agent.ts) with its default skills (skills.ts), the  *)
(* draft they make (designFlowDraft of design/core.ts) on a live session,  *)
(* and their judgement of a sample run (reflectFlowExecution).  The sample *)
(* run itself is FlowSampleRun; here it completes or fails.                *)
(*                                                                         *)
(* A design ends by an exception of a skill, by a draft that satisfies, or *)
(* when its attempts are used up; the session is cleared before a retry.   *)
(***************************************************************************)
EXTENDS FlowDesignSession, SequencesExt

CONSTANT Options   \* the numbers of attempts that callers ask for

ASSUME OptionsAssumption == Options \subseteq Nat

VARIABLES
  request,   \* what the user wants, how many attempts there may be, whether
             \* there is an observer, whether the knowledge has a note of its
             \* own, whether the caller's blocks make a valid flow and which
             \* input of the draft they refuse to connect, if any
  skill,     \* the skill whose turn it is, None after the last attempt
  step,      \* the step of the draft
  state,     \* the state of the attempt
  attempts,  \* iterations: snapshots of the attempts
  result     \* what design() returned

agentVars == <<request, skill, step, state, attempts, result>>
sessionVars == <<flow, nodeVisuals, edgeVisuals, started, snapshot, shown, staged>>

-----------------------------------------------------------------------------
(* The draft, as the calls made of the session *)

System == <<"system-input", 0>>
Prompt == <<"prompt-input", 0>>
Ai     == <<"ai-node", 0>>
View   == <<"view-output", 0>>

Node(b, n, phase, shownState) ==
  <<[op |-> "stage", node |-> n, state |-> "building"],
    [op |-> "create", block |-> b, node |-> n],
    [op |-> "phase", node |-> n, phase |-> phase, state |-> shownState]>>

Link(s, t) == [op |-> "connect", source |-> s, target |-> t]
Wired(n) == [op |-> "phase", node |-> n, phase |-> "connected", state |-> "wired"]

Draft ==
  <<[op |-> "start"]>>
  \o Node("input", System, "ready", "prompt-ready") \o Node("input", Prompt, "ready", "prompt-ready")
  \o Node("ai-generate", Ai, "created", "awaiting") \o Node("view", View, "created", "awaiting")
  \o <<Link(<<System, "output">>, <<Ai, "system">>), Link(<<Prompt, "output">>, <<Ai, "prompt">>),
       Link(<<Ai, "output">>, <<View, "input">>), Wired(Ai), Wired(View), [op |-> "complete"]>>

Perform(s) ==
  \/ s.op = "start" /\ Start
  \/ s.op = "stage" /\ StageNode(s.node, s.state)
  \/ s.op = "create" /\ CreateNodeAs(s.block, s.node, s.node[1])
  \/ s.op = "phase" /\ SetNodePhase(s.node, s.phase, s.state)
  \/ s.op = "connect" /\ ConnectNodePorts(s.source, s.target)
  \/ s.op = "complete" /\ Complete

\* A call throws if it creates a node that is there already, or connects
\* ports that the caller's own blocks with the built-in ids lack or have with
\* other types (ensureRequiredFlowBlocks looks at the ids alone).
Throws(s) ==
  \/ s.op = "create" /\ ~CanCreateNode(flow, s.node)
  \/ s.op = "connect" /\ s.target[2] = request.refused

Wires == {"system", "prompt", "input"}

\* Without an observer the document is made by the same operations.
Unwired ==
  LET system == CreateNode(EmptyDocument, "input", System, System[1])
      prompt == CreateNode(system, "input", Prompt, Prompt[1])
      ai     == CreateNode(prompt, "ai-generate", Ai, Ai[1])
  IN  CreateNode(ai, "view", View, View[1])

Fed == ConnectPorts(Unwired, <<System, "output">>, <<Ai, "system">>)
Asked == ConnectPorts(Fed, <<Prompt, "output">>, <<Ai, "prompt">>)
Built == ConnectPorts(Asked, <<Ai, "output">>, <<View, "input">>)

\* What was drawn when a connection is refused.
Abandoned ==
  CASE request.refused = "system" -> Unwired
    [] request.refused = "prompt" -> Fed
    [] request.refused = "input" -> Asked

-----------------------------------------------------------------------------
(* Reflection *)

\* What a sample run may turn out to lack, by its status: without an output
\* it has none of what was wanted, and no titles to be too short.
Shortcomings(status) ==
  IF status = "failed" THEN {{"stability"} \cup (request.wants \ {"titles"})}
  ELSE SUBSET request.wants

Remarks == {"stability", "json", "count", "titles", "general"}

\* A suggestion for each shortcoming, then the notes of the provider.
Suggestions(lacks) ==
  LET for(issue) == IF issue \in lacks THEN <<issue>> ELSE <<>>
  IN  for("stability") \o for("json") \o for("count") \o for("titles")
      \o (IF request.guided THEN <<"general">> ELSE <<>>)

\* Mutant: the suggestions take the place of the notes.
ReplacedBy(notes, suggestions) == suggestions

\* The notes, and the suggestions that are not among them yet.
Extended(notes, suggestions) ==
  LET all[i \in 0..Len(suggestions)] ==
        IF i = 0 THEN notes
        ELSE IF suggestions[i] \in ToSet(all[i - 1]) THEN all[i - 1]
        ELSE Append(all[i - 1], suggestions[i])
  IN  all[Len(suggestions)]

-----------------------------------------------------------------------------
(* Attempts *)

Fresh(number, notes) ==
  [iteration |-> number, notes |-> notes, intent |-> FALSE, drafted |-> notes, flow |-> None,
   valid |-> FALSE, validated |-> FALSE, execution |-> None, reflection |-> None]

Applies(name) ==
  CASE name = "intent" -> TRUE
    [] name = "composition" -> state.intent
    [] name = "validation" -> state.flow # None
    [] name = "execution" -> state.flow # None /\ state.valid
    [] name = "reflection" -> state.execution # None /\ state.intent
    [] name = "improvement" -> state.reflection # None
    [] name = "end" -> TRUE

Skills == <<"intent", "composition", "validation", "execution", "reflection", "improvement", "end">>

Statuses == {"completed", "failed"}

\* None stands for what is undefined: it is no flow, no name and no record.
ASSUME NoneAssumption ==
  /\ None \notin {EmptyDocument, Built} /\ None \notin {"begin"} \cup ToSet(Skills) \cup Statuses \cup Wires
  /\ None \notin [satisfied : BOOLEAN, suggestions : Seq(Remarks)]
  /\ None \notin [status : Statuses, flow : {None, Built}, attempts : Nat]

At(name) == result = None /\ skill = name /\ Applies(name)
Following(name) == Skills[SelectInSeq(Skills, LAMBDA s : s = name) + 1]

Returned(status, final, all) == [status |-> status, flow |-> final, attempts |-> Len(all)]

AgentInit ==
  /\ Init
  /\ request \in [wants : SUBSET {"json", "count", "titles"}, observed : BOOLEAN, guided : BOOLEAN,
                  sound : BOOLEAN, refused : {None} \cup Wires,
                  budget : {Max({1, option}) : option \in Options}]
  /\ skill = "begin" /\ step = 1
  /\ state = Fresh(1, <<>>)
  /\ attempts = <<>> /\ result = None

Observed(action) == IF request.observed THEN action ELSE UNCHANGED sessionVars

Begin ==
  /\ skill = "begin"
  /\ Observed(Start)
  /\ skill' = "intent"
  /\ UNCHANGED <<request, step, state, attempts, result>>

\* The skill is done, with these changes to the state.
Done(name, changed) ==
  /\ At(name)
  /\ state' = changed
  /\ skill' = Following(name)
  /\ UNCHANGED <<request, step, attempts, result>>

Skip ==
  /\ result = None /\ skill \notin {"begin", "end"} /\ ~Applies(skill)
  /\ skill' = Following(skill)
  /\ UNCHANGED <<request, step, state, attempts, result>> /\ UNCHANGED sessionVars

Analyze == Done("intent", [state EXCEPT !.intent = TRUE]) /\ UNCHANGED sessionVars

\* A call of the session; after the last the draft is its document.
DraftStep ==
  /\ At("composition") /\ request.observed /\ ~Throws(Draft[step])
  /\ Perform(Draft[step])
  /\ IF step < Len(Draft)
     THEN step' = step + 1 /\ UNCHANGED <<skill, state>>
     ELSE step' = 1 /\ skill' = "validation" /\ state' = [state EXCEPT !.flow = flow]
  /\ UNCHANGED <<request, attempts, result>>

DraftAlone ==
  /\ ~request.observed /\ request.refused = None
  /\ Done("composition", [state EXCEPT !.flow = Built])
  /\ UNCHANGED sessionVars

\* Plannability and the texts of the nodes, which are the same each time.
Validate ==
  /\ Done("validation", [state EXCEPT !.validated = TRUE, !.valid = request.sound])
  /\ UNCHANGED sessionVars

Execute ==
  /\ \E status \in Statuses : Done("execution", [state EXCEPT !.execution = status])
  /\ UNCHANGED sessionVars

Reflect ==
  /\ \E lacks \in Shortcomings(state.execution) :
       Done("reflection",
            [state EXCEPT !.reflection = [satisfied |-> lacks = {}, suggestions |-> Suggestions(lacks)]])
  /\ UNCHANGED sessionVars

Improve ==
  /\ Done("improvement",
          [state EXCEPT !.notes = IF state.reflection.satisfied THEN @
                                  ELSE Extended(@, state.reflection.suggestions)])
  /\ UNCHANGED sessionVars

\* The resources or the provider may fail a skill that awaits them, the
\* draft before its first call (so may a request that is not feasible); a
\* refused connection fails it later.  The attempt is listed if it got as far
\* as its validation.
Fail ==
  /\ \/ At("intent") \/ At("reflection")
     \/ At("composition") /\ (step > 1 => Throws(Draft[step]))
  /\ Observed(Complete)
  /\ attempts' = IF state.validated THEN Append(attempts, state) ELSE attempts
  /\ result' = Returned("failed", state.flow, attempts')
  /\ skill' = None
  /\ UNCHANGED <<request, step, state>>

Satisfied == state.valid /\ state.reflection # None /\ state.reflection.satisfied

EndWith(status) ==
  /\ At("end")
  /\ attempts' = Append(attempts, state)
  /\ Observed(Complete)
  /\ result' = Returned(status, state.flow, attempts')
  /\ skill' = None
  /\ UNCHANGED <<request, step, state>>

Succeed == Satisfied /\ EndWith("completed")

Exhaust == ~Satisfied /\ state.iteration = request.budget /\ EndWith("failed")

\* Mutant: the graph of the last attempt stays.
RetryInPlace ==
  /\ At("end") /\ ~Satisfied /\ state.iteration < request.budget
  /\ attempts' = Append(attempts, state)
  /\ UNCHANGED sessionVars
  /\ state' = Fresh(state.iteration + 1, state.notes)
  /\ skill' = "intent"
  /\ UNCHANGED <<request, step, result>>

Retry ==
  /\ At("end") /\ ~Satisfied /\ state.iteration < request.budget
  /\ attempts' = Append(attempts, state)
  /\ Observed(Clear)
  /\ state' = Fresh(state.iteration + 1, state.notes)
  /\ skill' = "intent"
  /\ UNCHANGED <<request, step, result>>

AgentNext ==
  \/ Begin \/ Skip \/ Analyze \/ DraftStep \/ DraftAlone \/ Validate \/ Execute
  \/ Reflect \/ Improve \/ Fail \/ Succeed \/ Exhaust \/ Retry

AgentSpec == AgentInit /\ [][AgentNext]_<<sessionVars, agentVars>>

-----------------------------------------------------------------------------
Entries(f) == [n \in NodeIds(f) |-> f.nodes[n]]

\* The observer has the nodes and the edges of this document.
Shows(f) ==
  /\ [n \in DOMAIN shown.nodes |-> shown.nodes[n].node] = Entries(f)
  /\ shown.edges = f.edges

(***************************************************************************)
(* However many attempts were made and wherever the last one stopped, the  *)
(* observer is left with the graph of the flow that design() returns, all  *)
(* its nodes ready or connected, or with an empty one if it returns none:  *)
(* nothing of an earlier attempt remains (agent.ts:66-71).  Only a draft   *)
(* that the caller's own blocks refuse to connect is left as it is at that *)
(* connection, with no flow returned (core.ts:234-240, 386-412).  The flow *)
(* is the one that is designed without an observer (core.ts:421-469).      *)
(***************************************************************************)
StreamEndsWithResult ==
  result # None =>
    /\ result.flow \in {None, Built}
    /\ request.observed =>
         \/ /\ Shows(IF result.flow = None THEN EmptyDocument ELSE result.flow)
            /\ \A n \in DOMAIN shown.nodes : shown.nodes[n].visual.phase \in {"ready", "connected"}
         \/ result.flow = None /\ request.refused # None /\ Shows(Abandoned)

(***************************************************************************)
(* No attempt forgets: it is drafted with every suggestion of the earlier  *)
(* ones, each once, in the order they came up (skills.ts:178-188,          *)
(* agent.ts:77, 123).  An attempt is only repeated if the one before it    *)
(* was invalid or left something to be desired, and then, unless it was    *)
(* invalid, there is something to go by.                                   *)
(***************************************************************************)
RetriesLearn ==
  LET all == IF state.iteration > Len(attempts) THEN Append(attempts, state) ELSE attempts
  IN  \A j \in DOMAIN all :
        /\ IsInjective(all[j].drafted)
        /\ \A i \in 1..(j - 1) :
             /\ all[i].validated /\ all[i].valid => all[i].reflection # None
             /\ all[i].reflection # None =>
                  /\ ~all[i].reflection.satisfied /\ all[i].reflection.suggestions # <<>>
                  /\ ToSet(all[i].reflection.suggestions) \subseteq ToSet(all[j].drafted)
             /\ IsPrefix(all[i].drafted, all[j].drafted)
=============================================================================
