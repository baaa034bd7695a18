--------------------------- MODULE JudgedRequests ---------------------------
(***************************************************************************)
(* The task graphs and the requests for flows that are judged feasible or  *)
(* not, built up node by node and word by word, and what the judgement     *)
(* promises.                                                               *)
(***************************************************************************)
EXTENDS Naturals, Sequences, FiniteSets, SequencesExt

CONSTANTS
  TaskNodes,       \* the nodes of task graphs
  MaxTasks,        \* bound: at most so many
  SignalWords,     \* the words of a request that the catalog knows
  Mentioned,       \* how a request may mention formats
  ModelContracts,  \* the output contracts a model may answer
  MaxSignals       \* bound: at most so many words

F == INSTANCE FlowFeasibility

ASSUME TaskNodesAssumption ==
  \A node \in TaskNodes :
    node = F!Node(node.operation, node.capabilities) /\ IsFiniteSet(node.capabilities)

VARIABLES
  tasks,  \* a task graph, each [node, answer], the answer a model would give
          \* on whether the node may be left to the AI block
  asked   \* a request, once there is one: its words, how it mentions formats,
          \* and whose answers on its output contract are remembered and used

judgedVars == <<tasks, asked>>

JudgedInit == tasks = <<>> /\ asked = {}

AddTask(node, answer) ==
  /\ Len(tasks) < MaxTasks
  /\ tasks' = Append(tasks, [node |-> node, answer |-> answer])
  /\ UNCHANGED asked

Said(mentions) == {format \in DOMAIN mentions : mentions[format] # "unsaid"}
Reading(request) == F!Contract(request.mentions, 0, FALSE)

AskFor(mentions) ==
  /\ asked = {}
  /\ asked' = {[words |-> Said(mentions), mentions |-> mentions, remembered |-> <<>>, used |-> {}]}
  /\ UNCHANGED tasks

AddSignal(request, word) ==
  /\ request.used = {} /\ Cardinality(request.words \cup {word}) <= MaxSignals
  /\ asked' = {[request EXCEPT !.words = @ \cup {word}]}
  /\ UNCHANGED tasks

AskContract(request, recommended) ==
  /\ LET contract == F!Recalled(request.remembered, "request", recommended)
     IN  asked' = {[request EXCEPT !.remembered = [r \in {"request"} |-> contract],
                                   !.used = @ \cup {contract}]}
  /\ UNCHANGED tasks

TaskNext == \E node \in TaskNodes, answer \in {"none", "yes", "no"} : AddTask(node, answer)

AskNext ==
  \/ \E mentions \in Mentioned : AskFor(mentions)
  \/ \E request \in asked :
       \/ \E word \in SignalWords : AddSignal(request, word)
       \/ AskContract(request, Reading(request))
       \/ \E contract \in ModelContracts : AskContract(request, contract)

JudgedSpec == JudgedInit /\ [][TaskNext \/ AskNext]_judgedVars

-----------------------------------------------------------------------------
(***************************************************************************)
(* A task graph is feasible exactly when each node has a block with all it *)
(* requires or is left to the AI block.  Otherwise the assessment names    *)
(* what all the nodes without a block require, so that no draft takes it   *)
(* for incomplete and recomputes it (core.ts:242-255), and proposes blocks *)
(* that are enough: with them the graph is feasible.  The best candidate   *)
(* of a node has all it requires if any block has.  Refining twice is      *)
(* refining once; it never makes a graph feasible, and without a model it  *)
(* leaves the verdict as it was.                                           *)
(***************************************************************************)
GraphsAreJudged(graph, answers) ==
  LET judged == F!Assessed(graph, F!BlockPool, answers)
      covered(i) == \E block \in ToSet(F!BlockPool) : F!Covers(block, graph[i].capabilities)
      lacking == {i \in DOMAIN graph : ~covered(i) /\ ~F!Delegated(graph[i], answers[i])}
      proposals == SetToSeq(judged.proposed)
      added == [i \in DOMAIN proposals |-> F!Block("proposed", proposals[i].capabilities)]
      best(i) == Head(F!Candidates(F!BlockPool, graph[i].capabilities))
      refined == F!Refined(graph, TRUE)
      alone == [i \in DOMAIN graph |-> "none"]
  IN  /\ judged.feasible <=> lacking = {}
      /\ judged.missing = UNION {graph[i].capabilities : i \in lacking}
      /\ ~judged.feasible => ~F!Recomputes(judged)
      /\ {p.node : p \in judged.proposed} = lacking
      /\ \A i \in DOMAIN graph : covered(i) => F!Covers(best(i), graph[i].capabilities)
      /\ F!Assessed(graph, F!BlockPool \o added, answers).feasible
      /\ F!Refined(refined, TRUE) = refined
      /\ F!Assessed(refined, F!BlockPool, answers).feasible => judged.feasible
      /\ F!Assessed(refined, F!BlockPool, alone).feasible <=> F!Assessed(graph, F!BlockPool, alone).feasible

(***************************************************************************)
(* The task graphs are judged as they should be, and a request is given    *)
(* one output contract however often and through whatever advisor it is    *)
(* asked for (output-contract.ts:280).                                     *)
(***************************************************************************)
FeasibilityIsHonest ==
  /\ GraphsAreJudged([i \in DOMAIN tasks |-> tasks[i].node], [i \in DOMAIN tasks |-> tasks[i].answer])
  /\ \A request \in asked : Cardinality(request.used) <= 1

(***************************************************************************)
(* "assessFlowFeasibility reports missing capabilities for impossible      *)
(* requests" (agent/tool-registry.spec.ts:176): the request to check the   *)
(* e-mail and reply is refused, with reading and sending missing, by the   *)
(* advisors of the catalog alone.  It is, when a caller passes the request *)
(* only; the tools pass the design brief, too, whose facets rule out the   *)
(* trait of the workflow for e-mail for every task type there is           *)
(* (architecture.ts:180), and the request is taken for one to edit a text. *)
(***************************************************************************)
Understood(request) == [words |-> request.words, format |-> Reading(request).format]

EmailRequestIsRefused ==
  \A request \in asked :
    request.words = {"email", "reply", "check", "please"} =>
      \A brief \in {F!NoBrief, F!BriefOf(Understood(request), "none")} :
        LET recommended == F!Recommended(request.words, brief)
            judged == F!Prevalidated(recommended, "none", F!NoAnswers)
        IN  ~judged.feasible /\ judged.missing = {"email-read", "email-reply"}
=============================================================================
