---------------------------- MODULE GraphExecutor ----------------------------
(***************************************************************************)
(* One run of the graph execution engine (src/src/graph/executor.ts): the  *)
(* scheduler that starts the components of a plan within the concurrency   *)
(* limits, the components that execute their nodes one after the other,    *)
(* and the settlement of the run.                                          *)
(*                                                                         *)
(* pump() starts components without an await between them, so no component *)
(* moves while it loops; a component moves when a node it awaits settles,  *)
(* when its exception reaches the catch, and when its slot is released,    *)
(* each in a microtask of its own.  The caller may abort at any time, in   *)
(* the middle of pump() too, from a node or an event handler it calls.     *)
(***************************************************************************)
EXTENDS Naturals, Sequences, FiniteSets

CONSTANTS
  Nodes,           \* the ids of nodes
  Graphs,          \* the planned graphs a run may execute
  MaxConcurrency,  \* after the constructor's Math.max(1, ...)
  Keys,            \* the concurrency keys
  KeyLimit,        \* maxConcurrencyByKey, NoLimit where it has no entry
  NoKey, NoLimit, NoParent

(***************************************************************************)
(* A planned graph: nodesOf[c] are the nodes of component c in the order   *)
(* they run, edges the node pairs, key[c] the component's concurrency key  *)
(* and componentByNode the component the engine takes a node to be in; it  *)
(* looks at no batch.  Components are numbered in the order the ready      *)
(* queue sorts their ids, no two of which are alike.                       *)
(*                                                                         *)
(* Of a caller's plan the engine checks that its components have the nodes *)
(* of the graph, as sets: they may be empty, and a node may be in several  *)
(* places, where componentByNode is the component listed last.  Those of a *)
(* partition, as the planner's are, have each node in one place.           *)
(***************************************************************************)
NodesIn(g, c) == {g.nodesOf[c][i] : i \in DOMAIN g.nodesOf[c]}
PlannedNodes(g) == UNION {NodesIn(g, c) : c \in DOMAIN g.nodesOf}

PlannedGraph(g) ==
  /\ g.nodesOf \in Seq(Seq(Nodes))
  /\ g.edges \subseteq PlannedNodes(g) \X PlannedNodes(g)
  /\ g.componentByNode \in [PlannedNodes(g) -> DOMAIN g.nodesOf]
  /\ \A n \in PlannedNodes(g) : n \in NodesIn(g, g.componentByNode[n])
  /\ g.key \in [DOMAIN g.nodesOf -> Keys \cup {NoKey}]

Partition(g) ==
  \A c, d \in DOMAIN g.nodesOf :
    \A i \in DOMAIN g.nodesOf[c], j \in DOMAIN g.nodesOf[d] :
      g.nodesOf[c][i] = g.nodesOf[d][j] => c = d /\ i = j

ASSUME GraphsAssumption == \A g \in Graphs : PlannedGraph(g)
ASSUME LimitsAssumption ==
  /\ MaxConcurrency \in Nat \ {0}
  /\ KeyLimit \in [Keys -> Nat \cup {NoLimit}]
  /\ NoKey \notin Keys /\ NoLimit \notin Nat /\ NoParent \notin Nat

VARIABLES
  graph,        \* the planned graph of this run
  pump,         \* "enter" before the first call of pump(), "loop" in its loop
  ready,        \* readyQueue; it is kept sorted, so a set of components
  scheduled,    \* scheduledComponents
  remaining,    \* incomingRemaining
  activeCount, activeCountByKey,
  pc,           \* where each component's runComponent stands
  at,           \* the index of the node it executes, 0 in an empty component
  record,       \* the status of its execution record, "none" before there is one
  parent,       \* the component whose execution enqueued it
  completed,    \* completedComponents
  order,        \* executionOrder: the nodes that got a result, by their places
  calls,        \* the calls of executeNode: the place and the results it was given
  inFlight,     \* the places whose executeNode call has not ended
  aborted,      \* signal.aborted
  outcome,      \* the status run() resolved with, "none" before it settled
  executions    \* the record statuses it resolved with

scheduler == <<ready, scheduled, remaining, parent, completed>>
slots     == <<activeCount, activeCountByKey>>
progress  == <<order, calls, inFlight>>
result    == <<outcome, executions>>
vars == <<graph, pump, scheduler, slots, pc, at, record, progress, aborted, result>>

Comps == DOMAIN graph.nodesOf
NodeSet(c) == NodesIn(graph, c)
Home(n) == graph.componentByNode[n]

\* The place <<c, i>> is the i-th of component c.
Current(c) == <<c, at[c]>>
NodeAt(p) == graph.nodesOf[p[1]][p[2]]
Results == {NodeAt(order[i]) : i \in DOMAIN order}

Predecessors(n) == {m \in Nodes : <<m, n>> \in graph.edges}

\* dependencyComponentIds: the other components with an edge into c.
Dependencies(c) ==
  {d \in Comps \ {c} : \E e \in graph.edges : Home(e[1]) = d /\ Home(e[2]) = c}

Settled == outcome # "none"

Settle(status) ==
  /\ outcome' = status
  /\ executions' = [c \in Comps |->
       IF status = "cancelled" /\ record[c] \in {"pending", "running"}
       THEN "cancelled" ELSE record[c]]

\* pump() is called: it does nothing in a settled run and cancels an aborted one.
CallPump ==
  \/ Settled /\ pump' = "no" /\ UNCHANGED result
  \/ ~Settled /\ aborted /\ pump' = "no" /\ Settle("cancelled")
  \/ ~Settled /\ ~aborted /\ pump' = "loop" /\ UNCHANGED result

Init ==
  /\ graph \in Graphs
  /\ pump = "enter"
  /\ ready = {c \in Comps : Dependencies(c) = {}}
  /\ scheduled = {}
  /\ remaining = [c \in Comps |-> Cardinality(Dependencies(c))]
  /\ activeCount = 0
  /\ activeCountByKey = [k \in Keys |-> 0]
  /\ pc = [c \in Comps |-> "idle"]
  /\ at = [c \in Comps |-> IF graph.nodesOf[c] = <<>> THEN 0 ELSE 1]
  /\ record = [c \in Comps |-> "none"]
  /\ parent = [c \in Comps |-> NoParent]
  /\ completed = {}
  /\ order = <<>> /\ calls = <<>> /\ inFlight = {}
  /\ aborted = FALSE
  /\ outcome = "none"
  /\ executions = [c \in Comps |-> "none"]

-----------------------------------------------------------------------------
(* pump *)

Begin ==
  /\ pump = "enter"
  /\ CallPump
  /\ UNCHANGED <<graph, scheduler, slots, pc, at, record, progress, aborted>>

AtLeastOne(n) == IF n = 0 THEN 1 ELSE n

\* Mutant: a limit of zero is taken as it is.
WithinZeroKeyLimit(k) == KeyLimit[k] # NoLimit => activeCountByKey[k] < KeyLimit[k]

\* Mutant: the key's limit allows one too many.
WithinLooseKeyLimit(k) ==
  KeyLimit[k] # NoLimit => activeCountByKey[k] <= AtLeastOne(KeyLimit[k])

WithinKeyLimit(k) ==
  KeyLimit[k] # NoLimit => activeCountByKey[k] < AtLeastOne(KeyLimit[k])

Runnable(c) == c \in ready /\ (graph.key[c] # NoKey => WithinKeyLimit(graph.key[c]))

CanStart(c) ==
  /\ pump = "loop"
  /\ activeCount < MaxConcurrency
  /\ Runnable(c)
  /\ \A d \in ready : Runnable(d) => c <= d

\* The first runnable task leaves the queue and takes a slot.
TakeSlot(c) ==
  /\ activeCount' = activeCount + 1
  /\ activeCountByKey' =
       [k \in Keys |-> activeCountByKey[k] + IF k = graph.key[c] THEN 1 ELSE 0]

Occupy(c) ==
  /\ ready' = ready \ {c}
  /\ TakeSlot(c)
  /\ UNCHANGED <<scheduled, remaining, parent, completed>>

\* executeNode is called for the node there, with the results there are of its
\* predecessors.
CallNode(p, results) ==
  calls' = Append(calls, [place |-> p, given |-> Predecessors(NodeAt(p)) \cap results])

\* A component without nodes is completed at once; nothing depends on it.
StartEmpty(c) ==
  /\ CanStart(c) /\ ~aborted /\ graph.nodesOf[c] = <<>>
  /\ ready' = ready \ {c}
  /\ TakeSlot(c)
  /\ record' = [record EXCEPT ![c] = "completed"]
  /\ completed' = completed \cup {c}
  /\ pc' = [pc EXCEPT ![c] = "done"]
  /\ UNCHANGED <<graph, pump, scheduled, remaining, parent, at, progress, aborted, result>>

StartComponent(c) ==
  /\ CanStart(c) /\ ~aborted /\ graph.nodesOf[c] # <<>>
  /\ Occupy(c)
  /\ record' = [record EXCEPT ![c] = "running"]
  /\ pc' = [pc EXCEPT ![c] = "node"]
  /\ CallNode(Current(c), Results)
  /\ inFlight' = inFlight \cup {Current(c)}
  /\ UNCHANGED <<graph, pump, at, order, aborted, result>>

\* throwIfAborted() comes before the record is "running".
StartAborted(c) ==
  /\ CanStart(c) /\ aborted
  /\ Occupy(c)
  /\ record' = [record EXCEPT ![c] = "pending"]
  /\ pc' = [pc EXCEPT ![c] = "aborting"]
  /\ UNCHANGED <<graph, pump, at, progress, aborted, result>>

PumpDone ==
  /\ pump = "loop"
  /\ activeCount >= MaxConcurrency \/ ~\E c \in ready : Runnable(c)

\* Mutant: an idle scheduler means a completed run.
PumpEndsCompleting ==
  /\ PumpDone
  /\ pump' = "no"
  /\ \/ (activeCount > 0 \/ ready # {}) /\ UNCHANGED result
     \/ activeCount = 0 /\ ready = {} /\ Settle("completed")
  /\ UNCHANGED <<graph, scheduler, slots, pc, at, record, progress, aborted>>

\* Nothing more can start; maybeComplete() settles a run with nothing left,
\* as failed when components are left that never became ready.
PumpEnds ==
  /\ PumpDone
  /\ pump' = "no"
  /\ \/ (activeCount > 0 \/ ready # {}) /\ UNCHANGED result
     \/ activeCount = 0 /\ ready = {} /\ completed = Comps /\ Settle("completed")
     \/ activeCount = 0 /\ ready = {} /\ completed # Comps /\ Settle("failed")
  /\ UNCHANGED <<graph, scheduler, slots, pc, at, record, progress, aborted>>

-----------------------------------------------------------------------------
(* runComponent *)

AwaitsNode(c) == pump = "no" /\ pc[c] = "node"
LastNode(c) == at[c] = Len(graph.nodesOf[c])

\* A node of a settled run settles: its result is dropped.
NodeEndsLate(c) ==
  /\ AwaitsNode(c) /\ Settled
  /\ inFlight' = inFlight \ {Current(c)}
  /\ pc' = [pc EXCEPT ![c] = "done"]
  /\ UNCHANGED <<graph, pump, scheduler, slots, at, record, order, calls, aborted, result>>

\* The result is stored and the next node of the component starts.
NodeCompletes(c) ==
  /\ AwaitsNode(c) /\ ~Settled /\ ~LastNode(c)
  /\ order' = Append(order, Current(c))
  /\ \/ /\ aborted
        /\ pc' = [pc EXCEPT ![c] = "aborting"]
        /\ inFlight' = inFlight \ {Current(c)}
        /\ UNCHANGED <<at, calls>>
     \/ /\ ~aborted
        /\ at' = [at EXCEPT ![c] = @ + 1]
        /\ LET next == <<c, at[c] + 1>>
           IN  /\ inFlight' = (inFlight \ {Current(c)}) \cup {next}
               /\ CallNode(next, Results \cup {NodeAt(Current(c))})
        /\ UNCHANGED pc
  /\ UNCHANGED <<graph, pump, scheduler, slots, record, aborted, result>>

Dependents(c) == {d \in Comps : c \in Dependencies(d)}

\* Mutant: a dependent is enqueued as soon as one of its dependencies completed.
EnqueuedByFirst(c) ==
  {d \in Dependents(c) \ scheduled : remaining[d] = Cardinality(Dependencies(d))}

EnqueuedBy(c) == {d \in Dependents(c) \ scheduled : remaining[d] = 1}

\* The last node's result is stored and the dependents that wait for nothing
\* else are enqueued.
Finish(c) ==
  /\ order' = Append(order, Current(c))
  /\ inFlight' = inFlight \ {Current(c)}
  /\ record' = [record EXCEPT ![c] = "completed"]
  /\ completed' = completed \cup {c}
  /\ remaining' = [d \in Comps |-> remaining[d] - IF d \in Dependents(c) THEN 1 ELSE 0]
  /\ ready' = ready \cup EnqueuedBy(c)
  /\ scheduled' = scheduled \cup EnqueuedBy(c)
  /\ parent' = [d \in Comps |-> IF d \in EnqueuedBy(c) THEN c ELSE parent[d]]
  /\ pc' = [pc EXCEPT ![c] = "done"]
  /\ UNCHANGED <<graph, pump, slots, at, calls, aborted, result>>

\* Mutant: the last result is stored whether or not the run settled.
CompletesLate(c) == AwaitsNode(c) /\ LastNode(c) /\ Finish(c)

ComponentCompletes(c) == AwaitsNode(c) /\ ~Settled /\ LastNode(c) /\ Finish(c)

\* executeNode rejects, or times out and goes on unawaited.
NodeFails(c) ==
  /\ AwaitsNode(c)
  /\ inFlight' \in {inFlight, inFlight \ {Current(c)}}
  /\ pc' = [pc EXCEPT ![c] = "failing"]
  /\ UNCHANGED <<graph, pump, scheduler, slots, at, record, order, calls, aborted, result>>

\* The exception reaches the catch, which closes the record.
CatchFailure(c) ==
  /\ pump = "no" /\ pc[c] \in {"aborting", "failing"}
  /\ record' = [record EXCEPT ![c] = IF pc[c] = "aborting" THEN "cancelled" ELSE "failed"]
  /\ pc' = [pc EXCEPT ![c] = "caught"]
  /\ UNCHANGED <<graph, pump, scheduler, slots, at, progress, aborted, result>>

Vacate(c) ==
  /\ activeCount' = activeCount - 1
  /\ activeCountByKey' =
       [k \in Keys |-> activeCountByKey[k] - IF k = graph.key[c] THEN 1 ELSE 0]
  /\ pc' = [pc EXCEPT ![c] = "released"]

\* runComponent returned: the slot is free and pump() looks for the next task.
Release(c) ==
  /\ pump = "no" /\ pc[c] = "done"
  /\ Vacate(c)
  /\ CallPump
  /\ UNCHANGED <<graph, scheduler, at, record, progress, aborted>>

\* runComponent threw: the run fails or is cancelled, and nothing else starts.
ReleaseFailed(c) ==
  /\ pump = "no" /\ pc[c] = "caught"
  /\ Vacate(c)
  /\ \/ Settled /\ UNCHANGED result
     \/ ~Settled /\ record[c] = "cancelled" /\ Settle("cancelled")
     \/ ~Settled /\ record[c] = "failed" /\ Settle("failed")
  /\ UNCHANGED <<graph, pump, scheduler, at, record, progress, aborted>>

-----------------------------------------------------------------------------
(* The world around the run *)

\* A timed-out executeNode call that nobody awaits any more ends.
DetachedNodeEnds(p) ==
  /\ p \in inFlight
  /\ ~\E c \in Comps : pc[c] = "node" /\ Current(c) = p
  /\ inFlight' = inFlight \ {p}
  /\ UNCHANGED <<graph, pump, scheduler, slots, pc, at, record, order, calls, aborted, result>>

Abort ==
  /\ ~aborted
  /\ aborted' = TRUE
  /\ UNCHANGED <<graph, pump, scheduler, slots, pc, at, record, progress, result>>

Pump ==
  \/ Begin \/ PumpEnds
  \/ \E c \in Comps : StartEmpty(c) \/ StartComponent(c) \/ StartAborted(c)

Run(c) ==
  \/ NodeEndsLate(c) \/ NodeCompletes(c) \/ ComponentCompletes(c) \/ NodeFails(c)
  \/ CatchFailure(c) \/ Release(c) \/ ReleaseFailed(c)

Next ==
  \/ Pump
  \/ \E c \in Comps : Run(c)
  \/ \E p \in inFlight : DetachedNodeEnds(p)
  \/ Abort

\* Promise callbacks run, and every awaited executeNode call settles or times
\* out.  Nothing obliges a caller to abort or a timed-out node to end.
Fairness == WF_vars(Pump) /\ WF_vars(\E c \in Comps : Run(c))

Spec == Init /\ [][Next]_vars /\ Fairness

-----------------------------------------------------------------------------
(* Properties *)

\* In the execution tree an execution was delegated by the dependency that
\* finished last, and an execution without dependencies is a root.
Position(c) == CHOOSE i \in DOMAIN order : order[i] = <<c, Len(graph.nodesOf[c])>>

DelegatedByLastDependency ==
  \A c \in Comps :
    record[c] # "none" =>
      IF Dependencies(c) = {} THEN parent[c] = NoParent
      ELSE /\ parent[c] \in Dependencies(c) \cap completed
           /\ \A d \in Dependencies(c) \cap completed : Position(d) <= Position(parent[c])

\* What a node needs from other components.
Needed(n) == {m \in Predecessors(n) : Home(m) # Home(n)}

(***************************************************************************)
(* Each place of a plan runs at most once, so a node of a partition does,  *)
(* and a node runs in the component the engine takes it to be in only with *)
(* the results of all its predecessors in other components: a join waits   *)
(* for its last branch, which enqueues it, and no interleaving of          *)
(* completions enqueues it twice (executor.ts:363-371).                    *)
(***************************************************************************)
NodesRunOnceAfterDependencies ==
  /\ \A i, j \in DOMAIN calls : calls[i].place = calls[j].place => i = j
  /\ Partition(graph) =>
       \A i, j \in DOMAIN calls : NodeAt(calls[i].place) = NodeAt(calls[j].place) => i = j
  /\ \A i \in DOMAIN calls :
       LET n == NodeAt(calls[i].place)
       IN  calls[i].place[1] = Home(n) => Needed(n) \subseteq calls[i].given
  /\ DelegatedByLastDependency

(***************************************************************************)
(* The calls of executeNode under way, those that timed out included,      *)
(* never exceed maxConcurrency, nor those with a key the limit of the key: *)
(* the slot a timed-out node frees is given to nobody.                     *)
(***************************************************************************)
WithKey(k) == {p \in inFlight : graph.key[p[1]] = k}

WorkIsBounded ==
  /\ Cardinality(inFlight) <= MaxConcurrency
  /\ \A k \in Keys :
       KeyLimit[k] # NoLimit => Cardinality(WithKey(k)) <= AtLeastOne(KeyLimit[k])

(***************************************************************************)
(* What the result says is so.  A completed run has a result of each node  *)
(* and only completed executions.  A failed run has a failed execution, or *)
(* stalled on a plan whose components depend on each other in a circle. A  *)
(* cancelled run was aborted and leaves no execution pending or running.   *)
(***************************************************************************)
OutcomeIsHonest ==
  /\ outcome = "completed" =>
       /\ Results = UNION {NodeSet(c) : c \in Comps}
       /\ \A c \in Comps : executions[c] = "completed"
  /\ outcome = "failed" =>
       \/ \E c \in Comps : executions[c] = "failed"
       \/ \E C \in (SUBSET Comps) \ {{}} : \A c \in C : Dependencies(c) \cap C # {}
  /\ outcome = "cancelled" =>
       aborted /\ \A c \in Comps : executions[c] \notin {"pending", "running"}

(***************************************************************************)
(* The result is an immutable snapshot: after the run settled no node is   *)
(* started, no late result is stored and no second outcome replaces the    *)
(* first, although branches and timed-out nodes go on.                     *)
(***************************************************************************)
SettledRunIsFrozen ==
  [][Settled => UNCHANGED <<outcome, executions, order, calls, completed>>]_vars

\* Whatever fails or is aborted, the promise of the run settles.
RunSettles == <>Settled
=============================================================================
