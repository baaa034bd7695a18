----------------------------- MODULE GraphPlans -----------------------------
(***************************************************************************)
(* The graphs a caller may draw on the nodes 1..N, edge by edge, with the  *)
(* start nodes of a run, and what the plan of a graph promises whatever    *)
(* graph it is.                                                            *)
(***************************************************************************)
EXTENDS GraphPlanner

CONSTANTS
  N,         \* how many nodes
  MaxStarts  \* at most so many start nodes are named

ASSUME SizeAssumption == N \in Nat

VARIABLES sourceGraph, startNodes

plannerVars == <<sourceGraph, startNodes>>

NoEdges == [nodes |-> 1..N, edges |-> {}]

PlannerInit == sourceGraph = NoEdges /\ startNodes = {}

AddEdge(e) ==
  /\ sourceGraph' = [sourceGraph EXCEPT !.edges = @ \cup {e}]
  /\ Valid(sourceGraph')
  /\ UNCHANGED startNodes

AddStart(n) ==
  /\ Cardinality(startNodes \cup {n}) <= MaxStarts
  /\ startNodes' = startNodes \cup {n}
  /\ UNCHANGED sourceGraph

PlannerNext ==
  \/ \E e \in (1..N) \X (1..N) : AddEdge(e)
  \/ \E n \in 1..N : AddStart(n)

PlannerSpec == PlannerInit /\ [][PlannerNext]_plannerVars

-----------------------------------------------------------------------------
\* What no edge leaves.
ClosedSets(g) == {S \in SUBSET g.nodes : \A e \in g.edges : e[1] \in S => e[2] \in S}

\* The nodes each node leads to: what every such set with it has.
ReachedFrom(g) ==
  LET closed == ClosedSets(g)
  IN  [n \in g.nodes |-> {m \in g.nodes : \A S \in closed : n \in S => m \in S}]

(***************************************************************************)
(* The components are the classes of mutually reachable nodes, each once,  *)
(* and a component comes after the ones it leads to (planner.ts:136-181).  *)
(***************************************************************************)
ComponentsAreCycles(g) ==
  LET components == Components(g)
      reached == ReachedFrom(g)
  IN  /\ ToSet(components) = {{m \in g.nodes : m \in reached[n] /\ n \in reached[m]} : n \in g.nodes}
      /\ IsInjective(components)
      /\ \A e \in ComponentEdges(g, components) : e[2] < e[1]

(***************************************************************************)
(* Every component is planned in one batch, the one right after the last   *)
(* of the batches it depends on: the planner never throws "Failed to build *)
(* execution batches", and no batch could be merged into an earlier one.   *)
(***************************************************************************)
BatchesAreLayers(g) ==
  LET plan == Plan(g)
      edges == ComponentEdges(g, plan.components)
      batches == plan.batches
  IN  /\ plan.planned /\ plan.components = Components(g)
      /\ \A a, b \in DOMAIN batches : a # b => batches[a] \cap batches[b] = {}
      /\ \A b \in DOMAIN batches : \A c \in batches[b] :
           /\ \A e \in edges : e[2] = c => \E a \in 1..(b - 1) : e[1] \in batches[a]
           /\ b > 1 => \E d \in batches[b - 1] : <<d, c>> \in edges

(***************************************************************************)
(* A run from start nodes executes them and what they lead to, and waits   *)
(* for no node outside (executor.ts:642-709): the plan of the subgraph has *)
(* its own first batch.                                                    *)
(***************************************************************************)
ScopeIsDownstream(g, starts) ==
  LET scoped == ExecutionGraph(g, starts)
      reached == ReachedFrom(g)
  IN  starts # {} =>
        /\ scoped.nodes = UNION {reached[n] : n \in starts}
        /\ scoped.edges = {e \in g.edges : e[1] \in scoped.nodes}
        /\ BatchesAreLayers(scoped)

\* A caller's graph, or the part of it that is executed, is planned this way.
PlansAreSound ==
  /\ ComponentsAreCycles(sourceGraph)
  /\ BatchesAreLayers(sourceGraph)
  /\ ScopeIsDownstream(sourceGraph, startNodes)
=============================================================================
