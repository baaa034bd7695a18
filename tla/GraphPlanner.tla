---------------------------- MODULE GraphPlanner ----------------------------
(***************************************************************************)
(* The execution plan of a directed graph (src/src/graph/planner.ts) and   *)
(* the part of a graph a run with start nodes executes (buildExecution-    *)
(* Graph of src/src/graph/executor.ts), as operators.  A loop or a         *)
(* recursion of the code is a recursive function from how many steps were  *)
(* made to the state they led to.                                          *)
(*                                                                         *)
(* A graph is [nodes, edges]: the node ids, as numbers in the order the    *)
(* code sorts ids, and a set of pairs <<source, target>> (the planner      *)
(* skips the second copy of an edge).                                      *)
(***************************************************************************)
EXTENDS Naturals, Sequences, FiniteSets, SequencesExt

\* What the planner accepts; it throws for any other graph.
Valid(g) == \A e \in g.edges : e[1] # e[2] /\ e \in g.nodes \X g.nodes

SuccessorsOf(g, n) == {m \in g.nodes : <<n, m>> \in g.edges}

-----------------------------------------------------------------------------
(* Strongly connected components, by Tarjan's algorithm.  path are the     *)
(* calls of strongConnect that have not returned, the innermost last, and  *)
(* left the edges that their loops, and those of calls to come, have still *)
(* to look at.                                                             *)

Untouched(g) ==
  [index |-> 0, indices |-> <<>>, lowLinks |-> <<>>, stack |-> <<>>, components |-> <<>>,
   path |-> <<>>, left |-> g.edges]

\* map.set(n, v)
Put(map, n, v) == [m \in DOMAIN map \cup {n} |-> IF m = n THEN v ELSE map[m]]

Enter(s, n) ==
  [s EXCEPT !.index = @ + 1,
            !.indices = Put(@, n, s.index), !.lowLinks = Put(@, n, s.index),
            !.stack = Append(@, n), !.path = Append(@, n)]

Lower(s, n, link) == [s EXCEPT !.lowLinks = Put(@, n, IF @[n] <= link THEN @[n] ELSE link)]

\* The neighbour m of n is entered; or n is lowered to it while it is on the stack.
LookAt(s, n, m) ==
  LET seen == [s EXCEPT !.left = @ \ {<<n, m>>}]
  IN  IF m \notin DOMAIN s.indices THEN Enter(seen, m)
      ELSE IF m \in ToSet(s.stack) THEN Lower(seen, n, s.indices[m])
      ELSE seen

\* Mutant: one node is popped where the component's whole suffix should be.
CloseTop(s, n) ==
  [s EXCEPT !.components = Append(@, {Last(s.stack)}), !.stack = Front(@)]

\* Pops n and all above it as one component.
Close(s, n) ==
  LET i == CHOOSE i \in DOMAIN s.stack : s.stack[i] = n
  IN  [s EXCEPT !.components = Append(@, {s.stack[j] : j \in i..Len(s.stack)}),
                !.stack = SubSeq(@, 1, i - 1)]

\* The innermost call returns to its caller, if that is a call too.
Return(s) ==
  LET callers == Front(s.path)
      returned == [s EXCEPT !.path = callers]
  IN  IF callers = <<>> THEN returned
      ELSE Lower(returned, Last(callers), s.lowLinks[Last(s.path)])

Unvisited(g, s) == g.nodes \ DOMAIN s.indices

\* The next step, of the loop over the nodes or of the innermost call.
Advance(g, s) ==
  LET n == Last(s.path)
      next == {m \in g.nodes : <<n, m>> \in s.left}
  IN  CASE s.path = <<>> /\ Unvisited(g, s) = {} -> s
        [] s.path = <<>> /\ Unvisited(g, s) # {} -> Enter(s, Min(Unvisited(g, s)))
        [] s.path # <<>> /\ next # {} -> LookAt(s, n, Min(next))
        [] s.path # <<>> /\ next = {} ->
             Return(IF s.lowLinks[n] = s.indices[n] THEN Close(s, n) ELSE s)

\* Each node is entered and left once, and each edge looked at.
StepsOf(g) == 2 * Cardinality(g.nodes) + Cardinality(g.edges)

Components(g) ==
  LET search[i \in 0..StepsOf(g)] ==
        IF i = 0 THEN Untouched(g) ELSE Advance(g, search[i - 1])
  IN  search[StepsOf(g)].components

-----------------------------------------------------------------------------
(* Batches of components, each after every component it depends on. *)

ComponentOf(components, n) == CHOOSE i \in DOMAIN components : n \in components[i]

ComponentEdges(g, components) ==
  {e \in {<<ComponentOf(components, d[1]), ComponentOf(components, d[2])>> : d \in g.edges} :
     e[1] # e[2]}

\* The dependencies of c that the batch closes.
Closed(edges, batch, c) == {b \in batch : <<b, c>> \in edges}

NoBatch(edges, n) ==
  LET incoming == [c \in 1..n |-> Cardinality(Closed(edges, 1..n, c))]
  IN  [pending |-> incoming, current |-> {c \in 1..n : incoming[c] = 0}, batches |-> <<>>]

\* One round of the loop; the next batch are the components whose last open
\* dependency this one closes.
NextBatch(edges, r) ==
  LET left == [c \in DOMAIN r.pending |->
                 r.pending[c] - Cardinality(Closed(edges, r.current, c))]
  IN  [pending |-> left,
       current |-> {c \in DOMAIN left : left[c] = 0 /\ r.pending[c] > 0},
       batches |-> Append(r.batches, r.current)]

Batches(edges, n) ==
  LET round[i \in 0..n] ==
        IF i = 0 THEN NoBatch(edges, n)
        ELSE IF round[i - 1].current = {} THEN round[i - 1]
        ELSE NextBatch(edges, round[i - 1])
  IN  round[n].batches

PlanWith(g, components, batches) ==
  [components |-> components,
   inCycle |-> [c \in DOMAIN components |-> Cardinality(components[c]) > 1],
   batches |-> batches,
   planned |-> UNION ToSet(batches) = DOMAIN components]

PlanComponents(g, components) ==
  PlanWith(g, components, Batches(ComponentEdges(g, components), Len(components)))

Plan(g) == PlanComponents(g, Components(g))

-----------------------------------------------------------------------------
(* The subgraph executed from the start nodes: all that is reached from    *)
(* them, which no more rounds than there are nodes find.                   *)

Included(g, starts) ==
  LET included[i \in 0..Cardinality(g.nodes)] ==
        IF i = 0 THEN starts
        ELSE included[i - 1] \cup UNION {SuccessorsOf(g, n) : n \in included[i - 1]}
  IN  included[Cardinality(g.nodes)]

ExecutionGraph(g, starts) ==
  IF starts = {}
  THEN g
  ELSE LET nodes == Included(g, starts)
       IN  [nodes |-> nodes, edges |-> g.edges \cap (nodes \X nodes)]
=============================================================================
