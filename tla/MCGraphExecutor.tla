--------------------------- MODULE MCGraphExecutor ---------------------------
(***************************************************************************)
(* Graphs planned by GraphPlanner: a join, a chain beside a branch, loops, *)
(* more roots than slots, the part of a graph below a start node, and two  *)
(* plans of a caller's own: one that splits a loop into two components,    *)
(* one with nodes in several places and an empty component.                *)
(***************************************************************************)
EXTENDS GraphExecutor, TLC

CONSTANTS apis, files

Planner == INSTANCE GraphPlanner

\* The engine's input: the plan of the graph, with the keys of its nodes.
Planned(g, key) ==
  LET plan == Planner!Plan(g)
      First(c) == CHOOSE n \in plan.components[c] : \A m \in plan.components[c] : n <= m
  IN  [nodesOf |-> [c \in DOMAIN plan.components |->
                      Planner!SetToSortSeq(plan.components[c], <)],
       edges |-> g.edges,
       key |-> [c \in DOMAIN plan.components |->
                  IF First(c) \in DOMAIN key THEN key[First(c)] ELSE NoKey],
       componentByNode |-> [n \in UNION {plan.components[c] : c \in DOMAIN plan.components} |->
                              CHOOSE c \in DOMAIN plan.components : n \in plan.components[c]]]

Graph(nodes, edges) == [nodes |-> nodes, edges |-> edges]

Diamond == Graph(1..4, {<<1, 2>>, <<1, 3>>, <<2, 4>>, <<3, 4>>})
Beside  == Graph(1..4, {<<1, 2>>, <<2, 4>>, <<3, 4>>})
Loop    == Graph(1..4, {<<1, 2>>, <<2, 1>>, <<2, 3>>, <<4, 3>>})
Roots   == Graph(1..4, {<<1, 4>>})
Branches == Graph(1..5, {<<1, 2>>, <<1, 3>>, <<1, 4>>, <<2, 5>>, <<4, 5>>})

SplitLoop == [nodesOf |-> << <<1>>, <<2>>, <<3>> >>, edges |-> {<<1, 2>>, <<2, 1>>},
              key |-> [c \in 1..3 |-> NoKey], componentByNode |-> [n \in 1..3 |-> n]]

Overlap == [nodesOf |-> << <<1, 2>>, <<2, 3, 3>>, <<>>, <<1>> >>,
            edges |-> {<<1, 2>>, <<2, 3>>},
            key |-> [c \in 1..4 |-> IF c = 3 THEN files ELSE NoKey],
            componentByNode |-> [n \in 1..3 |-> IF n = 1 THEN 1 ELSE 2]]

MCGraphs == {
  Planned(Diamond, (2 :> apis) @@ (3 :> apis)),
  Planned(Branches, (2 :> apis) @@ (4 :> apis) @@ (5 :> files)),
  Planned(Beside, (1 :> files) @@ (3 :> files)),
  Planned(Loop, <<>>),
  Planned(Roots, (1 :> files) @@ (2 :> apis) @@ (3 :> apis)),
  Planned(Planner!ExecutionGraph(Diamond, {2}), <<>>),
  SplitLoop,
  Overlap }

MCKeyLimit == [k \in {apis, files} |-> IF k = apis THEN 0 ELSE NoLimit]
=============================================================================
