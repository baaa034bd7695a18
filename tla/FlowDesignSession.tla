------------------------- MODULE FlowDesignSession --------------------------
(***************************************************************************)
(* A live design session (src/src/flow/design-monitor.ts): a flow document *)
(* with the phases and states shown of its nodes and edges, and the events *)
(* sent about them.  Each event has a snapshot of the whole graph and the  *)
(* data of what changed.                                                   *)
(*                                                                         *)
(* shown is the graph an observer has who applies the data of each event   *)
(* to what it had ("so clients can redraw incrementally"), snapshot the    *)
(* one the last event carried.                                             *)
(***************************************************************************)
EXTENDS FlowDocument

CONSTANTS
  Labels,    \* the labels, in the place of a node's config: observers see no config
  States,    \* the states shown on a node
  None,      \* no phase, no state, no event
  OwnIds,    \* the node ids callers choose
  MaxNodes, MaxNumber   \* bounds: nodes of the document, numbers of generated ids

ASSUME StatesAssumption == None \notin States

\* Callers' ids have the form of generated ones, the others can never meet one.
ASSUME OwnIdsAssumption ==
  \A n \in OwnIds : n = <<n[1], n[2]>> /\ n[2] \in Nat

VARIABLES
  flow,         \* flow
  nodeVisuals,  \* nodeVisuals: phase and state by node id
  edgeVisuals,  \* edgeVisuals: the edges that have an entry
  started,      \* started
  snapshot,     \* the graph in the last event, None before the first
  shown,        \* history: the graph the observer has
  staged        \* history: the ids staged since they were last deleted or cleared

vars == <<flow, nodeVisuals, edgeVisuals, started, snapshot, shown, staged>>

Phases == {"staged", "created", "connected", "ready", "deleted"}
Blank == [phase |-> None, state |-> None]
EmptyGraph == [nodes |-> <<>>, edges |-> {}]

-----------------------------------------------------------------------------
(* Snapshots and events *)

\* nodeVisuals.get(id) ?? {}
VisualOf(visuals, n) == IF n \in DOMAIN visuals THEN visuals[n] ELSE Blank

SnapshotNode(f, visuals, n) ==
  [node |-> f.nodes[n], visual |-> VisualOf(visuals, n)]

SnapshotOf(f, visuals) ==
  [nodes |-> [n \in NodeIds(f) |-> SnapshotNode(f, visuals, n)], edges |-> f.edges]

\* The event goes out with the snapshot of the document after the change
\* (and so does graph_started before it, if it was not sent yet); with the
\* event's data the observer gets to graph.
Emit(graph) ==
  /\ started' = TRUE
  /\ snapshot' = SnapshotOf(flow', nodeVisuals')
  /\ shown' = graph

WithoutNode(g, n) ==
  [nodes |-> Without(g.nodes, n),
   edges |-> {e \in g.edges : n \notin {e.source[1], e.target[1]}}]

ShownNode(n, entry) == [shown EXCEPT !.nodes = Put(@, n, entry)]

-----------------------------------------------------------------------------
Init ==
  /\ flow = EmptyDocument
  /\ nodeVisuals = <<>>
  /\ edgeVisuals = {}
  /\ started = FALSE
  /\ snapshot = None
  /\ shown = EmptyGraph
  /\ staged = {}

\* An observer takes over the snapshot of graph_started.
Start ==
  /\ UNCHANGED <<flow, nodeVisuals, edgeVisuals, staged>>
  /\ Emit(SnapshotOf(flow, nodeVisuals))

\* Mutant: the phases and states of the old nodes stay.
ClearDocumentOnly ==
  /\ flow' = EmptyDocument
  /\ edgeVisuals' = {}
  /\ staged' = {}
  /\ UNCHANGED nodeVisuals
  /\ Emit(EmptyGraph)

Clear ==
  /\ flow' = EmptyDocument
  /\ nodeVisuals' = <<>>
  /\ edgeVisuals' = {}
  /\ staged' = {}
  /\ Emit(EmptyGraph)

\* The connection is closed, too; the session does not remember it, and
\* later events are sent all the same.
Complete ==
  /\ UNCHANGED <<flow, nodeVisuals, edgeVisuals, staged>>
  /\ Emit(shown)

\* Of a node that exists, the observer changes phase and state.
StageNode(n, state) ==
  /\ nodeVisuals' = Put(nodeVisuals, n, [phase |-> "staged", state |-> state])
  /\ staged' = staged \cup {n}
  /\ UNCHANGED <<flow, edgeVisuals>>
  /\ Emit(IF n \in DOMAIN shown.nodes
          THEN [shown EXCEPT !.nodes[n].visual = [phase |-> "staged", state |-> state]]
          ELSE shown)

\* Mutant: what was staged for the node is forgotten.
CreateNodeUnstaged(b, n, label) ==
  /\ CanCreateNode(flow, n)
  /\ flow' = CreateNode(flow, b, n, label)
  /\ LET visual == [VisualOf(nodeVisuals, n) EXCEPT !.phase = "created"]
     IN  /\ nodeVisuals' = Put(nodeVisuals, n, [phase |-> "created", state |-> None])
         /\ UNCHANGED <<edgeVisuals, staged>>
         /\ Emit(ShownNode(n, [node |-> [block |-> b, config |-> label], visual |-> visual]))

\* With the caller's id or a generated one.
CreateNodeAs(b, n, label) ==
  /\ CanCreateNode(flow, n)
  /\ flow' = CreateNode(flow, b, n, label)
  /\ LET visual == [VisualOf(nodeVisuals, n) EXCEPT !.phase = "created"]
     IN  /\ nodeVisuals' = Put(nodeVisuals, n, visual)
         /\ UNCHANGED <<edgeVisuals, staged>>
         /\ Emit(ShownNode(n, [node |-> [block |-> b, config |-> label], visual |-> visual]))

UpdateNode(n, label, state) ==
  /\ n \in NodeIds(flow)
  /\ flow' = [flow EXCEPT !.nodes[n].config = label]
  /\ nodeVisuals' =
       Put(nodeVisuals, n,
           [VisualOf(nodeVisuals, n) EXCEPT !.state = IF state = None THEN @ ELSE state])
  /\ UNCHANGED <<edgeVisuals, staged>>
  /\ Emit(ShownNode(n, SnapshotNode(flow', nodeVisuals', n)))

Touching(n) == {e \in flow.edges : n \in {e.source[1], e.target[1]}}

\* Mutant: the edges into the node stay.
DeleteNodeAndItsOutputs(n) ==
  /\ n \in NodeIds(flow)
  /\ LET gone == {e \in flow.edges : e.source[1] = n}
     IN  /\ flow' = [flow EXCEPT !.nodes = Without(@, n), !.edges = @ \ gone]
         /\ edgeVisuals' = edgeVisuals \ gone
  /\ nodeVisuals' = Without(nodeVisuals, n)
  /\ staged' = staged \ {n}
  /\ Emit(WithoutNode(shown, n))

\* The phase "deleted" is set for the event and removed after it; no
\* snapshot shows it.
DeleteNode(n) ==
  /\ n \in NodeIds(flow)
  /\ flow' = [flow EXCEPT !.nodes = Without(@, n), !.edges = @ \ Touching(n)]
  /\ edgeVisuals' = edgeVisuals \ Touching(n)
  /\ nodeVisuals' = Without(nodeVisuals, n)
  /\ staged' = staged \ {n}
  /\ Emit(WithoutNode(shown, n))

SetNodePhase(n, phase, state) ==
  /\ n \in NodeIds(flow)
  /\ nodeVisuals' =
       Put(nodeVisuals, n,
           [phase |-> phase,
            state |-> IF state = None THEN VisualOf(nodeVisuals, n).state ELSE state])
  /\ UNCHANGED <<flow, edgeVisuals, staged>>
  /\ Emit(ShownNode(n, SnapshotNode(flow', nodeVisuals', n)))

ConnectNodePorts(s, t) ==
  /\ CanConnectPorts(flow, s, t)
  /\ flow' = ConnectPorts(flow, s, t)
  /\ edgeVisuals' = edgeVisuals \cup {[source |-> s, target |-> t]}
  /\ UNCHANGED <<nodeVisuals, staged>>
  /\ Emit([shown EXCEPT !.edges = @ \cup {[source |-> s, target |-> t]}])

DeleteEdge(e) ==
  /\ e \in flow.edges
  /\ flow' = [flow EXCEPT !.edges = @ \ {e}]
  /\ edgeVisuals' = edgeVisuals \ {e}
  /\ UNCHANGED <<nodeVisuals, staged>>
  /\ Emit([shown EXCEPT !.edges = @ \ {e}])

-----------------------------------------------------------------------------
CreateAny ==
  /\ Cardinality(NodeIds(flow)) < MaxNodes
  /\ \E b \in Blocks, label \in Labels :
       \/ \E n \in OwnIds : CreateNodeAs(b, n, label)
       \/ LET n == CreateNodeId(flow, b)
          IN  n[2] <= MaxNumber /\ CreateNodeAs(b, n, label)

ChangeAny ==
  \E n \in NodeIds(flow) :
    \/ \E label \in Labels, state \in States \cup {None} : UpdateNode(n, label, state)
    \/ \E phase \in Phases, state \in States \cup {None} : SetNodePhase(n, phase, state)
    \/ DeleteNode(n)

Next ==
  \/ Start
  \/ Clear
  \/ Complete
  \/ \E n \in OwnIds, state \in States \cup {None} : StageNode(n, state)
  \/ CreateAny
  \/ ChangeAny
  \/ \E m, n \in NodeIds(flow) :
       \E s \in OutputPorts(flow, m), t \in InputPorts(flow, n) : ConnectNodePorts(s, t)
  \/ \E e \in flow.edges : DeleteEdge(e)

Spec == Init /\ [][Next]_vars

-----------------------------------------------------------------------------
Visuals == [phase : Phases \cup {None}, state : States \cup {None}]

\* Type correctness.
TypeOK ==
  /\ \A n \in NodeIds(flow) :
       flow.nodes[n].block \in Blocks /\ flow.nodes[n].config \in Labels
  /\ flow.packets = <<>>
  /\ \A n \in DOMAIN nodeVisuals : nodeVisuals[n] \in Visuals
  /\ started \in BOOLEAN
  /\ snapshot # None => started
  /\ staged \subseteq OwnIds

\* Through every series of creations, deletions and connections each edge
\* joins an output and an input of nodes that exist, of types that may be
\* connected, and no input has two (document.ts, connectPorts, deleteNode).
DocumentIsSound ==
  /\ \A e \in flow.edges :
       /\ {e.source[1], e.target[1]} \subseteq NodeIds(flow)
       /\ e.source \in OutputPorts(flow, e.source[1])
       /\ e.target \in InputPorts(flow, e.target[1])
       /\ ArePortTypesCompatible(DataType(flow, e.source), DataType(flow, e.target))
  /\ \A d, e \in flow.edges : d.target = e.target => d = e

\* An observer who follows the events has the graph of the snapshots: what
\* an event says of its node or edge is all that its change did to the graph
\* (design-monitor.ts, FlowDesignGraphSnapshot).
StreamTellsDocument == snapshot # None => shown = snapshot

\* A phase or state is kept only for a node that exists or that a caller has
\* staged, so that a node made under the id of one that was deleted or
\* cleared away starts afresh; and an edge's entry goes with the edge.
VisualsHaveSubjects ==
  /\ DOMAIN nodeVisuals \subseteq NodeIds(flow) \cup staged
  /\ edgeVisuals = flow.edges

\* A generated id is free, whatever ids callers chose and whatever nodes
\* were deleted before: creating a node without an id never throws for it
\* (document.ts, createNodeId).
GeneratedIdsAreFresh == \A b \in Blocks : CreateNodeId(flow, b) \notin NodeIds(flow)
=============================================================================
