-------------------------- MODULE FlowDesignProofs --------------------------
(***************************************************************************)
(* Theorems about modules FlowDesignSession and FlowDesignAgent: for any   *)
(* blocks and ports, any labels, states and ids, documents of any size and *)
(* any number of attempts.  And one about FlowFeasibility: task graphs of  *)
(* any size, judged as JudgedRequests has them.                            *)
(***************************************************************************)
EXTENDS FlowDesignAgent, JudgedRequests, Recursion

(***************************************************************************)
(* The inductive invariant: the properties of the session and, for them,   *)
(* the shape of documents without packets, a bound on the numbers of the   *)
(* ids, and that the observer has the document at all times, also before   *)
(* the first event.                                                        *)
(***************************************************************************)
IsDocument(f) ==
  /\ f = [nodes |-> f.nodes, edges |-> f.edges, packets |-> <<>>]
  /\ f.nodes = [n \in NodeIds(f) |-> [block |-> f.nodes[n].block, config |-> f.nodes[n].config]]
  /\ \A n \in NodeIds(f) : f.nodes[n].block \in Blocks

NumbersBounded(f) == \E k \in Nat : \A n \in NodeIds(f) : n[2] \in 0..k

\* DocumentIsSound of any document.
Sound(f) ==
  /\ \A e \in f.edges :
       /\ {e.source[1], e.target[1]} \subseteq NodeIds(f)
       /\ e.source \in OutputPorts(f, e.source[1])
       /\ e.target \in InputPorts(f, e.target[1])
       /\ ArePortTypesCompatible(DataType(f, e.source), DataType(f, e.target))
  /\ \A d, e \in f.edges : d.target = e.target => d = e

Follows == shown = SnapshotOf(flow, nodeVisuals)

SessionInv ==
  /\ TypeOK
  /\ IsDocument(flow)
  /\ NumbersBounded(flow)
  /\ Sound(flow)
  /\ VisualsHaveSubjects
  /\ Follows
  /\ StreamTellsDocument

-----------------------------------------------------------------------------
(* Operators *)

\* A set of naturals that has zero and is bounded has a greatest element.
LEMMA MaxOfBounded ==
  ASSUME NEW S \in SUBSET Nat, 0 \in S, NEW k \in Nat, \A x \in S : x <= k
  PROVE  /\ Max(S) \in Nat
         /\ \A x \in S : x <= Max(S)
<1> DEFINE U == {u \in Nat : \A x \in S : x <= u}
<1>1. U \in SUBSET Nat /\ U # {}
  OBVIOUS
<1> DEFINE R == {p \in Nat \X Nat : p[1] < p[2]}
<1>2. IsWellFoundedOn(R, Nat)
  BY NatLessThanWellFounded DEF OpToRel
<1>3. PICK u \in U : \A y \in U : <<y, u>> \notin R
  <2> HIDE DEF R, U
  <2> QED
    BY <1>1, <1>2, WFMin
<1>4. ASSUME NEW y \in U PROVE u <= y
  <2>1. y < u => <<y, u>> \in R
    OBVIOUS
  <2>2. ~(y < u)
    BY <1>3, <2>1
  <2> QED
    BY <2>2
<1>5. u \in S
  <2> SUFFICES ASSUME u \notin S PROVE FALSE
    OBVIOUS
  <2>1. \A x \in S : x < u
    OBVIOUS
  <2>2. u - 1 \in U
    BY <2>1
  <2> QED
    BY <2>2, <1>4
<1>6. \E m \in S : \A y \in S : m >= y
  BY <1>5
<1>7. Max(S) \in S /\ \A y \in S : Max(S) >= y
  BY <1>6 DEF Max
<1> QED
  BY <1>7

LEMMA GeneratedIdIsFresh ==
  ASSUME NEW f, NEW b, NumbersBounded(f)
  PROVE  /\ CreateNodeId(f, b) \notin NodeIds(f)
         /\ CreateNodeId(f, b) = <<b, CreateNodeId(f, b)[2]>>
         /\ CreateNodeId(f, b)[2] \in Nat
<1> DEFINE S == {0} \cup {n[2] : n \in {m \in NodeIds(f) : m[1] = b}}
<1>1. PICK k \in Nat : \A n \in NodeIds(f) : n[2] \in 0..k
  BY DEF NumbersBounded
<1>2. S \in SUBSET Nat /\ 0 \in S /\ \A x \in S : x <= k
  BY <1>1
<1>3. Max(S) \in Nat /\ \A x \in S : x <= Max(S)
  <2> HIDE DEF S
  <2> QED
    BY <1>2, MaxOfBounded
<1>4. CreateNodeId(f, b) = <<b, 1 + Max(S)>>
  BY DEF CreateNodeId
<1>5. ASSUME <<b, 1 + Max(S)>> \in NodeIds(f) PROVE FALSE
  <2>1. 1 + Max(S) \in S
    BY <1>5
  <2> QED
    BY <2>1, <1>3
<1> HIDE DEF S
<1> QED
  BY <1>3, <1>4, <1>5

\* What soundness says of the edges that stay depends on the blocks of
\* their nodes only.
LEMMA SoundAfter ==
  ASSUME NEW f, NEW g, Sound(f),
         g.edges \subseteq f.edges,
         \A e \in g.edges : {e.source[1], e.target[1]} \subseteq NodeIds(g),
         \A n \in NodeIds(f) \cap NodeIds(g) : g.nodes[n].block = f.nodes[n].block
  PROVE  Sound(g)
<1>1. ASSUME NEW e \in g.edges
      PROVE  /\ e.source \in OutputPorts(g, e.source[1])
             /\ e.target \in InputPorts(g, e.target[1])
             /\ ArePortTypesCompatible(DataType(g, e.source), DataType(g, e.target))
  <2>1. /\ g.nodes[e.source[1]].block = f.nodes[e.source[1]].block
        /\ g.nodes[e.target[1]].block = f.nodes[e.target[1]].block
    BY <1>1 DEF Sound
  <2>2. \A n \in {e.source[1], e.target[1]} :
          InputPorts(g, n) = InputPorts(f, n) /\ OutputPorts(g, n) = OutputPorts(f, n)
    BY <2>1 DEF InputPorts, OutputPorts
  <2>3. DataType(g, e.source) = DataType(f, e.source) /\ DataType(g, e.target) = DataType(f, e.target)
    BY <2>1, <2>2 DEF DataType, IsInput
  <2> QED
    BY <2>2, <2>3 DEF Sound
<1>2. \A d, e \in g.edges : d.target = e.target => d = e
  BY DEF Sound
<1> QED
  BY <1>1, <1>2 DEF Sound

\* Putting the entry of one node into a snapshot.
LEMMA SnapshotPut ==
  ASSUME NEW f, NEW g, NEW v, NEW w, NEW n,
         g.edges = f.edges,
         NodeIds(g) = NodeIds(f) \cup {n},
         \A m \in NodeIds(f) \ {n} : SnapshotNode(g, w, m) = SnapshotNode(f, v, m)
  PROVE  SnapshotOf(g, w) =
           [nodes |-> Put(SnapshotOf(f, v).nodes, n, SnapshotNode(g, w, n)),
            edges |-> SnapshotOf(f, v).edges]
<1>1. Put([m \in NodeIds(f) |-> SnapshotNode(f, v, m)], n, SnapshotNode(g, w, n))
        = [m \in NodeIds(g) |-> SnapshotNode(g, w, m)]
  BY DEF Put, Override
<1> QED
  BY <1>1 DEF SnapshotOf
-----------------------------------------------------------------------------
(* Steps *)

LEMMA EmptyFacts ==
  /\ DOMAIN <<>> = {}
  /\ \A f : DOMAIN f = {} => [n \in DOMAIN f |-> f[n]] = <<>>
  /\ \A f, v : NodeIds(f) = {} => [n \in NodeIds(f) |-> SnapshotNode(f, v, n)] = <<>>
  OBVIOUS

LEMMA EmptySession ==
  /\ IsDocument(EmptyDocument)
  /\ NumbersBounded(EmptyDocument)
  /\ Sound(EmptyDocument)
  /\ SnapshotOf(EmptyDocument, <<>>) = EmptyGraph
<1>1. NodeIds(EmptyDocument) = {} /\ EmptyDocument.edges = {}
  BY EmptyFacts DEF NodeIds, EmptyDocument
<1>2. IsDocument(EmptyDocument)
  BY <1>1, EmptyFacts DEF IsDocument, EmptyDocument, NodeIds
<1>3. NumbersBounded(EmptyDocument)
  BY <1>1 DEF NumbersBounded
<1>4. Sound(EmptyDocument)
  BY <1>1 DEF Sound
<1>5. SnapshotOf(EmptyDocument, <<>>) = EmptyGraph
  BY <1>1, EmptyFacts DEF SnapshotOf, EmptyGraph
<1> QED
  BY <1>2, <1>3, <1>4, <1>5

LEMMA InitSession == Init => SessionInv
<1> SUFFICES ASSUME Init PROVE SessionInv
  OBVIOUS
<1>1. NodeIds(flow) = {} /\ flow.edges = {} /\ flow.packets = <<>> /\ DOMAIN nodeVisuals = {}
  BY EmptyFacts DEF Init, NodeIds, EmptyDocument
<1>2. TypeOK
  BY <1>1 DEF Init, TypeOK
<1>3. VisualsHaveSubjects /\ StreamTellsDocument
  BY <1>1 DEF Init, VisualsHaveSubjects, StreamTellsDocument
<1>4. Follows
  BY EmptySession DEF Init, Follows
<1> QED
  BY <1>2, <1>3, <1>4, EmptySession DEF Init, SessionInv

\* After its event, the observer has the document.
LEMMA EventFollows ==
  ASSUME NEW graph, Emit(graph), graph = SnapshotOf(flow', nodeVisuals')
  PROVE  /\ Follows'
         /\ StreamTellsDocument'
         /\ started' \in BOOLEAN
         /\ snapshot' # None => started'
  BY DEF Emit, Follows, StreamTellsDocument

LEMMA EventTells ==
  ASSUME NEW graph, Emit(graph), Follows'
  PROVE  /\ StreamTellsDocument'
         /\ started' \in BOOLEAN
         /\ snapshot' # None => started'
  BY DEF Emit, Follows, StreamTellsDocument

\* Start, Clear and Complete.
LEMMA QuietShows ==
  ASSUME Follows, Start \/ Clear \/ Complete
  PROVE  Follows'
<1>1. CASE Start
  BY <1>1 DEF Start, Emit, Follows
<1>2. CASE Clear
  BY <1>2, EmptySession DEF Clear, Emit, Follows
<1>3. CASE Complete
  BY <1>3 DEF Complete, Emit, Follows
<1> QED
  BY <1>1, <1>2, <1>3

\* Start and Complete, and a step that changes nothing.
LEMMA QuietStep ==
  ASSUME SessionInv, Start \/ Complete \/ UNCHANGED vars
  PROVE  SessionInv'
<1>1. UNCHANGED <<flow, nodeVisuals, edgeVisuals, staged>>
  BY DEF Start, Complete, vars
<1>2. /\ IsDocument(flow)' /\ NumbersBounded(flow)' /\ Sound(flow)'
      /\ VisualsHaveSubjects'
  BY <1>1 DEF SessionInv, IsDocument, NumbersBounded, Sound, VisualsHaveSubjects
<1>3. /\ Follows' /\ StreamTellsDocument' /\ started' \in BOOLEAN
      /\ snapshot' # None => started'
  <2>1. CASE Start
    <3>1. Emit(SnapshotOf(flow, nodeVisuals))
      BY <2>1 DEF Start
    <3>2. SnapshotOf(flow, nodeVisuals) = SnapshotOf(flow', nodeVisuals')
      BY <1>1
    <3> QED
      BY <3>1, <3>2, EventFollows
  <2>2. CASE Complete
    <3>1. Emit(shown)
      BY <2>2 DEF Complete
    <3>2. shown = SnapshotOf(flow', nodeVisuals')
      BY <1>1 DEF SessionInv, Follows
    <3> QED
      BY <3>1, <3>2, EventFollows
  <2>3. CASE UNCHANGED vars
    BY <2>3 DEF SessionInv, TypeOK, Follows, StreamTellsDocument, vars
  <2> QED
    BY <2>1, <2>2, <2>3
<1>4. TypeOK'
  BY <1>1, <1>3 DEF SessionInv, TypeOK
<1> QED
  BY <1>2, <1>3, <1>4 DEF SessionInv

LEMMA ClearStep ==
  ASSUME SessionInv, Clear
  PROVE  SessionInv'
<1>1. /\ flow' = EmptyDocument /\ nodeVisuals' = <<>> /\ edgeVisuals' = {} /\ staged' = {}
      /\ Emit(EmptyGraph)
  BY DEF Clear
<1>2. NodeIds(flow') = {} /\ flow'.edges = {} /\ flow'.packets = <<>> /\ DOMAIN nodeVisuals' = {}
  BY <1>1, EmptyFacts DEF NodeIds, EmptyDocument
<1>3. /\ Follows' /\ StreamTellsDocument' /\ started' \in BOOLEAN
      /\ snapshot' # None => started'
  BY <1>1, EmptySession, EventFollows
<1>4. TypeOK' /\ VisualsHaveSubjects'
  BY <1>1, <1>2, <1>3 DEF TypeOK, VisualsHaveSubjects
<1> QED
  BY <1>1, <1>3, <1>4, EmptySession DEF SessionInv

LEMMA VisualOfType ==
  ASSUME TypeOK, NEW n
  PROVE  VisualOf(nodeVisuals, n) \in Visuals
  BY DEF TypeOK, VisualOf, Visuals, Blank

\* One visual more, or another one, leaves those of the other nodes.
LEMMA PutVisual ==
  ASSUME NEW n, NEW visual, nodeVisuals' = Put(nodeVisuals, n, visual)
  PROVE  /\ VisualOf(nodeVisuals', n) = visual
         /\ \A m : m # n => VisualOf(nodeVisuals', m) = VisualOf(nodeVisuals, m)
         /\ DOMAIN nodeVisuals' = DOMAIN nodeVisuals \cup {n}
         /\ TypeOK /\ visual \in Visuals =>
              \A m \in DOMAIN nodeVisuals' : nodeVisuals'[m] \in Visuals
<1>1. /\ DOMAIN nodeVisuals' = DOMAIN nodeVisuals \cup {n}
      /\ nodeVisuals'[n] = visual
      /\ \A m \in DOMAIN nodeVisuals \ {n} : nodeVisuals'[m] = nodeVisuals[m]
  BY DEF Put, Override
<1>2. VisualOf(nodeVisuals', n) = visual
  BY <1>1 DEF VisualOf
<1>3. ASSUME NEW m, m # n
      PROVE  VisualOf(nodeVisuals', m) = VisualOf(nodeVisuals, m)
  BY <1>1, <1>3 DEF VisualOf
<1>4. ASSUME TypeOK, visual \in Visuals, NEW m \in DOMAIN nodeVisuals'
      PROVE  nodeVisuals'[m] \in Visuals
  BY <1>1, <1>4 DEF TypeOK
<1> QED
  BY <1>1, <1>2, <1>3, <1>4

LEMMA ShownFacts ==
  ASSUME Follows
  PROVE  /\ shown = [nodes |-> shown.nodes, edges |-> flow.edges]
         /\ shown.nodes = [m \in NodeIds(flow) |-> SnapshotNode(flow, nodeVisuals, m)]
  BY DEF Follows, SnapshotOf

LEMMA StageShows ==
  ASSUME Follows, NEW n, NEW given, StageNode(n, given)
  PROVE  Follows'
<1> DEFINE visual == [phase |-> "staged", state |-> given]
           graph == IF n \in DOMAIN shown.nodes
                    THEN [shown EXCEPT !.nodes[n].visual = visual]
                    ELSE shown
<1>1. /\ nodeVisuals' = Put(nodeVisuals, n, visual)
      /\ flow' = flow
      /\ Emit(graph)
  BY DEF StageNode
<1>2. \A m \in NodeIds(flow) : SnapshotNode(flow', nodeVisuals', m) =
        IF m = n THEN [SnapshotNode(flow, nodeVisuals, m) EXCEPT !.visual = visual]
        ELSE SnapshotNode(flow, nodeVisuals, m)
  BY <1>1, PutVisual DEF SnapshotNode
<1>3. graph = SnapshotOf(flow', nodeVisuals')
  <2>1. SnapshotOf(flow', nodeVisuals') =
          [nodes |-> [m \in NodeIds(flow) |-> SnapshotNode(flow', nodeVisuals', m)],
           edges |-> flow.edges]
    BY <1>1 DEF SnapshotOf
  <2>2. CASE n \notin NodeIds(flow)
    <3>1. graph = shown
      BY <2>2, ShownFacts
    <3>2. [m \in NodeIds(flow) |-> SnapshotNode(flow', nodeVisuals', m)] = shown.nodes
      BY <1>2, <2>2, ShownFacts
    <3> QED
      BY <2>1, <3>1, <3>2, ShownFacts
  <2>3. CASE n \in NodeIds(flow)
    <3>1. graph = [nodes |-> [shown.nodes EXCEPT ![n].visual = visual], edges |-> flow.edges]
      <4> HIDE DEF visual
      <4> QED
        BY <2>3, ShownFacts
    <3>2. [m \in NodeIds(flow) |-> SnapshotNode(flow', nodeVisuals', m)]
            = [shown.nodes EXCEPT ![n].visual = visual]
      <4> HIDE DEF visual
      <4> QED
        BY <1>2, <2>3, ShownFacts
    <3> QED
      BY <2>1, <3>1, <3>2
  <2> QED
    BY <2>2, <2>3
<1> QED
  BY <1>1, <1>3, EventFollows

LEMMA StageNodeStep ==
  ASSUME SessionInv, NEW n \in OwnIds, NEW given \in States \cup {None}, StageNode(n, given)
  PROVE  SessionInv'
<1> DEFINE visual == [phase |-> "staged", state |-> given]
<1>1. /\ nodeVisuals' = Put(nodeVisuals, n, visual)
      /\ staged' = staged \cup {n}
      /\ flow' = flow /\ edgeVisuals' = edgeVisuals
      /\ \E graph : Emit(graph)
  BY DEF StageNode
<1>2. visual \in Visuals
  BY DEF Visuals, Phases
<1>3. /\ IsDocument(flow)' /\ NumbersBounded(flow)' /\ Sound(flow)'
  BY <1>1 DEF SessionInv, IsDocument, NumbersBounded, Sound
<1>4. VisualsHaveSubjects'
  BY <1>1, PutVisual DEF SessionInv, VisualsHaveSubjects
<1>5. /\ Follows' /\ StreamTellsDocument' /\ started' \in BOOLEAN
      /\ snapshot' # None => started'
  BY <1>1, StageShows, EventTells DEF SessionInv
<1>6. TypeOK'
  BY <1>1, <1>2, <1>5, PutVisual DEF SessionInv, TypeOK
<1> QED
  BY <1>3, <1>4, <1>5, <1>6 DEF SessionInv

LEMMA PhaseShows ==
  ASSUME Follows, NEW n \in NodeIds(flow), NEW phase, NEW given, SetNodePhase(n, phase, given)
  PROVE  Follows'
<1> DEFINE visual == [phase |-> phase,
                      state |-> IF given = None THEN VisualOf(nodeVisuals, n).state ELSE given]
           graph == ShownNode(n, SnapshotNode(flow', nodeVisuals', n))
<1>1. /\ nodeVisuals' = Put(nodeVisuals, n, visual)
      /\ flow' = flow
      /\ Emit(graph)
  BY DEF SetNodePhase
<1>2. graph = SnapshotOf(flow', nodeVisuals')
  <2>1. \A m \in NodeIds(flow) \ {n} :
          SnapshotNode(flow', nodeVisuals', m) = SnapshotNode(flow, nodeVisuals, m)
    BY <1>1, PutVisual DEF SnapshotNode
  <2>2. SnapshotOf(flow', nodeVisuals') =
          [nodes |-> Put(shown.nodes, n, SnapshotNode(flow', nodeVisuals', n)),
           edges |-> shown.edges]
    <3>1. flow'.edges = flow.edges /\ NodeIds(flow') = NodeIds(flow) \cup {n}
      BY <1>1
    <3>2. shown = SnapshotOf(flow, nodeVisuals)
      BY DEF Follows
    <3> QED
      BY <2>1, <3>1, <3>2, SnapshotPut
  <2> QED
    BY <2>2, ShownFacts DEF ShownNode
<1> QED
  BY <1>1, <1>2, EventFollows

LEMMA SetNodePhaseStep ==
  ASSUME SessionInv, NEW n \in NodeIds(flow), NEW phase \in Phases,
         NEW given \in States \cup {None}, SetNodePhase(n, phase, given)
  PROVE  SessionInv'
<1> DEFINE visual == [phase |-> phase,
                      state |-> IF given = None THEN VisualOf(nodeVisuals, n).state ELSE given]
<1>1. /\ nodeVisuals' = Put(nodeVisuals, n, visual)
      /\ flow' = flow /\ edgeVisuals' = edgeVisuals /\ staged' = staged
      /\ \E graph : Emit(graph)
  BY DEF SetNodePhase
<1>2. visual \in Visuals
  BY VisualOfType DEF Visuals, SessionInv
<1>3. /\ IsDocument(flow)' /\ NumbersBounded(flow)' /\ Sound(flow)'
  BY <1>1 DEF SessionInv, IsDocument, NumbersBounded, Sound
<1>4. VisualsHaveSubjects'
  BY <1>1, PutVisual DEF SessionInv, VisualsHaveSubjects
<1>5. /\ Follows' /\ StreamTellsDocument' /\ started' \in BOOLEAN
      /\ snapshot' # None => started'
  BY <1>1, PhaseShows, EventTells DEF SessionInv
<1>6. TypeOK'
  <2> HIDE DEF visual
  <2> QED
    BY <1>1, <1>2, <1>5, PutVisual DEF SessionInv, TypeOK
<1> QED
  BY <1>3, <1>4, <1>5, <1>6 DEF SessionInv

LEMMA CreateShows ==
  ASSUME Follows, flow = [nodes |-> flow.nodes, edges |-> flow.edges, packets |-> flow.packets],
         NEW b, NEW n, NEW label, CreateNodeAs(b, n, label)
  PROVE  Follows'
<1> DEFINE node == [block |-> b, config |-> label]
           visual == [VisualOf(nodeVisuals, n) EXCEPT !.phase = "created"]
           graph == ShownNode(n, [node |-> node, visual |-> visual])
<1>1. /\ flow' = CreateNode(flow, b, n, label)
      /\ nodeVisuals' = Put(nodeVisuals, n, visual)
      /\ Emit(graph)
  BY DEF CreateNodeAs
<1>2. flow' = [nodes |-> Put(flow.nodes, n, node), edges |-> flow.edges, packets |-> flow.packets]
  BY <1>1 DEF CreateNode
<1>3. /\ flow'.edges = flow.edges
      /\ NodeIds(flow') = NodeIds(flow) \cup {n}
      /\ flow'.nodes[n] = node
      /\ \A m \in NodeIds(flow) \ {n} : flow'.nodes[m] = flow.nodes[m]
  BY <1>2 DEF NodeIds, Put, Override
<1>4. graph = SnapshotOf(flow', nodeVisuals')
  <2>1. \A m \in NodeIds(flow) \ {n} :
          SnapshotNode(flow', nodeVisuals', m) = SnapshotNode(flow, nodeVisuals, m)
    BY <1>1, <1>3, PutVisual DEF SnapshotNode
  <2>2. SnapshotNode(flow', nodeVisuals', n) = [node |-> node, visual |-> visual]
    BY <1>1, <1>3, PutVisual DEF SnapshotNode
  <2>3. SnapshotOf(flow', nodeVisuals') =
          [nodes |-> Put(shown.nodes, n, SnapshotNode(flow', nodeVisuals', n)),
           edges |-> shown.edges]
    <3>1. flow'.edges = flow.edges /\ NodeIds(flow') = NodeIds(flow) \cup {n}
      BY <1>3
    <3>2. SnapshotOf(flow', nodeVisuals') =
            [nodes |-> Put(SnapshotOf(flow, nodeVisuals).nodes, n,
                           SnapshotNode(flow', nodeVisuals', n)),
             edges |-> SnapshotOf(flow, nodeVisuals).edges]
      BY <2>1, <3>1, SnapshotPut
    <3> QED
      BY <3>2 DEF Follows
  <2>4. SnapshotOf(flow', nodeVisuals') = ShownNode(n, SnapshotNode(flow', nodeVisuals', n))
    BY <2>3, ShownFacts DEF ShownNode
  <2> QED
    BY <2>2, <2>4, Zenon
<1> QED
  BY <1>1, <1>4, EventFollows

LEMMA CreateNodeStep ==
  ASSUME SessionInv, NEW b \in Blocks, NEW n, n[2] \in Nat, NEW label \in Labels,
         CreateNodeAs(b, n, label)
  PROVE  SessionInv'
<1> DEFINE node == [block |-> b, config |-> label]
           visual == [VisualOf(nodeVisuals, n) EXCEPT !.phase = "created"]
<1>1. /\ n \notin NodeIds(flow)
      /\ flow' = CreateNode(flow, b, n, label)
      /\ nodeVisuals' = Put(nodeVisuals, n, visual)
      /\ edgeVisuals' = edgeVisuals /\ staged' = staged
      /\ \E graph : Emit(graph)
  BY DEF CreateNodeAs, CanCreateNode
<1>2. visual \in Visuals
  BY VisualOfType DEF Visuals, Phases, SessionInv
<1>3. flow' = [nodes |-> Put(flow.nodes, n, node), edges |-> flow.edges, packets |-> <<>>]
  BY <1>1 DEF CreateNode, SessionInv, IsDocument
<1>4. /\ flow'.nodes = Put(flow.nodes, n, node)
      /\ flow'.edges = flow.edges /\ flow'.packets = <<>>
      /\ NodeIds(flow') = NodeIds(flow) \cup {n}
      /\ flow'.nodes[n] = node
      /\ \A m \in NodeIds(flow) : flow'.nodes[m] = flow.nodes[m]
      /\ flow'.nodes = [m \in NodeIds(flow') |-> flow'.nodes[m]]
  BY <1>1, <1>3 DEF NodeIds, Put, Override
<1>5. IsDocument(flow)'
  <2>1. \A m \in NodeIds(flow') :
          /\ flow'.nodes[m] = [block |-> flow'.nodes[m].block, config |-> flow'.nodes[m].config]
          /\ flow'.nodes[m].block \in Blocks
    BY <1>4 DEF SessionInv, IsDocument
  <2>2. flow'.nodes = [m \in NodeIds(flow') |->
          [block |-> flow'.nodes[m].block, config |-> flow'.nodes[m].config]]
    BY <1>4, <2>1
  <2>3. flow' = [nodes |-> flow'.nodes, edges |-> flow'.edges, packets |-> <<>>]
    BY <1>3
  <2> QED
    BY <2>1, <2>2, <2>3 DEF IsDocument
<1>6. NumbersBounded(flow)'
  <2>1. PICK k \in Nat : \A m \in NodeIds(flow) : m[2] \in 0..k
    BY DEF SessionInv, NumbersBounded
  <2>2. k + n[2] \in Nat /\ \A m \in NodeIds(flow') : m[2] \in 0..(k + n[2])
    BY <2>1, <1>4
  <2> QED
    BY <2>2 DEF NumbersBounded
<1>7. Sound(flow)'
  <2>1. \A e \in flow'.edges : {e.source[1], e.target[1]} \subseteq NodeIds(flow')
    BY <1>4 DEF SessionInv, Sound
  <2>2. \A m \in NodeIds(flow) \cap NodeIds(flow') : flow'.nodes[m].block = flow.nodes[m].block
    BY <1>4
  <2> QED
    BY <1>4, <2>1, <2>2, SoundAfter DEF SessionInv
<1>8. VisualsHaveSubjects'
  BY <1>1, <1>4, PutVisual DEF SessionInv, VisualsHaveSubjects
<1>9. /\ Follows' /\ StreamTellsDocument' /\ started' \in BOOLEAN
      /\ snapshot' # None => started'
  BY <1>1, CreateShows, EventTells DEF SessionInv, IsDocument
<1>10. TypeOK'
  <2>1. \A m \in NodeIds(flow') :
          flow'.nodes[m].block \in Blocks /\ flow'.nodes[m].config \in Labels
    BY <1>4 DEF SessionInv, TypeOK
  <2>2. \A m \in DOMAIN nodeVisuals' : nodeVisuals'[m] \in Visuals
    BY <1>1, <1>2, PutVisual DEF SessionInv
  <2> QED
    BY <1>1, <1>4, <1>9, <2>1, <2>2 DEF SessionInv, TypeOK
<1> QED
  BY <1>5, <1>6, <1>7, <1>8, <1>9, <1>10 DEF SessionInv

LEMMA UpdateNodeStep ==
  ASSUME SessionInv, NEW n \in NodeIds(flow), NEW label \in Labels,
         NEW given \in States \cup {None}, UpdateNode(n, label, given)
  PROVE  SessionInv'
<1> DEFINE visual == [VisualOf(nodeVisuals, n) EXCEPT !.state = IF given = None THEN @ ELSE given]
           graph == ShownNode(n, SnapshotNode(flow', nodeVisuals', n))
<1>1. /\ flow' = [flow EXCEPT !.nodes[n].config = label]
      /\ nodeVisuals' = Put(nodeVisuals, n, visual)
      /\ edgeVisuals' = edgeVisuals /\ staged' = staged
      /\ Emit(graph)
  BY DEF UpdateNode
<1>2. visual \in Visuals
  BY VisualOfType DEF Visuals, SessionInv
<1>3. flow' = [nodes |-> [flow.nodes EXCEPT ![n].config = label],
               edges |-> flow.edges, packets |-> <<>>]
  BY <1>1 DEF SessionInv, IsDocument
<1>4. /\ flow'.edges = flow.edges /\ flow'.packets = <<>>
      /\ NodeIds(flow') = NodeIds(flow)
      /\ flow'.nodes[n] = [block |-> flow.nodes[n].block, config |-> label]
      /\ \A m \in NodeIds(flow) \ {n} : flow'.nodes[m] = flow.nodes[m]
      /\ flow'.nodes = [m \in NodeIds(flow') |-> flow'.nodes[m]]
  <2>1. /\ flow.nodes = [m \in NodeIds(flow) |-> flow.nodes[m]]
        /\ flow.nodes[n] = [block |-> flow.nodes[n].block, config |-> flow.nodes[n].config]
    <3>1. \A m \in NodeIds(flow) :
            flow.nodes[m] = [block |-> flow.nodes[m].block, config |-> flow.nodes[m].config]
      BY DEF SessionInv, IsDocument
    <3>2. flow.nodes = [m \in NodeIds(flow) |->
            [block |-> flow.nodes[m].block, config |-> flow.nodes[m].config]]
      BY DEF SessionInv, IsDocument
    <3> QED
      BY <3>1, <3>2
  <2>2. /\ flow'.nodes = [flow.nodes EXCEPT ![n].config = label]
        /\ flow'.edges = flow.edges /\ flow'.packets = <<>>
    BY <1>3
  <2>3. [flow.nodes[n] EXCEPT !.config = label] = [block |-> flow.nodes[n].block, config |-> label]
    BY <2>1
  <2>4. flow'.nodes = [m \in NodeIds(flow) |->
          IF m = n THEN [block |-> flow.nodes[n].block, config |-> label] ELSE flow.nodes[m]]
    BY <2>1, <2>2, <2>3
  <2>5. NodeIds(flow') = NodeIds(flow)
    BY <2>4 DEF NodeIds
  <2> QED
    BY <2>2, <2>4, <2>5
<1>5. IsDocument(flow)'
  <2>1. \A m \in NodeIds(flow') :
          /\ flow'.nodes[m] = [block |-> flow'.nodes[m].block, config |-> flow'.nodes[m].config]
          /\ flow'.nodes[m].block \in Blocks
    BY <1>4 DEF SessionInv, IsDocument
  <2>2. flow'.nodes = [m \in NodeIds(flow') |->
          [block |-> flow'.nodes[m].block, config |-> flow'.nodes[m].config]]
    BY <1>4, <2>1
  <2>3. flow' = [nodes |-> flow'.nodes, edges |-> flow'.edges, packets |-> <<>>]
    BY <1>3
  <2> QED
    BY <2>1, <2>2, <2>3 DEF IsDocument
<1>6. NumbersBounded(flow)'
  BY <1>4 DEF SessionInv, NumbersBounded
<1>7. Sound(flow)'
  <2>1. \A e \in flow'.edges : {e.source[1], e.target[1]} \subseteq NodeIds(flow')
    BY <1>4 DEF SessionInv, Sound
  <2>2. \A m \in NodeIds(flow) \cap NodeIds(flow') : flow'.nodes[m].block = flow.nodes[m].block
    BY <1>4
  <2> QED
    BY <1>4, <2>1, <2>2, SoundAfter DEF SessionInv
<1>8. VisualsHaveSubjects'
  BY <1>1, <1>4, PutVisual DEF SessionInv, VisualsHaveSubjects
<1>9. graph = SnapshotOf(flow', nodeVisuals')
  <2>1. \A m \in NodeIds(flow) \ {n} :
          SnapshotNode(flow', nodeVisuals', m) = SnapshotNode(flow, nodeVisuals, m)
    BY <1>1, <1>4, PutVisual DEF SnapshotNode
  <2>2. SnapshotOf(flow', nodeVisuals') =
          [nodes |-> Put(shown.nodes, n, SnapshotNode(flow', nodeVisuals', n)),
           edges |-> shown.edges]
    <3>1. flow'.edges = flow.edges /\ NodeIds(flow') = NodeIds(flow) \cup {n}
      BY <1>4
    <3>2. shown = SnapshotOf(flow, nodeVisuals)
      BY DEF SessionInv, Follows
    <3> QED
      BY <2>1, <3>1, <3>2, SnapshotPut
  <2> QED
    BY <2>2, ShownFacts DEF ShownNode, SessionInv
<1>10. /\ Follows' /\ StreamTellsDocument' /\ started' \in BOOLEAN
       /\ snapshot' # None => started'
  BY <1>1, <1>9, EventFollows
<1>11. TypeOK'
  <2>1. \A m \in NodeIds(flow') :
          flow'.nodes[m].block \in Blocks /\ flow'.nodes[m].config \in Labels
    BY <1>4 DEF SessionInv, TypeOK
  <2>2. \A m \in DOMAIN nodeVisuals' : nodeVisuals'[m] \in Visuals
    BY <1>1, <1>2, PutVisual DEF SessionInv
  <2> QED
    BY <1>1, <1>4, <1>10, <2>1, <2>2 DEF SessionInv, TypeOK
<1> QED
  BY <1>5, <1>6, <1>7, <1>8, <1>10, <1>11 DEF SessionInv

LEMMA DeleteNodeStep ==
  ASSUME SessionInv, NEW n \in NodeIds(flow), DeleteNode(n)
  PROVE  SessionInv'
<1> DEFINE edges == flow.edges \ Touching(n)
           graph == WithoutNode(shown, n)
<1>1. /\ flow' = [flow EXCEPT !.nodes = Without(@, n), !.edges = @ \ Touching(n)]
      /\ edgeVisuals' = edgeVisuals \ Touching(n)
      /\ nodeVisuals' = Without(nodeVisuals, n)
      /\ staged' = staged \ {n}
      /\ Emit(graph)
  BY DEF DeleteNode
<1>2. flow' = [nodes |-> Without(flow.nodes, n), edges |-> edges, packets |-> <<>>]
  <2> DEFINE nodes == Without(flow.nodes, n)
  <2>1. flow' = [flow EXCEPT !.nodes = nodes, !.edges = edges]
    BY <1>1, Zenon
  <2>2. flow = [nodes |-> flow.nodes, edges |-> flow.edges, packets |-> <<>>]
    BY DEF SessionInv, IsDocument
  <2>3. [flow EXCEPT !.nodes = nodes, !.edges = edges]
          = [[flow EXCEPT !.nodes = nodes] EXCEPT !.edges = edges]
    BY Zenon
  <2>4. [flow EXCEPT !.nodes = nodes]
          = [nodes |-> nodes, edges |-> flow.edges, packets |-> <<>>]
    <3> HIDE DEF nodes
    <3> QED
      BY <2>2
  <2> HIDE DEF nodes, edges
  <2>5. flow' = [[nodes |-> nodes, edges |-> flow.edges, packets |-> <<>>]
                   EXCEPT !.edges = edges]
    BY <2>1, <2>3, <2>4, Zenon
  <2>6. flow' = [nodes |-> nodes, edges |-> edges, packets |-> <<>>]
    BY <2>5
  <2> QED
    BY <2>6 DEF nodes
<1>3. /\ flow'.edges = edges /\ flow'.packets = <<>>
      /\ NodeIds(flow') = NodeIds(flow) \ {n}
      /\ \A m \in NodeIds(flow') : flow'.nodes[m] = flow.nodes[m]
      /\ flow'.nodes = [m \in NodeIds(flow') |-> flow'.nodes[m]]
  <2> HIDE DEF edges
  <2> QED
    BY <1>2 DEF NodeIds, Without
<1>4. IsDocument(flow)'
  <2>1. \A m \in NodeIds(flow') :
          /\ flow'.nodes[m] = [block |-> flow'.nodes[m].block, config |-> flow'.nodes[m].config]
          /\ flow'.nodes[m].block \in Blocks
    BY <1>3 DEF SessionInv, IsDocument
  <2>2. flow'.nodes = [m \in NodeIds(flow') |->
          [block |-> flow'.nodes[m].block, config |-> flow'.nodes[m].config]]
    BY <1>3, <2>1
  <2>3. flow' = [nodes |-> flow'.nodes, edges |-> flow'.edges, packets |-> <<>>]
    BY <1>2
  <2> QED
    BY <2>1, <2>2, <2>3 DEF IsDocument
<1>5. NumbersBounded(flow)'
  BY <1>3 DEF SessionInv, NumbersBounded
<1>6. Sound(flow)'
  <2>1. \A e \in flow'.edges : {e.source[1], e.target[1]} \subseteq NodeIds(flow')
    BY <1>3 DEF SessionInv, Sound, Touching
  <2>2. \A m \in NodeIds(flow) \cap NodeIds(flow') : flow'.nodes[m].block = flow.nodes[m].block
    BY <1>3
  <2>3. flow'.edges \subseteq flow.edges
    BY <1>3
  <2> QED
    BY <2>1, <2>2, <2>3, SoundAfter DEF SessionInv
<1>7. VisualsHaveSubjects'
  <2>1. DOMAIN nodeVisuals' = DOMAIN nodeVisuals \ {n}
    BY <1>1 DEF Without
  <2>2. DOMAIN nodeVisuals' \subseteq NodeIds(flow') \cup staged'
    BY <1>1, <1>3, <2>1 DEF SessionInv, VisualsHaveSubjects
  <2>3. edgeVisuals' = flow'.edges
    BY <1>1, <1>3 DEF SessionInv, VisualsHaveSubjects
  <2> QED
    BY <2>2, <2>3 DEF VisualsHaveSubjects
<1>8. graph = SnapshotOf(flow', nodeVisuals')
  <2>1. \A m \in NodeIds(flow') :
          SnapshotNode(flow', nodeVisuals', m) = SnapshotNode(flow, nodeVisuals, m)
    BY <1>1, <1>3 DEF SnapshotNode, VisualOf, Without
  <2>2. {e \in flow.edges : n \notin {e.source[1], e.target[1]}} = edges
    BY DEF Touching
  <2>3. Without(shown.nodes, n)
          = [m \in NodeIds(flow') |-> SnapshotNode(flow', nodeVisuals', m)]
    BY <1>3, <2>1, ShownFacts DEF Without, SessionInv
  <2>4. graph.nodes = Without(shown.nodes, n)
    BY DEF WithoutNode
  <2>5. graph.edges = edges
    BY <2>2, ShownFacts DEF WithoutNode, SessionInv
  <2>6. graph = [nodes |-> graph.nodes, edges |-> graph.edges]
    BY DEF WithoutNode
  <2>7. SnapshotOf(flow', nodeVisuals') =
          [nodes |-> [m \in NodeIds(flow') |-> SnapshotNode(flow', nodeVisuals', m)],
           edges |-> flow'.edges]
    BY DEF SnapshotOf
  <2> HIDE DEF edges, graph
  <2> QED
    BY <1>3, <2>3, <2>4, <2>5, <2>6, <2>7
<1>9. /\ Follows' /\ StreamTellsDocument' /\ started' \in BOOLEAN
      /\ snapshot' # None => started'
  BY <1>1, <1>8, EventFollows
<1>10. TypeOK'
  <2>1. \A m \in DOMAIN nodeVisuals' : nodeVisuals'[m] \in Visuals
    BY <1>1 DEF SessionInv, TypeOK, Without
  <2> QED
    BY <1>1, <1>3, <1>9, <2>1 DEF SessionInv, TypeOK
<1> QED
  BY <1>4, <1>5, <1>6, <1>7, <1>9, <1>10 DEF SessionInv

LEMMA EdgesShow ==
  ASSUME Follows, NEW edges, flow'.edges = edges, flow'.nodes = flow.nodes,
         nodeVisuals' = nodeVisuals, Emit([shown EXCEPT !.edges = edges])
  PROVE  Follows'
<1>1. NodeIds(flow') = NodeIds(flow)
  BY DEF NodeIds
<1>2. [shown EXCEPT !.edges = edges] = SnapshotOf(flow', nodeVisuals')
  BY <1>1, ShownFacts DEF SnapshotOf, SnapshotNode
<1> QED
  BY <1>2, EventFollows

\* What connecting and deleting an edge have in common: the nodes stay.
LEMMA EdgesStep ==
  ASSUME SessionInv, NEW edges, flow' = [flow EXCEPT !.edges = edges],
         edgeVisuals' = edges, UNCHANGED <<nodeVisuals, staged>>,
         Emit([shown EXCEPT !.edges = edges]),
         Sound(flow')
  PROVE  SessionInv'
<1>1. flow' = [nodes |-> flow.nodes, edges |-> edges, packets |-> <<>>]
  BY DEF SessionInv, IsDocument
<1>2. flow'.nodes = flow.nodes /\ flow'.edges = edges /\ flow'.packets = <<>>
      /\ NodeIds(flow') = NodeIds(flow)
  BY <1>1 DEF NodeIds
<1>3. IsDocument(flow)' /\ NumbersBounded(flow)'
  BY <1>1, <1>2 DEF SessionInv, IsDocument, NumbersBounded
<1>4. VisualsHaveSubjects'
  BY <1>2 DEF SessionInv, VisualsHaveSubjects
<1>5. /\ Follows' /\ StreamTellsDocument' /\ started' \in BOOLEAN
      /\ snapshot' # None => started'
  BY <1>2, EdgesShow, EventTells DEF SessionInv
<1>6. TypeOK'
  BY <1>2, <1>5 DEF SessionInv, TypeOK
<1> QED
  BY <1>3, <1>4, <1>5, <1>6 DEF SessionInv

LEMMA DeleteEdgeStep ==
  ASSUME SessionInv, NEW e \in flow.edges, DeleteEdge(e)
  PROVE  SessionInv'
<1> DEFINE edges == flow.edges \ {e}
<1>1. flow' = [flow EXCEPT !.edges = edges] /\ UNCHANGED <<nodeVisuals, staged>>
  BY DEF DeleteEdge, SessionInv, IsDocument
<1>2. edgeVisuals' = edges
  BY DEF DeleteEdge, SessionInv, VisualsHaveSubjects
<1>3. Emit([shown EXCEPT !.edges = edges])
  BY ShownFacts DEF DeleteEdge, SessionInv
<1>4. Sound(flow')
  <2>1. flow'.nodes = flow.nodes /\ flow'.edges = edges /\ NodeIds(flow') = NodeIds(flow)
    BY <1>1 DEF NodeIds, SessionInv, IsDocument
  <2>2. \A d \in flow'.edges : {d.source[1], d.target[1]} \subseteq NodeIds(flow')
    BY <2>1 DEF SessionInv, Sound
  <2> QED
    BY <2>1, <2>2, SoundAfter DEF SessionInv
<1> HIDE DEF edges
<1> QED
  BY <1>1, <1>2, <1>3, <1>4, EdgesStep

LEMMA ConnectStep ==
  ASSUME SessionInv, NEW m \in NodeIds(flow), NEW n \in NodeIds(flow),
         NEW s \in OutputPorts(flow, m), NEW t \in InputPorts(flow, n),
         ConnectNodePorts(s, t)
  PROVE  SessionInv'
<1> DEFINE edge == [source |-> s, target |-> t]
           edges == flow.edges \cup {edge}
<1>1. s[1] = m /\ t[1] = n
  BY DEF OutputPorts, InputPorts
<1>2. /\ EdgesInto(flow, t) = {}
      /\ ArePortTypesCompatible(DataType(flow, s), DataType(flow, t))
  BY DEF ConnectNodePorts, CanConnectPorts, Connectable
<1>3. flow' = [flow EXCEPT !.edges = edges] /\ UNCHANGED <<nodeVisuals, staged>>
  <2>1. s \notin DOMAIN flow.packets
    BY EmptyFacts DEF SessionInv, TypeOK
  <2>2. ConnectPorts(flow, s, t) = WithEdge(flow, s, t)
    BY <2>1 DEF ConnectPorts
  <2> QED
    BY <2>2 DEF ConnectNodePorts, WithEdge, SessionInv, IsDocument
<1>4. edgeVisuals' = edges
  BY DEF ConnectNodePorts, SessionInv, VisualsHaveSubjects
<1>5. Emit([shown EXCEPT !.edges = edges])
  BY ShownFacts DEF ConnectNodePorts, SessionInv
<1>6. Sound(flow')
  <2>1. flow'.nodes = flow.nodes /\ flow'.edges = edges /\ NodeIds(flow') = NodeIds(flow)
    BY <1>3 DEF NodeIds, SessionInv, IsDocument
  <2>2. \A p : /\ InputPorts(flow', p) = InputPorts(flow, p)
               /\ OutputPorts(flow', p) = OutputPorts(flow, p)
    BY <2>1 DEF InputPorts, OutputPorts
  <2>3. \A p : DataType(flow', p) = DataType(flow, p)
    BY <2>1, <2>2 DEF DataType, IsInput
  <2>4. ASSUME NEW e \in flow'.edges
        PROVE  /\ {e.source[1], e.target[1]} \subseteq NodeIds(flow')
               /\ e.source \in OutputPorts(flow', e.source[1])
               /\ e.target \in InputPorts(flow', e.target[1])
               /\ ArePortTypesCompatible(DataType(flow', e.source), DataType(flow', e.target))
    <3>1. CASE e \in flow.edges
      BY <2>1, <2>2, <2>3, <3>1 DEF SessionInv, Sound
    <3>2. CASE e = edge
      BY <1>1, <1>2, <2>1, <2>2, <2>3, <3>2
    <3> QED
      BY <2>1, <3>1, <3>2
  <2>5. ASSUME NEW d \in flow'.edges, NEW e \in flow'.edges, d.target = e.target
        PROVE  d = e
    <3>1. \A c \in flow.edges : c.target # t
      BY <1>2 DEF EdgesInto
    <3> QED
      BY <2>1, <2>5, <3>1 DEF SessionInv, Sound
  <2> QED
    BY <2>4, <2>5 DEF Sound
<1> HIDE DEF edges
<1> QED
  BY <1>3, <1>4, <1>5, <1>6, EdgesStep

-----------------------------------------------------------------------------
LEMMA NextSession ==
  ASSUME SessionInv, [Next]_vars
  PROVE  SessionInv'
<1>1. CASE Start \/ Complete \/ UNCHANGED vars
  BY <1>1, QuietStep
<1>2. CASE Clear
  BY <1>2, ClearStep
<1>3. ASSUME NEW n \in OwnIds, NEW given \in States \cup {None}, StageNode(n, given)
      PROVE  SessionInv'
  BY <1>3, StageNodeStep
<1>4. CASE CreateAny
  <2>1. ASSUME NEW b \in Blocks, NEW label \in Labels, NEW n \in OwnIds,
               CreateNodeAs(b, n, label)
        PROVE  SessionInv'
    BY <2>1, CreateNodeStep, OwnIdsAssumption
  <2>2. ASSUME NEW b \in Blocks, NEW label \in Labels,
               CreateNodeAs(b, CreateNodeId(flow, b), label)
        PROVE  SessionInv'
    <3>1. CreateNodeId(flow, b)[2] \in Nat
      BY GeneratedIdIsFresh DEF SessionInv
    <3> QED
      BY <2>2, <3>1, CreateNodeStep
  <2> QED
    BY <1>4, <2>1, <2>2 DEF CreateAny
<1>5. CASE ChangeAny
  BY <1>5, UpdateNodeStep, SetNodePhaseStep, DeleteNodeStep DEF ChangeAny
<1>6. ASSUME NEW m \in NodeIds(flow), NEW n \in NodeIds(flow),
             NEW s \in OutputPorts(flow, m), NEW t \in InputPorts(flow, n),
             ConnectNodePorts(s, t)
      PROVE  SessionInv'
  BY <1>6, ConnectStep
<1>7. ASSUME NEW e \in flow.edges, DeleteEdge(e)
      PROVE  SessionInv'
  BY <1>7, DeleteEdgeStep
<1> QED
  BY <1>1, <1>2, <1>3, <1>4, <1>5, <1>6, <1>7 DEF Next

\* The inductive invariant holds in every reachable state.
THEOREM SessionInvariant == Spec => []SessionInv
  BY InitSession, NextSession, PTL DEF Spec

\* Type correctness of the session, whatever calls are made of it.
THEOREM SessionTypeCorrect == Spec => []TypeOK
<1>1. SessionInv => TypeOK
  BY DEF SessionInv
<1> QED
  BY <1>1, SessionInvariant, PTL

\* No series of creations, deletions and connections leaves a dangling or
\* ill-typed edge, or an input with two (connectPorts, deleteNode).
THEOREM DocumentStaysSound == Spec => []DocumentIsSound
<1>1. SessionInv => DocumentIsSound
  BY DEF SessionInv, Sound, DocumentIsSound
<1> QED
  BY <1>1, SessionInvariant, PTL

\* An observer who applies the data of each event has the graph that the
\* event's snapshot shows (emit).
THEOREM StreamAlwaysTellsDocument == Spec => []StreamTellsDocument
<1>1. SessionInv => StreamTellsDocument
  BY DEF SessionInv
<1> QED
  BY <1>1, SessionInvariant, PTL

\* No phase, state or edge entry of something deleted or cleared away stays
\* (deleteNode, deleteEdge, clear).
THEOREM VisualsAlwaysHaveSubjects == Spec => []VisualsHaveSubjects
<1>1. SessionInv => VisualsHaveSubjects
  BY DEF SessionInv
<1> QED
  BY <1>1, SessionInvariant, PTL

\* Generated ids are free in documents of any size, whatever ids of their
\* form callers chose (createNodeId).
THEOREM GeneratedIdsAlwaysFresh == Spec => []GeneratedIdsAreFresh
<1>1. SessionInv => GeneratedIdsAreFresh
  BY GeneratedIdIsFresh DEF SessionInv, GeneratedIdsAreFresh
<1> QED
  BY <1>1, SessionInvariant, PTL
-----------------------------------------------------------------------------
(* The notes of the attempts *)

Starts(s, t) == Len(s) <= Len(t) /\ \A i \in 1..Len(s) : t[i] = s[i]

LEMMA StartsIsPrefix ==
  ASSUME NEW S, NEW s \in Seq(S), NEW t \in Seq(S), Starts(s, t)
  PROVE  IsPrefix(s, t)
<1> DEFINE n == Len(s)
           u == SubSeq(s, 1, n)
           v == SubSeq(t, 1, n)
<1>1. n \in Nat /\ n <= Len(t) /\ Len(t) \in Nat
  BY DEF Starts
<1>2. u = [i \in 1..n |-> s[i]] /\ v = [i \in 1..n |-> t[i]]
  BY <1>1
<1>3. \A i \in 1..n : t[i] = s[i]
  BY DEF Starts
<1>4. u = v
  BY <1>2, <1>3
<1> QED
  BY <1>1, <1>4 DEF IsPrefix

LEMMA StartsTransitive ==
  ASSUME NEW S, NEW s \in Seq(S), NEW t \in Seq(S), NEW u \in Seq(S), Starts(s, t), Starts(t, u)
  PROVE  Starts(s, u)
BY DEF Starts

\* A note that is there already is not added again.
Added(s, x) == IF x \in ToSet(s) THEN s ELSE Append(s, x)

LEMMA NoteAdded ==
  ASSUME NEW S, NEW s \in Seq(S), NEW x \in S
  PROVE  /\ Added(s, x) \in Seq(S) /\ Starts(s, Added(s, x))
         /\ ToSet(Added(s, x)) = ToSet(s) \cup {x}
         /\ IsInjective(s) => IsInjective(Added(s, x))
<1> DEFINE r == Added(s, x)
<1>1. CASE x \in ToSet(s)
  BY <1>1 DEF Starts, Added
<1>2. CASE x \notin ToSet(s)
  <2>0. r = Append(s, x)
    BY <1>2 DEF Added
  <2> HIDE DEF r
  <2>1. /\ r \in Seq(S) /\ DOMAIN r = 1..(Len(s) + 1) /\ DOMAIN s = 1..Len(s) /\ Len(s) \in Nat
        /\ Len(r) = Len(s) + 1
        /\ r[Len(s) + 1] = x /\ \A i \in 1..Len(s) : r[i] = s[i]
    BY <2>0
  <2>2. \A i \in 1..(Len(s) + 1) : i \in 1..Len(s) \/ i = Len(s) + 1
    BY <2>1
  <2>3. 1..Len(s) \subseteq 1..(Len(s) + 1) /\ Len(s) + 1 \in 1..(Len(s) + 1)
    BY <2>1
  <2>4. ToSet(r) = ToSet(s) \cup {x}
    BY <2>1, <2>2, <2>3 DEF ToSet
  <2>5. \A i \in 1..Len(s) : s[i] # x
    BY <1>2, <2>1 DEF ToSet
  <2>6. IsInjective(s) => IsInjective(r)
    BY <2>1, <2>2, <2>5 DEF IsInjective
  <2> QED
    BY <2>1, <2>4, <2>6 DEF Starts, r
<1> QED
  BY <1>1, <1>2

\* The recursive function of Extended exists.
LEMMA ExtendedIs ==
  ASSUME NEW S, NEW notes \in Seq(S), NEW suggestions \in Seq(S)
  PROVE  \E all :
           /\ all \in [0..Len(suggestions) -> Seq(S)]
           /\ all[0] = notes
           /\ \A i \in 1..Len(suggestions) :
                all[i] = Added(all[i - 1], suggestions[i])
           /\ Extended(notes, suggestions) = all[Len(suggestions)]
<1> DEFINE n == Len(suggestions)
           addition == [x \in Seq(S) \X Nat |->
                          IF x[2] \in 1..n THEN Added(x[1], suggestions[x[2]]) ELSE x[1]]
           Rhs(f) == [i \in 0..n |->
                        IF i = 0 THEN notes
                        ELSE IF suggestions[i] \in ToSet(f[i - 1]) THEN f[i - 1]
                        ELSE Append(f[i - 1], suggestions[i])]
           all == CHOOSE f : f = Rhs(f)
<1>1. n \in Nat /\ \A i \in 1..n : suggestions[i] \in S
  OBVIOUS
<1>2. Extended(notes, suggestions) = all[n]
  BY DEF Extended
<1> HIDE DEF n
<1>3. \A x \in Seq(S), y \in S : Added(x, y) \in Seq(S)
  BY NoteAdded
<1>4. addition \in [Seq(S) \X Nat -> Seq(S)]
  BY <1>1, <1>3
<1>5. \A x \in Seq(S), i \in 1..n : addition[<<x, i>>] = Added(x, suggestions[i])
  <2> TAKE x \in Seq(S), i \in 1..n
  <2>1. <<x, i>> \in Seq(S) \X Nat
    BY <1>1
  <2> QED
    BY <2>1
<1> HIDE DEF addition
<1>6. PICK g : Primitive(g, Seq(S), notes, addition, n)
  BY <1>1, <1>4, Recursive
<1>7. \A i \in 1..n : i - 1 \in 0..n /\ i # 0 /\ i \in 0..n
  BY <1>1
<1>8. \A i \in 1..n : g[i] = Added(g[i - 1], suggestions[i])
  BY <1>5, <1>6, <1>7 DEF Primitive
<1>9. g = Rhs(g)
  <2>1. \A i \in 0..n : i = 0 \/ i \in 1..n
    BY <1>1
  <2>2. \A i \in 0..n : Rhs(g)[i] = g[i]
    BY <1>6, <1>8, <2>1 DEF Primitive, Added
  <2>3. Rhs(g) = [i \in 0..n |-> Rhs(g)[i]]
    OBVIOUS
  <2> HIDE DEF Rhs
  <2> QED
    BY <1>6, <2>2, <2>3 DEF Primitive
<1>10. all = Rhs(all)
  BY <1>9
<1> HIDE DEF all
<1>11. DOMAIN all = 0..n /\ all = [i \in DOMAIN all |-> all[i]] /\ all[0] = notes
  BY <1>1, <1>10
<1>12. \A i \in 1..n : all[i] = Added(all[i - 1], suggestions[i])
  BY <1>7, <1>10 DEF Added
<1>13. \A i \in 1..n : all[i - 1] \in Seq(S) => all[i] \in Seq(S)
  BY <1>1, <1>3, <1>12
<1>14. all \in [0..n -> Seq(S)]
  BY <1>1, <1>11, <1>13, RecursiveType
<1> QED
  BY <1>2, <1>11, <1>12, <1>14 DEF n

\* The notes come first, every suggestion follows, and none twice.
LEMMA ExtendedFacts ==
  ASSUME NEW S, NEW notes \in Seq(S), NEW suggestions \in Seq(S), IsInjective(notes)
  PROVE  /\ Extended(notes, suggestions) \in Seq(S)
         /\ IsInjective(Extended(notes, suggestions))
         /\ Starts(notes, Extended(notes, suggestions))
         /\ ToSet(suggestions) \subseteq ToSet(Extended(notes, suggestions))
         /\ ToSet(notes) \subseteq ToSet(Extended(notes, suggestions))
<1> DEFINE n == Len(suggestions)
<1>1. n \in Nat /\ \A i \in 1..n : suggestions[i] \in S
  OBVIOUS
<1>2. PICK all :
        /\ all \in [0..n -> Seq(S)]
        /\ all[0] = notes
        /\ \A i \in 1..n :
             all[i] = Added(all[i - 1], suggestions[i])
        /\ Extended(notes, suggestions) = all[n]
  BY ExtendedIs
<1> DEFINE Good(i) ==
             /\ IsInjective(all[i]) /\ Starts(notes, all[i]) /\ ToSet(notes) \subseteq ToSet(all[i])
             /\ \A k \in 1..i : suggestions[k] \in ToSet(all[i])
           T == {i \in 0..n : Good(i)}
<1> HIDE DEF n
<1>3. 0 \in T
  <2>1. Good(0)
    BY <1>2 DEF Starts
  <2> QED
    BY <1>1, <2>1
<1>4. ASSUME NEW i \in 0..(n - 1), i \in T PROVE i + 1 \in T
  <2>1. i + 1 \in 1..n /\ (i + 1) - 1 = i /\ i \in 0..n /\ i + 1 \in 0..n
    BY <1>1
  <2>2. /\ all[i] \in Seq(S) /\ suggestions[i + 1] \in S
        /\ all[i + 1] = Added(all[i], suggestions[i + 1])
    BY <1>1, <1>2, <2>1
  <2>3. /\ all[i + 1] \in Seq(S) /\ Starts(all[i], all[i + 1])
        /\ ToSet(all[i + 1]) = ToSet(all[i]) \cup {suggestions[i + 1]}
        /\ IsInjective(all[i]) => IsInjective(all[i + 1])
    <3> DEFINE before == all[i]
               x == suggestions[i + 1]
    <3> HIDE DEF before, x
    <3>1. before \in Seq(S) /\ x \in S
      BY <2>2 DEF before, x
    <3>2. Added(before, x) \in Seq(S) /\ Starts(before, Added(before, x))
      BY <3>1, NoteAdded
    <3>3. ToSet(Added(before, x)) = ToSet(before) \cup {x}
      BY <3>1, NoteAdded
    <3>4. IsInjective(before) => IsInjective(Added(before, x))
      BY <3>1, NoteAdded
    <3>5. all[i + 1] = Added(before, x)
      BY <2>2 DEF before, x
    <3> QED
      BY <3>2, <3>3, <3>4, <3>5 DEF before, x
  <2>4. Good(i)
    BY <1>4
  <2>5. Starts(notes, all[i + 1])
    BY <2>2, <2>3, <2>4, StartsTransitive
  <2>6. \A k \in 1..(i + 1) : k \in 1..i \/ k = i + 1
    BY <2>1
  <2>7. Good(i + 1)
    BY <2>3, <2>4, <2>5, <2>6
  <2> HIDE DEF Good
  <2> QED
    BY <2>1, <2>7
<1>5. \A i \in 0..n : i \in T
  <2> HIDE DEF T
  <2> QED
    BY <1>1, <1>3, <1>4, UpTo
<1>6. Good(n) /\ all[n] \in Seq(S)
  <2>1. n \in 0..n
    BY <1>1
  <2> QED
    BY <1>2, <1>5, <2>1
<1>7. ToSet(suggestions) \subseteq ToSet(all[n])
  <2>1. DOMAIN suggestions = 1..n
    BY DEF n
  <2> QED
    BY <1>6, <2>1 DEF ToSet
<1> QED
  BY <1>2, <1>6, <1>7
-----------------------------------------------------------------------------
(* The inductive invariant of the agent *)

WithSystem == CreateNode(EmptyDocument, "input", System, System[1])
WithPrompt == CreateNode(WithSystem, "input", Prompt, Prompt[1])
WithAi     == CreateNode(WithPrompt, "ai-generate", Ai, Ai[1])

\* The document before the k-th call of the draft.
DocumentAt(k) ==
  IF k <= 3 THEN EmptyDocument
  ELSE IF k <= 6 THEN WithSystem
  ELSE IF k <= 9 THEN WithPrompt
  ELSE IF k <= 12 THEN WithAi
  ELSE IF k <= 14 THEN Unwired
  ELSE IF k <= 15 THEN Fed
  ELSE IF k <= 16 THEN Asked
  ELSE Built

PhaseOf(n) == VisualOf(nodeVisuals, n).phase

\* The phases shown before it.
PhasesAt(k) ==
  /\ k > 4 => PhaseOf(System) = "ready"
  /\ k > 7 => PhaseOf(Prompt) = "ready"
  /\ k > 17 => PhaseOf(Ai) = "connected"
  /\ k > 18 => PhaseOf(View) = "connected"

SkillNames == {"intent", "composition", "validation", "execution", "reflection", "improvement", "end"}
Wishes == {"json", "count", "titles"}
Reflections == [satisfied : BOOLEAN, suggestions : Seq(Remarks)]
Attempts ==
  [iteration : Nat, notes : Seq(Remarks), intent : BOOLEAN, drafted : Seq(Remarks),
   flow : {None, Built}, valid : BOOLEAN, validated : BOOLEAN,
   execution : {None} \cup Statuses, reflection : {None} \cup Reflections]

AgentTypes ==
  /\ request.wants \in SUBSET Wishes /\ request.sound \in BOOLEAN
  /\ request.refused \in {None} \cup Wires
  /\ skill \in {"begin", None} \cup SkillNames
  /\ result = None <=> skill # None
  /\ state \in Attempts /\ attempts \in Seq(Attempts)
  /\ step \in 1..19
  /\ step > 1 => skill \in {"composition", None} /\ request.observed

\* How far the attempt has got.
Progress ==
  /\ skill \in {"begin", "intent", "composition"} => state.flow = None
  /\ skill \in {"composition", "validation", "execution", "reflection"} => state.intent
  /\ skill \in {"begin", "intent", "composition", "validation"} => ~state.valid
  /\ state.valid => state.flow # None
  /\ skill \in {"begin", "intent", "composition", "validation", "execution"} => state.execution = None
  /\ state.execution # None => state.valid
  /\ skill \in {"reflection", "improvement", "end"} /\ state.valid => state.execution # None
  /\ skill \in {"improvement", "end"} /\ state.valid => state.reflection # None
  /\ state.reflection # None =>
       /\ state.valid
       /\ ~state.reflection.satisfied => state.reflection.suggestions # <<>>
  /\ skill \notin {"end", None} => state.notes = state.drafted
  /\ IsInjective(state.notes) /\ Starts(state.drafted, state.notes)
  /\ ToSet(state.drafted) \subseteq ToSet(state.notes)
  /\ skill = "end" /\ state.reflection # None =>
       state.reflection.satisfied \/ ToSet(state.reflection.suggestions) \subseteq ToSet(state.notes)

\* The observer has the document, which is that of the draft so far.
Drawing ==
  request.observed =>
    /\ Follows
    /\ skill = "composition" => flow = DocumentAt(step) /\ PhasesAt(step)
    /\ skill # "composition" =>
         \/ state.flow = None /\ flow = EmptyDocument
         \/ state.flow = Built /\ flow = Built /\ PhasesAt(19)
         \/ state.flow = None /\ skill = None /\ request.refused # None /\ flow = Abandoned

\* An attempt that may be followed by another, and what that one has of it.
Repeated(a) ==
  /\ a.validated /\ a.valid => a.reflection # None
  /\ a.reflection # None => ~a.reflection.satisfied /\ a.reflection.suggestions # <<>>
Kept(a, b) ==
  /\ a.reflection # None => ToSet(a.reflection.suggestions) \subseteq ToSet(b.drafted)
  /\ Starts(a.drafted, b.drafted)

Learned ==
  /\ result = None => state.iteration = Len(attempts) + 1
  /\ state.iteration \in {Len(attempts), Len(attempts) + 1}
  /\ \A j \in 1..Len(attempts) :
       /\ IsInjective(attempts[j].drafted)
       /\ \A i \in 1..(j - 1) : Repeated(attempts[i]) /\ Kept(attempts[i], attempts[j])
  /\ state.iteration > Len(attempts) =>
       /\ IsInjective(state.drafted)
       /\ \A i \in 1..Len(attempts) : Repeated(attempts[i]) /\ Kept(attempts[i], state)

\* What design() returns is a result, with the last flow.
Answered == result # None => result.flow = state.flow

AgentInv == AgentTypes /\ Progress /\ Drawing /\ Learned /\ Answered
-----------------------------------------------------------------------------
(* The draft, call by call, and the skills, one by one *)

StageCall(n) == [op |-> "stage", node |-> n, state |-> "building"]
CreateCall(b, n) == [op |-> "create", block |-> b, node |-> n]
ReadyCall(n) == [op |-> "phase", node |-> n, phase |-> "ready", state |-> "prompt-ready"]
CreatedCall(n) == [op |-> "phase", node |-> n, phase |-> "created", state |-> "awaiting"]

DraftCalls ==
  <<[op |-> "start"],
    StageCall(System), CreateCall("input", System), ReadyCall(System),
    StageCall(Prompt), CreateCall("input", Prompt), ReadyCall(Prompt),
    StageCall(Ai), CreateCall("ai-generate", Ai), CreatedCall(Ai),
    StageCall(View), CreateCall("view", View), CreatedCall(View),
    Link(<<System, "output">>, <<Ai, "system">>), Link(<<Prompt, "output">>, <<Ai, "prompt">>),
    Link(<<Ai, "output">>, <<View, "input">>), Wired(Ai), Wired(View), [op |-> "complete"]>>

LEMMA DraftIs ==
  Len(Draft) = 19 /\ \A k \in 1..19 : Draft[k] = DraftCalls[k]
BY DEF Draft, DraftCalls, Node, StageCall, CreateCall, ReadyCall, CreatedCall

LEMMA FollowingIs ==
  /\ Following("intent") = "composition" /\ Following("composition") = "validation"
  /\ Following("validation") = "execution" /\ Following("execution") = "reflection"
  /\ Following("reflection") = "improvement" /\ Following("improvement") = "end"
<1> DEFINE at(name) == {i \in 1..7 : Skills[i] = name}
<1>1. \A k \in Nat : Min({k}) = k
  BY DEF Min
<1>2. /\ at("intent") = {1} /\ at("composition") = {2} /\ at("validation") = {3}
      /\ at("execution") = {4} /\ at("reflection") = {5} /\ at("improvement") = {6}
  BY DEF Skills
<1>3. Len(Skills) = 7
  BY DEF Skills
<1>4. \A name : at(name) # {} => Following(name) = Skills[Min(at(name)) + 1]
  BY <1>3 DEF Following, SelectInSeq
<1> HIDE DEF at
<1>5. /\ Following("intent") = Skills[2] /\ Following("composition") = Skills[3]
      /\ Following("validation") = Skills[4] /\ Following("execution") = Skills[5]
      /\ Following("reflection") = Skills[6] /\ Following("improvement") = Skills[7]
  BY <1>1, <1>2, <1>4
<1> QED
  BY <1>5 DEF Skills
-----------------------------------------------------------------------------
(* The documents of the draft *)

Plain(f) == f = [nodes |-> f.nodes, edges |-> f.edges, packets |-> <<>>]

LEMMA CreatePlain ==
  ASSUME NEW f, Plain(f), NEW b, NEW n, NEW label
  PROVE  /\ Plain(CreateNode(f, b, n, label))
         /\ NodeIds(CreateNode(f, b, n, label)) = NodeIds(f) \cup {n}
<1> DEFINE nodes == Put(f.nodes, n, [block |-> b, config |-> label])
<1>1. CreateNode(f, b, n, label) = [nodes |-> nodes, edges |-> f.edges, packets |-> <<>>]
  <2>1. CreateNode(f, b, n, label) = [f EXCEPT !.nodes = nodes]
    BY DEF CreateNode
  <2> HIDE DEF nodes
  <2> QED
    BY <2>1 DEF Plain
<1>2. DOMAIN nodes = DOMAIN f.nodes \cup {n}
  BY DEF Put, Override
<1> HIDE DEF nodes
<1> QED
  BY <1>1, <1>2 DEF Plain, NodeIds

LEMMA ConnectPlain ==
  ASSUME NEW f, Plain(f), NEW s, NEW t
  PROVE  LET g == ConnectPorts(f, s, t)
         IN  /\ Plain(g) /\ g.nodes = f.nodes
             /\ g.edges = f.edges \cup {[source |-> s, target |-> t]}
<1> DEFINE edges == f.edges \cup {[source |-> s, target |-> t]}
<1>1. s \notin DOMAIN f.packets
  BY EmptyFacts DEF Plain
<1>2. ConnectPorts(f, s, t) = [f EXCEPT !.edges = edges]
  BY <1>1 DEF ConnectPorts, WithEdge
<1> HIDE DEF edges
<1>3. ConnectPorts(f, s, t) = [nodes |-> f.nodes, edges |-> edges, packets |-> <<>>]
  BY <1>2 DEF Plain
<1> QED
  BY <1>3 DEF Plain, edges

LEMMA IdsDiffer ==
  System # Prompt /\ System # Ai /\ System # View /\ Prompt # Ai /\ Prompt # View /\ Ai # View
BY DEF System, Prompt, Ai, View

LEMMA DraftDocuments ==
  /\ Plain(EmptyDocument) /\ NodeIds(EmptyDocument) = {}
  /\ Plain(WithSystem) /\ NodeIds(WithSystem) = {System}
  /\ Plain(WithPrompt) /\ NodeIds(WithPrompt) = {System, Prompt}
  /\ Plain(WithAi) /\ NodeIds(WithAi) = {System, Prompt, Ai}
  /\ Plain(Unwired) /\ NodeIds(Unwired) = {System, Prompt, Ai, View}
  /\ Plain(Fed) /\ NodeIds(Fed) = {System, Prompt, Ai, View}
  /\ Plain(Asked) /\ NodeIds(Asked) = {System, Prompt, Ai, View}
  /\ Plain(Built) /\ NodeIds(Built) = {System, Prompt, Ai, View}
  /\ Built = ConnectPorts(Asked, <<Ai, "output">>, <<View, "input">>)
<1>1. Plain(EmptyDocument) /\ NodeIds(EmptyDocument) = {}
  BY EmptyFacts DEF EmptyDocument, Plain, NodeIds
<1>2. Plain(WithSystem) /\ NodeIds(WithSystem) = {System}
  BY <1>1, CreatePlain DEF WithSystem
<1>3. Plain(WithPrompt) /\ NodeIds(WithPrompt) = {System, Prompt}
  BY <1>2, CreatePlain DEF WithPrompt
<1>4. Plain(WithAi) /\ NodeIds(WithAi) = {System, Prompt, Ai}
  BY <1>3, CreatePlain DEF WithAi
<1>5. Plain(Unwired) /\ NodeIds(Unwired) = {System, Prompt, Ai, View}
  <2>1. Unwired = CreateNode(WithAi, "view", View, View[1])
    BY Zenon DEF Unwired, WithAi, WithPrompt, WithSystem
  <2> QED
    BY <1>4, <2>1, CreatePlain
<1>6. Plain(Fed) /\ NodeIds(Fed) = NodeIds(Unwired)
  BY <1>5, ConnectPlain DEF Fed, NodeIds
<1>7. Plain(Asked) /\ NodeIds(Asked) = NodeIds(Unwired)
  BY <1>6, ConnectPlain DEF Asked, NodeIds
<1>8. Built = ConnectPorts(Asked, <<Ai, "output">>, <<View, "input">>)
  BY DEF Built
<1>9. Plain(Built) /\ NodeIds(Built) = NodeIds(Unwired)
  BY <1>7, <1>8, ConnectPlain DEF NodeIds
<1> QED
  BY <1>1, <1>2, <1>3, <1>4, <1>5, <1>6, <1>7, <1>8, <1>9

-----------------------------------------------------------------------------
(* What the calls do to the phases shown *)

LEMMA StageEffect ==
  ASSUME NEW n, NEW given, StageNode(n, given)
  PROVE  flow' = flow /\ \A m : m # n => PhaseOf(m)' = PhaseOf(m)
<1> DEFINE visual == [phase |-> "staged", state |-> given]
<1>1. flow' = flow /\ nodeVisuals' = Put(nodeVisuals, n, visual)
  BY DEF StageNode
<1> HIDE DEF visual
<1> QED
  BY <1>1, PutVisual DEF PhaseOf

LEMMA CreateEffect ==
  ASSUME NEW b, NEW n, NEW label, CreateNodeAs(b, n, label)
  PROVE  /\ flow' = CreateNode(flow, b, n, label)
         /\ \A m : m # n => PhaseOf(m)' = PhaseOf(m)
<1> DEFINE visual == [VisualOf(nodeVisuals, n) EXCEPT !.phase = "created"]
<1>1. flow' = CreateNode(flow, b, n, label) /\ nodeVisuals' = Put(nodeVisuals, n, visual)
  BY DEF CreateNodeAs
<1> HIDE DEF visual
<1> QED
  BY <1>1, PutVisual DEF PhaseOf

LEMMA PhaseEffect ==
  ASSUME NEW n, NEW phase, NEW given, SetNodePhase(n, phase, given)
  PROVE  /\ n \in NodeIds(flow) /\ flow' = flow
         /\ PhaseOf(n)' = phase /\ \A m : m # n => PhaseOf(m)' = PhaseOf(m)
<1> DEFINE shownState == IF given = None THEN VisualOf(nodeVisuals, n).state ELSE given
           visual == [phase |-> phase, state |-> shownState]
<1>1. /\ n \in NodeIds(flow) /\ flow' = flow
      /\ nodeVisuals' = Put(nodeVisuals, n, visual)
  BY DEF SetNodePhase
<1>2. visual.phase = phase
  OBVIOUS
<1> HIDE DEF visual
<1> QED
  BY <1>1, <1>2, PutVisual DEF PhaseOf

LEMMA ConnectEffect ==
  ASSUME Follows, Plain(flow), NEW s, NEW t, ConnectNodePorts(s, t)
  PROVE  /\ Follows' /\ flow' = ConnectPorts(flow, s, t)
         /\ \A m : PhaseOf(m)' = PhaseOf(m)
<1> DEFINE edges == flow.edges \cup {[source |-> s, target |-> t]}
<1>1. flow' = ConnectPorts(flow, s, t) /\ nodeVisuals' = nodeVisuals
  BY DEF ConnectNodePorts
<1>2. flow'.edges = edges /\ flow'.nodes = flow.nodes
  BY <1>1, ConnectPlain
<1>3. Emit([shown EXCEPT !.edges = edges])
  BY ShownFacts DEF ConnectNodePorts
<1> HIDE DEF edges
<1> QED
  BY <1>1, <1>2, <1>3, EdgesShow DEF PhaseOf
-----------------------------------------------------------------------------
(* A call of the draft *)

\* Before the k-th call, all is as after the calls before it.
DrawnTo(k) == Follows /\ flow = DocumentAt(k) /\ PhasesAt(k)

LEMMA QuietEffect ==
  ASSUME Start \/ Complete
  PROVE  flow' = flow /\ \A m : PhaseOf(m)' = PhaseOf(m)
BY DEF Start, Complete, PhaseOf

LEMMA PlainFlow ==
  ASSUME NEW k \in 1..20
  PROVE  Plain(DocumentAt(k))
BY DraftDocuments DEF DocumentAt

LEMMA CallStage ==
  ASSUME NEW n, NEW call, call = StageCall(n), Perform(call)
  PROVE  StageNode(n, "building")
<1>1. call.op = "stage" /\ call.node = n /\ call.state = "building"
  BY DEF StageCall
<1> QED
  BY <1>1 DEF Perform

LEMMA CallCreate ==
  ASSUME NEW b, NEW n, NEW call, call = CreateCall(b, n), Perform(call)
  PROVE  CreateNodeAs(b, n, n[1])
<1>1. call.op = "create" /\ call.block = b /\ call.node = n
  BY DEF CreateCall
<1> QED
  BY <1>1 DEF Perform

LEMMA CallPhase ==
  ASSUME NEW n, NEW phase, NEW given, NEW call, Perform(call),
         call = [op |-> "phase", node |-> n, phase |-> phase, state |-> given]
  PROVE  SetNodePhase(n, phase, given)
<1>1. call.op = "phase" /\ call.node = n /\ call.phase = phase /\ call.state = given
  OBVIOUS
<1> QED
  BY <1>1 DEF Perform

LEMMA CallLink ==
  ASSUME NEW s, NEW t, NEW call, call = Link(s, t), Perform(call)
  PROVE  ConnectNodePorts(s, t)
<1>1. call.op = "connect" /\ call.source = s /\ call.target = t
  BY DEF Link
<1> QED
  BY <1>1 DEF Perform

LEMMA CallStart ==
  ASSUME Perform([op |-> "start"]) \/ Perform([op |-> "complete"])
  PROVE  Start \/ Complete
BY DEF Perform

\* Each call of the draft takes the document and the phases on.
LEMMA DraftCall ==
  ASSUME NEW k \in 1..19, DrawnTo(k), Perform(Draft[k])
  PROVE  DrawnTo(k + 1)'
<1>0. Plain(flow) /\ Follows
  BY PlainFlow DEF DrawnTo
<1>1. CASE k \in {1, 19}
  <2>1. Draft[k] = [op |-> "start"] \/ Draft[k] = [op |-> "complete"]
    BY <1>1, DraftIs DEF DraftCalls
  <2>2. Start \/ Complete
    BY <2>1, CallStart
  <2>3. DocumentAt(k + 1) = DocumentAt(k) /\ (PhasesAt(k) => PhasesAt(k + 1))
    BY <1>1 DEF DocumentAt, PhasesAt
  <2> QED
    BY <1>0, <2>2, <2>3, QuietShows, QuietEffect DEF DrawnTo, PhasesAt, DocumentAt
<1>2. CASE k \in {2, 5, 8, 11}
  <2>1. PICK n : /\ Draft[k] = StageCall(n)
                 /\ <<k, n>> \in {<<2, System>>, <<5, Prompt>>, <<8, Ai>>, <<11, View>>}
    BY <1>2, DraftIs DEF DraftCalls
  <2>2. StageNode(n, "building")
    BY <2>1, CallStage
  <2>3. Follows' /\ flow' = flow /\ \A m : m # n => PhaseOf(m)' = PhaseOf(m)
    BY <1>0, <2>2, StageShows, StageEffect
  <2>4. flow' = DocumentAt(k + 1)
    BY <1>2, <2>3 DEF DrawnTo, DocumentAt
  <2>5. PhasesAt(k + 1)'
    BY <1>2, <2>1, <2>3, IdsDiffer DEF DrawnTo, PhasesAt
  <2> QED
    BY <2>3, <2>4, <2>5 DEF DrawnTo, DocumentAt
<1>3. CASE k \in {3, 6, 9, 12}
  <2>1. PICK b, n :
          /\ Draft[k] = CreateCall(b, n)
          /\ <<k, b, n>> \in {<<3, "input", System>>, <<6, "input", Prompt>>,
                              <<9, "ai-generate", Ai>>, <<12, "view", View>>}
    BY <1>3, DraftIs DEF DraftCalls
  <2>2. CreateNodeAs(b, n, n[1])
    BY <2>1, CallCreate
  <2>3. Follows'
    BY <1>0, <2>2, CreateShows DEF Plain
  <2>4. flow' = CreateNode(flow, b, n, n[1]) /\ \A m : m # n => PhaseOf(m)' = PhaseOf(m)
    BY <2>2, CreateEffect
  <2>5. flow' = DocumentAt(k + 1)
    BY <1>3, <2>1, <2>4 DEF DrawnTo, DocumentAt, WithSystem, WithPrompt, WithAi, Unwired
  <2>6. PhasesAt(k + 1)'
    BY <1>3, <2>1, <2>4, IdsDiffer DEF DrawnTo, PhasesAt
  <2> QED
    BY <2>3, <2>5, <2>6 DEF DrawnTo, DocumentAt
<1>4. CASE k \in {4, 7, 10, 13, 17, 18}
  <2>1. PICK n, phase, given :
          /\ Draft[k] = [op |-> "phase", node |-> n, phase |-> phase, state |-> given]
          /\ <<k, n, phase>> \in
               {<<4, System, "ready">>, <<7, Prompt, "ready">>, <<10, Ai, "created">>,
                <<13, View, "created">>, <<17, Ai, "connected">>, <<18, View, "connected">>}
    <3>1. /\ Draft[4] = ReadyCall(System) /\ Draft[7] = ReadyCall(Prompt)
          /\ Draft[10] = CreatedCall(Ai) /\ Draft[13] = CreatedCall(View)
          /\ Draft[17] = Wired(Ai) /\ Draft[18] = Wired(View)
      BY DraftIs DEF DraftCalls
    <3>2. CASE k \in {4, 7}
      BY <3>1, <3>2 DEF ReadyCall
    <3>3. CASE k \in {10, 13}
      BY <3>1, <3>3 DEF CreatedCall
    <3>4. CASE k \in {17, 18}
      BY <3>1, <3>4 DEF Wired
    <3> QED
      BY <1>4, <3>2, <3>3, <3>4
  <2>2. SetNodePhase(n, phase, given)
    BY <2>1, CallPhase
  <2>3. /\ n \in NodeIds(flow) /\ flow' = flow
        /\ PhaseOf(n)' = phase /\ \A m : m # n => PhaseOf(m)' = PhaseOf(m)
    BY <2>2, PhaseEffect
  <2>4. Follows'
    BY <1>0, <2>2, <2>3, PhaseShows
  <2>5. flow' = DocumentAt(k + 1)
    BY <1>4, <2>3 DEF DrawnTo, DocumentAt
  <2>6. PhasesAt(k + 1)'
    BY <1>4, <2>1, <2>3, IdsDiffer DEF DrawnTo, PhasesAt
  <2> QED
    BY <2>4, <2>5, <2>6 DEF DrawnTo, DocumentAt
<1>5. CASE k \in {14, 15, 16}
  <2>1. PICK s, t : /\ Draft[k] = Link(s, t)
                    /\ <<k, s, t>> \in {<<14, <<System, "output">>, <<Ai, "system">>>>,
                                        <<15, <<Prompt, "output">>, <<Ai, "prompt">>>>,
                                        <<16, <<Ai, "output">>, <<View, "input">>>>}
    BY <1>5, DraftIs DEF DraftCalls
  <2>2. ConnectNodePorts(s, t)
    BY <2>1, CallLink
  <2>3. /\ Follows' /\ flow' = ConnectPorts(flow, s, t)
        /\ \A m : PhaseOf(m)' = PhaseOf(m)
    BY <1>0, <2>2, ConnectEffect
  <2>4. flow' = DocumentAt(k + 1)
    <3>1. /\ DocumentAt(14) = Unwired /\ DocumentAt(15) = Fed
          /\ DocumentAt(16) = Asked /\ DocumentAt(17) = Built
      BY DEF DocumentAt
    <3>2. flow = DocumentAt(k)
      BY DEF DrawnTo
    <3>3. CASE k = 14
      BY <2>1, <2>3, <3>1, <3>2, <3>3 DEF Fed
    <3>4. CASE k = 15
      BY <2>1, <2>3, <3>1, <3>2, <3>4 DEF Asked
    <3>5. CASE k = 16
      BY <2>1, <2>3, <3>1, <3>2, <3>5, DraftDocuments
    <3> QED
      BY <1>5, <3>3, <3>4, <3>5
  <2>5. PhasesAt(k + 1)'
    BY <1>5, <2>3 DEF DrawnTo, PhasesAt
  <2> QED
    BY <2>3, <2>4, <2>5 DEF DrawnTo, DocumentAt
<1> QED
  BY <1>1, <1>2, <1>3, <1>4, <1>5

LEMMA NoneFacts ==
  /\ None \notin SkillNames /\ None # "begin" /\ None # Built /\ None \notin Statuses
  /\ None \notin Wires
  /\ \A r \in Reflections : r # None
<1>1. ToSet(Skills) = SkillNames
  BY DEF ToSet, Skills, SkillNames
<1>2. None \notin {"begin"} \cup ToSet(Skills) \cup Statuses \cup Wires
  BY NoneAssumption, Zenon
<1>3. None # Built
  BY NoneAssumption, Zenon
<1>4. \A r \in Reflections : r # None
  BY NoneAssumption, Zenon DEF Reflections
<1> QED
  BY <1>1, <1>2, <1>3, <1>4

\* A call of the draft throws only if it is a refused connection: the node it
\* creates is never there yet.
LEMMA DraftThrows ==
  ASSUME NEW k \in 1..19, DrawnTo(k), Throws(Draft[k]), request.refused \in {None} \cup Wires
  PROVE  request.refused # None /\ flow = Abandoned
<1>1. CASE k \in {3, 6, 9, 12}
  <2>1. PICK b, n :
          /\ Draft[k] = CreateCall(b, n)
          /\ <<k, n>> \in {<<3, System>>, <<6, Prompt>>, <<9, Ai>>, <<12, View>>}
    BY <1>1, DraftIs DEF DraftCalls
  <2>2. n \notin NodeIds(flow)
    BY <1>1, <2>1, DraftDocuments, IdsDiffer DEF DrawnTo, DocumentAt
  <2>3. Draft[k].op = "create" /\ Draft[k].node = n
    BY <2>1 DEF CreateCall
  <2> QED
    BY <2>2, <2>3 DEF Throws, CanCreateNode
<1>2. CASE k \in {14, 15, 16}
  <2>1. /\ Draft[14] = Link(<<System, "output">>, <<Ai, "system">>)
        /\ Draft[15] = Link(<<Prompt, "output">>, <<Ai, "prompt">>)
        /\ Draft[16] = Link(<<Ai, "output">>, <<View, "input">>)
    BY DraftIs DEF DraftCalls
  <2>2. \A s, n, p : Link(s, <<n, p>>).op = "connect" /\ Link(s, <<n, p>>).target[2] = p
    BY DEF Link
  <2>3. Draft[k].op = "connect" /\ Draft[k].target[2] = request.refused
    BY <1>2, <2>1, <2>2 DEF Throws
  <2>4. \/ k = 14 /\ request.refused = "system" /\ flow = Unwired
        \/ k = 15 /\ request.refused = "prompt" /\ flow = Fed
        \/ k = 16 /\ request.refused = "input" /\ flow = Asked
    BY <1>2, <2>1, <2>2, <2>3 DEF DrawnTo, DocumentAt
  <2>5. request.refused \in Wires
    BY <2>4 DEF Wires
  <2>6. request.refused # None
    BY <2>5, NoneFacts
  <2>7. flow = Abandoned
    BY <2>4 DEF Abandoned
  <2> QED
    BY <2>6, <2>7
<1>3. CASE k \notin {3, 6, 9, 12} \cup {14, 15, 16}
  <2>1. Draft[k].op \notin {"create", "connect"}
    BY <1>3, DraftIs DEF DraftCalls, StageCall, ReadyCall, CreatedCall, Wired
  <2> QED
    BY <2>1 DEF Throws
<1> QED
  BY <1>1, <1>2, <1>3
-----------------------------------------------------------------------------
(* What changes of an attempt leave alone *)

\* A step within an attempt.
Within(changed) ==
  /\ result = None /\ result' = None /\ skill' # None
  /\ request' = request /\ attempts' = attempts /\ state' = changed
  /\ changed.iteration = state.iteration /\ changed.drafted = state.drafted

LEMMA LearnedWithin ==
  ASSUME Learned, NEW changed, Within(changed)
  PROVE  Learned'
<1>1. \A a : Kept(a, changed) <=> Kept(a, state)
  BY DEF Within, Kept
<1> QED
  BY <1>1 DEF Within, Learned

LEMMA AnsweredWithin ==
  ASSUME NEW changed, Within(changed)
  PROVE  Answered'
BY DEF Within, Answered

\* The session stays as it is while another skill's turn comes.
LEMMA DrawingStays ==
  ASSUME Drawing, UNCHANGED sessionVars, request' = request, skill # None,
         request.observed /\ skill = "composition" => step = 1 /\ state.flow = None,
         request.observed /\ skill' = "composition" => step' = 1 /\ state.flow = None,
         state'.flow = state.flow \/ ~request.observed
  PROVE  Drawing'
<1>1. /\ Follows' <=> Follows
      /\ \A m : PhaseOf(m)' = PhaseOf(m)
      /\ flow' = flow
  BY DEF sessionVars, Follows, PhaseOf
<1>2. DocumentAt(1) = EmptyDocument /\ PhasesAt(1)'
  BY DEF DocumentAt, PhasesAt
<1>3. PhasesAt(19)' <=> PhasesAt(19)
  BY <1>1 DEF PhasesAt
<1> SUFFICES ASSUME request.observed PROVE Drawing'
  BY DEF Drawing
<1>4. \/ state.flow = None /\ flow = EmptyDocument
      \/ state.flow = Built /\ flow = Built /\ PhasesAt(19)
  BY <1>2 DEF Drawing
<1>5. Follows'
  BY <1>1 DEF Drawing
<1>6. CASE skill' = "composition"
  BY <1>1, <1>2, <1>4, <1>5, <1>6, NoneFacts DEF Drawing, DocumentAt
<1>7. CASE skill' # "composition"
  BY <1>1, <1>3, <1>4, <1>5, <1>7 DEF Drawing
<1> QED
  BY <1>6, <1>7
-----------------------------------------------------------------------------
(* The steps of the agent *)

LEMMA AgentStart == AgentInit => AgentInv
<1> SUFFICES ASSUME AgentInit PROVE AgentInv
  OBVIOUS
<1>1. /\ state = Fresh(1, <<>>) /\ attempts = <<>> /\ result = None
      /\ skill = "begin" /\ step = 1
      /\ request.wants \in SUBSET Wishes /\ request.sound \in BOOLEAN
      /\ request.refused \in {None} \cup Wires
  BY DEF AgentInit, Wishes
<1>2. /\ state \in Attempts /\ state.iteration = 1 /\ state.notes = <<>> /\ state.drafted = <<>>
      /\ state.flow = None /\ ~state.valid /\ ~state.validated
      /\ state.execution = None /\ state.reflection = None
  BY <1>1 DEF Fresh, Attempts
<1>3. AgentTypes
  BY <1>1, <1>2, NoneFacts DEF AgentTypes
<1>4. Progress
  <2>1. IsInjective(state.notes) /\ Starts(state.drafted, state.notes)
    BY <1>2 DEF IsInjective, Starts
  <2> QED
    BY <1>1, <1>2, <2>1 DEF Progress
<1>5. Drawing
  <2>1. Follows /\ flow = EmptyDocument
    BY EmptySession DEF AgentInit, Init, Follows
  <2> QED
    BY <1>1, <1>2, <2>1 DEF Drawing
<1>6. Learned
  <2>1. IsInjective(state.drafted)
    BY <1>2 DEF IsInjective
  <2> QED
    BY <1>1, <1>2, <2>1 DEF Learned
<1>7. Answered
  BY <1>1 DEF Answered
<1> QED
  BY <1>3, <1>4, <1>5, <1>6, <1>7 DEF AgentInv

LEMMA BeginStep ==
  ASSUME AgentInv, Begin
  PROVE  AgentInv'
<1>1. /\ skill = "begin" /\ skill' = "intent"
      /\ request' = request /\ step' = step /\ state' = state
      /\ attempts' = attempts /\ result' = result /\ result = None
  BY NoneFacts DEF Begin, AgentInv, AgentTypes
<1>2. AgentTypes'
  BY <1>1, NoneFacts DEF AgentInv, AgentTypes, SkillNames
<1>3. Progress'
  BY <1>1, NoneFacts DEF AgentInv, Progress, SkillNames
<1>4. Drawing'
  <2> SUFFICES ASSUME request.observed PROVE Drawing'
    BY <1>1 DEF Drawing
  <2>1. Start
    BY DEF Begin, Observed
  <2>2. Follows' /\ flow' = flow
    BY <2>1, QuietShows DEF Start, AgentInv, Drawing
  <2>3. state.flow = None /\ flow = EmptyDocument
    BY <1>1, NoneFacts DEF AgentInv, Drawing, Progress
  <2> QED
    BY <1>1, <2>2, <2>3 DEF Drawing
<1>5. Within(state)
  BY <1>1, NoneFacts DEF Within, SkillNames
<1> QED
  BY <1>2, <1>3, <1>4, <1>5, LearnedWithin, AnsweredWithin DEF AgentInv

\* The turns, in their order.
LEMMA FollowingName ==
  ASSUME NEW name \in SkillNames \ {"end"}
  PROVE  Following(name) \in SkillNames
BY FollowingIs DEF SkillNames

LEMMA SkipStep ==
  ASSUME AgentInv, Skip
  PROVE  AgentInv'
<1>1. /\ result = None /\ skill \in SkillNames \ {"end"} /\ ~Applies(skill)
      /\ skill' = Following(skill)
      /\ request' = request /\ step' = step /\ state' = state
      /\ attempts' = attempts /\ result' = result /\ UNCHANGED sessionVars
  BY DEF Skip, AgentInv, AgentTypes
<1>2. skill \in {"validation", "execution", "reflection", "improvement"} /\ step = 1
  <2>1. skill # "intent"
    BY <1>1 DEF Applies
  <2>2. skill # "composition"
    BY <1>1 DEF Applies, AgentInv, Progress
  <2> QED
    BY <1>1, <2>1, <2>2 DEF AgentInv, AgentTypes, SkillNames
<1>3. AgentTypes'
  BY <1>1, <1>2, NoneFacts, FollowingName DEF AgentInv, AgentTypes
<1>4. Progress'
  <2>1. CASE skill = "validation"
    BY <1>1, <2>1, FollowingIs, NoneFacts DEF AgentInv, Progress, Applies, SkillNames
  <2>2. CASE skill = "execution"
    BY <1>1, <2>2, FollowingIs, NoneFacts DEF AgentInv, Progress, Applies, SkillNames
  <2>3. CASE skill = "reflection"
    BY <1>1, <2>3, FollowingIs, NoneFacts DEF AgentInv, Progress, Applies, SkillNames
  <2>4. CASE skill = "improvement"
    BY <1>1, <2>4, FollowingIs, NoneFacts DEF AgentInv, Progress, Applies, SkillNames
  <2> QED
    BY <1>2, <2>1, <2>2, <2>3, <2>4
<1>5. Drawing'
  <2>1. skill # "composition" /\ skill' # "composition"
    BY <1>1, <1>2, FollowingIs
  <2> QED
    BY <1>1, <2>1, NoneFacts, DrawingStays DEF AgentInv
<1>6. Within(state)
  BY <1>1, <1>3 DEF Within, AgentTypes
<1> QED
  BY <1>3, <1>4, <1>5, <1>6, LearnedWithin, AnsweredWithin DEF AgentInv
-----------------------------------------------------------------------------
(* The skills *)

LEMMA Joined ==
  ASSUME NEW s \in Seq(Remarks), NEW t \in Seq(Remarks)
  PROVE  s \o t \in Seq(Remarks) /\ (s # <<>> \/ t # <<>> => s \o t # <<>>)
<1>1. Len(s) \in Nat /\ Len(t) \in Nat /\ Len(s \o t) = Len(s) + Len(t)
  OBVIOUS
<1>2. (s # <<>> => Len(s) # 0) /\ (t # <<>> => Len(t) # 0) /\ Len(<<>>) = 0
  OBVIOUS
<1> QED
  BY <1>1, <1>2

\* Where something is lacking there is something to suggest.
LEMMA SuggestionsFacts ==
  ASSUME NEW lacks \in SUBSET ({"stability"} \cup Wishes)
  PROVE  /\ Suggestions(lacks) \in Seq(Remarks)
         /\ lacks # {} => Suggestions(lacks) # <<>>
<1> DEFINE for(issue) == IF issue \in lacks THEN <<issue>> ELSE <<>>
           a == for("stability") \o for("json")
           b == a \o for("count")
           c == b \o for("titles")
           d == IF request.guided THEN <<"general">> ELSE <<>>
<1>0. {"stability", "json", "count", "titles", "general"} \subseteq Remarks
  BY DEF Remarks
<1>1. \A issue \in {"stability", "json", "count", "titles"} :
        for(issue) \in Seq(Remarks) /\ (issue \in lacks => for(issue) # <<>>)
  <2>1. <<>> \in Seq(Remarks) /\ \A issue \in Remarks : <<issue>> \in Seq(Remarks) /\ <<issue>> # <<>>
    OBVIOUS
  <2> QED
    BY <1>0, <2>1
<1>2. d \in Seq(Remarks)
  BY <1>0
<1>3. Suggestions(lacks) = c \o d
  BY DEF Suggestions
<1> HIDE DEF for, d
<1>4. a \in Seq(Remarks) /\ ("stability" \in lacks \/ "json" \in lacks => a # <<>>)
  BY <1>1, Joined
<1> HIDE DEF a
<1>5. b \in Seq(Remarks) /\ (a # <<>> \/ "count" \in lacks => b # <<>>)
  BY <1>1, <1>4, Joined
<1> HIDE DEF b
<1>6. c \in Seq(Remarks) /\ (b # <<>> \/ "titles" \in lacks => c # <<>>)
  BY <1>1, <1>5, Joined
<1> HIDE DEF c
<1>7. c \o d \in Seq(Remarks) /\ (c # <<>> => c \o d # <<>>)
  BY <1>2, <1>6, Joined
<1> QED
  BY <1>3, <1>4, <1>5, <1>6, <1>7 DEF Wishes

\* What is common to the skills that leave the session alone.
LEMMA DoneStep ==
  ASSUME AgentInv, NEW name \in SkillNames \ {"composition", "end"}, NEW changed,
         Done(name, changed), UNCHANGED sessionVars,
         changed \in Attempts, changed.iteration = state.iteration,
         changed.drafted = state.drafted, changed.flow = state.flow,
         Progress'
  PROVE  AgentInv'
<1>1. /\ result = None /\ skill = name /\ skill' = Following(name) /\ state' = changed
      /\ request' = request /\ step' = step /\ attempts' = attempts /\ result' = result
  BY DEF Done, At
<1>2. skill' \in SkillNames /\ skill' # None /\ step = 1
  BY <1>1, FollowingName, NoneFacts DEF AgentInv, AgentTypes
<1>3. AgentTypes'
  BY <1>1, <1>2, NoneFacts DEF AgentInv, AgentTypes
<1>4. Drawing'
  <2>1. skill' = "composition" => name = "intent"
    BY <1>1, FollowingIs DEF SkillNames
  <2>2. name = "intent" => state.flow = None
    BY <1>1 DEF AgentInv, Progress
  <2> QED
    BY <1>1, <1>2, <2>1, <2>2, NoneFacts, DrawingStays DEF AgentInv
<1>5. Within(changed)
  BY <1>1, <1>2 DEF Within
<1> QED
  BY <1>3, <1>4, <1>5, LearnedWithin, AnsweredWithin DEF AgentInv

LEMMA AnalyzeStep ==
  ASSUME AgentInv, Analyze
  PROVE  AgentInv'
<1> DEFINE changed == [state EXCEPT !.intent = TRUE]
<1>1. Done("intent", changed) /\ UNCHANGED sessionVars
  BY DEF Analyze
<1>2. /\ changed \in Attempts /\ changed.intent
      /\ changed.iteration = state.iteration /\ changed.drafted = state.drafted
      /\ changed.flow = state.flow /\ changed.notes = state.notes
      /\ changed.valid = state.valid /\ changed.validated = state.validated
      /\ changed.execution = state.execution /\ changed.reflection = state.reflection
  BY DEF AgentInv, AgentTypes, Attempts
<1> HIDE DEF changed
<1>3. skill = "intent" /\ skill' = "composition" /\ state' = changed
  BY <1>1, FollowingIs DEF Done, At
<1>4. Progress'
  BY <1>2, <1>3, NoneFacts DEF AgentInv, Progress, SkillNames
<1> QED
  BY <1>1, <1>2, <1>4, DoneStep DEF SkillNames

LEMMA ValidateStep ==
  ASSUME AgentInv, Validate
  PROVE  AgentInv'
<1> DEFINE changed == [state EXCEPT !.validated = TRUE, !.valid = request.sound]
<1>1. Done("validation", changed) /\ UNCHANGED sessionVars
  BY DEF Validate
<1>2. /\ changed \in Attempts /\ changed.intent = state.intent
      /\ changed.iteration = state.iteration /\ changed.drafted = state.drafted
      /\ changed.flow = state.flow /\ changed.notes = state.notes
      /\ changed.execution = state.execution /\ changed.reflection = state.reflection
  BY DEF AgentInv, AgentTypes, Attempts
<1> HIDE DEF changed
<1>3. /\ skill = "validation" /\ skill' = "execution" /\ state' = changed
      /\ state.flow # None
  BY <1>1, FollowingIs DEF Done, At, Applies
<1>4. state.execution = None /\ state.reflection = None
  BY <1>3 DEF AgentInv, Progress
<1>5. Progress'
  BY <1>2, <1>3, <1>4, NoneFacts DEF AgentInv, Progress, SkillNames
<1> QED
  BY <1>1, <1>2, <1>5, DoneStep DEF SkillNames

LEMMA ExecuteStep ==
  ASSUME AgentInv, Execute
  PROVE  AgentInv'
<1>0. PICK status \in Statuses : Done("execution", [state EXCEPT !.execution = status])
  BY DEF Execute
<1> DEFINE changed == [state EXCEPT !.execution = status]
<1>1. Done("execution", changed) /\ UNCHANGED sessionVars
  BY <1>0 DEF Execute
<1>2. /\ changed \in Attempts /\ changed.intent = state.intent
      /\ changed.iteration = state.iteration /\ changed.drafted = state.drafted
      /\ changed.flow = state.flow /\ changed.notes = state.notes
      /\ changed.valid = state.valid /\ changed.validated = state.validated
      /\ changed.execution = status /\ changed.reflection = state.reflection
  BY DEF AgentInv, AgentTypes, Attempts
<1> HIDE DEF changed
<1>3. /\ skill = "execution" /\ skill' = "reflection" /\ state' = changed
      /\ state.valid
  BY <1>1, FollowingIs DEF Done, At, Applies
<1>4. status # None
  BY NoneFacts
<1>5. Progress'
  BY <1>2, <1>3, <1>4, NoneFacts DEF AgentInv, Progress, SkillNames
<1> QED
  BY <1>1, <1>2, <1>5, DoneStep DEF SkillNames

LEMMA ReflectStep ==
  ASSUME AgentInv, Reflect
  PROVE  AgentInv'
<1>0. PICK lacks \in Shortcomings(state.execution) :
        Done("reflection",
             [state EXCEPT !.reflection = [satisfied |-> lacks = {}, suggestions |-> Suggestions(lacks)]])
  BY DEF Reflect
<1> DEFINE reflection == [satisfied |-> lacks = {}, suggestions |-> Suggestions(lacks)]
           changed == [state EXCEPT !.reflection = reflection]
<1>1. Done("reflection", changed) /\ UNCHANGED sessionVars
  BY <1>0 DEF Reflect
<1>2. lacks \in SUBSET ({"stability"} \cup Wishes)
  BY DEF Shortcomings, AgentInv, AgentTypes
<1>3. /\ reflection \in Reflections
      /\ ~reflection.satisfied => reflection.suggestions # <<>>
  BY <1>2, SuggestionsFacts DEF Reflections
<1> HIDE DEF reflection
<1>4. /\ changed \in Attempts /\ changed.intent = state.intent
      /\ changed.iteration = state.iteration /\ changed.drafted = state.drafted
      /\ changed.flow = state.flow /\ changed.notes = state.notes
      /\ changed.valid = state.valid /\ changed.validated = state.validated
      /\ changed.execution = state.execution /\ changed.reflection = reflection
  BY <1>3 DEF AgentInv, AgentTypes, Attempts
<1> HIDE DEF changed
<1>5. /\ skill = "reflection" /\ skill' = "improvement" /\ state' = changed
      /\ state.execution # None /\ state.valid
  BY <1>1, FollowingIs DEF Done, At, Applies, AgentInv, Progress
<1>6. reflection # None
  BY <1>3, NoneFacts
<1>7. Progress'
  BY <1>3, <1>4, <1>5, <1>6, NoneFacts DEF AgentInv, Progress, SkillNames
<1> QED
  BY <1>1, <1>4, <1>7, DoneStep DEF SkillNames

LEMMA ImproveStep ==
  ASSUME AgentInv, Improve
  PROVE  AgentInv'
<1> DEFINE notes == IF state.reflection.satisfied THEN state.notes
                    ELSE Extended(state.notes, state.reflection.suggestions)
           changed == [state EXCEPT !.notes = notes]
<1>1. Done("improvement", changed) /\ UNCHANGED sessionVars
  BY DEF Improve
<1>2. /\ skill = "improvement" /\ skill' = "end" /\ state' = changed
      /\ state.reflection # None /\ state.valid /\ state.reflection \in Reflections
  BY <1>1, FollowingIs DEF Done, At, Applies, AgentInv, AgentTypes, Progress, Attempts
<1>3. /\ state.notes \in Seq(Remarks) /\ state.reflection.suggestions \in Seq(Remarks)
      /\ IsInjective(state.notes) /\ state.notes = state.drafted
      /\ state.drafted \in Seq(Remarks)
  BY <1>2, NoneFacts DEF AgentInv, AgentTypes, Progress, Attempts, Reflections, SkillNames
<1>4. /\ notes \in Seq(Remarks) /\ IsInjective(notes) /\ Starts(state.drafted, notes)
      /\ ToSet(state.drafted) \subseteq ToSet(notes)
      /\ state.reflection.satisfied \/ ToSet(state.reflection.suggestions) \subseteq ToSet(notes)
  <2>1. CASE state.reflection.satisfied
    BY <1>3, <2>1 DEF Starts
  <2>2. CASE ~state.reflection.satisfied
    BY <1>3, <2>2, ExtendedFacts
  <2> QED
    BY <2>1, <2>2
<1> HIDE DEF notes
<1>5. /\ changed \in Attempts /\ changed.intent = state.intent
      /\ changed.iteration = state.iteration /\ changed.drafted = state.drafted
      /\ changed.flow = state.flow /\ changed.notes = notes
      /\ changed.valid = state.valid /\ changed.validated = state.validated
      /\ changed.execution = state.execution /\ changed.reflection = state.reflection
  BY <1>4 DEF AgentInv, AgentTypes, Attempts
<1> HIDE DEF changed
<1>6. Progress'
  BY <1>2, <1>4, <1>5, NoneFacts DEF AgentInv, Progress, SkillNames
<1> QED
  BY <1>1, <1>5, <1>6, DoneStep DEF SkillNames
-----------------------------------------------------------------------------
(* The draft *)

LEMMA DraftAloneStep ==
  ASSUME AgentInv, DraftAlone
  PROVE  AgentInv'
<1> DEFINE changed == [state EXCEPT !.flow = Built]
<1>1. /\ ~request.observed /\ skill = "composition" /\ skill' = "validation"
      /\ state' = changed /\ request' = request /\ step' = step
      /\ attempts' = attempts /\ result' = result /\ result = None
  BY FollowingIs DEF DraftAlone, Done, At
<1>2. /\ changed \in Attempts /\ changed.intent = state.intent
      /\ changed.iteration = state.iteration /\ changed.drafted = state.drafted
      /\ changed.flow = Built /\ changed.notes = state.notes
      /\ changed.valid = state.valid /\ changed.validated = state.validated
      /\ changed.execution = state.execution /\ changed.reflection = state.reflection
  <2> HIDE DEF Built
  <2> QED
    BY DEF AgentInv, AgentTypes, Attempts
<1> HIDE DEF changed
<1>3. AgentTypes'
  BY <1>1, <1>2, NoneFacts DEF AgentInv, AgentTypes, SkillNames
<1>4. Progress'
  BY <1>1, <1>2, NoneFacts DEF AgentInv, Progress, SkillNames
<1>5. Drawing'
  BY <1>1 DEF Drawing
<1>6. Within(changed)
  BY <1>1, <1>2, <1>3 DEF Within, AgentTypes
<1> QED
  BY <1>3, <1>4, <1>5, <1>6, LearnedWithin, AnsweredWithin DEF AgentInv

LEMMA DraftStepStep ==
  ASSUME AgentInv, DraftStep
  PROVE  AgentInv'
<1>1. /\ request.observed /\ skill = "composition" /\ Perform(Draft[step])
      /\ request' = request /\ attempts' = attempts /\ result' = result /\ result = None
      /\ step \in 1..19
  BY DEF DraftStep, At, AgentInv, AgentTypes
<1>2. PICK k \in 1..19 : k = step
  BY <1>1
<1>3. DrawnTo(k) /\ Perform(Draft[k])
  BY <1>1, <1>2 DEF AgentInv, Drawing, DrawnTo
<1>4. DrawnTo(k + 1)'
  BY <1>3, DraftCall
<1>5. CASE k < 19
  <2>1. step' = k + 1 /\ k + 1 \in 1..19 /\ skill' = skill /\ state' = state
    BY <1>2, <1>5, DraftIs DEF DraftStep
  <2>2. AgentTypes'
    BY <1>1, <2>1 DEF AgentInv, AgentTypes
  <2>3. Progress'
    BY <2>1 DEF AgentInv, Progress
  <2>4. Drawing'
    BY <1>1, <1>4, <2>1 DEF DrawnTo, Drawing, DocumentAt, PhasesAt
  <2>5. Within(state)
    BY <1>1, <2>1, NoneFacts DEF Within, SkillNames
  <2> QED
    BY <2>2, <2>3, <2>4, <2>5, LearnedWithin, AnsweredWithin DEF AgentInv
<1>6. CASE k = 19
  <2> DEFINE changed == [state EXCEPT !.flow = flow]
  <2>1. step' = 1 /\ skill' = "validation" /\ state' = changed
    BY <1>2, <1>6, DraftIs DEF DraftStep
  <2>2. flow = Built /\ flow' = Built /\ Follows' /\ PhasesAt(19)'
    BY <1>3, <1>4, <1>6 DEF DrawnTo, DocumentAt, PhasesAt
  <2>3. /\ changed \in Attempts /\ changed.intent = state.intent
        /\ changed.iteration = state.iteration /\ changed.drafted = state.drafted
        /\ changed.flow = Built /\ changed.notes = state.notes
        /\ changed.valid = state.valid /\ changed.validated = state.validated
        /\ changed.execution = state.execution /\ changed.reflection = state.reflection
    <3> HIDE DEF Built
    <3> QED
      BY <2>2 DEF AgentInv, AgentTypes, Attempts
  <2> HIDE DEF changed
  <2>4. AgentTypes'
    BY <1>1, <2>1, <2>3, NoneFacts DEF AgentInv, AgentTypes, SkillNames
  <2>5. Progress'
    BY <1>1, <2>1, <2>3, NoneFacts DEF AgentInv, Progress, SkillNames
  <2>6. Drawing'
    BY <1>1, <2>1, <2>2, <2>3 DEF Drawing
  <2>7. Within(changed)
    BY <1>1, <2>1, <2>3, <2>4 DEF Within, AgentTypes
  <2> QED
    BY <2>4, <2>5, <2>6, <2>7, LearnedWithin, AnsweredWithin DEF AgentInv
<1> QED
  BY <1>5, <1>6
-----------------------------------------------------------------------------
(* The end of an attempt *)

\* The attempts that are over, when the present one is listed.
LEMMA Listed ==
  ASSUME AgentInv, result = None
  PROVE  LET all == Append(attempts, state)
         IN  /\ all \in Seq(Attempts) /\ Len(all) = Len(attempts) + 1
             /\ \A i \in 1..Len(attempts) : all[i] = attempts[i]
             /\ all[Len(attempts) + 1] = state
             /\ \A j \in 1..Len(all) :
                  /\ IsInjective(all[j].drafted)
                  /\ \A i \in 1..(j - 1) : Repeated(all[i]) /\ Kept(all[i], all[j])
<1> DEFINE all == Append(attempts, state)
           n == Len(attempts)
<1>1. /\ all \in Seq(Attempts) /\ Len(all) = n + 1 /\ n \in Nat
      /\ \A i \in 1..n : all[i] = attempts[i]
      /\ all[n + 1] = state
  BY DEF AgentInv, AgentTypes
<1>2. state.iteration > n
  BY <1>1 DEF AgentInv, Learned
<1> HIDE DEF all
<1>3. ASSUME NEW j \in 1..Len(all)
      PROVE  /\ IsInjective(all[j].drafted)
             /\ \A i \in 1..(j - 1) : Repeated(all[i]) /\ Kept(all[i], all[j])
  <2>1. CASE j \in 1..n
    <3>1. \A i \in 1..(j - 1) : i \in 1..n
      BY <1>1, <2>1
    <3> HIDE DEF n
    <3> QED
      BY <1>1, <2>1, <3>1 DEF AgentInv, Learned, n
  <2>2. CASE j = n + 1
    <3>1. (n + 1) - 1 = n
      BY <1>1
    <3> QED
      BY <1>1, <1>2, <2>2, <3>1 DEF AgentInv, Learned
  <2> QED
    BY <1>1, <2>1, <2>2
<1> QED
  BY <1>1, <1>3 DEF all

\* design() returns with the attempt listed or, if it failed early, not.
LEMMA EndStep ==
  ASSUME AgentInv, result = None, state.flow = None \/ skill \notin {"composition"},
         \/ step = 1
         \/ skill = "composition" /\ request.observed /\ Throws(Draft[step]),
         Observed(Complete), attempts' \in {attempts, Append(attempts, state)},
         NEW status \in Statuses, result' = Returned(status, state.flow, attempts'), skill' = None,
         UNCHANGED <<request, step, state>>
  PROVE  AgentInv'
<1>1. attempts' \in Seq(Attempts)
  BY Listed DEF AgentInv, AgentTypes
<1>2. result'.flow = state.flow /\ result' # None
  <2>1. Len(attempts') \in Nat /\ state.flow \in {None, Built}
    BY <1>1 DEF AgentInv, AgentTypes, Attempts
  <2>2. result' \in [status : Statuses, flow : {None, Built}, attempts : Nat]
    <3> HIDE DEF Built
    <3> QED
      BY <2>1 DEF Returned
  <2>3. None \notin [status : Statuses, flow : {None, Built}, attempts : Nat]
    BY NoneAssumption, Zenon
  <2> QED
    BY <2>2, <2>3 DEF Returned
<1>3. AgentTypes'
  BY <1>1, <1>2 DEF AgentInv, AgentTypes
<1>4. Progress'
  BY NoneFacts DEF AgentInv, Progress, SkillNames
<1>5. Drawing'
  <2> SUFFICES ASSUME request.observed PROVE Drawing'
    BY DEF Drawing
  <2>1. Complete
    BY DEF Observed
  <2>2. Follows' /\ flow' = flow /\ \A m : PhaseOf(m)' = PhaseOf(m)
    BY <2>1, QuietShows, QuietEffect DEF AgentInv, Drawing
  <2>3. skill' # "composition"
    BY NoneFacts DEF SkillNames
  <2>4. \/ state.flow = None /\ flow = EmptyDocument
        \/ state.flow = Built /\ flow = Built /\ PhasesAt(19)
        \/ state.flow = None /\ request.refused # None /\ flow = Abandoned
    <3>1. CASE step = 1
      BY <3>1 DEF AgentInv, Drawing, DocumentAt
    <3>2. CASE skill = "composition" /\ Throws(Draft[step])
      <4>1. DrawnTo(step) /\ step \in 1..19 /\ request.refused \in {None} \cup Wires
        BY <3>2 DEF AgentInv, AgentTypes, Drawing, DrawnTo
      <4>2. state.flow = None
        BY <3>2
      <4> QED
        BY <3>2, <4>1, <4>2, DraftThrows
    <3> QED
      BY <3>1, <3>2
  <2>5. Abandoned' = Abandoned
    BY DEF Abandoned
  <2> QED
    BY <2>2, <2>3, <2>4, <2>5 DEF Drawing, PhasesAt
<1>6. Learned'
  <2>1. CASE attempts' = attempts
    BY <1>2, <2>1 DEF AgentInv, Learned
  <2>2. CASE attempts' = Append(attempts, state)
    <3>1. /\ Len(attempts') = Len(attempts) + 1 /\ Len(attempts) \in Nat
          /\ \A j \in 1..Len(attempts') :
               /\ IsInjective(attempts'[j].drafted)
               /\ \A i \in 1..(j - 1) : Repeated(attempts'[i]) /\ Kept(attempts'[i], attempts'[j])
      BY <2>2, Listed DEF AgentInv, AgentTypes
    <3>2. state'.iteration = Len(attempts')
      BY <3>1 DEF AgentInv, Learned
    <3> QED
      BY <1>2, <3>1, <3>2 DEF Learned
  <2> QED
    BY <2>1, <2>2
<1>7. Answered'
  BY <1>2 DEF Answered
<1> QED
  BY <1>3, <1>4, <1>5, <1>6, <1>7 DEF AgentInv

LEMMA FailStep ==
  ASSUME AgentInv, Fail
  PROVE  AgentInv'
<1>1. /\ result = None /\ Observed(Complete)
      /\ attempts' \in {attempts, Append(attempts, state)}
      /\ result' = Returned("failed", state.flow, attempts')
      /\ skill' = None /\ UNCHANGED <<request, step, state>>
  BY DEF Fail, At
<1>2. step = 1 \/ (skill = "composition" /\ request.observed /\ Throws(Draft[step]))
  <2> SUFFICES ASSUME step # 1
               PROVE  skill = "composition" /\ request.observed /\ Throws(Draft[step])
    OBVIOUS
  <2>1. step > 1 /\ request.observed /\ skill # None
    BY <1>1, NoneFacts DEF AgentInv, AgentTypes
  <2>2. skill = "composition"
    BY <2>1 DEF AgentInv, AgentTypes
  <2> QED
    BY <2>1, <2>2 DEF Fail, At
<1>3. state.flow = None \/ skill # "composition"
  BY DEF AgentInv, Progress
<1> QED
  BY <1>1, <1>2, <1>3, EndStep DEF Statuses

LEMMA EndWithStep ==
  ASSUME AgentInv, Succeed \/ Exhaust
  PROVE  AgentInv'
<1>1. PICK status \in Statuses : EndWith(status)
  BY DEF Succeed, Exhaust, Statuses
<1>2. skill = "end" /\ result = None /\ step = 1
  BY <1>1 DEF EndWith, At, AgentInv, AgentTypes
<1> QED
  BY <1>1, <1>2, EndStep DEF EndWith

\* What the next attempt has of this one.
LEMMA NextAttempt ==
  ASSUME AgentInv, result = None, skill = "end", ~Satisfied,
         NEW fresh, fresh.drafted = state.notes
  PROVE  /\ Repeated(state) /\ Kept(state, fresh)
         /\ \A a \in Attempts : Kept(a, state) => Kept(a, fresh)
<1>1. /\ Starts(state.drafted, state.notes)
      /\ ToSet(state.drafted) \subseteq ToSet(state.notes)
      /\ state.drafted \in Seq(Remarks) /\ state.notes \in Seq(Remarks)
  BY DEF AgentInv, Progress, AgentTypes, Attempts
<1>2. Repeated(state) /\ Kept(state, fresh)
  BY <1>1 DEF AgentInv, Progress, Satisfied, Repeated, Kept
<1>3. ASSUME NEW a \in Attempts, Kept(a, state) PROVE Kept(a, fresh)
  <2>1. a.drafted \in Seq(Remarks)
    BY DEF Attempts
  <2>2. Starts(a.drafted, state.notes)
    BY <1>1, <1>3, <2>1, StartsTransitive DEF Kept
  <2> QED
    BY <1>1, <1>3, <2>2 DEF Kept
<1> QED
  BY <1>2, <1>3

LEMMA RetryStep ==
  ASSUME AgentInv, Retry
  PROVE  AgentInv'
<1> DEFINE n == Len(attempts)
           fresh == Fresh(state.iteration + 1, state.notes)
<1>1. /\ result = None /\ result' = None /\ skill = "end" /\ skill' = "intent" /\ ~Satisfied
      /\ attempts' = Append(attempts, state) /\ Observed(Clear)
      /\ state' = fresh /\ request' = request /\ step' = step /\ step = 1
  BY DEF Retry, At, AgentInv, AgentTypes
<1>2. /\ fresh \in Attempts /\ fresh.iteration = state.iteration + 1
      /\ fresh.notes = state.notes /\ fresh.drafted = state.notes
      /\ fresh.flow = None /\ ~fresh.valid /\ fresh.execution = None /\ fresh.reflection = None
  BY DEF Fresh, AgentInv, AgentTypes, Attempts
<1> HIDE DEF fresh
<1>3. /\ attempts' \in Seq(Attempts) /\ Len(attempts') = n + 1 /\ n \in Nat
      /\ \A i \in 1..n : attempts'[i] = attempts[i] /\ attempts[i] \in Attempts
      /\ attempts'[n + 1] = state
      /\ \A j \in 1..Len(attempts') :
           /\ IsInjective(attempts'[j].drafted)
           /\ \A i \in 1..(j - 1) : Repeated(attempts'[i]) /\ Kept(attempts'[i], attempts'[j])
  BY <1>1, Listed DEF AgentInv, AgentTypes
<1>4. AgentTypes'
  BY <1>1, <1>2, <1>3, NoneFacts DEF AgentInv, AgentTypes, SkillNames
<1>5. Progress'
  <2>1. Starts(fresh.drafted, fresh.notes) /\ IsInjective(fresh.notes)
    BY <1>2 DEF AgentInv, AgentTypes, Attempts, Progress, Starts
  <2> QED
    BY <1>1, <1>2, <2>1, NoneFacts DEF Progress, SkillNames
<1>6. Drawing'
  <2> SUFFICES ASSUME request.observed PROVE Drawing'
    BY <1>1 DEF Drawing
  <2>1. Clear
    BY <1>1 DEF Observed
  <2>2. Follows' /\ flow' = EmptyDocument
    BY <2>1, QuietShows DEF AgentInv, Drawing, Clear
  <2> QED
    BY <1>1, <1>2, <2>2 DEF Drawing
<1>7. Learned'
  <2>1. state.iteration = n + 1
    BY <1>1 DEF AgentInv, Learned
  <2>2. /\ Repeated(state) /\ Kept(state, fresh)
        /\ \A a \in Attempts : Kept(a, state) => Kept(a, fresh)
    BY <1>1, <1>2, NextAttempt
  <2>3. \A i \in 1..n : Repeated(attempts[i]) /\ Kept(attempts[i], state)
    BY <1>3, <2>1 DEF AgentInv, Learned
  <2>4. \A i \in 1..Len(attempts') : Repeated(attempts'[i]) /\ Kept(attempts'[i], fresh)
    <3>1. \A i \in 1..(n + 1) : i \in 1..n \/ i = n + 1
      BY <1>3
    <3> HIDE DEF n
    <3> QED
      BY <1>3, <2>2, <2>3, <3>1
  <2>5. IsInjective(fresh.drafted)
    BY <1>2 DEF AgentInv, Progress
  <2>6. fresh.iteration = Len(attempts') + 1
    BY <1>2, <1>3, <2>1
  <2> HIDE DEF n
  <2> QED
    BY <1>1, <1>3, <2>4, <2>5, <2>6 DEF Learned
<1>8. Answered'
  BY <1>1 DEF Answered
<1> QED
  BY <1>4, <1>5, <1>6, <1>7, <1>8 DEF AgentInv

LEMMA AgentStutter ==
  ASSUME AgentInv, UNCHANGED <<sessionVars, agentVars>>
  PROVE  AgentInv'
<1>1. AgentTypes' /\ Progress' /\ Learned' /\ Answered'
  BY DEF agentVars, AgentInv, AgentTypes, Progress, Learned, Answered
<1>2. /\ Follows' <=> Follows
      /\ \A m : PhaseOf(m)' = PhaseOf(m)
      /\ flow' = flow
  BY DEF sessionVars, Follows, PhaseOf
<1>3. Drawing'
  BY <1>2 DEF agentVars, AgentInv, Drawing, PhasesAt, DocumentAt, Abandoned
<1> QED
  BY <1>1, <1>3 DEF AgentInv

LEMMA NextAgent ==
  ASSUME AgentInv, [AgentNext]_<<sessionVars, agentVars>>
  PROVE  AgentInv'
BY BeginStep, SkipStep, AnalyzeStep, DraftStepStep, DraftAloneStep, ValidateStep, ExecuteStep,
   ReflectStep, ImproveStep, FailStep, EndWithStep, RetryStep, AgentStutter DEF AgentNext

\* The inductive invariant of the agent holds in every reachable state.
THEOREM AgentInvariant == AgentSpec => []AgentInv
BY AgentStart, NextAgent, PTL DEF AgentSpec

\* What the observer is left with is the flow that design() returns, as the
\* draft without an observer makes it, all its nodes ready or connected, or
\* nothing; or, of a draft that the caller's blocks refuse to connect, what was
\* drawn before (agent.ts:66-71, design/core.ts:234-240, 386-469).
THEOREM StreamAlwaysEndsWithResult == AgentSpec => []StreamEndsWithResult
<1>1. AgentInv => StreamEndsWithResult
  <2> SUFFICES ASSUME AgentInv, result # None PROVE StreamEndsWithResult
    BY DEF StreamEndsWithResult
  <2> DEFINE final == IF result.flow = None THEN EmptyDocument ELSE result.flow
  <2>1. result.flow = state.flow /\ state.flow \in {None, Built} /\ skill # "composition"
    BY NoneFacts DEF AgentInv, Answered, AgentTypes, Attempts, SkillNames
  <2>2. ASSUME request.observed
        PROVE  \/ /\ Shows(final)
                  /\ \A n \in DOMAIN shown.nodes : shown.nodes[n].visual.phase \in {"ready", "connected"}
               \/ result.flow = None /\ request.refused # None /\ Shows(Abandoned)
    <3>1. /\ Follows
          /\ \/ flow = final /\ (flow = EmptyDocument \/ (flow = Built /\ PhasesAt(19)))
             \/ result.flow = None /\ request.refused # None /\ flow = Abandoned
      <4>1. Follows
        BY <2>2 DEF AgentInv, Drawing
      <4>2. \/ state.flow = None /\ flow = EmptyDocument
            \/ state.flow = Built /\ flow = Built /\ PhasesAt(19)
            \/ state.flow = None /\ request.refused # None /\ flow = Abandoned
        BY <2>1, <2>2 DEF AgentInv, Drawing
      <4> HIDE DEF Built
      <4> QED
        BY <2>1, <4>1, <4>2, NoneFacts
    <3>2. /\ DOMAIN shown.nodes = NodeIds(flow) /\ shown.edges = flow.edges
          /\ \A n \in NodeIds(flow) : shown.nodes[n] = SnapshotNode(flow, nodeVisuals, n)
      BY <3>1, ShownFacts
    <3>3. ASSUME NEW n \in NodeIds(flow)
          PROVE  shown.nodes[n].node = flow.nodes[n] /\ shown.nodes[n].visual.phase = PhaseOf(n)
      <4>1. shown.nodes[n] = [node |-> flow.nodes[n], visual |-> VisualOf(nodeVisuals, n)]
        BY <3>2 DEF SnapshotNode
      <4> QED
        BY <4>1 DEF PhaseOf
    <3>4. Shows(flow)
      BY <3>2, <3>3 DEF Entries, Shows
    <3>5. ASSUME flow = EmptyDocument \/ (flow = Built /\ PhasesAt(19))
          PROVE  \A n \in DOMAIN shown.nodes : shown.nodes[n].visual.phase \in {"ready", "connected"}
      <4>1. \A n \in NodeIds(flow) : PhaseOf(n) \in {"ready", "connected"}
        BY <3>5, DraftDocuments DEF PhasesAt
      <4> QED
        BY <3>2, <3>3, <4>1
    <3> HIDE DEF final
    <3> QED
      BY <3>1, <3>4, <3>5
  <2> HIDE DEF Built
  <2> QED
    BY <2>1, <2>2 DEF StreamEndsWithResult
<1> QED
  BY <1>1, AgentInvariant, PTL

\* However many attempts there are, each is drafted with every suggestion of
\* those before it, once and in order, and none is repeated without cause
\* (skills.ts:178-188, agent.ts:77, 123).
THEOREM RetriesAlwaysLearn == AgentSpec => []RetriesLearn
<1>1. AgentInv => RetriesLearn
  <2> SUFFICES ASSUME AgentInv PROVE RetriesLearn
    OBVIOUS
  <2> DEFINE n == Len(attempts)
             all == IF state.iteration > n THEN Append(attempts, state) ELSE attempts
             Good(j) ==
               /\ IsInjective(all[j].drafted)
               /\ \A i \in 1..(j - 1) : Repeated(all[i]) /\ Kept(all[i], all[j])
  <2>1. all \in Seq(Attempts) /\ \A j \in 1..Len(all) : Good(j)
    <3>1. CASE state.iteration > n
      <4>1. /\ all \in Seq(Attempts) /\ Len(all) = n + 1 /\ n \in Nat
            /\ \A i \in 1..n : all[i] = attempts[i]
            /\ all[n + 1] = state
        BY <3>1 DEF AgentInv, AgentTypes
      <4> HIDE DEF all
      <4>2. ASSUME NEW j \in 1..n PROVE Good(j)
        <5>1. \A i \in 1..(j - 1) : i \in 1..n
          BY <4>1
        <5>2. attempts[j] = all[j] /\ \A i \in 1..(j - 1) : attempts[i] = all[i]
          BY <4>1, <5>1
        <5> HIDE DEF n
        <5> QED
          BY <5>2 DEF AgentInv, Learned, n
      <4>3. Good(n + 1)
        <5>1. (n + 1) - 1 = n
          BY <4>1
        <5> QED
          BY <3>1, <4>1, <5>1 DEF AgentInv, Learned
      <4>4. \A j \in 1..(n + 1) : j \in 1..n \/ j = n + 1
        BY <4>1
      <4> HIDE DEF Good, n
      <4> QED
        BY <4>1, <4>2, <4>3, <4>4
    <3>2. CASE ~(state.iteration > n)
      BY <3>2 DEF AgentInv, AgentTypes, Learned
    <3> QED
      BY <3>1, <3>2
  <2> HIDE DEF all
  <2>2. ASSUME NEW j \in 1..Len(all), NEW i \in 1..(j - 1)
        PROVE  IsPrefix(all[i].drafted, all[j].drafted)
    <3>1. i \in 1..Len(all)
      BY <2>1
    <3>2. all[i].drafted \in Seq(Remarks) /\ all[j].drafted \in Seq(Remarks)
      <4>1. \A a \in Attempts : a.drafted \in Seq(Remarks)
        BY DEF Attempts
      <4>2. all[i] \in Attempts /\ all[j] \in Attempts
        BY <2>1, <3>1
      <4> QED
        BY <4>1, <4>2
    <3>3. Starts(all[i].drafted, all[j].drafted)
      BY <2>1 DEF Kept
    <3> QED
      BY <3>2, <3>3, StartsIsPrefix
  <2>3. DOMAIN all = 1..Len(all)
    BY <2>1
  <2>4. ASSUME NEW j \in DOMAIN all
        PROVE  /\ IsInjective(all[j].drafted)
               /\ \A i \in 1..(j - 1) :
                    /\ all[i].validated /\ all[i].valid => all[i].reflection # None
                    /\ all[i].reflection # None =>
                         /\ ~all[i].reflection.satisfied /\ all[i].reflection.suggestions # <<>>
                         /\ ToSet(all[i].reflection.suggestions) \subseteq ToSet(all[j].drafted)
                    /\ IsPrefix(all[i].drafted, all[j].drafted)
    BY <2>1, <2>2, <2>3 DEF Repeated, Kept
  <2> QED
    BY <2>4 DEF RetriesLearn, all
<1> QED
  BY <1>1, AgentInvariant, PTL

-----------------------------------------------------------------------------
(* FlowFeasibility: the blocks for a node *)

LEMMA PlacesFinite ==
  ASSUME NEW S, NEW pool \in Seq(S), NEW places \in SUBSET DOMAIN pool
  PROVE  IsFiniteSet(places) /\ Cardinality(places) \in Nat
         /\ (Cardinality(places) = 0 <=> places = {})
<1>1. DOMAIN pool = 1..Len(pool) /\ Len(pool) \in Nat
  OBVIOUS
<1>2. IsFiniteSet(1..Len(pool))
  BY <1>1, FS_Interval
<1> QED
  BY <1>1, <1>2, FS_Subset, FS_CardinalityType, FS_EmptySet

\* The cardinality FlowFeasibility speaks of is that of this module.
LEMMA FSame ==
  ASSUME NEW T PROVE F!Cardinality(T) = Cardinality(T) /\ F!IsFiniteSet(T) = IsFiniteSet(T)
BY DEF F!Cardinality, Cardinality, F!IsFiniteSet, IsFiniteSet

\* As many blocks are sorted as there are places.
LEMMA SortedNone ==
  ASSUME NEW S, NEW pool \in Seq(S), NEW places \in SUBSET DOMAIN pool, NEW required
  PROVE  /\ F!Sorted(pool, places, required) = <<>> <=> places = {}
         /\ DOMAIN F!Sorted(pool, places, required) = {} <=> places = {}
<1> DEFINE merits == [i \in places |-> F!Merits(pool[i], required)]
           Ahead(i, j) == F!Before(merits[i], merits[j]) \/ (merits[i] = merits[j] /\ i < j)
           rank == [i \in places |-> F!Cardinality({j \in places : Ahead(j, i)})]
           place(n) == CHOOSE i \in places : rank[i] = n - 1
           k == F!Cardinality(places)
<1>1. F!Sorted(pool, places, required) = [n \in 1..k |-> pool[place(n)]]
  BY DEF F!Sorted
<1>2. k \in Nat /\ (k = 0 <=> places = {})
  BY PlacesFinite, FSame
<1> HIDE DEF k, place
<1>3. DOMAIN F!Sorted(pool, places, required) = 1..k
  BY <1>1
<1>4. DOMAIN <<>> = {}
  OBVIOUS
<1>5. k = 0 => 1..k = {}
  BY <1>2
<1>6. k # 0 => 1 \in 1..k
  BY <1>2
<1>7. k = 0 => F!Sorted(pool, places, required) = <<>>
  BY <1>1, <1>5
<1> QED
  BY <1>2, <1>3, <1>4, <1>5, <1>6, <1>7

\* A node is feasible when a block has all it requires or when it is left to
\* the AI block.
LEMMA AnalysisIs ==
  ASSUME NEW S, NEW pool \in Seq(S), NEW node, NEW answer
  PROVE  LET a == F!Analysis(node, pool, answer)
             covered == \E block \in ToSet(pool) : F!Covers(block, node.capabilities)
             ai == \E block \in ToSet(pool) : block.id = "ai-generate"
         IN  /\ a.capabilities = node.capabilities
             /\ a.delegated <=> ~covered /\ ai /\ F!Delegated(node, answer)
             /\ F!Feasible(a) <=> covered \/ a.delegated
<1> DEFINE a == F!Analysis(node, pool, answer)
           required == node.capabilities
           covered == \E block \in ToSet(pool) : F!Covers(block, required)
           ai == \E block \in ToSet(pool) : block.id = "ai-generate"
           places == {i \in F!Matching(pool, required) : F!Covers(pool[i], required)}
           covering == F!Sorted(pool, places, required)
           delegated == covering = <<>> /\ ai /\ F!Delegated(node, answer)
<1>1. places \in SUBSET DOMAIN pool
  BY DEF F!Matching
<1>2. places # {} <=> covered
  BY DEF F!Matching, F!Covers, F!Matched, ToSet
<1>3. /\ a.capabilities = required
      /\ a.delegated = delegated
      /\ a.matched = IF delegated THEN <<"ai-generate">> ELSE [i \in DOMAIN covering |-> covering[i].id]
  BY DEF F!Analysis, F!ToSet, ToSet
<1>4. /\ covering = <<>> <=> ~covered
      /\ DOMAIN covering = {} <=> ~covered
  BY <1>1, <1>2, SortedNone
<1> HIDE DEF covering, covered, ai
<1>5. covered => [i \in DOMAIN covering |-> covering[i].id] # <<>>
  <2>1. DOMAIN [i \in DOMAIN covering |-> covering[i].id] = DOMAIN covering /\ DOMAIN <<>> = {}
    OBVIOUS
  <2> QED
    BY <1>4, <2>1
<1>6. ~covered => [i \in DOMAIN covering |-> covering[i].id] = <<>>
  BY <1>4
<1>7. <<"ai-generate">> # <<>>
  OBVIOUS
<1>8. F!Feasible(a) <=> a.matched # <<>>
  BY DEF F!Feasible
<1> QED
  BY <1>3, <1>4, <1>5, <1>6, <1>7, <1>8 DEF covered, ai

Merit == Int \X Int \X Int \X Int

\* Of merits that are integers, being before is a strict order.
LEMMA BeforeOrders ==
  /\ \A a \in Merit : ~F!Before(a, a)
  /\ \A a, b, c \in Merit : F!Before(a, b) /\ F!Before(b, c) => F!Before(a, c)
  /\ \A a, b \in Merit : a[1] > b[1] => F!Before(a, b)
<1>1. ASSUME NEW a \in Merit, NEW b \in Merit
      PROVE  F!Before(a, b) <=>
               \/ a[1] > b[1]
               \/ a[1] = b[1] /\ a[2] > b[2]
               \/ a[1] = b[1] /\ a[2] = b[2] /\ a[3] > b[3]
               \/ a[1] = b[1] /\ a[2] = b[2] /\ a[3] = b[3] /\ a[4] > b[4]
  <2>1. DOMAIN a = 1..4 /\ 1..4 = {1, 2, 3, 4}
    BY DEF Merit
  <2>2. 1..(1 - 1) = {} /\ 1..(2 - 1) = {1} /\ 1..(3 - 1) = {1, 2} /\ 1..(4 - 1) = {1, 2, 3}
    OBVIOUS
  <2>3. F!Before(a, b) <=>
          \E i \in {1, 2, 3, 4} : a[i] > b[i] /\ \A j \in 1..(i - 1) : a[j] = b[j]
    BY <2>1 DEF F!Before
  <2> QED
    BY <2>2, <2>3, SMTT(30)
<1>2. \A a \in Merit : a[1] \in Int /\ a[2] \in Int /\ a[3] \in Int /\ a[4] \in Int
  BY DEF Merit
<1>3. \A a, b, c \in Merit : F!Before(a, b) /\ F!Before(b, c) => F!Before(a, c)
  <2> TAKE a, b, c \in Merit
  <2> QED
    BY <1>1, <1>2, SMTT(30)
<1> QED
  BY <1>1, <1>2, <1>3

\* The first block sorted is at a place that no other is before.
LEMMA SortedFirst ==
  ASSUME NEW S, NEW pool \in Seq(S), NEW places \in SUBSET DOMAIN pool, places # {}, NEW required,
         \A i \in places : F!Merits(pool[i], required) \in Merit
  PROVE  \E i \in places :
           /\ Head(F!Sorted(pool, places, required)) = pool[i]
           /\ \A j \in places :
                ~F!Before(F!Merits(pool[j], required), F!Merits(pool[i], required))
<1> DEFINE merits == [i \in places |-> F!Merits(pool[i], required)]
           Ahead(i, j) == F!Before(merits[i], merits[j]) \/ (merits[i] = merits[j] /\ i < j)
           rank == [i \in places |-> F!Cardinality({j \in places : Ahead(j, i)})]
           place(n) == CHOOSE i \in places : rank[i] = n - 1
           k == F!Cardinality(places)
<1>1. F!Sorted(pool, places, required) = [n \in 1..k |-> pool[place(n)]]
  BY DEF F!Sorted
<1>2. k \in Nat /\ k # 0
  BY PlacesFinite, FSame
<1>3. Head(F!Sorted(pool, places, required)) = pool[place(1)]
  <2> DEFINE T == {pool[place(n)] : n \in 1..k}
  <2> HIDE DEF k, place
  <2>1. [n \in 1..k |-> pool[place(n)]] \in Seq(T) /\ 1 \in 1..k
    BY <1>2
  <2> QED
    BY <1>1, <1>2, <2>1
<1>4. IsFiniteSet(places) /\ places \subseteq Nat
  BY PlacesFinite
<1> DEFINE Top(m, U) == \A j \in U : ~Ahead(j, m)
           G == {U \in SUBSET places : U = {} \/ \E m \in U : Top(m, U)}
<1>5. merits \in [places -> Merit]
  OBVIOUS
<1> HIDE DEF merits
<1>6. ASSUME NEW U \in G, NEW x \in places PROVE U \cup {x} \in G
  <2>1. ~Ahead(x, x)
    BY <1>4, <1>5, BeforeOrders
  <2>2. CASE U = {}
    BY <2>1, <2>2
  <2>3. CASE U # {}
    <3>1. PICK m \in U : Top(m, U)
      BY <2>3
    <3>2. CASE ~Ahead(x, m)
      BY <3>1, <3>2
    <3>3. CASE Ahead(x, m)
      <4>1. ASSUME NEW j \in U, Ahead(j, x) PROVE FALSE
        <5>1. merits[j] \in Merit /\ merits[x] \in Merit /\ merits[m] \in Merit
          BY <1>5
        <5>2. j \in Nat /\ x \in Nat /\ m \in Nat
          BY <1>4
        <5>3. Ahead(j, m)
          BY <3>3, <4>1, <5>1, <5>2, BeforeOrders
        <5> QED
          BY <3>1, <5>3
      <4> QED
        BY <2>1, <4>1
    <3> QED
      BY <3>2, <3>3
  <2> QED
    BY <2>2, <2>3
<1>7. places \in G
  <2>1. G \in SUBSET SUBSET places /\ {} \in G
    OBVIOUS
  <2> HIDE DEF G
  <2> QED
    BY <1>4, <1>6, <2>1, Finitely
<1>8. PICK m \in places : Top(m, places)
  BY <1>7
<1>9. \A i \in places : rank[i] = 0 <=> Top(i, places)
  <2> SUFFICES ASSUME NEW i \in places PROVE rank[i] = 0 <=> Top(i, places)
    OBVIOUS
  <2> DEFINE ahead == {j \in places : Ahead(j, i)}
  <2>1. IsFiniteSet(ahead) /\ rank[i] = Cardinality(ahead)
    BY <1>4, FS_Subset, FSame
  <2>2. ahead = {} <=> Top(i, places)
    OBVIOUS
  <2> HIDE DEF ahead, rank
  <2> QED
    BY <2>1, <2>2, FS_EmptySet
<1>10. place(1) \in places /\ rank[place(1)] = 0
  <2>1. rank[m] = 1 - 1
    BY <1>8, <1>9
  <2> HIDE DEF rank
  <2>2. place(1) \in places /\ rank[place(1)] = 1 - 1
    BY <2>1
  <2> QED
    BY <2>2
<1>11. Top(place(1), places)
  <2> HIDE DEF place, rank
  <2> QED
    BY <1>9, <1>10
<1>12. place(1) \in places /\ Head(F!Sorted(pool, places, required)) = pool[place(1)]
      /\ \A j \in places : ~F!Before(F!Merits(pool[j], required), F!Merits(pool[place(1)], required))
  <2> HIDE DEF place
  <2> QED
    BY <1>3, <1>10, <1>11 DEF merits
<1> HIDE DEF place
<1> QED
  BY <1>12

LEMMA MeritsAreIntegers ==
  ASSUME NEW block, NEW required, IsFiniteSet(required)
  PROVE  /\ F!Merits(block, required) \in Merit
         /\ F!Merits(block, required)[1] = IF F!Covers(block, required) THEN 1 ELSE 0
<1> DEFINE InList(list, W) == {j \in DOMAIN list : \E i \in 1..j : list[i] \in W}
<1>1. ASSUME NEW n \in Nat, NEW list, DOMAIN list = 1..n, NEW W
      PROVE  F!Priority(W, list) \in Nat
  <2>1. IsFiniteSet(1..n)
    BY FS_Interval
  <2>2. IsFiniteSet(InList(list, W))
    BY <1>1, <2>1, FS_Subset
  <2>3. Cardinality(InList(list, W)) \in Nat
    BY <2>2, FS_CardinalityType
  <2>4. F!Priority(W, list) = F!Cardinality(InList(list, W))
    BY DEF F!Priority
  <2> QED
    BY <2>3, <2>4, FSame
<1>2. DOMAIN F!CategoryPriority = 1..4 /\ DOMAIN F!BlockPriority = 1..5
  BY DEF F!CategoryPriority, F!BlockPriority
<1>3. F!Matched(block, required) \in SUBSET required
  BY DEF F!Matched
<1>4. F!Cardinality(F!Matched(block, required)) \in Nat
  BY <1>3, FS_Subset, FS_CardinalityType, FSame
<1>5. /\ F!Priority({F!Category(c) : c \in F!Matched(block, required)}, F!CategoryPriority) \in Nat
      /\ F!Priority({block.id}, F!BlockPriority) \in Nat
  BY <1>1, <1>2
<1> QED
  BY <1>4, <1>5 DEF F!Merits, Merit

\* The best candidate has all that is required if any block has.
LEMMA BestCandidateCovers ==
  ASSUME NEW S, NEW pool \in Seq(S), NEW required, IsFiniteSet(required),
         \E block \in ToSet(pool) : F!Covers(block, required)
  PROVE  F!Covers(Head(F!Candidates(pool, required)), required)
<1> DEFINE places == F!Matching(pool, required)
<1>1. places \in SUBSET DOMAIN pool
  BY DEF F!Matching
<1>2. PICK i \in DOMAIN pool : F!Covers(pool[i], required)
  BY DEF ToSet
<1>3. i \in places
  BY <1>2 DEF F!Matching, F!Covers, F!Matched
<1>4. \A p \in places : F!Merits(pool[p], required) \in Merit
  BY MeritsAreIntegers
<1>5. F!Candidates(pool, required) = F!Sorted(pool, places, required)
  BY DEF F!Candidates
<1> HIDE DEF places
<1>6. PICK p \in places :
        /\ Head(F!Candidates(pool, required)) = pool[p]
        /\ \A j \in places : ~F!Before(F!Merits(pool[j], required), F!Merits(pool[p], required))
  BY <1>1, <1>3, <1>4, <1>5, SortedFirst
<1>7. ~(F!Merits(pool[i], required)[1] > F!Merits(pool[p], required)[1])
  BY <1>3, <1>4, <1>6, BeforeOrders
<1>8. F!Merits(pool[i], required)[1] = 1
  BY <1>2, MeritsAreIntegers
<1>9. F!Merits(pool[p], required)[1] = IF F!Covers(pool[p], required) THEN 1 ELSE 0
  BY MeritsAreIntegers
<1> QED
  BY <1>6, <1>7, <1>8, <1>9

-----------------------------------------------------------------------------
(* The assessment of a task graph *)

Covered(pool, node) == \E block \in ToSet(pool) : F!Covers(block, node.capabilities)
HasAi(pool) == \E block \in ToSet(pool) : block.id = "ai-generate"
Served(pool, node, answer) == Covered(pool, node) \/ (HasAi(pool) /\ F!Delegated(node, answer))

LEMMA AssessedIs ==
  ASSUME NEW S, NEW pool \in Seq(S), NEW graph, NEW answers
  PROVE  LET lacking == {i \in DOMAIN graph : ~Served(pool, graph[i], answers[i])}
             judged == F!Assessed(graph, pool, answers)
         IN  /\ judged.feasible <=> lacking = {}
             /\ judged.missing = UNION {graph[i].capabilities : i \in lacking}
             /\ judged.proposed = {[node |-> i, capabilities |-> graph[i].capabilities] : i \in lacking}
             /\ \A i \in lacking : graph[i].capabilities \subseteq judged.missing
<1> DEFINE lacking == {i \in DOMAIN graph : ~Served(pool, graph[i], answers[i])}
           judged == F!Assessed(graph, pool, answers)
           analyses == [i \in DOMAIN graph |-> F!Analysis(graph[i], pool, answers[i])]
           unavailable == F!Unavailable(graph, pool, analyses)
           infeasible == {a \in F!ToSet(analyses) : ~F!Feasible(a)}
<1>1. /\ judged.feasible = (unavailable = {} /\ infeasible = {})
      /\ judged.missing = unavailable \cup UNION {a.capabilities : a \in infeasible}
      /\ judged.proposed = F!Proposed(analyses)
  BY DEF F!Assessed
<1>2. \A T : F!ToSet(T) = ToSet(T)
  BY DEF F!ToSet, ToSet
<1>3. \A i \in DOMAIN graph :
        /\ analyses[i].capabilities = graph[i].capabilities
        /\ analyses[i].delegated => F!Feasible(analyses[i])
        /\ F!Feasible(analyses[i]) <=> i \notin lacking
        /\ i \notin lacking => Covered(pool, graph[i]) \/ analyses[i].delegated
  BY AnalysisIs DEF Served, Covered, HasAi
<1>4. DOMAIN analyses = DOMAIN graph
  OBVIOUS
<1> HIDE DEF analyses, lacking
<1>5. infeasible = {analyses[i] : i \in lacking}
  BY <1>2, <1>3, <1>4 DEF ToSet, lacking
<1>6. lacking \subseteq DOMAIN graph
  BY DEF lacking
<1>7. UNION {a.capabilities : a \in infeasible} = UNION {graph[i].capabilities : i \in lacking}
  BY <1>3, <1>5, <1>6
<1>8. infeasible = {} <=> lacking = {}
  BY <1>5
<1>9. unavailable \subseteq UNION {graph[i].capabilities : i \in lacking}
  <2> SUFFICES ASSUME NEW c \in unavailable PROVE \E i \in lacking : c \in graph[i].capabilities
    OBVIOUS
  <2>1. PICK i \in DOMAIN graph : c \in graph[i].capabilities
    BY <1>2 DEF F!Unavailable, F!Required, ToSet
  <2>2. c \notin F!Available(pool)
    BY DEF F!Unavailable
  <2>3. ~Covered(pool, graph[i])
    BY <1>2, <2>1, <2>2 DEF Covered, F!Covers, F!Available
  <2>4. ~analyses[i].delegated
    BY <1>2, <1>3, <1>4, <2>1 DEF F!Unavailable, ToSet
  <2> QED
    BY <1>3, <2>1, <2>3, <2>4
<1>10. judged.proposed = {[node |-> i, capabilities |-> graph[i].capabilities] : i \in lacking}
  <2>1. {i \in DOMAIN analyses : ~F!Feasible(analyses[i])} = lacking
    BY <1>3, <1>4, <1>6
  <2>2. judged.proposed = {[node |-> i, capabilities |-> analyses[i].capabilities] : i \in lacking}
    BY <1>1, <2>1 DEF F!Proposed
  <2> QED
    BY <1>3, <1>6, <2>2
<1>11. lacking = {} => unavailable = {}
  BY <1>9
<1> HIDE DEF infeasible, unavailable, judged
<1>12. judged.missing = UNION {graph[i].capabilities : i \in lacking}
  BY <1>1, <1>7, <1>9
<1>13. judged.feasible <=> lacking = {}
  BY <1>1, <1>8, <1>11
<1>14. \A i \in lacking : graph[i].capabilities \subseteq judged.missing
  BY <1>12
<1> QED
  BY <1>10, <1>12, <1>13, <1>14 DEF lacking, judged

\* The list of a finite set has all its members.
LEMMA ListOfSet ==
  ASSUME NEW T, IsFiniteSet(T)
  PROVE  /\ SetToSeq(T) \in Seq(T)
         /\ \A x \in T : \E n \in DOMAIN SetToSeq(T) : SetToSeq(T)[n] = x
<1> DEFINE k == Cardinality(T)
           Is(f) == f \in [1..k -> T] /\ IsInjective(f)
<1>1. k \in Nat
  BY FS_CardinalityType
<1>2. PICK f : f \in Bijection(1..k, T)
  BY FS_CardinalityType DEF ExistsBijection
<1>3. Is(f)
  BY <1>2 DEF Bijection, Injection, IsInjective
<1>4. SetToSeq(T) = CHOOSE g \in [1..k -> T] : IsInjective(g)
  BY DEF SetToSeq
<1> DEFINE list == SetToSeq(T)
<1>5. Is(list)
  BY <1>3, <1>4
<1> HIDE DEF list, k
<1>6. list \in Injection(1..k, T)
  BY <1>5 DEF Injection
<1>7. IsFiniteSet(1..k) /\ Cardinality(1..k) = k
  BY <1>1, FS_Interval
<1>8. list \in Surjection(1..k, T)
  BY <1>6, <1>7, FS_Injection DEF k
<1>9. list \in Seq(T) /\ DOMAIN list = 1..k
  BY <1>1, <1>5
<1> QED
  BY <1>8, <1>9 DEF Surjection, list

LEMMA BlocksThereAre ==
  /\ F!BlockPool \in Seq(ToSet(F!BlockPool))
  /\ HasAi(F!BlockPool)
  /\ ToSet(F!BlockPool) =
       {F!Block("text-input", {"text-input"}), F!Block("json-input", {"json-input"}),
        F!Block("input", {"text-input"}), F!Block("buffer", {"delay"}),
        F!Block("view", {"view-log", "text-output"}),
        F!Block("ai-generate", {"ai-generation", "structured-output", "text-output"})}
  /\ \A node : Covered(F!BlockPool, node) <=>
       \E W \in {{"text-input"}, {"json-input"}, {"delay"}, {"view-log", "text-output"},
                 {"ai-generation", "structured-output", "text-output"}} : node.capabilities \subseteq W
<1>1. /\ DOMAIN F!BlockPool = 1..6
      /\ F!BlockPool[1] = F!Block("text-input", {"text-input"})
      /\ F!BlockPool[2] = F!Block("json-input", {"json-input"})
      /\ F!BlockPool[3] = F!Block("input", {"text-input"})
      /\ F!BlockPool[4] = F!Block("buffer", {"delay"})
      /\ F!BlockPool[5] = F!Block("view", {"view-log", "text-output"})
      /\ F!BlockPool[6] = F!Block("ai-generate", {"ai-generation", "structured-output", "text-output"})
  BY DEF F!BlockPool
<1>2. 1..6 = {1, 2, 3, 4, 5, 6}
  OBVIOUS
<1>3. ToSet(F!BlockPool) =
       {F!Block("text-input", {"text-input"}), F!Block("json-input", {"json-input"}),
        F!Block("input", {"text-input"}), F!Block("buffer", {"delay"}),
        F!Block("view", {"view-log", "text-output"}),
        F!Block("ai-generate", {"ai-generation", "structured-output", "text-output"})}
  <2>1. ToSet(F!BlockPool) = {F!BlockPool[i] : i \in {1, 2, 3, 4, 5, 6}}
    BY <1>1, <1>2 DEF ToSet
  <2>2. {F!BlockPool[i] : i \in {1, 2, 3, 4, 5, 6}} =
          {F!BlockPool[1], F!BlockPool[2], F!BlockPool[3], F!BlockPool[4], F!BlockPool[5], F!BlockPool[6]}
    OBVIOUS
  <2> QED
    BY <1>1, <2>1, <2>2
<1>4. F!BlockPool \in Seq(ToSet(F!BlockPool))
  <2>1. F!BlockPool \in [1..6 -> ToSet(F!BlockPool)]
    BY <1>1 DEF ToSet, F!BlockPool
  <2>2. \A n \in Nat : \A T : \A f \in [1..n -> T] : f \in Seq(T)
    OBVIOUS
  <2> QED
    BY <2>1, <2>2
<1>5. \A id, W : F!Block(id, W).id = id /\ F!Block(id, W).capabilities = W
  BY DEF F!Block
<1>6. HasAi(F!BlockPool)
  BY <1>3, <1>5 DEF HasAi
<1>7. ASSUME NEW node
      PROVE  Covered(F!BlockPool, node) <=>
               \E W \in {{"text-input"}, {"json-input"}, {"delay"}, {"view-log", "text-output"},
                         {"ai-generation", "structured-output", "text-output"}} :
                 node.capabilities \subseteq W
  BY <1>3, <1>5 DEF Covered, F!Covers
<1> QED
  BY <1>3, <1>4, <1>6, <1>7

\* With a block for each node that lacks one a graph is feasible.
LEMMA ProposalsAreEnough ==
  ASSUME NEW graph, NEW answers, IsFiniteSet(DOMAIN graph)
  PROVE  LET proposals == SetToSeq(F!Assessed(graph, F!BlockPool, answers).proposed)
             added == [i \in DOMAIN proposals |-> F!Block("proposed", proposals[i].capabilities)]
         IN  F!Assessed(graph, F!BlockPool \o added, answers).feasible
<1> DEFINE lacking == {i \in DOMAIN graph : ~Served(F!BlockPool, graph[i], answers[i])}
           Proposal(i) == [node |-> i, capabilities |-> graph[i].capabilities]
           proposed == F!Assessed(graph, F!BlockPool, answers).proposed
           proposals == SetToSeq(proposed)
           added == [i \in DOMAIN proposals |-> F!Block("proposed", proposals[i].capabilities)]
           pool == F!BlockPool \o added
           S == ToSet(F!BlockPool) \cup ToSet(added)
<1>1. proposed = {Proposal(i) : i \in lacking}
  BY BlocksThereAre, AssessedIs
<1>2. IsFiniteSet(proposed)
  <2>1. IsFiniteSet(lacking)
    BY FS_Subset
  <2> DEFINE f == [i \in lacking |-> Proposal(i)]
  <2>2. f \in Surjection(lacking, proposed)
    <3> HIDE DEF lacking, proposed
    <3> QED
      BY <1>1 DEF Surjection
  <2> HIDE DEF f, proposed, lacking
  <2> QED
    BY <2>1, <2>2, FS_Surjection
<1>3. /\ proposals \in Seq(proposed)
      /\ \A x \in proposed : \E n \in DOMAIN proposals : proposals[n] = x
  <2> HIDE DEF proposed
  <2> QED
    BY <1>2, ListOfSet
<1> HIDE DEF proposals, proposed, lacking
<1>4. added \in Seq(ToSet(added)) /\ DOMAIN added = DOMAIN proposals
  <2>1. DOMAIN added = 1..Len(proposals) /\ Len(proposals) \in Nat /\ DOMAIN added = DOMAIN proposals
    BY <1>3
  <2>2. added \in [1..Len(proposals) -> ToSet(added)]
    BY <2>1 DEF ToSet
  <2> QED
    BY <2>1, <2>2
<1>5. /\ pool \in Seq(S)
      /\ \A b \in ToSet(F!BlockPool) \cup ToSet(added) : b \in ToSet(pool)
  <2> HIDE DEF added
  <2> DEFINE T == S
  <2>0. F!BlockPool \in Seq(T) /\ added \in Seq(T)
    <3>1. \A U, V, W : U \subseteq W /\ V \in Seq(U) => V \in Seq(W)
      OBVIOUS
    <3> QED
      BY <1>4, BlocksThereAre
  <2> HIDE DEF T
  <2>1. pool \in Seq(T)
    BY <2>0
  <2>2. ASSUME NEW i \in DOMAIN F!BlockPool PROVE F!BlockPool[i] \in ToSet(pool)
    <3>1. i \in DOMAIN pool /\ pool[i] = F!BlockPool[i]
      BY <2>0
    <3> QED
      BY <3>1 DEF ToSet
  <2>3. ASSUME NEW i \in DOMAIN added PROVE added[i] \in ToSet(pool)
    <3> DEFINE n == Len(F!BlockPool) + i
    <3>1. n \in DOMAIN pool /\ pool[n] = added[i]
      BY <2>0
    <3> HIDE DEF n
    <3> QED
      BY <3>1 DEF ToSet
  <2> QED
    BY <2>1, <2>2, <2>3 DEF T, ToSet
<1>6. ASSUME NEW i \in DOMAIN graph PROVE Served(pool, graph[i], answers[i])
  <2>1. CASE Served(F!BlockPool, graph[i], answers[i])
    <3> HIDE DEF pool
    <3> QED
      BY <1>5, <2>1 DEF Served, Covered, HasAi
  <2>2. CASE ~Served(F!BlockPool, graph[i], answers[i])
    <3>1. Proposal(i) \in proposed
      BY <1>1, <2>2 DEF lacking
    <3>2. PICK n \in DOMAIN proposals : proposals[n] = Proposal(i)
      BY <1>3, <3>1
    <3>3. added[n] = F!Block("proposed", graph[i].capabilities) /\ added[n] \in ToSet(added)
      BY <3>2 DEF ToSet
    <3>4. F!Covers(added[n], graph[i].capabilities)
      BY <3>3 DEF F!Covers, F!Block
    <3> HIDE DEF pool, added
    <3> QED
      BY <1>5, <3>3, <3>4 DEF Served, Covered
  <2> QED
    BY <2>1, <2>2
<1> HIDE DEF pool, S
<1> DEFINE unserved == {i \in DOMAIN graph : ~Served(pool, graph[i], answers[i])}
<1>7. F!Assessed(graph, pool, answers).feasible <=> unserved = {}
  BY <1>5, AssessedIs
<1>8. F!Assessed(graph, pool, answers).feasible
  BY <1>6, <1>7
<1> QED
  BY <1>8 DEF pool, proposals, proposed

\* Refining adds one capability to nodes that generate.
LEMMA RefinedIs ==
  ASSUME NEW graph, graph \in [DOMAIN graph -> TaskNodes]
  PROVE  LET refined == F!Refined(graph, TRUE)
         IN  /\ DOMAIN refined = DOMAIN graph
             /\ \A i \in DOMAIN graph :
                  /\ refined[i].operation = graph[i].operation
                  /\ refined[i].capabilities =
                       graph[i].capabilities
                         \cup IF graph[i].operation = "generate" THEN {"structured-output"} ELSE {}
             /\ F!Refined(refined, TRUE) = refined
<1> DEFINE More(node) == IF node.operation = "generate" THEN {"structured-output"} ELSE {}
           refined == F!Refined(graph, TRUE)
<1>1. ASSUME NEW g, \A i \in DOMAIN g : g[i] = F!Node(g[i].operation, g[i].capabilities)
      PROVE  F!Refined(g, TRUE) =
               [i \in DOMAIN g |-> F!Node(g[i].operation, g[i].capabilities \cup More(g[i]))]
  <2>0. \A o, c, d : [F!Node(o, c) EXCEPT !.capabilities = d] = F!Node(o, d)
    BY DEF F!Node
  <2>1. \A i \in DOMAIN g :
          [g[i] EXCEPT !.capabilities = g[i].capabilities \cup More(g[i])]
            = F!Node(g[i].operation, g[i].capabilities \cup More(g[i]))
    <3> SUFFICES ASSUME NEW i \in DOMAIN g
                 PROVE  [g[i] EXCEPT !.capabilities = g[i].capabilities \cup More(g[i])]
                          = F!Node(g[i].operation, g[i].capabilities \cup More(g[i]))
      OBVIOUS
    <3> DEFINE o == g[i].operation
               c == g[i].capabilities
               d == c \cup More(g[i])
    <3>1. g[i] = F!Node(o, c)
      BY <1>1
    <3> HIDE DEF o, c, d
    <3>2. [g[i] EXCEPT !.capabilities = d] = F!Node(o, d)
      BY <2>0, <3>1
    <3> QED
      BY <3>2 DEF o, c, d
  <2>2. \A i \in DOMAIN g : More(g[i]) = IF TRUE /\ g[i].operation = "generate" THEN {"structured-output"} ELSE {}
    OBVIOUS
  <2> QED
    BY <2>1, <2>2 DEF F!Refined
<1>2. \A i \in DOMAIN graph : graph[i] = F!Node(graph[i].operation, graph[i].capabilities)
  BY TaskNodesAssumption
<1>3. refined = [i \in DOMAIN graph |->
                   F!Node(graph[i].operation, graph[i].capabilities \cup More(graph[i]))]
  BY <1>1, <1>2
<1>4. \A operation, capabilities : /\ F!Node(operation, capabilities).operation = operation
                                   /\ F!Node(operation, capabilities).capabilities = capabilities
  BY DEF F!Node
<1> HIDE DEF refined
<1>5. /\ DOMAIN refined = DOMAIN graph
      /\ \A i \in DOMAIN graph :
           /\ refined[i].operation = graph[i].operation
           /\ refined[i].capabilities = graph[i].capabilities \cup More(graph[i])
           /\ refined[i] = F!Node(refined[i].operation, refined[i].capabilities)
  BY <1>3, <1>4
<1>6. F!Refined(refined, TRUE) =
        [i \in DOMAIN graph |-> F!Node(refined[i].operation, refined[i].capabilities \cup More(refined[i]))]
  BY <1>1, <1>5
<1>7. \A i \in DOMAIN graph : refined[i].capabilities \cup More(refined[i]) = refined[i].capabilities
  BY <1>5
<1>8. F!Refined(refined, TRUE) = [i \in DOMAIN graph |-> refined[i]]
  BY <1>5, <1>6, <1>7
<1>9. F!Refined(refined, TRUE) = refined
  BY <1>3, <1>8
<1> QED
  BY <1>5, <1>9 DEF refined

\* Refining never lets a node be served, and with the deterministic answer
\* it takes nothing away either.
LEMMA RefinedServes ==
  ASSUME NEW node, NEW more, NEW answer,
         more.operation = node.operation,
         more.capabilities = node.capabilities
           \cup IF node.operation = "generate" THEN {"structured-output"} ELSE {}
  PROVE  /\ Served(F!BlockPool, more, answer) => Served(F!BlockPool, node, answer)
         /\ Served(F!BlockPool, node, "none") => Served(F!BlockPool, more, "none")
<1> DEFINE pool == F!BlockPool
<1>1. Covered(pool, more) => Covered(pool, node)
  BY DEF Covered, F!Covers
<1>2. HasAi(pool)
  BY BlocksThereAre
<1>3. node.capabilities = {} => Covered(pool, node)
  BY BlocksThereAre
<1>4. Covered(pool, node) => node.capabilities \cap F!External = {}
  BY BlocksThereAre DEF F!External
<1>5. "structured-output" \notin F!External
  BY DEF F!External
<1>6. F!Delegable(more) => F!Delegable(node) \/ Covered(pool, node)
  BY <1>3 DEF F!Delegable
<1>7. F!Delegable(node) => F!Delegable(more)
  BY <1>5 DEF F!Delegable, F!AiFriendly
<1>8. Covered(pool, node) => Covered(pool, more) \/ F!Delegable(more)
  <2>1. CASE node.operation = "generate"
    BY <1>4, <1>5, <2>1 DEF F!Delegable, F!AiFriendly
  <2>2. CASE node.operation # "generate"
    BY <2>2 DEF Covered, F!Covers
  <2> QED
    BY <2>1, <2>2
<1> QED
  BY <1>1, <1>2, <1>6, <1>7, <1>8 DEF Served, F!Delegated

\* The first part of FeasibilityIsHonest.
LEMMA GraphsJudged ==
  ASSUME NEW graph, NEW answers, graph \in [DOMAIN graph -> TaskNodes], IsFiniteSet(DOMAIN graph)
  PROVE  GraphsAreJudged(graph, answers)
<1> DEFINE pool == F!BlockPool
           judged == F!Assessed(graph, pool, answers)
           covered(i) == \E block \in ToSet(pool) : F!Covers(block, graph[i].capabilities)
           lacking == {i \in DOMAIN graph : ~covered(i) /\ ~F!Delegated(graph[i], answers[i])}
           Unserved(g, a) == {i \in DOMAIN g : ~Served(pool, g[i], a[i])}
           best(i) == Head(F!Candidates(pool, graph[i].capabilities))
           refined == F!Refined(graph, TRUE)
           alone == [i \in DOMAIN graph |-> "none"]
<1>1. \A g, a : /\ F!Assessed(g, pool, a).feasible <=> Unserved(g, a) = {}
                /\ F!Assessed(g, pool, a).missing = UNION {g[i].capabilities : i \in Unserved(g, a)}
                /\ F!Assessed(g, pool, a).proposed =
                     {[node |-> i, capabilities |-> g[i].capabilities] : i \in Unserved(g, a)}
  BY BlocksThereAre, AssessedIs
<1>2. Unserved(graph, answers) = lacking
  BY BlocksThereAre DEF Served, Covered
<1>3. ASSUME ~judged.feasible PROVE ~F!Recomputes(judged)
  <2>1. PICK i \in lacking : TRUE
    BY <1>1, <1>2, <1>3
  <2>2. graph[i].capabilities # {}
    BY <2>1, BlocksThereAre DEF Covered
  <2>3. judged.missing = UNION {graph[n].capabilities : n \in lacking}
    BY <1>1, <1>2
  <2>4. judged.missing # {}
    <3> HIDE DEF judged, lacking
    <3> QED
      BY <2>1, <2>2, <2>3
  <2> QED
    BY <2>4 DEF F!Recomputes
<1>4. {p.node : p \in judged.proposed} = lacking
  <2> DEFINE Proposal(i) == [node |-> i, capabilities |-> graph[i].capabilities]
  <2>1. judged.proposed = {Proposal(i) : i \in lacking}
    BY <1>1, <1>2
  <2>2. \A i : Proposal(i).node = i
    OBVIOUS
  <2> HIDE DEF judged, lacking, Proposal
  <2> QED
    BY <2>1, <2>2
<1>5. \A i \in DOMAIN graph : covered(i) => F!Covers(best(i), graph[i].capabilities)
  BY TaskNodesAssumption, BlocksThereAre, BestCandidateCovers
<1>6. LET proposals == SetToSeq(judged.proposed)
          added == [i \in DOMAIN proposals |-> F!Block("proposed", proposals[i].capabilities)]
      IN  F!Assessed(graph, pool \o added, answers).feasible
  BY ProposalsAreEnough
<1>7. /\ DOMAIN refined = DOMAIN graph
      /\ F!Refined(refined, TRUE) = refined
      /\ \A i \in DOMAIN graph :
           /\ refined[i].operation = graph[i].operation
           /\ refined[i].capabilities =
                graph[i].capabilities
                  \cup IF graph[i].operation = "generate" THEN {"structured-output"} ELSE {}
  BY RefinedIs
<1>8. \A i \in DOMAIN graph :
        /\ Served(pool, refined[i], answers[i]) => Served(pool, graph[i], answers[i])
        /\ Served(pool, refined[i], "none") => Served(pool, graph[i], "none")
        /\ Served(pool, graph[i], "none") => Served(pool, refined[i], "none")
  BY <1>7, RefinedServes
<1> HIDE DEF refined, pool
<1>9. F!Assessed(refined, pool, answers).feasible => judged.feasible
  BY <1>1, <1>7, <1>8
<1>10. F!Assessed(refined, pool, alone).feasible <=> F!Assessed(graph, pool, alone).feasible
  BY <1>1, <1>7, <1>8
<1>11. (judged.feasible <=> lacking = {}) /\ judged.missing = UNION {graph[i].capabilities : i \in lacking}
  BY <1>1, <1>2
<1> HIDE DEF lacking, judged, alone
<1> QED
  BY <1>3, <1>4, <1>5, <1>6, <1>7, <1>9, <1>10, <1>11 DEF GraphsAreJudged, refined, pool, lacking, judged, alone

-----------------------------------------------------------------------------
(* FeasibilityIsHonest *)

\* The inductive invariant: the graph is made of the nodes there are, and of
\* a request the only contract used is the one remembered.
JudgedInv ==
  /\ tasks \in Seq([node : TaskNodes, answer : {"none", "yes", "no"}])
  /\ \A wish \in asked :
       \/ wish.used = {}
       \/ /\ wish.remembered = [r \in {"request"} |-> wish.remembered["request"]]
          /\ wish.used = {wish.remembered["request"]}

LEMMA JudgedInvInit == JudgedInit => JudgedInv
BY DEF JudgedInit, JudgedInv

LEMMA JudgedInvNext == JudgedInv /\ [TaskNext \/ AskNext]_judgedVars => JudgedInv'
<1> SUFFICES ASSUME JudgedInv, [TaskNext \/ AskNext]_judgedVars PROVE JudgedInv'
  OBVIOUS
<1> USE DEF JudgedInv
<1>1. ASSUME NEW node \in TaskNodes, NEW answer \in {"none", "yes", "no"}, AddTask(node, answer)
      PROVE  JudgedInv'
  BY <1>1 DEF AddTask
<1>2. ASSUME NEW mentions \in Mentioned, AskFor(mentions)
      PROVE  JudgedInv'
  BY <1>2 DEF AskFor
<1>3. ASSUME NEW wish \in asked, NEW word \in SignalWords, AddSignal(wish, word)
      PROVE  JudgedInv'
  BY <1>3 DEF AddSignal
<1>4. ASSUME NEW wish \in asked, NEW recommended, AskContract(wish, recommended)
      PROVE  JudgedInv'
  <2> DEFINE contract == F!Recalled(wish.remembered, "request", recommended)
             answered == [wish EXCEPT !.remembered = [r \in {"request"} |-> contract],
                                         !.used = @ \cup {contract}]
  <2>1. asked' = {answered} /\ tasks' = tasks
    BY <1>4 DEF AskContract
  <2>2. wish.used = {} \/ wish.used = {contract}
    BY DEF F!Recalled
  <2> HIDE DEF contract
  <2>3. answered.remembered = [r \in {"request"} |-> contract] /\ answered.used = {contract}
    BY <2>2
  <2>4. answered.remembered["request"] = contract
    BY <2>3
  <2> HIDE DEF answered
  <2> QED
    BY <2>1, <2>3, <2>4
<1>5. CASE UNCHANGED judgedVars
  BY <1>5 DEF judgedVars
<1> QED
  BY <1>1, <1>2, <1>3, <1>4, <1>5 DEF TaskNext, AskNext

LEMMA JudgedInvHonest == JudgedInv => FeasibilityIsHonest
<1> SUFFICES ASSUME JudgedInv PROVE FeasibilityIsHonest
  OBVIOUS
<1>1. GraphsAreJudged([i \in DOMAIN tasks |-> tasks[i].node], [i \in DOMAIN tasks |-> tasks[i].answer])
  <2> DEFINE graph == [i \in DOMAIN tasks |-> tasks[i].node]
  <2>1. DOMAIN graph = 1..Len(tasks) /\ Len(tasks) \in Nat
    BY DEF JudgedInv
  <2>2. graph \in [DOMAIN graph -> TaskNodes]
    <3> DEFINE Tasks == [node : TaskNodes, answer : {"none", "yes", "no"}]
    <3>1. tasks \in Seq(Tasks)
      BY DEF JudgedInv
    <3>2. \A task \in Tasks : task.node \in TaskNodes
      OBVIOUS
    <3> HIDE DEF Tasks
    <3>3. \A i \in DOMAIN tasks : tasks[i] \in Tasks
      BY <3>1
    <3> QED
      BY <3>2, <3>3
  <2>3. IsFiniteSet(DOMAIN graph)
    BY <2>1, FS_Interval
  <2> HIDE DEF graph
  <2>4. GraphsAreJudged(graph, [i \in DOMAIN tasks |-> tasks[i].answer])
    BY <2>2, <2>3, GraphsJudged
  <2> QED
    BY <2>4 DEF graph
<1>2. ASSUME NEW wish \in asked PROVE Cardinality(wish.used) <= 1
  <2>1. wish.used = {} \/ wish.used = {wish.remembered["request"]}
    BY DEF JudgedInv
  <2>2. \A x : Cardinality({x}) = 1
    BY FS_Singleton
  <2>3. Cardinality({}) = 0
    BY FS_EmptySet
  <2>4. 0 <= 1 /\ 1 <= 1
    OBVIOUS
  <2> QED
    BY <2>1, <2>2, <2>3, <2>4, Zenon
<1> QED
  BY <1>1, <1>2 DEF FeasibilityIsHonest

(***************************************************************************)
(* A task graph is found infeasible only for what no block offers and      *)
(* nobody left to the AI block, the verdict names all of it and proposes   *)
(* enough, and refining keeps it: assessTaskGraphFeasibility and           *)
(* refineTaskGraph (design/analysis.ts), for task graphs of any size over  *)
(* any nodes and any answers on delegation.  A request has one contract,   *)
(* whichever advisors are asked for it, and however often.                 *)
(***************************************************************************)
THEOREM FeasibilityStaysHonest == JudgedSpec => []FeasibilityIsHonest
<1>1. JudgedInit => JudgedInv
  BY JudgedInvInit
<1>2. JudgedInv /\ [TaskNext \/ AskNext]_judgedVars => JudgedInv'
  BY JudgedInvNext
<1>3. JudgedInv => FeasibilityIsHonest
  BY JudgedInvHonest
<1> QED
  BY <1>1, <1>2, <1>3, PTL DEF JudgedSpec
=============================================================================
