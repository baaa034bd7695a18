--------------------------- MODULE FlowSampleRun ----------------------------
(***************************************************************************)
(* The sample run of a flow: executeFlowDesignSample of                    *)
(* src/src/flow/design/core.ts with the executable nodes of                *)
(* src/src/flow/runtime.ts and the graph engine at concurrency one.        *)
(*                                                                         *)
(* A document is built (nodes, connections, packets in any order), then    *)
(* its nodes run.  A node gets the document as it is when it starts and    *)
(* returns a new one, which replaces the current one when it ends.  The    *)
(* engine appears by what GraphExecutor shows of it: a component starts    *)
(* after those it depends on, its nodes run one by one in id order, and a  *)
(* failure ends the run.                                                   *)
(***************************************************************************)
EXTENDS FlowDocument

CONSTANTS
  Kind,       \* for each block the runtime class the factory has for it
  Rank,       \* for each block the place of its id in the order of ids
  Config,     \* for each block the texts its node may be configured with
  None,       \* no text, or a blank one
  Generated,  \* what aiGenerate may return
  Preset,     \* the values callers put into ports
  MaxNodes, MaxEdges, MaxPackets  \* bounds of the documents

ASSUME KindAssumption ==
  /\ Kind \in [Blocks -> {"input", "buffer", "view", "ai-generate", "none"}]
  /\ \A b \in Blocks :
       /\ Kind[b] = "input" => Inputs[b] = <<>> /\ \E l \in DOMAIN Outputs[b] : DOMAIN Outputs[b] = {l}
       /\ Kind[b] = "view" => DOMAIN Outputs[b] = {} /\ "input" \in DOMAIN Inputs[b]
       /\ Kind[b] = "buffer" => "input" \in DOMAIN Inputs[b] /\ DOMAIN Outputs[b] = {"output"}
       /\ Kind[b] = "ai-generate" => "prompt" \in DOMAIN Inputs[b] /\ DOMAIN Outputs[b] = {"output"}

ASSUME DataAssumption ==
  /\ None \notin Texts
  /\ Config \in [Blocks -> SUBSET (Texts \cup {None})]
  /\ Generated \subseteq Values
  /\ Preset \subseteq Values

\* The types of ports; ids are ordered.
ASSUME PortsAssumption ==
  \A b \in Blocks :
    /\ \A l \in DOMAIN Inputs[b] : Inputs[b][l] \in {"text", "json", "image", "number", "any"}
    /\ \A l \in DOMAIN Outputs[b] : Outputs[b][l] \in {"text", "json", "image", "number", "any"}

ASSUME RankAssumption ==
  /\ Rank \in [Blocks -> Nat]
  /\ \A a, b \in Blocks : Rank[a] = Rank[b] => a = b

VARIABLES
  flow,       \* currentFlow
  status,     \* "building", "running", then the status of the graph run
  running,    \* the nodes that run, each with the document it was given
  completed,  \* the nodes that completed
  failed,     \* the node whose failure ended the run, or None
  written     \* history: what each completed node wrote to its output

vars == <<flow, status, running, completed, failed, written>>

\* Mutant: the engine's nodes overlap.
TwoAtATime == 2

\* The setting of the engine of a sample run.
MaxConcurrency == 1

-----------------------------------------------------------------------------
(* The graph view of a document and its plan *)

NodeEdges == {<<e.source[1], e.target[1]>> : e \in flow.edges}

\* reach[k][m, n]: from m to n over at most k + 1 edges.
Reaches ==
  LET nodes == NodeIds(flow)
      reach[k \in 0..MaxNodes] ==
        IF k = 0 THEN NodeEdges
        ELSE reach[k - 1] \cup
             {p \in nodes \X nodes :
                \E m \in nodes : <<p[1], m>> \in reach[k - 1] /\ <<m, p[2]>> \in NodeEdges}
  IN  reach[MaxNodes]

Component(n) ==
  {n} \cup {m \in NodeIds(flow) : {<<m, n>>, <<n, m>>} \subseteq Reaches}

\* The planner refuses an edge from a node to itself.
Plannable == \A e \in NodeEdges : e[1] # e[2]

Before(m, n) ==
  \/ Rank[m[1]] < Rank[n[1]]
  \/ Rank[m[1]] = Rank[n[1]] /\ m[2] < n[2]

Dependencies(n) ==
  {m \in NodeIds(flow) : \E k \in Component(n) : <<m, k>> \in NodeEdges} \ Component(n)

\* The components that have begun and not ended.
ActiveComponents ==
  {c \in {Component(n) : n \in completed \cup DOMAIN running} : ~(c \subseteq completed)}

\* Mutant: a component does not wait for those it depends on.
ReadyAtOnce(n) ==
  \A m \in Component(n) : Before(m, n) => m \in completed

Ready(n) ==
  /\ Dependencies(n) \subseteq completed
  /\ \A m \in Component(n) : Before(m, n) => m \in completed

-----------------------------------------------------------------------------
(* The executable nodes *)

OutputPort(f, n) == CHOOSE p \in OutputPorts(f, n) : TRUE

\* writeOutputPacket: the documents it may return, none when it throws.
WriteOutputPacket(f, n, v) ==
  LET p == OutputPort(f, n)
      set == SetPortPacket(f, p, v)
  IN  IF Accepts(f, p, v) /\ CanPropagate(set, p)
      THEN {PropagatePortPacket(set, p)}
      ELSE {}

InputPacketValue(f, n, local) ==
  IF <<n, local>> \in DOMAIN f.packets THEN f.packets[<<n, local>>] ELSE None

\* What the node's output gets before conversion; none when it throws.
Emitted(f, n) ==
  LET block == f.nodes[n].block
      config == f.nodes[n].config
      read(local) == InputPacketValue(f, n, local)
  IN  CASE Kind[block] = "input" ->
             IF config = None THEN {}
             ELSE IF DataType(f, OutputPort(f, n)) = "json" THEN {Parsed(config)} \ {Invalid}
             ELSE {config}
        [] Kind[block] = "buffer" ->
             {read("input") : x \in {config} \cap {"numeral"}} \ {None}
        [] Kind[block] = "ai-generate" ->
             IF read("prompt") \in Texts \/ (read("prompt") \in {None, "null"} /\ config # None)
             THEN Generated
             ELSE {}
        [] OTHER -> {}

\* The documents a node may return; a view only logs the packet it needs.
Executed(f, n) ==
  IF Kind[f.nodes[n].block] = "view"
  THEN {f : x \in {InputPacketValue(f, n, "input")} \ {None}}
  ELSE UNION {WriteOutputPacket(f, n, v) : v \in Emitted(f, n)}

\* A node throws when it can return nothing; aiGenerate may throw as well,
\* and what it returns may be rejected by the ports it goes to.
MayThrow(f, n) ==
  \/ Executed(f, n) = {}
  \/ Kind[f.nodes[n].block] = "ai-generate"

-----------------------------------------------------------------------------
Init ==
  /\ flow = EmptyDocument
  /\ status = "building"
  /\ running = <<>>
  /\ completed = {}
  /\ failed = None
  /\ written = <<>>

Build(f) ==
  /\ status = "building"
  /\ flow' = f
  /\ UNCHANGED <<status, running, completed, failed, written>>

AddNode(b, config) ==
  LET n == CreateNodeId(flow, b)
  IN  /\ Cardinality(NodeIds(flow)) < MaxNodes
      /\ Build(CreateNode(flow, b, n, config))

Connect(s, t) ==
  /\ Cardinality(flow.edges) < MaxEdges
  /\ CanConnectPorts(flow, s, t)
  /\ Build(ConnectPorts(flow, s, t))

SetPacket(p, v) ==
  /\ Cardinality(DOMAIN flow.packets) < MaxPackets
  /\ Accepts(flow, p, v)
  /\ Build(SetPortPacket(flow, p, v))

StartRun ==
  /\ status = "building"
  /\ NodeIds(flow) # {}
  /\ Plannable
  /\ status' = "running"
  /\ UNCHANGED <<flow, running, completed, failed, written>>

StartNode(n) ==
  /\ status = "running"
  /\ n \notin completed \cup DOMAIN running
  /\ Ready(n)
  /\ Component(n) \in ActiveComponents \/ Cardinality(ActiveComponents) < MaxConcurrency
  /\ running' = Put(running, n, flow)
  /\ UNCHANGED <<flow, status, completed, failed, written>>

EndNode(n) ==
  /\ status = "running"
  /\ n \in DOMAIN running
  /\ flow' \in Executed(running[n], n)
  /\ running' = Without(running, n)
  /\ completed' = completed \cup {n}
  /\ written' = IF OutputPorts(flow, n) = {} THEN written
                ELSE Put(written, n, flow'.packets[OutputPort(flow, n)])
  /\ status' = IF completed' = NodeIds(flow) THEN "completed" ELSE status
  /\ UNCHANGED failed

FailNode(n) ==
  /\ status = "running"
  /\ n \in DOMAIN running
  /\ MayThrow(running[n], n)
  /\ running' = Without(running, n)
  /\ failed' = n
  /\ status' = "failed"
  /\ UNCHANGED <<flow, completed, written>>

Next ==
  \/ \E b \in Blocks : \E config \in Config[b] : AddNode(b, config)
  \/ \E m, n \in NodeIds(flow) :
       \E s \in OutputPorts(flow, m), t \in InputPorts(flow, n) : Connect(s, t)
  \/ \E p \in Ports(flow), v \in Preset : SetPacket(p, v)
  \/ StartRun
  \/ \E n \in NodeIds(flow) : StartNode(n)
  \/ \E n \in NodeIds(flow) : EndNode(n)
  \/ \E n \in NodeIds(flow) : FailNode(n)

Spec == Init /\ [][Next]_vars

-----------------------------------------------------------------------------
\* Whatever texts and results travel through the flow, a port holds only
\* what its declared type allows, so that a node may rely on it (the prompt
\* of an AI node is text; document.ts, setPortPacket and propagatePortPacket).
PacketsFitTheirPorts ==
  \A p \in DOMAIN flow.packets : Fits(DataType(flow, p), flow.packets[p])

\* What a completed node wrote is in its output and, converted, in every
\* input connected to it, also after a failure: no node that ends later puts
\* back a document from before (core.ts, currentFlow).
NoWriteIsLost ==
  \A n \in DOMAIN written :
    LET p == OutputPort(flow, n)
    IN  /\ p \in DOMAIN flow.packets
        /\ flow.packets[p] = written[n]
        /\ \A e \in EdgesFrom(flow, p) :
             /\ e.target \in DOMAIN flow.packets
             /\ flow.packets[e.target] =
                  CoercePacketValue(ResolvePortDataType(flow, e.target), written[n])

\* A running node sees in each input fed from outside its loop what that
\* source wrote in this run, and not a packet from before the run.
NodesReadThisRun ==
  \A n \in DOMAIN running : \A e \in flow.edges :
    (e.target[1] = n /\ e.source[1] \notin Component(n)) =>
      /\ e.source[1] \in DOMAIN written
      /\ e.target \in DOMAIN running[n].packets
      /\ running[n].packets[e.target] =
           CoercePacketValue(ResolvePortDataType(flow, e.target), written[e.source[1]])
=============================================================================
