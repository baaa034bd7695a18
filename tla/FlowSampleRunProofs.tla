------------------------ MODULE FlowSampleRunProofs -------------------------
(***************************************************************************)
(* Theorems about module FlowSampleRun: for any blocks with ports of the   *)
(* known types, any texts, results and packets set beforehand, and flows   *)
(* of any size.                                                            *)
(***************************************************************************)
EXTENDS FlowSampleRun, FiniteSetTheorems, WellFoundedInduction, TLAPS

Types == {"text", "json", "image", "number", "any"}

-----------------------------------------------------------------------------
(* Documents *)

Shaped(f) ==
  /\ f = [nodes |-> f.nodes, edges |-> f.edges, packets |-> f.packets]
  /\ \A n \in NodeIds(f) :
       /\ n = <<n[1], n[2]>> /\ n[1] \in Blocks /\ n[2] \in Nat
       /\ f.nodes[n].block \in Blocks
       /\ f.nodes[n].config \in Texts \cup {None}
  /\ \E k \in Nat : \A n \in NodeIds(f) : n[2] <= k

Linked(f) ==
  /\ \A e \in f.edges :
       /\ {e.source[1], e.target[1]} \subseteq NodeIds(f)
       /\ e.source \in OutputPorts(f, e.source[1])
       /\ e.target \in InputPorts(f, e.target[1])
  /\ \A d, e \in f.edges : d.target = e.target => d = e

\* Every packet is in a port of the document and fits it.
Filled(f) ==
  \A p \in DOMAIN f.packets :
    /\ p[1] \in NodeIds(f)
    /\ p \in InputPorts(f, p[1]) \cup OutputPorts(f, p[1])
    /\ f.packets[p] \in Values
    /\ Fits(DataType(f, p), f.packets[p])

Document(f) == Shaped(f) /\ Linked(f) /\ Filled(f)

(***************************************************************************)
(* The inductive invariant: one component is active at a time and one node *)
(* runs, on the current document, in its turn; every completed node that   *)
(* has an output has written it.                                           *)
(***************************************************************************)
Executable(n) == Kind[flow.nodes[n].block] \in {"input", "buffer", "view", "ai-generate"}

OneAtATime ==
  /\ \A c, d \in ActiveComponents : c = d
  /\ \A m, n \in DOMAIN running : m = n

RunningInTurn ==
  \A n \in DOMAIN running :
    n \in NodeIds(flow) \ completed /\ running[n] = flow /\ Ready(n)

CompletedWrote ==
  /\ completed \subseteq NodeIds(flow)
  /\ DOMAIN written \subseteq completed
  /\ \A n \in completed :
       /\ Executable(n)
       /\ n \in DOMAIN written <=> OutputPorts(flow, n) # {}

NothingBefore == status = "building" => completed = {} /\ DOMAIN running = {} /\ DOMAIN written = {}

RunInv ==
  /\ Document(flow)
  /\ NothingBefore
  /\ CompletedWrote
  /\ RunningInTurn
  /\ OneAtATime
  /\ NoWriteIsLost

-----------------------------------------------------------------------------
(* Operators *)

LEMMA WithoutFacts ==
  ASSUME NEW f, NEW x
  PROVE  /\ DOMAIN Without(f, x) = DOMAIN f \ {x}
         /\ \A y \in DOMAIN f : y # x => Without(f, x)[y] = f[y]
BY DEF Without

\* A conversion that does not throw gives a value that fits.
LEMMA Conversion ==
  ASSUME NEW type \in Types, NEW v \in Values, CoercePacketValue(type, v) # Invalid
  PROVE  /\ CoercePacketValue(type, v) \in Values
         /\ Fits(type, CoercePacketValue(type, v))
<1>1. CASE v = "null" \/ type = "any"
  BY <1>1 DEF CoercePacketValue, Fits
<1>2. CASE v # "null" /\ type = "text"
  <2>1. CoercePacketValue(type, v) = CoerceToText(v)
    BY <1>2 DEF CoercePacketValue
  <2>2. CoerceToText(v) \in Texts
    BY <1>2, <2>1 DEF CoerceToText, Values, Texts, Invalid
  <2> QED
    BY <1>2, <2>1, <2>2 DEF Fits, Values
<1>3. CASE v # "null" /\ type = "json"
  <2>1. CoercePacketValue(type, v) = CoerceToJson(v)
    BY <1>3 DEF CoercePacketValue
  <2>2. CoerceToJson(v) \in Values
    BY <1>3, <2>1 DEF CoerceToJson, Parsed, Values, Texts, Invalid
  <2> QED
    BY <1>3, <2>1, <2>2 DEF Fits
<1>4. CASE v # "null" /\ type = "image"
  <2>1. CoercePacketValue(type, v) = CoerceToImage(v)
    BY <1>4 DEF CoercePacketValue
  <2>2. CoerceToImage(v) \in Texts
    BY <2>1 DEF CoerceToImage
  <2> QED
    BY <1>4, <2>1, <2>2 DEF Fits, Values
<1>5. CASE v # "null" /\ type = "number"
  <2>1. CoercePacketValue(type, v) = CoerceToNumber(v)
    BY <1>5 DEF CoercePacketValue
  <2>2. CoerceToNumber(v) = "number"
    BY <2>1 DEF CoerceToNumber
  <2> QED
    BY <1>5, <2>1, <2>2 DEF Fits, Values
<1> QED
  BY <1>1, <1>2, <1>3, <1>4, <1>5 DEF Types

\* What the ports and types of a node are depends on its block only.
LEMMA SameNodes ==
  ASSUME NEW f, NEW g, NEW n, g.nodes[n] = f.nodes[n]
  PROVE  /\ InputPorts(g, n) = InputPorts(f, n)
         /\ OutputPorts(g, n) = OutputPorts(f, n)
         /\ \A p : p[1] = n => DataType(g, p) = DataType(f, p) /\ (IsInput(g, p) <=> IsInput(f, p))
<1>1. InputPorts(g, n) = InputPorts(f, n) /\ OutputPorts(g, n) = OutputPorts(f, n)
  BY DEF InputPorts, OutputPorts
<1> QED
  BY <1>1 DEF DataType, IsInput

\* With the same nodes and edges, all that is asked of a document's graph is
\* the same.
LEMMA SameGraph ==
  ASSUME NEW f, NEW g, g.nodes = f.nodes, g.edges = f.edges
  PROVE  /\ NodeIds(g) = NodeIds(f)
         /\ \A n : InputPorts(g, n) = InputPorts(f, n) /\ OutputPorts(g, n) = OutputPorts(f, n)
         /\ \A p : DataType(g, p) = DataType(f, p)
         /\ \A p : IsInput(g, p) <=> IsInput(f, p)
         /\ \A p : EdgesFrom(g, p) = EdgesFrom(f, p) /\ EdgesInto(g, p) = EdgesInto(f, p)
         /\ \A p : ResolvePortDataType(g, p) = ResolvePortDataType(f, p)
         /\ \A n : OutputPort(g, n) = OutputPort(f, n)
         /\ Linked(f) => Linked(g)
<1>1. NodeIds(g) = NodeIds(f)
  BY DEF NodeIds
<1>2. \A n : InputPorts(g, n) = InputPorts(f, n) /\ OutputPorts(g, n) = OutputPorts(f, n)
  BY DEF InputPorts, OutputPorts
<1>3. \A p : DataType(g, p) = DataType(f, p) /\ (IsInput(g, p) <=> IsInput(f, p))
  BY <1>2 DEF DataType, IsInput
<1>4. \A p : EdgesFrom(g, p) = EdgesFrom(f, p) /\ EdgesInto(g, p) = EdgesInto(f, p)
  BY DEF EdgesFrom, EdgesInto
<1>5. \A p : ResolvePortDataType(g, p) = ResolvePortDataType(f, p)
  <2> TAKE p
  <2>1. CASE IsInput(f, p) /\ DataType(f, p) = "any" /\ EdgesInto(f, p) # {}
    <3> DEFINE e == CHOOSE e \in EdgesInto(f, p) : TRUE
    <3>1. ResolvePortDataType(f, p) = DataType(f, e.source)
      BY <2>1 DEF ResolvePortDataType
    <3>2. ResolvePortDataType(g, p) = DataType(g, e.source)
      BY <2>1, <1>3, <1>4 DEF ResolvePortDataType
    <3> QED
      BY <3>1, <3>2, <1>3
  <2>2. CASE ~(IsInput(f, p) /\ DataType(f, p) = "any" /\ EdgesInto(f, p) # {})
    BY <2>2, <1>3, <1>4 DEF ResolvePortDataType
  <2> QED
    BY <2>1, <2>2
<1>6. \A n : OutputPort(g, n) = OutputPort(f, n)
  BY <1>2 DEF OutputPort
<1>7. Linked(f) => Linked(g)
  BY <1>1, <1>2 DEF Linked
<1> QED
  BY <1>1, <1>2, <1>3, <1>4, <1>5, <1>6, <1>7

\* The type of a port of a document.
LEMMA TypeOfPort ==
  ASSUME NEW f, Shaped(f), NEW p, p[1] \in NodeIds(f),
         p \in InputPorts(f, p[1]) \cup OutputPorts(f, p[1])
  PROVE  DataType(f, p) \in Types
<1> DEFINE b == f.nodes[p[1]].block
<1>1. b \in Blocks
  BY DEF Shaped
<1>2. CASE p \in InputPorts(f, p[1])
  <2>1. p[2] \in DOMAIN Inputs[b]
    BY <1>2 DEF InputPorts
  <2>2. DataType(f, p) = Inputs[b][p[2]]
    BY <1>2 DEF DataType, IsInput
  <2> QED
    BY <1>1, <2>1, <2>2, PortsAssumption DEF Types
<1>3. CASE p \notin InputPorts(f, p[1])
  <2>1. p[2] \in DOMAIN Outputs[b]
    BY <1>3 DEF OutputPorts
  <2>2. DataType(f, p) = Outputs[b][p[2]]
    BY <1>3 DEF DataType, IsInput
  <2> QED
    BY <1>1, <2>1, <2>2, PortsAssumption DEF Types
<1> QED
  BY <1>2, <1>3

LEMMA ResolvedType ==
  ASSUME NEW f, Shaped(f), Linked(f), NEW p, p[1] \in NodeIds(f),
         p \in InputPorts(f, p[1]) \cup OutputPorts(f, p[1])
  PROVE  /\ ResolvePortDataType(f, p) \in Types
         /\ DataType(f, p) = "any" \/ ResolvePortDataType(f, p) = DataType(f, p)
<1>1. CASE IsInput(f, p) /\ DataType(f, p) = "any" /\ EdgesInto(f, p) # {}
  <2> DEFINE e == CHOOSE e \in EdgesInto(f, p) : TRUE
  <2>1. e \in f.edges
    BY <1>1 DEF EdgesInto
  <2>2. ResolvePortDataType(f, p) = DataType(f, e.source)
    BY <1>1 DEF ResolvePortDataType
  <2>3. e.source[1] \in NodeIds(f) /\ e.source \in OutputPorts(f, e.source[1])
    BY <2>1 DEF Linked
  <2> HIDE DEF e
  <2> QED
    BY <1>1, <2>2, <2>3, TypeOfPort
<1>2. CASE ~(IsInput(f, p) /\ DataType(f, p) = "any" /\ EdgesInto(f, p) # {})
  BY <1>2, TypeOfPort DEF ResolvePortDataType
<1> QED
  BY <1>1, <1>2

\* A packet that a port accepts fits it.
LEMMA AcceptedFits ==
  ASSUME NEW f, Shaped(f), Linked(f), NEW p, p[1] \in NodeIds(f),
         p \in InputPorts(f, p[1]) \cup OutputPorts(f, p[1]),
         NEW v \in Values, Accepts(f, p, v)
  PROVE  /\ CoercePacketValue(ResolvePortDataType(f, p), v) \in Values
         /\ Fits(DataType(f, p), CoercePacketValue(ResolvePortDataType(f, p), v))
<1> DEFINE type == ResolvePortDataType(f, p)
<1>1. type \in Types /\ (DataType(f, p) = "any" \/ type = DataType(f, p))
  BY ResolvedType
<1>2. CoercePacketValue(type, v) # Invalid
  BY DEF Accepts
<1>3. CoercePacketValue(type, v) \in Values /\ Fits(type, CoercePacketValue(type, v))
  <2> HIDE DEF type
  <2> QED
    BY <1>1, <1>2, Conversion
<1> QED
  BY <1>1, <1>3 DEF Fits

\* Documents whose packets changed, each new one fitting its port.
LEMMA FilledAfter ==
  ASSUME NEW f, Document(f), NEW g, g.nodes = f.nodes, g.edges = f.edges,
         g = [nodes |-> g.nodes, edges |-> g.edges, packets |-> g.packets],
         NEW S, DOMAIN g.packets \subseteq DOMAIN f.packets \cup S,
         \A p \in DOMAIN f.packets \ S : g.packets[p] = f.packets[p],
         \A p \in S : /\ p[1] \in NodeIds(f)
                      /\ p \in InputPorts(f, p[1]) \cup OutputPorts(f, p[1])
                      /\ g.packets[p] \in Values
                      /\ Fits(DataType(f, p), g.packets[p])
  PROVE  Document(g)
<1>1. /\ NodeIds(g) = NodeIds(f) /\ Linked(g)
      /\ \A n : InputPorts(g, n) = InputPorts(f, n) /\ OutputPorts(g, n) = OutputPorts(f, n)
      /\ \A p : DataType(g, p) = DataType(f, p)
  BY SameGraph DEF Document
<1>2. Shaped(g)
  BY <1>1 DEF Document, Shaped
<1>3. Filled(g)
  BY <1>1 DEF Document, Filled
<1> QED
  BY <1>1, <1>2, <1>3 DEF Document
\* What setPortPacket and propagatePortPacket do to the packets.
LEMMA SetFacts ==
  ASSUME NEW f, Shaped(f), NEW p, NEW v
  PROVE  LET g == SetPortPacket(f, p, v)
         IN  /\ g = [nodes |-> f.nodes, edges |-> f.edges, packets |-> g.packets]
             /\ g.nodes = f.nodes /\ g.edges = f.edges
             /\ DOMAIN g.packets = DOMAIN f.packets \cup {p}
             /\ g.packets[p] = CoercePacketValue(ResolvePortDataType(f, p), v)
             /\ \A q \in DOMAIN f.packets : q # p => g.packets[q] = f.packets[q]
<1> DEFINE c == CoercePacketValue(ResolvePortDataType(f, p), v)
           g == SetPortPacket(f, p, v)
<1>1. g = [f EXCEPT !.packets = Put(@, p, c)]
  BY DEF SetPortPacket
<1>2. f = [nodes |-> f.nodes, edges |-> f.edges, packets |-> f.packets]
  BY DEF Shaped
<1>3. g = [nodes |-> f.nodes, edges |-> f.edges, packets |-> Put(f.packets, p, c)]
  <2> HIDE DEF c
  <2> QED
    BY <1>1, <1>2
<1> HIDE DEF c, g
<1>4. /\ g.nodes = f.nodes /\ g.edges = f.edges /\ g.packets = Put(f.packets, p, c)
      /\ g = [nodes |-> f.nodes, edges |-> f.edges, packets |-> g.packets]
  BY <1>3
<1>5. /\ DOMAIN g.packets = DOMAIN f.packets \cup {p}
      /\ g.packets[p] = c
      /\ \A q \in DOMAIN f.packets : q # p => g.packets[q] = f.packets[q]
  <2> DEFINE old == f.packets
             all == Put(old, p, c)
  <2>1. /\ DOMAIN all = DOMAIN f.packets \cup {p}
        /\ all[p] = c
        /\ \A q \in DOMAIN f.packets : q # p => all[q] = f.packets[q]
    <3> HIDE DEF old, c
    <3> QED
      BY DEF Put, Override, old
  <2> HIDE DEF all
  <2> QED
    BY <1>4, <2>1 DEF all
<1> QED
  BY <1>4, <1>5 DEF c, g

LEMMA SetKeepsDocument ==
  ASSUME NEW f, Document(f), NEW p, p[1] \in NodeIds(f),
         p \in InputPorts(f, p[1]) \cup OutputPorts(f, p[1]),
         NEW v \in Values, Accepts(f, p, v)
  PROVE  Document(SetPortPacket(f, p, v))
<1> DEFINE g == SetPortPacket(f, p, v)
<1>1. /\ g = [nodes |-> f.nodes, edges |-> f.edges, packets |-> g.packets]
      /\ g.nodes = f.nodes /\ g.edges = f.edges
      /\ DOMAIN g.packets = DOMAIN f.packets \cup {p}
      /\ g.packets[p] = CoercePacketValue(ResolvePortDataType(f, p), v)
      /\ \A q \in DOMAIN f.packets : q # p => g.packets[q] = f.packets[q]
  BY SetFacts DEF Document
<1>2. g.packets[p] \in Values /\ Fits(DataType(f, p), g.packets[p])
  BY <1>1, AcceptedFits DEF Document
<1> HIDE DEF g
<1>3. Document(g)
  <2> DEFINE S == {p}
  <2>1. DOMAIN g.packets \subseteq DOMAIN f.packets \cup S
    BY <1>1
  <2>2. \A q \in DOMAIN f.packets \ S : g.packets[q] = f.packets[q]
    BY <1>1
  <2>3. \A q \in S :   /\ q[1] \in NodeIds(f)
                       /\ q \in InputPorts(f, q[1]) \cup OutputPorts(f, q[1])
                       /\ g.packets[q] \in Values
                       /\ Fits(DataType(f, q), g.packets[q])
    BY <1>2
  <2>4. g = [nodes |-> g.nodes, edges |-> g.edges, packets |-> g.packets]
    BY <1>1
  <2> HIDE DEF S
  <2> QED
    BY <1>1, <2>1, <2>2, <2>3, <2>4, FilledAfter
<1> QED
  BY <1>3 DEF g

LEMMA PropagateFacts ==
  ASSUME NEW f, Shaped(f), NEW p, p \in DOMAIN f.packets
  PROVE  LET g == PropagatePortPacket(f, p)
             targets == {e.target : e \in EdgesFrom(f, p)}
         IN  /\ g = [nodes |-> f.nodes, edges |-> f.edges, packets |-> g.packets]
             /\ g.nodes = f.nodes /\ g.edges = f.edges
             /\ DOMAIN g.packets = DOMAIN f.packets \cup targets
             /\ \A t \in targets :
                  g.packets[t] = CoercePacketValue(ResolvePortDataType(f, t), f.packets[p])
             /\ \A q \in DOMAIN f.packets \ targets : g.packets[q] = f.packets[q]
<1> DEFINE targets == {e.target : e \in EdgesFrom(f, p)}
           packet(t) == CoercePacketValue(ResolvePortDataType(f, t), f.packets[p])
           new == [t \in targets |-> packet(t)]
           all == Override(f.packets, new)
           g == PropagatePortPacket(f, p)
<1>1. g = [f EXCEPT !.packets = all]
  BY DEF PropagatePortPacket
<1>2. f = [nodes |-> f.nodes, edges |-> f.edges, packets |-> f.packets]
  BY DEF Shaped
<1>3. g = [nodes |-> f.nodes, edges |-> f.edges, packets |-> all]
  <2> HIDE DEF all
  <2> QED
    BY <1>1, <1>2
<1>4. /\ g.nodes = f.nodes /\ g.edges = f.edges /\ g.packets = all
      /\ g = [nodes |-> f.nodes, edges |-> f.edges, packets |-> g.packets]
  <2> HIDE DEF all, g
  <2> QED
    BY <1>3
<1>5. /\ DOMAIN all = DOMAIN f.packets \cup targets
      /\ \A t \in targets : all[t] = packet(t)
      /\ \A q \in DOMAIN f.packets \ targets : all[q] = f.packets[q]
  <2> HIDE DEF targets, packet
  <2> QED
    BY DEF Override
<1> HIDE DEF all, g
<1> QED
  BY <1>4, <1>5 DEF g

LEMMA PropagateKeepsDocument ==
  ASSUME NEW f, Document(f), NEW p, p \in DOMAIN f.packets, CanPropagate(f, p)
  PROVE  Document(PropagatePortPacket(f, p))
<1> DEFINE g == PropagatePortPacket(f, p)
           targets == {e.target : e \in EdgesFrom(f, p)}
<1>1. /\ g = [nodes |-> f.nodes, edges |-> f.edges, packets |-> g.packets]
      /\ g.nodes = f.nodes /\ g.edges = f.edges
      /\ DOMAIN g.packets = DOMAIN f.packets \cup targets
      /\ \A t \in targets :
           g.packets[t] = CoercePacketValue(ResolvePortDataType(f, t), f.packets[p])
      /\ \A q \in DOMAIN f.packets \ targets : g.packets[q] = f.packets[q]
  BY PropagateFacts DEF Document
<1>2. f.packets[p] \in Values
  BY DEF Document, Filled
<1>3. ASSUME NEW t \in targets
      PROVE  /\ t[1] \in NodeIds(f) /\ t \in InputPorts(f, t[1])
             /\ g.packets[t] \in Values /\ Fits(DataType(f, t), g.packets[t])
  <2>1. PICK e \in f.edges : e.source = p /\ e.target = t
    BY DEF EdgesFrom
  <2>2. t[1] \in NodeIds(f) /\ t \in InputPorts(f, t[1])
    BY <2>1 DEF Document, Linked
  <2>3. Accepts(f, t, f.packets[p])
    BY <2>1 DEF CanPropagate, EdgesFrom
  <2> QED
    BY <2>2, <2>3, <1>1, <1>2, AcceptedFits DEF Document
<1> HIDE DEF g, targets
<1>4. Document(g)
  BY <1>1, <1>3, FilledAfter
<1> QED
  BY <1>4 DEF g

-----------------------------------------------------------------------------
(* Building *)

\* A set of naturals that has zero and is bounded has a greatest element.
LEMMA GreatestOfBounded ==
  ASSUME NEW S \in SUBSET Nat, 0 \in S, NEW k \in Nat, \A x \in S : x <= k
  PROVE  Max(S) \in Nat /\ \A x \in S : x <= Max(S)
<1> DEFINE U == {u \in Nat : \A x \in S : x <= u}
           R == {q \in Nat \X Nat : q[1] < q[2]}
<1>1. U \in SUBSET Nat /\ U # {}
  OBVIOUS
<1>2. IsWellFoundedOn(R, Nat)
  BY NatLessThanWellFounded DEF OpToRel
<1>3. PICK u \in U : \A y \in U : <<y, u>> \notin R
  <2> HIDE DEF R, U
  <2> QED
    BY <1>1, <1>2, WFMin
<1>4. u \in S
  <2> SUFFICES ASSUME u \notin S PROVE FALSE
    OBVIOUS
  <2>1. \A x \in S : x < u
    OBVIOUS
  <2>2. u - 1 \in U /\ u - 1 < u
    BY <2>1
  <2>3. <<u - 1, u>> \in R
    BY <2>2
  <2> QED
    BY <1>3, <2>2, <2>3
<1>5. \E m \in S : \A y \in S : m >= y
  BY <1>4
<1>6. Max(S) \in S /\ \A y \in S : Max(S) >= y
  BY <1>5 DEF Max
<1> QED
  BY <1>6

LEMMA NewIdIsFresh ==
  ASSUME NEW f, Shaped(f), NEW b
  PROVE  /\ CreateNodeId(f, b) \notin NodeIds(f)
         /\ CreateNodeId(f, b) = <<b, CreateNodeId(f, b)[2]>>
         /\ CreateNodeId(f, b)[2] \in Nat
<1> DEFINE S == {0} \cup {n[2] : n \in {m \in NodeIds(f) : m[1] = b}}
<1>1. PICK k \in Nat : \A n \in NodeIds(f) : n[2] <= k
  BY DEF Shaped
<1>2. S \in SUBSET Nat /\ 0 \in S /\ \A x \in S : x <= k
  BY <1>1 DEF Shaped
<1>3. Max(S) \in Nat /\ \A x \in S : x <= Max(S)
  <2> HIDE DEF S
  <2> QED
    BY <1>2, GreatestOfBounded
<1>4. CreateNodeId(f, b) = <<b, 1 + Max(S)>>
  BY DEF CreateNodeId
<1>5. ASSUME <<b, 1 + Max(S)>> \in NodeIds(f) PROVE FALSE
  <2>1. 1 + Max(S) \in S
    BY <1>5
  <2> QED
    BY <2>1, <1>3
<1> HIDE DEF S
<1> QED
  BY <1>3, <1>4, <1>5

LEMMA CreateKeepsDocument ==
  ASSUME NEW f, Document(f), NEW b \in Blocks, NEW config \in Texts \cup {None}
  PROVE  Document(CreateNode(f, b, CreateNodeId(f, b), config))
<1> DEFINE n == CreateNodeId(f, b)
           node == [block |-> b, config |-> config]
           g == CreateNode(f, b, n, config)
<1>1. n \notin NodeIds(f) /\ n = <<b, n[2]>> /\ n[2] \in Nat
  BY NewIdIsFresh DEF Document
<1> HIDE DEF n
<1>2. g = [nodes |-> Put(f.nodes, n, node), edges |-> f.edges, packets |-> f.packets]
  <2>1. f = [nodes |-> f.nodes, edges |-> f.edges, packets |-> f.packets]
    BY DEF Document, Shaped
  <2>2. g = [f EXCEPT !.nodes = Put(@, n, node)]
    BY DEF CreateNode
  <2> HIDE DEF node, g
  <2> QED
    BY <2>1, <2>2
<1>3. /\ NodeIds(g) = NodeIds(f) \cup {n}
      /\ g.nodes[n] = node
      /\ \A m \in NodeIds(f) : g.nodes[m] = f.nodes[m]
      /\ g.edges = f.edges /\ g.packets = f.packets
      /\ g = [nodes |-> g.nodes, edges |-> g.edges, packets |-> g.packets]
  <2>1. /\ g.nodes = Put(f.nodes, n, node)
        /\ g.edges = f.edges /\ g.packets = f.packets
        /\ g = [nodes |-> g.nodes, edges |-> g.edges, packets |-> g.packets]
    <3> HIDE DEF g, node
    <3> QED
      BY <1>2
  <2> DEFINE old == f.nodes
             all == Put(old, n, node)
  <2>2. /\ DOMAIN all = DOMAIN f.nodes \cup {n}
        /\ all[n] = node
        /\ \A m \in DOMAIN f.nodes : m # n => all[m] = f.nodes[m]
    <3> HIDE DEF old, node
    <3> QED
      BY DEF Put, Override, old
  <2> HIDE DEF g, node, all
  <2>3. g.nodes = all
    BY <2>1 DEF all
  <2> QED
    BY <2>1, <2>2, <2>3, <1>1 DEF NodeIds
<1> HIDE DEF g
<1>4. Shaped(g)
  <2>1. PICK k \in Nat : \A m \in NodeIds(f) : m[2] <= k
    BY DEF Document, Shaped
  <2>2. \E j \in Nat : \A m \in NodeIds(g) : m[2] <= j
    <3>1. CASE n[2] <= k
      BY <2>1, <3>1, <1>3
    <3>2. CASE ~(n[2] <= k)
      <4>1. \A m \in NodeIds(f) : m[2] <= n[2]
        BY <2>1, <3>2, <1>1 DEF Document, Shaped
      <4> QED
        BY <4>1, <1>1, <1>3
    <3> QED
      BY <3>1, <3>2
  <2>4. node.block \in Blocks /\ node.config \in Texts \cup {None}
    OBVIOUS
  <2>5. ASSUME NEW m \in NodeIds(g)
        PROVE  /\ m = <<m[1], m[2]>> /\ m[1] \in Blocks /\ m[2] \in Nat
               /\ g.nodes[m].block \in Blocks
               /\ g.nodes[m].config \in Texts \cup {None}
    <3> HIDE DEF node
    <3>1. CASE m = n
      BY <3>1, <1>1, <1>3, <2>4
    <3>2. CASE m # n
      BY <3>2, <1>3 DEF Document, Shaped
    <3> QED
      BY <3>1, <3>2
  <2> QED
    BY <1>3, <2>2, <2>5 DEF Shaped
<1>5. ASSUME NEW m \in NodeIds(f)
      PROVE  /\ InputPorts(g, m) = InputPorts(f, m) /\ OutputPorts(g, m) = OutputPorts(f, m)
             /\ \A p : p[1] = m => DataType(g, p) = DataType(f, p)
  BY <1>3, SameNodes
<1>6. Linked(g)
  BY <1>3, <1>5 DEF Document, Linked
<1>7. Filled(g)
  BY <1>3, <1>5 DEF Document, Filled
<1> QED
  BY <1>4, <1>6, <1>7 DEF Document, g, n

LEMMA ConnectKeepsDocument ==
  ASSUME NEW f, Document(f), NEW s, NEW t,
         s[1] \in NodeIds(f), s \in OutputPorts(f, s[1]),
         t[1] \in NodeIds(f), t \in InputPorts(f, t[1]),
         CanConnectPorts(f, s, t)
  PROVE  Document(ConnectPorts(f, s, t))
<1> DEFINE edge == [source |-> s, target |-> t]
           g == WithEdge(f, s, t)
<1>1. /\ g.nodes = f.nodes /\ g.packets = f.packets
      /\ g.edges = f.edges \cup {edge}
      /\ g = [nodes |-> g.nodes, edges |-> g.edges, packets |-> g.packets]
  <2>1. f = [nodes |-> f.nodes, edges |-> f.edges, packets |-> f.packets]
    BY DEF Document, Shaped
  <2>2. g = [f EXCEPT !.edges = @ \cup {edge}]
    BY DEF WithEdge
  <2> HIDE DEF edge, g
  <2> QED
    BY <2>1, <2>2
<1>2. /\ NodeIds(g) = NodeIds(f)
      /\ \A n : InputPorts(g, n) = InputPorts(f, n) /\ OutputPorts(g, n) = OutputPorts(f, n)
      /\ \A p : DataType(g, p) = DataType(f, p)
  BY <1>1, SameNodes DEF NodeIds
<1>3. edge.source = s /\ edge.target = t /\ (\A e \in f.edges : e.target # t)
  BY DEF CanConnectPorts, Connectable, EdgesInto
<1>4. Document(g)
  <2> HIDE DEF g, edge
  <2>1. Shaped(g)
    BY <1>1, <1>2 DEF Document, Shaped
  <2>2. Linked(g)
    BY <1>1, <1>2, <1>3 DEF Document, Linked
  <2>3. Filled(g)
    BY <1>1, <1>2 DEF Document, Filled
  <2> QED
    BY <2>1, <2>2, <2>3 DEF Document
<1>5. CASE s \in DOMAIN f.packets
  <2>1. ConnectPorts(f, s, t) = SetPortPacket(g, t, f.packets[s])
    BY <1>5 DEF ConnectPorts
  <2>2. Accepts(g, t, f.packets[s]) /\ f.packets[s] \in Values
    BY <1>5 DEF CanConnectPorts, Document, Filled
  <2> HIDE DEF g
  <2> QED
    BY <1>2, <1>4, <2>1, <2>2, SetKeepsDocument
<1>6. CASE s \notin DOMAIN f.packets
  BY <1>4, <1>6 DEF ConnectPorts
<1> QED
  BY <1>5, <1>6

-----------------------------------------------------------------------------
(* What nodes return *)

LEMMA OutputIsNoInput ==
  ASSUME NEW f, Shaped(f), NEW n \in NodeIds(f), NEW p \in OutputPorts(f, n)
  PROVE  p[1] = n /\ p \notin InputPorts(f, n)
BY BlocksAssumption DEF Shaped, InputPorts, OutputPorts

\* A node that can be executed has one output or none.
LEMMA OutputFacts ==
  ASSUME NEW f, Shaped(f), NEW n \in NodeIds(f),
         Kind[f.nodes[n].block] \in {"input", "buffer", "view", "ai-generate"}
  PROVE  /\ OutputPorts(f, n) # {} =>
              OutputPort(f, n) \in OutputPorts(f, n) /\ OutputPorts(f, n) = {OutputPort(f, n)}
         /\ OutputPorts(f, n) = {} <=> Kind[f.nodes[n].block] = "view"
<1> DEFINE b == f.nodes[n].block
<1>1. b \in Blocks
  BY DEF Shaped
<1>2. CASE Kind[b] = "view"
  <2>1. OutputPorts(f, n) = {}
    BY <1>1, <1>2, KindAssumption DEF OutputPorts
  <2> QED
    BY <1>2, <2>1
<1>3. CASE Kind[b] # "view"
  <2>1. PICK l : DOMAIN Outputs[b] = {l}
    BY <1>1, <1>3, KindAssumption
  <2>2. OutputPorts(f, n) = {<<n, l>>}
    BY <2>1 DEF OutputPorts
  <2> QED
    BY <1>3, <2>2 DEF OutputPort
<1> QED
  BY <1>2, <1>3

LEMMA EmittedFacts ==
  ASSUME NEW f, Document(f), NEW n \in NodeIds(f), NEW v \in Emitted(f, n)
  PROVE  v \in Values /\ Kind[f.nodes[n].block] \in {"input", "buffer", "ai-generate"}
<1> DEFINE b == f.nodes[n].block
           config == f.nodes[n].config
<1>1. b \in Blocks /\ config \in Texts \cup {None}
  BY DEF Document, Shaped
<1>2. \A l : InputPacketValue(f, n, l) # None => InputPacketValue(f, n, l) \in Values
  BY DEF InputPacketValue, Document, Filled
<1>3. Kind[b] \in {"input", "buffer", "view", "ai-generate", "none"}
  BY <1>1, KindAssumption
<1>4. CASE Kind[b] = "input"
  <2>1. v \in IF config = None THEN {}
              ELSE IF DataType(f, OutputPort(f, n)) = "json" THEN {Parsed(config)} \ {Invalid}
              ELSE {config}
    BY <1>4 DEF Emitted
  <2>2. config \in Texts /\ (v = config \/ (v = Parsed(config) /\ v # Invalid))
    BY <2>1, <1>1
  <2>3. v \in Values
    BY <2>2 DEF Parsed, Texts, Values, Invalid
  <2> QED
    BY <1>4, <2>3
<1>5. CASE Kind[b] = "buffer"
  <2>1. v = InputPacketValue(f, n, "input") /\ v # None
    BY <1>5 DEF Emitted
  <2> QED
    BY <1>2, <1>5, <2>1
<1>6. CASE Kind[b] = "ai-generate"
  <2>1. v \in Generated
    BY <1>6 DEF Emitted
  <2> QED
    BY <1>6, <2>1, DataAssumption
<1>7. CASE Kind[b] \in {"view", "none"}
  BY <1>7 DEF Emitted
<1> QED
  BY <1>3, <1>4, <1>5, <1>6, <1>7

\* The write of an output reaches it and the inputs connected to it, and
\* nothing else.
WroteTo(f, g, p) ==
  /\ p \in DOMAIN g.packets
  /\ \A e \in EdgesFrom(f, p) :
       /\ e.target \in DOMAIN g.packets
       /\ g.packets[e.target] = CoercePacketValue(ResolvePortDataType(f, e.target), g.packets[p])
  /\ \A q \in DOMAIN f.packets :
       q # p /\ (\A e \in EdgesFrom(f, p) : e.target # q) =>
         q \in DOMAIN g.packets /\ g.packets[q] = f.packets[q]

LEMMA WriteFacts ==
  ASSUME NEW f, Document(f), NEW n \in NodeIds(f), NEW v \in Values,
         OutputPort(f, n) \in OutputPorts(f, n),
         NEW g \in WriteOutputPacket(f, n, v)
  PROVE  /\ Document(g) /\ g.nodes = f.nodes /\ g.edges = f.edges
         /\ WroteTo(f, g, OutputPort(f, n))
<1> DEFINE p == OutputPort(f, n)
           h == SetPortPacket(f, p, v)
<1>1. /\ Accepts(f, p, v) /\ CanPropagate(h, p)
      /\ g = PropagatePortPacket(h, p)
  BY DEF WriteOutputPacket
<1> HIDE DEF p
<1>2. p \in OutputPorts(f, n)
  BY DEF p
<1>3. p[1] = n /\ p \notin InputPorts(f, n)
  BY <1>2, OutputIsNoInput DEF Document
<1>4. Document(h)
  BY <1>1, <1>2, <1>3, SetKeepsDocument
<1>5. /\ h.nodes = f.nodes /\ h.edges = f.edges
      /\ DOMAIN h.packets = DOMAIN f.packets \cup {p}
      /\ \A q \in DOMAIN f.packets : q # p => h.packets[q] = f.packets[q]
  BY SetFacts DEF Document
<1> HIDE DEF h
<1> DEFINE targets == {e.target : e \in EdgesFrom(h, p)}
<1>6. Document(g)
  BY <1>1, <1>4, <1>5, PropagateKeepsDocument
<1>7. /\ g.nodes = h.nodes /\ g.edges = h.edges
      /\ DOMAIN g.packets = DOMAIN h.packets \cup targets
      /\ \A t \in targets :
           g.packets[t] = CoercePacketValue(ResolvePortDataType(h, t), h.packets[p])
      /\ \A q \in DOMAIN h.packets \ targets : g.packets[q] = h.packets[q]
  BY <1>1, <1>4, <1>5, PropagateFacts DEF Document
<1>8. EdgesFrom(h, p) = EdgesFrom(f, p)
      /\ \A q : ResolvePortDataType(h, q) = ResolvePortDataType(f, q)
  BY <1>5, SameGraph
<1>9. p \notin targets
  <2> SUFFICES ASSUME NEW e \in EdgesFrom(f, p), e.target = p PROVE FALSE
    BY <1>8
  <2>1. e \in f.edges
    BY DEF EdgesFrom
  <2>2. p \in InputPorts(f, p[1])
    BY <2>1 DEF Document, Linked
  <2> QED
    BY <2>2, <1>3
<1>10. g.packets[p] = h.packets[p] /\ p \in DOMAIN g.packets
  BY <1>5, <1>7, <1>9
<1>11. WroteTo(f, g, p)
  <2>1. ASSUME NEW e \in EdgesFrom(f, p)
        PROVE  /\ e.target \in DOMAIN g.packets
               /\ g.packets[e.target]
                    = CoercePacketValue(ResolvePortDataType(f, e.target), g.packets[p])
    <3>1. e.target \in targets
      BY <2>1, <1>8
    <3> HIDE DEF targets
    <3> QED
      BY <3>1, <1>7, <1>8, <1>10
  <2>2. ASSUME NEW q \in DOMAIN f.packets, q # p, \A e \in EdgesFrom(f, p) : e.target # q
        PROVE  q \in DOMAIN g.packets /\ g.packets[q] = f.packets[q]
    <3>1. q \notin targets
      BY <2>2, <1>8
    <3> HIDE DEF targets
    <3> QED
      BY <2>2, <3>1, <1>5, <1>7
  <2> QED
    BY <1>10, <2>1, <2>2 DEF WroteTo
<1> QED
  BY <1>5, <1>6, <1>7, <1>11 DEF p

LEMMA ExecutedFacts ==
  ASSUME NEW f, Document(f), NEW n \in NodeIds(f), NEW g \in Executed(f, n)
  PROVE  /\ Document(g) /\ g.nodes = f.nodes /\ g.edges = f.edges
         /\ Kind[f.nodes[n].block] \in {"input", "buffer", "view", "ai-generate"}
         /\ IF OutputPorts(f, n) = {} THEN g = f ELSE WroteTo(f, g, OutputPort(f, n))
<1>1. CASE Kind[f.nodes[n].block] = "view"
  <2>1. g = f
    BY <1>1 DEF Executed
  <2> QED
    BY <1>1, <2>1, OutputFacts DEF Document
<1>2. CASE Kind[f.nodes[n].block] # "view"
  <2>1. PICK v \in Emitted(f, n) : g \in WriteOutputPacket(f, n, v)
    BY <1>2 DEF Executed
  <2>2. v \in Values /\ Kind[f.nodes[n].block] \in {"input", "buffer", "ai-generate"}
    BY <2>1, EmittedFacts
  <2>3. OutputPorts(f, n) # {} /\ OutputPort(f, n) \in OutputPorts(f, n)
    BY <2>2, <1>2, OutputFacts DEF Document
  <2>4. /\ Document(g) /\ g.nodes = f.nodes /\ g.edges = f.edges
        /\ WroteTo(f, g, OutputPort(f, n))
    BY <2>1, <2>2, <2>3, WriteFacts
  <2> QED
    BY <2>2, <2>3, <2>4
<1> QED
  BY <1>1, <1>2

-----------------------------------------------------------------------------
(* Steps *)

ReachOver(nodes, edges) ==
  LET reach[k \in 0..MaxNodes] ==
        IF k = 0 THEN edges
        ELSE reach[k - 1] \cup
             {p \in nodes \X nodes :
                \E m \in nodes : <<p[1], m>> \in reach[k - 1] /\ <<m, p[2]>> \in edges}
  IN  reach[MaxNodes]

\* Packets have no part in the plan.
LEMMA SamePlan ==
  ASSUME flow'.nodes = flow.nodes, flow'.edges = flow.edges
  PROVE  /\ \A n : Component(n)' = Component(n)
         /\ \A n : Dependencies(n)' = Dependencies(n)
<1>1. NodeIds(flow') = NodeIds(flow) /\ NodeEdges' = NodeEdges
  BY DEF NodeIds, NodeEdges
<1>2. Reaches = ReachOver(NodeIds(flow), NodeEdges)
  BY DEF Reaches, ReachOver
<1>3. Reaches' = ReachOver(NodeIds(flow'), NodeEdges')
  BY DEF Reaches, ReachOver
<1>4. Reaches' = Reaches
  BY <1>1, <1>2, <1>3
<1>5. \A n : Component(n)' = Component(n)
  BY <1>1, <1>4 DEF Component
<1> QED
  BY <1>1, <1>5 DEF Dependencies

\* A node that is ready stays ready as others complete.
LEMMA StaysReady ==
  ASSUME flow'.nodes = flow.nodes, flow'.edges = flow.edges, completed \subseteq completed',
         NEW n, Ready(n)
  PROVE  Ready(n)'
BY SamePlan DEF Ready

\* Fewer components are active unless a node starts.
LEMMA NoNewComponent ==
  ASSUME flow'.nodes = flow.nodes, flow'.edges = flow.edges, completed \subseteq completed',
         completed' \cup DOMAIN running' \subseteq completed \cup DOMAIN running
  PROVE  ActiveComponents' \subseteq ActiveComponents
<1> SUFFICES ASSUME NEW c \in ActiveComponents' PROVE c \in ActiveComponents
  OBVIOUS
<1>1. PICK n \in completed' \cup DOMAIN running' : c = Component(n)'
  BY DEF ActiveComponents
<1>2. ~(c \subseteq completed')
  BY DEF ActiveComponents
<1>3. c = Component(n)
  BY <1>1, SamePlan
<1> QED
  BY <1>1, <1>2, <1>3 DEF ActiveComponents

\* What was written stays where it was when the document stays.
LEMMA SameWrites ==
  ASSUME NoWriteIsLost, flow' = flow, written' = written
  PROVE  NoWriteIsLost'
BY DEF NoWriteIsLost

LEMMA EmptyRun ==
  ASSUME completed = {}, DOMAIN running = {}, DOMAIN written = {}
  PROVE  CompletedWrote /\ RunningInTurn /\ OneAtATime /\ NoWriteIsLost
BY DEF CompletedWrote, RunningInTurn, OneAtATime, ActiveComponents, NoWriteIsLost

LEMMA NothingRuns == DOMAIN <<>> = {} /\ NodeIds(EmptyDocument) = {}
<1>1. DOMAIN <<>> = {}
  OBVIOUS
<1> QED
  BY <1>1 DEF NodeIds, EmptyDocument

LEMMA InitRun == Init => RunInv
<1> SUFFICES ASSUME Init PROVE RunInv
  OBVIOUS
<1>1. completed = {} /\ DOMAIN running = {} /\ DOMAIN written = {}
  BY NothingRuns DEF Init
<1>2. NodeIds(flow) = {} /\ flow.edges = {} /\ DOMAIN flow.packets = {}
      /\ flow = [nodes |-> flow.nodes, edges |-> flow.edges, packets |-> flow.packets]
  BY NothingRuns DEF Init, EmptyDocument
<1>3. Document(flow)
  BY <1>2 DEF Document, Shaped, Linked, Filled
<1> QED
  BY <1>1, <1>3, EmptyRun DEF RunInv, NothingBefore

LEMMA BuildStep ==
  ASSUME RunInv, NEW f, Document(f), Build(f)
  PROVE  RunInv'
<1>1. /\ completed' = {} /\ DOMAIN running' = {} /\ DOMAIN written' = {}
      /\ flow' = f
  BY DEF Build, RunInv, NothingBefore
<1>2. (CompletedWrote /\ RunningInTurn /\ OneAtATime /\ NoWriteIsLost)'
  BY <1>1 DEF CompletedWrote, RunningInTurn, OneAtATime, ActiveComponents, NoWriteIsLost
<1> QED
  BY <1>1, <1>2 DEF RunInv, NothingBefore

LEMMA AddNodeStep ==
  ASSUME RunInv, NEW b \in Blocks, NEW config \in Config[b], AddNode(b, config)
  PROVE  RunInv'
<1> DEFINE f == CreateNode(flow, b, CreateNodeId(flow, b), config)
<1>1. Build(f)
  BY DEF AddNode
<1>2. config \in Texts \cup {None}
  BY DataAssumption
<1>3. Document(f)
  BY <1>2, CreateKeepsDocument DEF RunInv
<1> HIDE DEF f
<1> QED
  BY <1>1, <1>3, BuildStep

LEMMA ConnectStep ==
  ASSUME RunInv, NEW m \in NodeIds(flow), NEW n \in NodeIds(flow),
         NEW s \in OutputPorts(flow, m), NEW t \in InputPorts(flow, n), Connect(s, t)
  PROVE  RunInv'
<1> DEFINE f == ConnectPorts(flow, s, t)
<1>1. Build(f) /\ CanConnectPorts(flow, s, t)
  BY DEF Connect
<1>2. s[1] = m /\ t[1] = n
  BY DEF OutputPorts, InputPorts
<1>3. Document(f)
  BY <1>1, <1>2, ConnectKeepsDocument DEF RunInv
<1> HIDE DEF f
<1> QED
  BY <1>1, <1>3, BuildStep

LEMMA SetPacketStep ==
  ASSUME RunInv, NEW p \in Ports(flow), NEW v \in Preset, SetPacket(p, v)
  PROVE  RunInv'
<1> DEFINE f == SetPortPacket(flow, p, v)
<1>1. Build(f) /\ Accepts(flow, p, v)
  BY DEF SetPacket
<1>2. PICK n \in NodeIds(flow) : p \in InputPorts(flow, n) \cup OutputPorts(flow, n)
  BY DEF Ports
<1>3. p[1] = n
  BY <1>2 DEF OutputPorts, InputPorts
<1>4. v \in Values
  BY DataAssumption
<1>5. Document(f)
  BY <1>1, <1>2, <1>3, <1>4, SetKeepsDocument DEF RunInv
<1> HIDE DEF f
<1> QED
  BY <1>1, <1>5, BuildStep

\* Steps that leave the document, the nodes that completed and their writes,
\* and start nothing.
LEMMA CalmStep ==
  ASSUME RunInv, flow' = flow, completed' = completed, written' = written,
         DOMAIN running' \subseteq DOMAIN running,
         \A n \in DOMAIN running' : running'[n] = running[n],
         NothingBefore'
  PROVE  RunInv'
<1>1. Document(flow)' /\ NoWriteIsLost'
  BY SameWrites DEF RunInv
<1>2. CompletedWrote'
  BY DEF RunInv, CompletedWrote, Executable
<1>3. RunningInTurn'
  BY StaysReady DEF RunInv, RunningInTurn
<1>4. OneAtATime'
  <2>1. ActiveComponents' \subseteq ActiveComponents
    BY NoNewComponent
  <2> QED
    BY <2>1 DEF RunInv, OneAtATime
<1> QED
  BY <1>1, <1>2, <1>3, <1>4 DEF RunInv

LEMMA StartRunStep ==
  ASSUME RunInv, StartRun
  PROVE  RunInv'
BY CalmStep DEF StartRun, NothingBefore

LEMMA FailNodeStep ==
  ASSUME RunInv, NEW n \in NodeIds(flow), FailNode(n)
  PROVE  RunInv'
<1>1. DOMAIN running' = DOMAIN running \ {n}
      /\ \A m \in DOMAIN running' : running'[m] = running[m]
  BY WithoutFacts DEF FailNode
<1> QED
  BY <1>1, CalmStep DEF FailNode, NothingBefore

\* Nodes of a document are in an order.
LEMMA BeforeIsTotal ==
  ASSUME Shaped(flow), NEW m \in NodeIds(flow), NEW n \in NodeIds(flow), m # n
  PROVE  Before(m, n) \/ Before(n, m)
<1>1. /\ m = <<m[1], m[2]>> /\ n = <<n[1], n[2]>>
      /\ m[1] \in Blocks /\ n[1] \in Blocks /\ m[2] \in Nat /\ n[2] \in Nat
  BY DEF Shaped
<1>2. Rank[m[1]] \in Nat /\ Rank[n[1]] \in Nat
      /\ (Rank[m[1]] = Rank[n[1]] => m[1] = n[1])
  BY <1>1, RankAssumption
<1>3. m[1] # n[1] \/ m[2] # n[2]
  BY <1>1
<1> QED
  BY <1>1, <1>2, <1>3 DEF Before

LEMMA StartNodeStep ==
  ASSUME RunInv, NEW n \in NodeIds(flow), StartNode(n)
  PROVE  RunInv'
<1>1. /\ flow' = flow /\ completed' = completed /\ written' = written /\ status' = status
      /\ status = "running" /\ n \notin completed \cup DOMAIN running
      /\ Ready(n)
      /\ Component(n) \in ActiveComponents \/ Cardinality(ActiveComponents) < 1
  BY DEF StartNode, MaxConcurrency
<1>2. DOMAIN running' = DOMAIN running \cup {n} /\ running'[n] = flow
      /\ \A m \in DOMAIN running : running'[m] = running[m]
  <2>1. running' = Put(running, n, flow)
    BY DEF StartNode
  <2> QED
    BY <1>1, <2>1 DEF Put, Override
<1>3. ActiveComponents \subseteq {Component(n)}
  <2>1. CASE Component(n) \in ActiveComponents
    BY <2>1 DEF RunInv, OneAtATime
  <2>2. CASE Component(n) \notin ActiveComponents
    <3> SUFFICES ASSUME NEW c \in ActiveComponents PROVE FALSE
      OBVIOUS
    <3>1. ActiveComponents = {c}
      BY DEF RunInv, OneAtATime
    <3>2. Cardinality(ActiveComponents) = 1
      BY <3>1, FS_Singleton
    <3> QED
      BY <1>1, <2>2, <3>2
  <2> QED
    BY <2>1, <2>2
<1>4. DOMAIN running = {}
  <2> SUFFICES ASSUME NEW m \in DOMAIN running PROVE FALSE
    OBVIOUS
  <2>1. m \in NodeIds(flow) \ completed /\ Ready(m)
    BY DEF RunInv, RunningInTurn
  <2>2. m \in Component(m) /\ n \in Component(n)
    BY DEF Component
  <2>3. Component(m) \in ActiveComponents
    BY <2>1, <2>2 DEF ActiveComponents
  <2>4. Component(m) = Component(n)
    BY <1>3, <2>3
  <2>5. Before(m, n) \/ Before(n, m)
    BY <1>1, <2>1, BeforeIsTotal DEF RunInv, Document
  <2> QED
    BY <1>1, <2>1, <2>2, <2>4, <2>5 DEF Ready
<1>5. RunningInTurn'
  <2>1. NodeIds(flow') = NodeIds(flow) /\ Ready(n)'
    BY <1>1, StaysReady
  <2> QED
    BY <1>1, <1>2, <1>4, <2>1 DEF RunningInTurn
<1>6. OneAtATime'
  <2>1. ActiveComponents' \subseteq {Component(n)}
    <3> SUFFICES ASSUME NEW c \in ActiveComponents' PROVE c = Component(n)
      OBVIOUS
    <3>1. PICK m \in completed' \cup DOMAIN running' : c = Component(m)'
      BY DEF ActiveComponents
    <3>2. c = Component(m) /\ ~(c \subseteq completed)
      BY <1>1, <3>1, SamePlan DEF ActiveComponents
    <3>3. CASE m = n
      BY <3>2, <3>3
    <3>4. CASE m # n
      <4>1. c \in ActiveComponents
        BY <1>1, <1>2, <3>1, <3>2, <3>4 DEF ActiveComponents
      <4> QED
        BY <4>1, <1>3
    <3> QED
      BY <3>3, <3>4
  <2> QED
    BY <2>1, <1>2, <1>4 DEF OneAtATime
<1>7. Document(flow)' /\ NothingBefore' /\ CompletedWrote' /\ NoWriteIsLost'
  BY <1>1, SameWrites DEF RunInv, NothingBefore, CompletedWrote, Executable
<1> QED
  BY <1>5, <1>6, <1>7 DEF RunInv

LEMMA EndNodeStep ==
  ASSUME RunInv, NEW n \in NodeIds(flow), EndNode(n)
  PROVE  RunInv'
<1> DEFINE p == OutputPort(flow, n)
<1>1. /\ status = "running" /\ n \in DOMAIN running
      /\ flow' \in Executed(running[n], n)
      /\ running' = Without(running, n)
      /\ completed' = completed \cup {n}
      /\ written' = IF OutputPorts(flow, n) = {} THEN written ELSE Put(written, n, flow'.packets[p])
      /\ status' \in {"completed", "running"}
  BY DEF EndNode
<1>2. running[n] = flow /\ n \notin completed /\ Document(flow)
  BY <1>1 DEF RunInv, RunningInTurn
<1>3. /\ Document(flow') /\ flow'.nodes = flow.nodes /\ flow'.edges = flow.edges
      /\ Kind[flow.nodes[n].block] \in {"input", "buffer", "view", "ai-generate"}
      /\ IF OutputPorts(flow, n) = {} THEN flow' = flow ELSE WroteTo(flow, flow', p)
  BY <1>1, <1>2, ExecutedFacts
<1>4. DOMAIN running' = {}
  <2>1. DOMAIN running' = DOMAIN running \ {n}
    BY <1>1, WithoutFacts
  <2> QED
    BY <1>1, <2>1 DEF RunInv, OneAtATime
<1>5. RunningInTurn' /\ NothingBefore'
  BY <1>1, <1>4 DEF RunningInTurn, NothingBefore
<1>6. OneAtATime'
  <2>1. ActiveComponents' \subseteq ActiveComponents
    BY <1>1, <1>3, <1>4, NoNewComponent
  <2> QED
    BY <2>1, <1>4 DEF RunInv, OneAtATime
<1>7. /\ DOMAIN written' = IF OutputPorts(flow, n) = {} THEN DOMAIN written
                           ELSE DOMAIN written \cup {n}
      /\ \A m \in DOMAIN written : m # n => written'[m] = written[m]
      /\ OutputPorts(flow, n) # {} => written'[n] = flow'.packets[p]
  <2> DEFINE v == flow'.packets[p]
  <2> HIDE DEF p, v
  <2>1. OutputPorts(flow, n) # {} => written' = Put(written, n, v)
    BY <1>1 DEF v
  <2>2. /\ OutputPorts(flow, n) # {} =>
             /\ DOMAIN written' = DOMAIN written \cup {n}
             /\ \A m \in DOMAIN written : m # n => written'[m] = written[m]
             /\ written'[n] = v
    BY <2>1 DEF Put, Override
  <2> QED
    BY <1>1, <2>2 DEF v
<1>8. /\ NodeIds(flow') = NodeIds(flow)
      /\ \A m : OutputPorts(flow', m) = OutputPorts(flow, m) /\ OutputPort(flow', m) = OutputPort(flow, m)
      /\ \A q : EdgesFrom(flow', q) = EdgesFrom(flow, q)
      /\ \A q : ResolvePortDataType(flow', q) = ResolvePortDataType(flow, q)
  BY <1>3, SameGraph
<1>9. CompletedWrote'
  <2>1. completed' \subseteq NodeIds(flow') /\ DOMAIN written' \subseteq completed'
    BY <1>1, <1>7, <1>8 DEF RunInv, CompletedWrote
  <2>2. ASSUME NEW m \in completed'
        PROVE  /\ Kind[flow'.nodes[m].block] \in {"input", "buffer", "view", "ai-generate"}
               /\ m \in DOMAIN written' <=> OutputPorts(flow', m) # {}
    BY <1>1, <1>3, <1>7, <1>8 DEF RunInv, CompletedWrote, Executable
  <2> QED
    BY <2>1, <2>2 DEF CompletedWrote, Executable
<1>10. NoWriteIsLost'
  <2> SUFFICES ASSUME NEW m \in DOMAIN written'
               PROVE  LET q == OutputPort(flow, m)
                      IN  /\ q \in DOMAIN flow'.packets
                          /\ flow'.packets[q] = written'[m]
                          /\ \A e \in EdgesFrom(flow, q) :
                               /\ e.target \in DOMAIN flow'.packets
                               /\ flow'.packets[e.target] =
                                    CoercePacketValue(ResolvePortDataType(flow, e.target), written'[m])
    BY <1>8 DEF NoWriteIsLost
  <2> DEFINE q == OutputPort(flow, m)
  <2>1. CASE m = n
    <3>1. OutputPorts(flow, n) # {}
      BY <1>2, <1>7, <2>1 DEF RunInv, CompletedWrote
    <3> QED
      BY <1>3, <1>7, <2>1, <3>1 DEF WroteTo
  <2>2. CASE m # n
    <3>1. m \in DOMAIN written /\ written'[m] = written[m]
      BY <1>7, <2>2
    <3>2. /\ q \in DOMAIN flow.packets
          /\ flow.packets[q] = written[m]
          /\ \A e \in EdgesFrom(flow, q) :
               /\ e.target \in DOMAIN flow.packets
               /\ flow.packets[e.target] =
                    CoercePacketValue(ResolvePortDataType(flow, e.target), written[m])
      BY <3>1 DEF RunInv, NoWriteIsLost
    <3>3. CASE OutputPorts(flow, n) = {}
      BY <1>3, <3>1, <3>2, <3>3
    <3>4. CASE OutputPorts(flow, n) # {}
      <4>1. m \in NodeIds(flow) /\ m \in completed
        BY <3>1 DEF RunInv, CompletedWrote
      <4>2. p \in OutputPorts(flow, n) /\ p[1] = n /\ p \notin InputPorts(flow, n)
        BY <1>2, <1>3, <3>4, OutputFacts, OutputIsNoInput DEF Document
      <4>3. q \in OutputPorts(flow, m) /\ q[1] = m /\ q \notin InputPorts(flow, m)
        BY <1>2, <3>1, <4>1, OutputFacts, OutputIsNoInput DEF Document, RunInv, CompletedWrote, Executable
      <4>4. q # p
        BY <2>2, <4>2, <4>3
      <4>5. \A d \in EdgesFrom(flow, p) : d.target # q
        BY <1>2, <4>3 DEF EdgesFrom, Document, Linked
      <4>6. ASSUME NEW e \in EdgesFrom(flow, q)
            PROVE  e.target # p /\ \A d \in EdgesFrom(flow, p) : d.target # e.target
        BY <1>2, <4>2, <4>4 DEF EdgesFrom, Document, Linked
      <4> QED
        BY <1>3, <3>1, <3>2, <4>4, <4>5, <4>6 DEF WroteTo
    <3> QED
      BY <3>3, <3>4
  <2> QED
    BY <2>1, <2>2
<1> QED
  BY <1>3, <1>5, <1>6, <1>9, <1>10 DEF RunInv

LEMMA RunInductive == RunInv /\ [Next]_vars => RunInv'
<1> SUFFICES ASSUME RunInv, [Next]_vars PROVE RunInv'
  OBVIOUS
<1>1. CASE \E b \in Blocks : \E config \in Config[b] : AddNode(b, config)
  BY <1>1, AddNodeStep
<1>2. CASE \E m, n \in NodeIds(flow) :
             \E s \in OutputPorts(flow, m), t \in InputPorts(flow, n) : Connect(s, t)
  BY <1>2, ConnectStep
<1>3. CASE \E p \in Ports(flow), v \in Preset : SetPacket(p, v)
  BY <1>3, SetPacketStep
<1>4. CASE StartRun
  BY <1>4, StartRunStep
<1>5. CASE \E n \in NodeIds(flow) : StartNode(n)
  BY <1>5, StartNodeStep
<1>6. CASE \E n \in NodeIds(flow) : EndNode(n)
  BY <1>6, EndNodeStep
<1>7. CASE \E n \in NodeIds(flow) : FailNode(n)
  BY <1>7, FailNodeStep
<1>8. CASE UNCHANGED vars
  BY <1>8, CalmStep DEF vars, RunInv, NothingBefore
<1> QED
  BY <1>1, <1>2, <1>3, <1>4, <1>5, <1>6, <1>7, <1>8 DEF Next

\* A running node waited for what feeds it from outside of its loop, each of
\* which has written its only output.
LEMMA ReadsThisRun == RunInv => NodesReadThisRun
<1> SUFFICES ASSUME RunInv, NEW n \in DOMAIN running, NEW e \in flow.edges,
                    e.target[1] = n, e.source[1] \notin Component(n)
             PROVE  /\ e.source[1] \in DOMAIN written
                    /\ e.target \in DOMAIN running[n].packets
                    /\ running[n].packets[e.target] =
                         CoercePacketValue(ResolvePortDataType(flow, e.target), written[e.source[1]])
  BY DEF NodesReadThisRun
<1> DEFINE m == e.source[1]
<1>1. running[n] = flow /\ Ready(n)
  BY DEF RunInv, RunningInTurn
<1>2. m \in NodeIds(flow) /\ e.source \in OutputPorts(flow, m)
  BY DEF RunInv, Document, Linked
<1>3. m \in Dependencies(n)
  <2>1. <<m, n>> \in NodeEdges
    BY DEF NodeEdges
  <2>2. n \in Component(n)
    BY DEF Component
  <2> QED
    BY <1>2, <2>1, <2>2 DEF Dependencies
<1>4. m \in completed
  BY <1>1, <1>3 DEF Ready
<1>5. m \in DOMAIN written /\ e.source = OutputPort(flow, m)
  BY <1>2, <1>4, OutputFacts DEF RunInv, Document, CompletedWrote, Executable
<1>6. e \in EdgesFrom(flow, e.source)
  BY DEF EdgesFrom
<1> QED
  BY <1>1, <1>5, <1>6 DEF RunInv, NoWriteIsLost

-----------------------------------------------------------------------------
(* Theorems *)

\* One component is active at a time, in it one node runs, on the document
\* that is current until it ends (executeFlowDesignSample in design/core.ts).
THEOREM SampleRunInvariant == Spec => []RunInv
<1>1. Init => RunInv
  BY InitRun
<1>2. RunInv /\ [Next]_vars => RunInv'
  BY RunInductive
<1> QED
  BY <1>1, <1>2, PTL DEF Spec

\* Every packet in a port, written by a node, converted for an edge or set
\* beforehand, fits the declared type of the port (document.ts,
\* setPortPacket and propagatePortPacket).
THEOREM PacketsAlwaysFit == Spec => []PacketsFitTheirPorts
<1>1. RunInv => PacketsFitTheirPorts
  BY DEF RunInv, Document, Filled, PacketsFitTheirPorts
<1> QED
  BY <1>1, SampleRunInvariant, PTL

\* What completed nodes wrote stays in their outputs and in the inputs
\* connected to them (core.ts, currentFlow).
THEOREM WritesAreNeverLost == Spec => []NoWriteIsLost
<1>1. RunInv => NoWriteIsLost
  BY DEF RunInv
<1> QED
  BY <1>1, SampleRunInvariant, PTL

\* A running node reads from outside of its loop what was written in this
\* run.
THEOREM NodesAlwaysReadThisRun == Spec => []NodesReadThisRun
<1> QED
  BY ReadsThisRun, SampleRunInvariant, PTL
=============================================================================
