---------------------------- MODULE FlowDocument ----------------------------
(***************************************************************************)
(* Flow documents (src/src/flow/document.ts) as operators: a document is   *)
(* immutable in the code, and every operation returns a new one or throws. *)
(*                                                                         *)
(* A document is [nodes, edges, packets].  A node id is <<prefix, number>>,*)
(* as createNodeId forms it from a block id; callers may choose any other. *)
(* A port is <<node id, local id>>, an edge its two ports.  packets has    *)
(* the ports that hold a packet in its domain.                             *)
(***************************************************************************)
EXTENDS Naturals, FiniteSets, FiniteSetsExt

CONSTANTS
  Blocks,    \* the block ids
  Inputs,    \* for each block its inputs: a function from local ids to types
  Outputs    \* for each block its outputs

ASSUME BlocksAssumption ==
  \A b \in Blocks : DOMAIN Inputs[b] \cap DOMAIN Outputs[b] = {}

(***************************************************************************)
(* Values, by what the conversions make of them: text that is a number, a  *)
(* JSON object, a JSON string around a word or around a number, or no JSON *)
(* at all; a finite or another number; an object; null.                    *)
(***************************************************************************)
Texts  == {"word", "numeral", "objectText", "quotedWord", "quotedNumeral"}
Values == Texts \cup {"number", "infinite", "object", "null"}

\* The exception of a conversion.
Invalid == "invalid"

-----------------------------------------------------------------------------
(* Conversions *)

\* JSON.parse of a text.
Parsed(text) ==
  CASE text = "word"          -> Invalid
    [] text = "numeral"       -> "number"
    [] text = "objectText"    -> "object"
    [] text = "quotedWord"    -> "word"
    [] text = "quotedNumeral" -> "numeral"

CoerceToText(v) ==
  CASE v \in Texts    -> v
    [] v = "number"   -> "numeral"
    [] v = "object"   -> "objectText"
    [] v = "infinite" -> Invalid

CoerceToJson(v) == IF v \in Texts THEN Parsed(v) ELSE v

CoerceToImage(v) == IF v \in Texts THEN v ELSE Invalid

CoerceToNumber(v) == IF v \in {"number", "numeral"} THEN "number" ELSE Invalid

\* Mutant: the types are trusted because the connection was checked.
CoerceNothing(type, v) == v

CoercePacketValue(type, v) ==
  CASE v = "null" \/ type = "any" -> v
    [] v # "null" /\ type = "text"   -> CoerceToText(v)
    [] v # "null" /\ type = "json"   -> CoerceToJson(v)
    [] v # "null" /\ type = "image"  -> CoerceToImage(v)
    [] v # "null" /\ type = "number" -> CoerceToNumber(v)

\* What a port of a type may hold.
Fits(type, v) ==
  \/ v = "null" \/ type = "any" \/ type = "json"
  \/ type \in {"text", "image"} /\ v \in Texts
  \/ type = "number" /\ v = "number"

ArePortTypesCompatible(s, t) ==
  \/ s = t
  \/ "any" \in {s, t}
  \/ "text" \in {s, t}
  \/ {s, t} = {"json", "number"}

-----------------------------------------------------------------------------
(* Documents *)

\* f, with what g says where g says something; f with v at x; f but for x.
Override(f, g) ==
  [x \in DOMAIN f \cup DOMAIN g |-> IF x \in DOMAIN g THEN g[x] ELSE f[x]]
Put(f, x, v) == Override(f, [y \in {x} |-> v])
Without(f, x) == [y \in DOMAIN f \ {x} |-> f[y]]

EmptyDocument == [nodes |-> <<>>, edges |-> {}, packets |-> <<>>]

NodeIds(f) == DOMAIN f.nodes
InputPorts(f, n)  == {<<n, l>> : l \in DOMAIN Inputs[f.nodes[n].block]}
OutputPorts(f, n) == {<<n, l>> : l \in DOMAIN Outputs[f.nodes[n].block]}
Ports(f) == UNION {InputPorts(f, n) \cup OutputPorts(f, n) : n \in NodeIds(f)}

IsInput(f, p) == p \in InputPorts(f, p[1])

DataType(f, p) ==
  LET block == f.nodes[p[1]].block
  IN  IF IsInput(f, p) THEN Inputs[block][p[2]] ELSE Outputs[block][p[2]]

EdgesFrom(f, p) == {e \in f.edges : e.source = p}
EdgesInto(f, p) == {e \in f.edges : e.target = p}

\* An "any" input adopts the type of the output connected to it.
ResolvePortDataType(f, p) ==
  IF IsInput(f, p) /\ DataType(f, p) = "any" /\ EdgesInto(f, p) # {}
  THEN LET e == CHOOSE e \in EdgesInto(f, p) : TRUE IN DataType(f, e.source)
  ELSE DataType(f, p)

\* Mutant: the number of nodes instead of the greatest number.
CountedNodeId(f, b) == <<b, 1 + Cardinality({n \in NodeIds(f) : n[1] = b})>>

\* One more than the greatest number of an id with the block's prefix.
CreateNodeId(f, b) == <<b, 1 + Max({0} \cup {n[2] : n \in {m \in NodeIds(f) : m[1] = b}})>>

CanCreateNode(f, n) == n \notin NodeIds(f)
CreateNode(f, b, n, config) ==
  [f EXCEPT !.nodes = Put(@, n, [block |-> b, config |-> config])]

\* What setPortPacket, and connectPorts through it, write; a port of a
\* document takes a value unless the conversion throws.
Accepts(f, p, v) == CoercePacketValue(ResolvePortDataType(f, p), v) # Invalid
SetPortPacket(f, p, v) ==
  [f EXCEPT !.packets = Put(@, p, CoercePacketValue(ResolvePortDataType(f, p), v))]

Connectable(f, s, t) ==
  /\ EdgesInto(f, t) = {}
  /\ ArePortTypesCompatible(DataType(f, s), DataType(f, t))

WithEdge(f, s, t) == [f EXCEPT !.edges = @ \cup {[source |-> s, target |-> t]}]

\* The target gets the packet the source holds; if it cannot be converted,
\* the connection is not made.
CanConnectPorts(f, s, t) ==
  /\ Connectable(f, s, t)
  /\ s \in DOMAIN f.packets => Accepts(WithEdge(f, s, t), t, f.packets[s])
ConnectPorts(f, s, t) ==
  IF s \in DOMAIN f.packets
  THEN SetPortPacket(WithEdge(f, s, t), t, f.packets[s])
  ELSE WithEdge(f, s, t)

CanPropagate(f, p) ==
  p \in DOMAIN f.packets =>
    \A e \in EdgesFrom(f, p) : Accepts(f, e.target, f.packets[p])

\* Every input connected to the output gets its packet, or none does.
PropagatePortPacket(f, p) ==
  LET targets == {e.target : e \in EdgesFrom(f, p)}
      packet(t) == CoercePacketValue(ResolvePortDataType(f, t), f.packets[p])
  IN  IF p \in DOMAIN f.packets
      THEN [f EXCEPT !.packets = Override(@, [t \in targets |-> packet(t)])]
      ELSE f
=============================================================================
