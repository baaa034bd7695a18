----------------------------- MODULE GraphProofs -----------------------------
(***************************************************************************)
(* Theorems about the plans of module GraphPlanner, for every graph, about *)
(* the runs of module GraphExecutor, for every planned graph, all limits   *)
(* and every order in which nodes end, and about the two together.         *)
(***************************************************************************)
EXTENDS GraphPlans, GraphExecutor, Integers, SequenceTheorems, FiniteSetTheorems,
        Recursion, TLAPS

(***************************************************************************)
(* Part one: the planner.  The invariant of the search for components      *)
(* numbers what is visited, ties the stack to the calls and says what the  *)
(* low link of a call knows; it does not say in which order nodes and      *)
(* successors are tried.                                                   *)
(***************************************************************************)

\* A graph the planner accepts.
Graph(g) == IsFiniteSet(g.nodes) /\ g.nodes \subseteq Nat /\ Valid(g)

Leads(g, m, n) == \A S \in ClosedSets(g) : m \in S => n \in S

Rising(f, q) == \A i, j \in DOMAIN q : i < j => f[q[i]] < f[q[j]]

Visited(s)  == DOMAIN s.indices
Stacked(s)  == ToSet(s.stack)
Calling(s)  == ToSet(s.path)
Placed(s)   == UNION ToSet(s.components)

Maps(g) == UNION {[D -> Nat] : D \in SUBSET g.nodes}

Searches(g) ==
  [index : Nat, indices : Maps(g), lowLinks : Maps(g), stack : Seq(g.nodes),
   components : Seq(SUBSET g.nodes), path : Seq(g.nodes), left : SUBSET g.edges]

\* Visited nodes are numbered in the order of their visits; they are on the
\* stack, in that order, or in a component, and the calls are on the stack.
NumbersFit(g, s) ==
  /\ DOMAIN s.lowLinks = Visited(s)
  /\ \A n \in Visited(s) : s.indices[n] < s.index
  /\ \A m, n \in Visited(s) : s.indices[m] = s.indices[n] => m = n
  /\ Visited(s) = Stacked(s) \cup Placed(s) /\ Stacked(s) \cap Placed(s) = {}
  /\ Calling(s) \subseteq Stacked(s)
  /\ Rising(s.indices, s.stack) /\ Rising(s.indices, s.path)

\* No edge of a call that returned is left, and no edge is passed over before
\* the node it leads to is visited.
EdgesFit(g, s) ==
  \A e \in g.edges :
    /\ e[1] \notin Visited(s) => e \in s.left
    /\ e[1] \in Visited(s) \ Calling(s) => e \notin s.left
    /\ e \notin s.left => e[2] \in Visited(s)

\* A low link is the index of a node on the stack that the node leads to.
LinksFit(g, s) ==
  \A n \in Stacked(s) :
    /\ s.lowLinks[n] <= s.indices[n]
    /\ \E m \in Stacked(s) : s.indices[m] = s.lowLinks[n] /\ Leads(g, n, m)

\* A call leads to all above it, and whatever is on the stack to a call below.
CallsLead(g, s) ==
  /\ \A p \in Calling(s), n \in Stacked(s) : s.indices[p] <= s.indices[n] => Leads(g, p, n)
  /\ \A n \in Stacked(s) : \E p \in Calling(s) : s.indices[p] <= s.indices[n] /\ Leads(g, n, p)

\* The low link of a call accounts for the edges of all above it that are not
\* above a later call.
LinksReach(g, s) ==
  \A e \in g.edges \ s.left, p \in Calling(s) :
    /\ e[1] \in Stacked(s) /\ e[2] \in Stacked(s)
    /\ s.indices[p] <= s.indices[e[1]]
    => \/ s.lowLinks[p] <= s.indices[e[2]]
       \/ \E c \in Calling(s) : s.indices[p] < s.indices[c] /\ s.indices[c] <= s.indices[e[1]]

\* The components are circles, and lead to earlier ones only.
ComponentsFit(g, s) ==
  LET comps == s.components
  IN  \A i \in DOMAIN comps :
        /\ comps[i] # {}
        /\ \A m, n \in comps[i] : Leads(g, m, n)
        /\ \A e \in g.edges : e[1] \in comps[i] => \E j \in 1..i : e[2] \in comps[j]
        /\ \A j \in DOMAIN comps : i # j => comps[i] \cap comps[j] = {}

SearchInv(g, s) ==
  /\ s \in Searches(g)
  /\ NumbersFit(g, s) /\ EdgesFit(g, s) /\ LinksFit(g, s)
  /\ CallsLead(g, s) /\ LinksReach(g, s) /\ ComponentsFit(g, s)

ToDo(g, s) == 2 * Cardinality(Unvisited(g, s)) + Len(s.path) + Cardinality(s.left)

-----------------------------------------------------------------------------
(* What leads where. *)

LEMMA ReachedIsLed ==
  ASSUME NEW g, NEW n \in g.nodes
  PROVE  /\ ReachedFrom(g)[n] = {m \in g.nodes : Leads(g, n, m)}
         /\ DOMAIN ReachedFrom(g) = g.nodes
BY DEF ReachedFrom, Leads

\* Paths join.
LEMMA LeadsOn ==
  ASSUME NEW g
  PROVE  /\ \A n : Leads(g, n, n)
         /\ \A m, n, o : Leads(g, m, n) /\ Leads(g, n, o) => Leads(g, m, o)
         /\ \A m, n : <<m, n>> \in g.edges => Leads(g, m, n)
<1>1. \A m, n, S : <<m, n>> \in g.edges /\ S \in ClosedSets(g) /\ m \in S => n \in S
  <2> TAKE m, n, S
  <2> HAVE <<m, n>> \in g.edges /\ S \in ClosedSets(g) /\ m \in S
  <2>1. <<m, n>>[1] \in S => <<m, n>>[2] \in S
    BY DEF ClosedSets
  <2> QED
    BY <2>1
<1> QED
  BY <1>1 DEF Leads

\* No path leaves a set that no edge leaves.
LEMMA LeadsOut ==
  ASSUME NEW g, NEW S \in ClosedSets(g), NEW m \in S, NEW n, Leads(g, m, n)
  PROVE  n \in S
BY DEF Leads

\* An edge joins two different nodes of the graph.
LEMMA EdgeShape ==
  ASSUME NEW g, Graph(g)
  PROVE  \A e \in g.edges : /\ e = <<e[1], e[2]>> /\ e[1] \in g.nodes /\ e[2] \in g.nodes
                            /\ e[1] # e[2]
BY DEF Graph, Valid


-----------------------------------------------------------------------------
(* Maps and sequences that grow. *)

LEMMA PutIs ==
  ASSUME NEW D, NEW f \in [D -> Nat], NEW n, NEW v \in Nat
  PROVE  /\ Put(f, n, v) \in [D \cup {n} -> Nat]
         /\ Put(f, n, v)[n] = v
         /\ \A m \in D : m # n => Put(f, n, v)[m] = f[m]
BY DEF Put

\* What is appended is last; the rest stays.
LEMMA Appended ==
  ASSUME NEW S, NEW q \in Seq(S), NEW x
  PROVE  /\ DOMAIN Append(q, x) = 1..(Len(q) + 1) /\ DOMAIN q = 1..Len(q) /\ Len(q) \in Nat
         /\ Append(q, x)[Len(q) + 1] = x /\ \A i \in 1..Len(q) : Append(q, x)[i] = q[i]
<1>1. q \in Seq(S \cup {x})
  BY SeqMonotonic
<1> QED
  BY <1>1, AppendProperties, LenProperties

\* A stack without copies stays one when something new is pushed.
LEMMA Pushed ==
  ASSUME NEW S, NEW q \in Seq(S), NEW x
  PROVE  ToSet(Append(q, x)) = ToSet(q) \cup {x}
<1>1. /\ DOMAIN Append(q, x) = 1..(Len(q) + 1) /\ DOMAIN q = 1..Len(q) /\ Len(q) \in Nat
      /\ Append(q, x)[Len(q) + 1] = x /\ \A i \in 1..Len(q) : Append(q, x)[i] = q[i]
  BY Appended
<1>2. ASSUME NEW y \in ToSet(Append(q, x)) PROVE y \in ToSet(q) \cup {x}
  BY <1>1, <1>2 DEF ToSet
<1>3. ASSUME NEW y \in ToSet(q) PROVE y \in ToSet(Append(q, x))
  <2>1. PICK i \in 1..Len(q) : y = q[i]
    BY <1>1, <1>3 DEF ToSet
  <2> QED
    BY <1>1, <2>1 DEF ToSet
<1>4. x \in ToSet(Append(q, x))
  BY <1>1 DEF ToSet
<1> QED
  BY <1>2, <1>3, <1>4

\* A rising sequence stays one when something higher is pushed.
LEMMA RisingPush ==
  ASSUME NEW D, NEW q \in Seq(D), NEW f \in [D -> Nat], Rising(f, q),
         NEW x, NEW v \in Nat, x \notin D, \A y \in ToSet(q) : f[y] < v
  PROVE  Rising(Put(f, x, v), Append(q, x))
<1>1. /\ DOMAIN Append(q, x) = 1..(Len(q) + 1) /\ DOMAIN q = 1..Len(q) /\ Len(q) \in Nat
      /\ Append(q, x)[Len(q) + 1] = x /\ \A i \in 1..Len(q) : Append(q, x)[i] = q[i]
  BY Appended
<1>2. \A i \in 1..Len(q) : q[i] \in D /\ q[i] \in ToSet(q) /\ Put(f, x, v)[q[i]] = f[q[i]]
  BY <1>1, ElementOfSeq DEF ToSet, Put
<1>3. Put(f, x, v)[x] = v
  BY DEF Put
<1> SUFFICES ASSUME NEW i \in 1..(Len(q) + 1), NEW j \in 1..(Len(q) + 1), i < j
             PROVE  Put(f, x, v)[Append(q, x)[i]] < Put(f, x, v)[Append(q, x)[j]]
  BY <1>1 DEF Rising
<1>4. i \in 1..Len(q)
  BY <1>1
<1>5. CASE j \in 1..Len(q)
  BY <1>1, <1>2, <1>4, <1>5 DEF Rising
<1>6. CASE j = Len(q) + 1
  <2>1. f[q[i]] < v
    BY <1>2, <1>4
  <2> QED
    BY <1>1, <1>2, <1>3, <1>4, <1>6, <2>1
<1> QED
  BY <1>1, <1>5, <1>6

\* What is popped with the i-th element.
From(q, i) == {q[j] : j \in i..Len(q)}

\* A prefix of a rising sequence is all that lies below its end.
LEMMA Below ==
  ASSUME NEW D, NEW q \in Seq(D), NEW f \in [D -> Nat], Rising(f, q), NEW i \in 1..Len(q)
  PROVE  /\ SubSeq(q, 1, i - 1) \in Seq(D)
         /\ Len(SubSeq(q, 1, i - 1)) = i - 1
         /\ Rising(f, SubSeq(q, 1, i - 1))
         /\ ToSet(SubSeq(q, 1, i - 1)) = {y \in ToSet(q) : f[y] < f[q[i]]}
         /\ From(q, i) = {y \in ToSet(q) : f[q[i]] <= f[y]}
<1> DEFINE p == SubSeq(q, 1, i - 1)
<1>1. /\ Len(q) \in Nat /\ i \in Nat /\ i - 1 \in Nat /\ DOMAIN q = 1..Len(q)
      /\ \A j \in 1..Len(q) : q[j] \in D /\ f[q[j]] \in Nat
  BY LenProperties, ElementOfSeq
<1>2. /\ p \in Seq(D) /\ Len(p) = i - 1 /\ DOMAIN p = 1..(i - 1)
      /\ \A j \in 1..(i - 1) : p[j] = q[j] /\ j \in 1..Len(q)
  <2>1. \A j \in 1..(i - 1) : q[j] \in D
    BY <1>1
  <2>2. p \in Seq(D) /\ Len(p) = i - 1 /\ \A j \in 1..(i - 1) : p[j] = q[1 + j - 1]
    BY <1>1, <2>1, SubSeqProperties
  <2>3. \A j \in 1..(i - 1) : 1 + j - 1 = j
    OBVIOUS
  <2> QED
    BY <1>1, <2>2, <2>3, LenProperties
<1> HIDE DEF p
<1>3. Rising(f, p)
  BY <1>1, <1>2 DEF Rising
<1>4. \A j, k \in 1..Len(q) : f[q[j]] < f[q[k]] => j < k
  <2> TAKE j, k \in 1..Len(q)
  <2> HAVE f[q[j]] < f[q[k]]
  <2>1. k < j => f[q[k]] < f[q[j]]
    BY <1>1 DEF Rising
  <2> QED
    BY <1>1, <2>1
<1>5. ToSet(p) = {y \in ToSet(q) : f[y] < f[q[i]]}
  <2>1. ASSUME NEW y \in ToSet(p) PROVE y \in ToSet(q) /\ f[y] < f[q[i]]
    <3>1. PICK j \in 1..(i - 1) : y = q[j] /\ j \in 1..Len(q)
      BY <1>2, <2>1 DEF ToSet
    <3>2. j < i
      BY <1>1
    <3> QED
      BY <1>1, <3>1, <3>2 DEF Rising, ToSet
  <2>2. ASSUME NEW y \in ToSet(q), f[y] < f[q[i]] PROVE y \in ToSet(p)
    <3>1. PICK j \in 1..Len(q) : y = q[j]
      BY <1>1 DEF ToSet
    <3>2. j < i
      BY <1>4, <2>2, <3>1
    <3>3. j \in 1..(i - 1)
      BY <1>1, <3>2
    <3> QED
      BY <1>2, <3>1, <3>3 DEF ToSet
  <2> QED
    BY <2>1, <2>2
<1>6. From(q, i) = {y \in ToSet(q) : f[q[i]] <= f[y]}
  <2>1. ASSUME NEW j \in i..Len(q) PROVE q[j] \in ToSet(q) /\ f[q[i]] <= f[q[j]]
    <3>1. j \in 1..Len(q) /\ (j = i \/ i < j)
      BY <1>1
    <3>2. i < j => f[q[i]] < f[q[j]]
      BY <1>1, <3>1 DEF Rising
    <3>3. f[q[i]] \in Nat /\ f[q[j]] \in Nat
      BY <1>1, <3>1
    <3>4. f[q[i]] <= f[q[j]]
      BY <3>1, <3>2, <3>3
    <3> QED
      BY <1>1, <3>1, <3>4 DEF ToSet
  <2>2. ASSUME NEW y \in ToSet(q), f[q[i]] <= f[y] PROVE \E j \in i..Len(q) : y = q[j]
    <3>1. PICK j \in 1..Len(q) : y = q[j]
      BY <1>1 DEF ToSet
    <3>2. j < i => f[q[j]] < f[q[i]]
      BY <1>1 DEF Rising
    <3>3. j \in i..Len(q)
      BY <1>1, <2>2, <3>1, <3>2
    <3> QED
      BY <3>1, <3>3
  <2> QED
    BY <2>1, <2>2 DEF From
<1> QED
  BY <1>2, <1>3, <1>5, <1>6 DEF p

\* The last of a rising sequence is the highest.
LEMMA Highest ==
  ASSUME NEW D, NEW q \in Seq(D), NEW f \in [D -> Nat], Rising(f, q), q # <<>>
  PROVE  /\ Last(q) \in ToSet(q) /\ \A y \in ToSet(q) : f[y] <= f[Last(q)]
         /\ Front(q) \in Seq(D) /\ Len(Front(q)) = Len(q) - 1
         /\ Rising(f, Front(q))
         /\ ToSet(Front(q)) = {y \in ToSet(q) : f[y] < f[Last(q)]}
         /\ Len(q) \in Nat \ {0}
<1>1. Len(q) \in Nat \ {0} /\ DOMAIN q = 1..Len(q)
  BY EmptySeq, LenProperties
<1>2. Len(q) \in 1..Len(q)
  BY <1>1
<1>3. Last(q) = q[Len(q)] /\ Front(q) = SubSeq(q, 1, Len(q) - 1)
  BY DEF Last, Front
<1>4. \A y \in ToSet(q) : f[y] <= f[Last(q)]
  <2> TAKE y \in ToSet(q)
  <2>1. PICK j \in 1..Len(q) : y = q[j]
    BY <1>1 DEF ToSet
  <2>2. \A k \in Nat \ {0} : \A l \in 1..k : l = k \/ l < k
    OBVIOUS
  <2>4. j = Len(q) \/ j < Len(q)
    BY <1>1, <2>2
  <2>5. j < Len(q) => f[q[j]] < f[q[Len(q)]]
    BY <1>1, <1>2 DEF Rising
  <2>3. \A k \in 1..Len(q) : f[q[k]] \in Nat
    BY ElementOfSeq
  <2> QED
    BY <1>2, <1>3, <2>1, <2>3, <2>4, <2>5
<1>5. Last(q) \in ToSet(q)
  BY <1>1, <1>2, <1>3 DEF ToSet
<1>9. \A i \in 1..Len(q) :
         /\ SubSeq(q, 1, i - 1) \in Seq(D)
         /\ Len(SubSeq(q, 1, i - 1)) = i - 1
         /\ Rising(f, SubSeq(q, 1, i - 1))
         /\ ToSet(SubSeq(q, 1, i - 1)) = {y \in ToSet(q) : f[y] < f[q[i]]}
  BY Below
<1>6. /\ SubSeq(q, 1, Len(q) - 1) \in Seq(D)
      /\ Len(SubSeq(q, 1, Len(q) - 1)) = Len(q) - 1
      /\ Rising(f, SubSeq(q, 1, Len(q) - 1))
      /\ ToSet(SubSeq(q, 1, Len(q) - 1)) = {y \in ToSet(q) : f[y] < f[q[Len(q)]]}
  BY <1>2, <1>9
<1>7. ToSet(Front(q)) = {y \in ToSet(q) : f[y] < f[Last(q)]}
  BY <1>3, <1>6
<1>8. Front(q) \in Seq(D) /\ Len(Front(q)) = Len(q) - 1 /\ Rising(f, Front(q))
  BY <1>3, <1>6
<1> QED
  BY <1>1, <1>4, <1>5, <1>7, <1>8

\* A sequence over a set that holds its elements.
LEMMA SeqOver ==
  ASSUME NEW S, NEW T, NEW q \in Seq(S), ToSet(q) \subseteq T
  PROVE  q \in Seq(T)
<1>1. Len(q) \in Nat /\ DOMAIN q = 1..Len(q) /\ q = [i \in 1..Len(q) |-> q[i]]
  BY LenProperties
<1>2. \A i \in 1..Len(q) : q[i] \in T
  BY <1>1 DEF ToSet
<1> QED
  BY <1>1, <1>2


-----------------------------------------------------------------------------
(* Each step of the search keeps its invariant. *)

LEMMA SearchShape ==
  ASSUME NEW g, NEW s \in Searches(g), NumbersFit(g, s)
  PROVE  /\ s.index \in Nat
         /\ s.indices \in [Visited(s) -> Nat] /\ Visited(s) \subseteq g.nodes
         /\ s.lowLinks \in [Visited(s) -> Nat]
         /\ s.stack \in Seq(Visited(s)) /\ s.path \in Seq(Visited(s))
         /\ s.components \in Seq(SUBSET g.nodes)
         /\ s.left \subseteq g.edges
         /\ Calling(s) \subseteq Stacked(s) /\ Stacked(s) \subseteq Visited(s)
<1>1. /\ s.index \in Nat /\ s.indices \in Maps(g) /\ s.lowLinks \in Maps(g)
      /\ s.stack \in Seq(g.nodes) /\ s.path \in Seq(g.nodes)
      /\ s.components \in Seq(SUBSET g.nodes) /\ s.left \subseteq g.edges
  BY DEF Searches
<1>2. \A f \in Maps(g) : f \in [DOMAIN f -> Nat] /\ DOMAIN f \subseteq g.nodes
  BY DEF Maps
<1>3. s.indices \in [Visited(s) -> Nat] /\ Visited(s) \subseteq g.nodes /\ s.lowLinks \in [Visited(s) -> Nat]
  BY <1>1, <1>2 DEF Visited, NumbersFit
<1>4. Calling(s) \subseteq Stacked(s) /\ Stacked(s) \subseteq Visited(s)
  BY DEF NumbersFit
<1>5. s.stack \in Seq(Visited(s)) /\ s.path \in Seq(Visited(s))
  BY <1>1, <1>4, SeqOver DEF Stacked, Calling
<1> QED
  BY <1>1, <1>3, <1>4, <1>5

\* The last call is the one with the highest number, and no node is on the
\* stack outside of calls.
LEMMA LastCall ==
  ASSUME NEW g, NEW s, SearchInv(g, s), s.path # <<>>
  PROVE  /\ Last(s.path) \in Calling(s)
         /\ \A p \in Calling(s) : s.indices[p] <= s.indices[Last(s.path)]
         /\ Front(s.path) \in Seq(Visited(s)) /\ Len(Front(s.path)) = Len(s.path) - 1
         /\ Len(s.path) \in Nat \ {0}
         /\ Rising(s.indices, Front(s.path))
         /\ ToSet(Front(s.path)) = {y \in Calling(s) : s.indices[y] < s.indices[Last(s.path)]}
         /\ ToSet(Front(s.path)) = Calling(s) \ {Last(s.path)}
<1>1. s \in Searches(g) /\ NumbersFit(g, s)
  BY DEF SearchInv
<1>2. /\ s.indices \in [Visited(s) -> Nat] /\ s.path \in Seq(Visited(s))
      /\ Calling(s) \subseteq Visited(s)
  BY <1>1, SearchShape
<1>3. Rising(s.indices, s.path)
  BY <1>1 DEF NumbersFit
<1>4. /\ Last(s.path) \in Calling(s)
      /\ \A p \in Calling(s) : s.indices[p] <= s.indices[Last(s.path)]
      /\ Front(s.path) \in Seq(Visited(s)) /\ Len(Front(s.path)) = Len(s.path) - 1
      /\ Rising(s.indices, Front(s.path))
      /\ ToSet(Front(s.path)) = {y \in Calling(s) : s.indices[y] < s.indices[Last(s.path)]}
      /\ Len(s.path) \in Nat \ {0}
  BY <1>2, <1>3, Highest DEF Calling
<1>5. \A m, n \in Visited(s) : s.indices[m] = s.indices[n] => m = n
  BY <1>1 DEF NumbersFit
<1>6. \A y \in Calling(s) : s.indices[y] < s.indices[Last(s.path)] <=> y # Last(s.path)
  <2> TAKE y \in Calling(s)
  <2>1. s.indices[y] \in Nat /\ s.indices[Last(s.path)] \in Nat
    BY <1>2, <1>4
  <2>2. s.indices[y] <= s.indices[Last(s.path)]
    BY <1>4
  <2>3. s.indices[y] = s.indices[Last(s.path)] => y = Last(s.path)
    BY <1>2, <1>4, <1>5
  <2> QED
    BY <2>1, <2>2, <2>3
<1> QED
  BY <1>4, <1>6

\* What a call of strongConnect for the node n does: by the loop over the
\* nodes, or by the last call, which passes over the edge.
Entered(s, t, n) ==
  /\ t.index = s.index + 1
  /\ t.indices = Put(s.indices, n, s.index) /\ t.lowLinks = Put(s.lowLinks, n, s.index)
  /\ t.stack = Append(s.stack, n) /\ t.path = Append(s.path, n)
  /\ t.components = s.components
  /\ t.left = IF s.path = <<>> THEN s.left ELSE s.left \ {<<Last(s.path), n>>}

\* What is visited, stacked and called after a node is entered.
LEMMA EnterShape ==
  ASSUME NEW g, NEW s, SearchInv(g, s), NEW n \in Unvisited(g, s), NEW t, Entered(s, t, n)
  PROVE  /\ Visited(t) = Visited(s) \cup {n} /\ n \notin Visited(s) /\ n \in g.nodes
         /\ Stacked(t) = Stacked(s) \cup {n} /\ Calling(t) = Calling(s) \cup {n}
         /\ Placed(t) = Placed(s)
         /\ t.indices \in [Visited(t) -> Nat] /\ t.lowLinks \in [Visited(t) -> Nat]
         /\ t.indices[n] = s.index /\ t.lowLinks[n] = s.index
         /\ \A m \in Visited(s) : /\ t.indices[m] = s.indices[m] /\ t.lowLinks[m] = s.lowLinks[m]
                                  /\ s.indices[m] < s.index /\ s.indices[m] \in Nat
         /\ s.index \in Nat
<1>1. s \in Searches(g) /\ NumbersFit(g, s)
  BY DEF SearchInv
<1>2. /\ s.index \in Nat /\ s.indices \in [Visited(s) -> Nat] /\ s.lowLinks \in [Visited(s) -> Nat]
      /\ s.stack \in Seq(Visited(s)) /\ s.path \in Seq(Visited(s))
  BY <1>1, SearchShape
<1>3. n \in g.nodes /\ n \notin Visited(s)
  BY DEF Unvisited, Visited
<1>4. /\ t.indices \in [Visited(s) \cup {n} -> Nat] /\ t.lowLinks \in [Visited(s) \cup {n} -> Nat]
      /\ t.indices[n] = s.index /\ t.lowLinks[n] = s.index
      /\ \A m \in Visited(s) : t.indices[m] = s.indices[m] /\ t.lowLinks[m] = s.lowLinks[m]
  BY <1>2, <1>3 DEF Entered, Put
<1>5. Stacked(t) = Stacked(s) \cup {n} /\ Calling(t) = Calling(s) \cup {n} /\ Placed(t) = Placed(s)
  BY <1>2, Pushed DEF Entered, Stacked, Calling, Placed
<1>6. \A m \in Visited(s) : s.indices[m] < s.index /\ s.indices[m] \in Nat
  BY <1>1, <1>2 DEF NumbersFit
<1> QED
  BY <1>2, <1>3, <1>4, <1>5, <1>6 DEF Visited

\* A new node is led to by every call.
LEMMA EnterKeeps ==
  ASSUME NEW g, Graph(g), NEW s, SearchInv(g, s), NEW n \in Unvisited(g, s),
         s.path # <<>> => <<Last(s.path), n>> \in s.left,
         NEW t \in Searches(g), Entered(s, t, n)
  PROVE  SearchInv(g, t)
<1>1. /\ s \in Searches(g) /\ NumbersFit(g, s) /\ EdgesFit(g, s) /\ LinksFit(g, s)
      /\ CallsLead(g, s) /\ LinksReach(g, s) /\ ComponentsFit(g, s)
  BY DEF SearchInv
<1>2. /\ Visited(t) = Visited(s) \cup {n} /\ n \notin Visited(s) /\ n \in g.nodes
      /\ Stacked(t) = Stacked(s) \cup {n} /\ Calling(t) = Calling(s) \cup {n}
      /\ Placed(t) = Placed(s)
      /\ t.indices \in [Visited(t) -> Nat] /\ t.lowLinks \in [Visited(t) -> Nat]
      /\ t.indices[n] = s.index /\ t.lowLinks[n] = s.index
      /\ \A m \in Visited(s) : /\ t.indices[m] = s.indices[m] /\ t.lowLinks[m] = s.lowLinks[m]
                               /\ s.indices[m] < s.index /\ s.indices[m] \in Nat
      /\ s.index \in Nat
  BY EnterShape
<1>3. /\ s.indices \in [Visited(s) -> Nat] /\ s.lowLinks \in [Visited(s) -> Nat]
      /\ s.stack \in Seq(Visited(s)) /\ s.path \in Seq(Visited(s))
      /\ Calling(s) \subseteq Stacked(s) /\ Stacked(s) \subseteq Visited(s)
      /\ s.left \subseteq g.edges
  BY <1>1, SearchShape
<1>4. \A e \in g.edges : /\ e = <<e[1], e[2]>> /\ e[1] \in g.nodes /\ e[2] \in g.nodes
                         /\ e[1] # e[2]
  BY EdgeShape
<1>5. t.left \subseteq s.left /\ t.components = s.components
  BY DEF Entered
<1>6. \A e \in s.left \ t.left : /\ s.path # <<>> /\ e[1] = Last(s.path) /\ e[2] = n
                                 /\ Last(s.path) \in Calling(s)
  <2> TAKE e \in s.left \ t.left
  <2>1. s.path # <<>> /\ e = <<Last(s.path), n>>
    BY DEF Entered
  <2> QED
    BY <2>1, LastCall
<1>7. NumbersFit(g, t)
  <2>1. DOMAIN t.lowLinks = Visited(t)
    BY <1>2
  <2>2. \A m \in Visited(t) : t.indices[m] < t.index
    <3>1. t.index = s.index + 1
      BY DEF Entered
    <3> QED
      BY <1>2, <3>1
  <2>3. \A m, o \in Visited(t) : t.indices[m] = t.indices[o] => m = o
    <3>1. \A m, o \in Visited(s) : s.indices[m] = s.indices[o] => m = o
      BY <1>1 DEF NumbersFit
    <3>2. \A m \in Visited(s) : t.indices[m] # s.index
      BY <1>2
    <3> QED
      BY <1>2, <3>1, <3>2
  <2>4. /\ Visited(t) = Stacked(t) \cup Placed(t) /\ Stacked(t) \cap Placed(t) = {}
        /\ Calling(t) \subseteq Stacked(t)
    BY <1>1, <1>2 DEF NumbersFit
  <2>5. Rising(t.indices, t.stack) /\ Rising(t.indices, t.path)
    <3>1. Rising(s.indices, s.stack) /\ Rising(s.indices, s.path)
      BY <1>1 DEF NumbersFit
    <3>2. /\ \A y \in ToSet(s.stack) : s.indices[y] < s.index
          /\ \A y \in ToSet(s.path) : s.indices[y] < s.index
      BY <1>2, <1>3 DEF Stacked, Calling
    <3>3. Rising(Put(s.indices, n, s.index), Append(s.stack, n))
      BY <1>2, <1>3, <3>1, <3>2, RisingPush
    <3>4. Rising(Put(s.indices, n, s.index), Append(s.path, n))
      BY <1>2, <1>3, <3>1, <3>2, RisingPush
    <3> QED
      BY <3>3, <3>4 DEF Entered
  <2> QED
    BY <2>1, <2>2, <2>3, <2>4, <2>5 DEF NumbersFit
<1>8. EdgesFit(g, t)
  BY <1>1, <1>2, <1>3, <1>5, <1>6 DEF EdgesFit
<1>9. LinksFit(g, t)
  <2> SUFFICES ASSUME NEW m \in Stacked(t)
               PROVE  /\ t.lowLinks[m] <= t.indices[m]
                      /\ \E o \in Stacked(t) : t.indices[o] = t.lowLinks[m] /\ Leads(g, m, o)
    BY DEF LinksFit
  <2>1. CASE m = n
    BY <1>2, <2>1, LeadsOn
  <2>2. CASE m \in Stacked(s)
    BY <1>1, <1>2, <1>3, <2>2 DEF LinksFit
  <2> QED
    BY <1>2, <2>1, <2>2
<1>10. CallsLead(g, t)
  <2>1. ASSUME NEW p \in Calling(t), NEW m \in Stacked(t), t.indices[p] <= t.indices[m]
        PROVE  Leads(g, p, m)
    <3>1. CASE p = n /\ m = n
      BY <3>1, LeadsOn
    <3>2. CASE p = n /\ m \in Stacked(s)
      BY <1>2, <1>3, <2>1, <3>2
    <3>3. CASE p \in Calling(s) /\ m \in Stacked(s)
      BY <1>1, <1>2, <1>3, <2>1, <3>3 DEF CallsLead
    <3>4. CASE p \in Calling(s) /\ m = n
      <4>1. s.path # <<>>
        BY <3>4 DEF Calling, ToSet
      <4>2. Last(s.path) \in Calling(s) /\ s.indices[p] <= s.indices[Last(s.path)]
        BY <3>4, <4>1, LastCall
      <4>3. Leads(g, p, Last(s.path))
        BY <1>1, <1>3, <3>4, <4>2 DEF CallsLead
      <4>4. <<Last(s.path), n>> \in g.edges
        BY <1>3, <4>1
      <4> QED
        BY <3>4, <4>3, <4>4, LeadsOn
    <3> QED
      BY <1>2, <3>1, <3>2, <3>3, <3>4
  <2>2. ASSUME NEW m \in Stacked(t)
        PROVE  \E p \in Calling(t) : t.indices[p] <= t.indices[m] /\ Leads(g, m, p)
    <3>1. CASE m = n
      BY <1>2, <3>1, LeadsOn
    <3>2. CASE m \in Stacked(s)
      <4>1. PICK p \in Calling(s) : s.indices[p] <= s.indices[m] /\ Leads(g, m, p)
        BY <1>1, <3>2 DEF CallsLead
      <4> QED
        BY <1>2, <1>3, <3>2, <4>1
    <3> QED
      BY <1>2, <3>1, <3>2
  <2> QED
    BY <2>1, <2>2 DEF CallsLead
<1>11. LinksReach(g, t)
  <2> SUFFICES ASSUME NEW e \in g.edges \ t.left, NEW p \in Calling(t),
                      e[1] \in Stacked(t), e[2] \in Stacked(t), t.indices[p] <= t.indices[e[1]],
                      ~(\E c \in Calling(t) : t.indices[p] < t.indices[c] /\ t.indices[c] <= t.indices[e[1]])
               PROVE  t.lowLinks[p] <= t.indices[e[2]]
    BY DEF LinksReach
  <2>1. CASE e \notin s.left
    <3>1. e[2] \in Visited(s) /\ e[1] \in Visited(s)
      BY <1>1, <2>1 DEF EdgesFit
    <3>2. e[1] \in Stacked(s) /\ e[2] \in Stacked(s)
      BY <1>2, <3>1
    <3>3. p \in Calling(s)
      BY <1>2, <1>3, <3>2
    <3>4. ~(\E c \in Calling(s) : s.indices[p] < s.indices[c] /\ s.indices[c] <= s.indices[e[1]])
      BY <1>2, <1>3, <3>2, <3>3
    <3>5. s.lowLinks[p] <= s.indices[e[2]]
      BY <1>1, <1>2, <1>3, <2>1, <3>2, <3>3, <3>4 DEF LinksReach
    <3> QED
      BY <1>2, <1>3, <3>2, <3>3, <3>5
  <2>2. CASE e \in s.left
    <3>1. e[1] = Last(s.path) /\ e[2] = n /\ Last(s.path) \in Calling(s)
      BY <1>6, <2>2
    <3>2. p \in Visited(t) /\ t.lowLinks[p] <= t.indices[p] /\ t.lowLinks[p] \in Nat
      BY <1>2, <1>3, <1>9 DEF LinksFit
    <3> QED
      BY <1>2, <1>3, <3>1, <3>2
  <2> QED
    BY <2>1, <2>2
<1>12. ComponentsFit(g, t)
  BY <1>1, <1>5 DEF ComponentsFit
<1> QED
  BY <1>7, <1>8, <1>9, <1>10, <1>11, <1>12 DEF SearchInv

\* What looking at the edge from the last call n to a visited node m does.
Looked(s, t, n, m) ==
  /\ t.index = s.index /\ t.indices = s.indices /\ t.stack = s.stack /\ t.path = s.path
  /\ t.components = s.components
  /\ t.left = s.left \ {<<n, m>>}
  /\ t.lowLinks = IF m \in Stacked(s)
                  THEN Put(s.lowLinks, n, IF s.lowLinks[n] <= s.indices[m]
                                          THEN s.lowLinks[n] ELSE s.indices[m])
                  ELSE s.lowLinks

\* Of the two ends of an edge on the stack the link knows the lower.
LEMMA LookKeeps ==
  ASSUME NEW g, Graph(g), NEW s, SearchInv(g, s), s.path # <<>>,
         NEW m \in Visited(s), <<Last(s.path), m>> \in s.left,
         NEW t \in Searches(g), Looked(s, t, Last(s.path), m)
  PROVE  SearchInv(g, t)
<1> DEFINE n == Last(s.path)
<1>1. /\ s \in Searches(g) /\ NumbersFit(g, s) /\ EdgesFit(g, s) /\ LinksFit(g, s)
      /\ CallsLead(g, s) /\ LinksReach(g, s) /\ ComponentsFit(g, s)
  BY DEF SearchInv
<1>2. /\ s.indices \in [Visited(s) -> Nat] /\ s.lowLinks \in [Visited(s) -> Nat]
      /\ Calling(s) \subseteq Stacked(s) /\ Stacked(s) \subseteq Visited(s)
      /\ s.left \subseteq g.edges
  BY <1>1, SearchShape
<1>3. n \in Calling(s) /\ \A p \in Calling(s) : s.indices[p] <= s.indices[n]
  BY LastCall
<1>4. /\ t.index = s.index /\ t.indices = s.indices /\ t.stack = s.stack /\ t.path = s.path
      /\ t.components = s.components /\ t.left = s.left \ {<<n, m>>}
      /\ Visited(t) = Visited(s) /\ Stacked(t) = Stacked(s) /\ Calling(t) = Calling(s)
      /\ Placed(t) = Placed(s)
  BY DEF Looked, Visited, Stacked, Calling, Placed
<1> HIDE DEF n
<1>5. /\ t.lowLinks \in [Visited(s) -> Nat]
      /\ \A k \in Visited(s) : k # n => t.lowLinks[k] = s.lowLinks[k]
      /\ t.lowLinks[n] = s.lowLinks[n] \/ (m \in Stacked(s) /\ t.lowLinks[n] = s.indices[m])
      /\ t.lowLinks[n] <= s.lowLinks[n]
      /\ m \in Stacked(s) => t.lowLinks[n] <= s.indices[m]
  <2>1. n \in Visited(s) /\ s.lowLinks[n] \in Nat /\ s.indices[m] \in Nat
    BY <1>2, <1>3
  <2>2. CASE m \in Stacked(s)
    <3> DEFINE link == IF s.lowLinks[n] <= s.indices[m] THEN s.lowLinks[n] ELSE s.indices[m]
    <3>1. t.lowLinks = Put(s.lowLinks, n, link)
      BY <2>2 DEF Looked, n
    <3>2. /\ link \in Nat /\ link <= s.lowLinks[n] /\ link <= s.indices[m]
          /\ link = s.lowLinks[n] \/ link = s.indices[m]
      BY <2>1
    <3> HIDE DEF link
    <3>3. /\ t.lowLinks \in [Visited(s) -> Nat] /\ t.lowLinks[n] = link
          /\ \A k \in Visited(s) : k # n => t.lowLinks[k] = s.lowLinks[k]
      BY <1>2, <2>1, <3>1, <3>2 DEF Put
    <3> QED
      BY <2>2, <3>2, <3>3
  <2>3. CASE m \notin Stacked(s)
    BY <1>2, <2>1, <2>3 DEF Looked
  <2> QED
    BY <2>2, <2>3
<1>6. \A k \in Visited(s) : t.lowLinks[k] <= s.lowLinks[k] /\ t.lowLinks[k] \in Nat /\ s.lowLinks[k] \in Nat
  <2> TAKE k \in Visited(s)
  <2>1. t.lowLinks[k] \in Nat /\ s.lowLinks[k] \in Nat
    BY <1>2, <1>5
  <2> QED
    BY <1>5, <2>1
<1>7. NumbersFit(g, t)
  <2>1. DOMAIN t.lowLinks = Visited(t)
    BY <1>4, <1>5
  <2> QED
    BY <1>1, <1>4, <2>1 DEF NumbersFit
<1>8. EdgesFit(g, t)
  <2> SUFFICES ASSUME NEW e \in g.edges
               PROVE  /\ e[1] \notin Visited(s) => e \in t.left
                      /\ e[1] \in Visited(s) \ Calling(s) => e \notin t.left
                      /\ e \notin t.left => e[2] \in Visited(s)
    BY <1>4 DEF EdgesFit
  <2>1. CASE e = <<n, m>>
    BY <1>2, <1>3, <1>4, <2>1
  <2>2. CASE e # <<n, m>>
    BY <1>1, <1>4, <2>2 DEF EdgesFit
  <2> QED
    BY <2>1, <2>2
<1>9. LinksFit(g, t)
  <2> SUFFICES ASSUME NEW k \in Stacked(s)
               PROVE  /\ t.lowLinks[k] <= s.indices[k]
                      /\ \E o \in Stacked(s) : s.indices[o] = t.lowLinks[k] /\ Leads(g, k, o)
    BY <1>4 DEF LinksFit
  <2>1. s.lowLinks[k] <= s.indices[k]
    BY <1>1 DEF LinksFit
  <2>2. t.lowLinks[k] <= s.indices[k]
    <3>1. s.indices[k] \in Nat
      BY <1>2
    <3> QED
      BY <1>2, <1>6, <2>1, <3>1
  <2>3. CASE t.lowLinks[k] = s.lowLinks[k]
    BY <1>1, <2>2, <2>3 DEF LinksFit
  <2>4. CASE k = n /\ m \in Stacked(s) /\ t.lowLinks[n] = s.indices[m]
    <3>1. Leads(g, n, m)
      BY <1>2, LeadsOn DEF n
    <3> QED
      BY <2>2, <2>4, <3>1
  <2> QED
    BY <1>2, <1>5, <2>3, <2>4
<1>10. CallsLead(g, t)
  BY <1>1, <1>4 DEF CallsLead
<1>11. LinksReach(g, t)
  <2> SUFFICES ASSUME NEW e \in g.edges \ t.left, NEW p \in Calling(s),
                      e[1] \in Stacked(s), e[2] \in Stacked(s), s.indices[p] <= s.indices[e[1]],
                      ~(\E c \in Calling(s) : s.indices[p] < s.indices[c] /\ s.indices[c] <= s.indices[e[1]])
               PROVE  t.lowLinks[p] <= s.indices[e[2]]
    BY <1>4 DEF LinksReach
  <2>1. s.indices[e[2]] \in Nat /\ p \in Visited(s) /\ s.indices[p] \in Nat /\ s.indices[n] \in Nat
    BY <1>2, <1>3
  <2>2. CASE e = <<n, m>>
    <3>1. s.indices[p] = s.indices[n]
      BY <1>3, <2>1, <2>2
    <3>2. p = n
      BY <1>1, <1>2, <1>3, <3>1 DEF NumbersFit
    <3> QED
      BY <1>5, <2>2, <3>2
  <2>3. CASE e \notin s.left
    <3>1. s.lowLinks[p] <= s.indices[e[2]]
      BY <1>1, <2>3 DEF LinksReach
    <3>2. t.lowLinks[p] <= s.lowLinks[p] /\ t.lowLinks[p] \in Nat /\ s.lowLinks[p] \in Nat
      BY <1>6, <2>1
    <3> QED
      BY <2>1, <3>1, <3>2
  <2> QED
    BY <1>4, <2>2, <2>3
<1>12. ComponentsFit(g, t)
  BY <1>1, <1>4 DEF ComponentsFit
<1> QED
  BY <1>7, <1>8, <1>9, <1>10, <1>11, <1>12 DEF SearchInv

\* What the return of the last call does to the calls and the low links.
Lowered(s, t) ==
  LET callers == Front(s.path)
      caller == Last(callers)
      link == s.lowLinks[Last(s.path)]
  IN  /\ t.path = callers
      /\ t.lowLinks = IF callers = <<>> THEN s.lowLinks
                      ELSE Put(s.lowLinks, caller,
                               IF s.lowLinks[caller] <= link THEN s.lowLinks[caller] ELSE link)

\* The link of a lowered node is the lower of two.
LEMMA LoweredIs ==
  ASSUME NEW g, NEW s, SearchInv(g, s), s.path # <<>>, NEW t, Lowered(s, t),
         NEW n, n = Last(s.path)
  PROVE  /\ Calling(t) = Calling(s) \ {n} /\ n \in Calling(s)
         /\ t.path \in Seq(Visited(s)) /\ Len(t.path) = Len(s.path) - 1 /\ Len(s.path) \in Nat \ {0}
         /\ Rising(s.indices, t.path)
         /\ \A p \in Calling(t) : s.indices[p] < s.indices[n]
         /\ t.lowLinks \in [Visited(s) -> Nat]
         /\ Calling(t) = {} => t.lowLinks = s.lowLinks
         /\ Calling(t) # {} =>
              \E caller \in Calling(t) :
                /\ \A p \in Calling(t) : s.indices[p] <= s.indices[caller]
                /\ \A k \in Visited(s) : k # caller => t.lowLinks[k] = s.lowLinks[k]
                /\ t.lowLinks[caller] <= s.lowLinks[caller]
                /\ t.lowLinks[caller] <= s.lowLinks[n]
                /\ t.lowLinks[caller] \in {s.lowLinks[caller], s.lowLinks[n]}
<1> DEFINE callers == Front(s.path)
           caller == Last(callers)
<1>1. s \in Searches(g) /\ NumbersFit(g, s)
  BY DEF SearchInv
<1>2. /\ s.indices \in [Visited(s) -> Nat] /\ s.lowLinks \in [Visited(s) -> Nat]
      /\ Calling(s) \subseteq Stacked(s) /\ Stacked(s) \subseteq Visited(s)
  BY <1>1, SearchShape
<1>3. /\ n \in Calling(s)
      /\ callers \in Seq(Visited(s)) /\ Len(callers) = Len(s.path) - 1
      /\ Len(s.path) \in Nat \ {0}
      /\ Rising(s.indices, callers)
      /\ ToSet(callers) = {y \in Calling(s) : s.indices[y] < s.indices[n]}
      /\ ToSet(callers) = Calling(s) \ {n}
  BY LastCall
<1>4. t.path = callers /\ Calling(t) = ToSet(callers)
  BY DEF Lowered, Calling
<1>5. CASE callers = <<>>
  <2>1. ToSet(callers) = {}
    BY <1>5 DEF ToSet
  <2>2. t.lowLinks = s.lowLinks
    BY <1>5 DEF Lowered
  <2> QED
    BY <1>2, <1>3, <1>4, <2>1, <2>2
<1>6. CASE callers # <<>>
  <2>1. caller \in ToSet(callers) /\ \A y \in ToSet(callers) : s.indices[y] <= s.indices[caller]
    <3> HIDE DEF callers
    <3> QED
      BY <1>2, <1>3, <1>6, Highest
  <2>2. caller \in Visited(s) /\ n \in Visited(s)
    BY <1>2, <1>3, <2>1
  <2> DEFINE low == IF s.lowLinks[caller] <= s.lowLinks[n] THEN s.lowLinks[caller] ELSE s.lowLinks[n]
  <2>3. t.lowLinks = Put(s.lowLinks, caller, low)
    BY <1>6 DEF Lowered
  <2>4. s.lowLinks[caller] \in Nat /\ s.lowLinks[n] \in Nat
    BY <1>2, <2>2
  <2>5. /\ low \in Nat /\ low <= s.lowLinks[caller] /\ low <= s.lowLinks[n]
        /\ low \in {s.lowLinks[caller], s.lowLinks[n]}
    BY <2>4
  <2> HIDE DEF low, caller
  <2>6. /\ t.lowLinks \in [Visited(s) -> Nat] /\ t.lowLinks[caller] = low
        /\ \A k \in Visited(s) : k # caller => t.lowLinks[k] = s.lowLinks[k]
    BY <1>2, <2>2, <2>3, <2>5 DEF Put
  <2> QED
    BY <1>3, <1>4, <2>1, <2>5, <2>6
<1> QED
  BY <1>5, <1>6

\* A call that is not a component's root leads to a call below it.
LEMMA ReturnKeeps ==
  ASSUME NEW g, Graph(g), NEW s, SearchInv(g, s), s.path # <<>>,
         \A e \in s.left : e[1] # Last(s.path),
         s.lowLinks[Last(s.path)] # s.indices[Last(s.path)],
         NEW t \in Searches(g), Lowered(s, t),
         t.index = s.index, t.indices = s.indices, t.stack = s.stack,
         t.components = s.components, t.left = s.left
  PROVE  SearchInv(g, t)
<1> DEFINE n == Last(s.path)
<1>1. /\ s \in Searches(g) /\ NumbersFit(g, s) /\ EdgesFit(g, s) /\ LinksFit(g, s)
      /\ CallsLead(g, s) /\ LinksReach(g, s) /\ ComponentsFit(g, s)
  BY DEF SearchInv
<1>2. /\ s.indices \in [Visited(s) -> Nat] /\ s.lowLinks \in [Visited(s) -> Nat]
      /\ Calling(s) \subseteq Stacked(s) /\ Stacked(s) \subseteq Visited(s)
      /\ s.left \subseteq g.edges
  BY <1>1, SearchShape
<1>3. \A p \in Calling(s) : s.indices[p] <= s.indices[n]
  BY LastCall
<1>4. /\ Visited(t) = Visited(s) /\ Stacked(t) = Stacked(s) /\ Placed(t) = Placed(s)
  BY DEF Visited, Stacked, Placed
<1>5. /\ Calling(t) = Calling(s) \ {n} /\ n \in Calling(s)
      /\ Rising(s.indices, t.path)
      /\ \A p \in Calling(t) : s.indices[p] < s.indices[n]
      /\ t.lowLinks \in [Visited(s) -> Nat]
      /\ Calling(t) = {} => t.lowLinks = s.lowLinks
      /\ Calling(t) # {} =>
           \E caller \in Calling(t) :
             /\ \A p \in Calling(t) : s.indices[p] <= s.indices[caller]
             /\ \A k \in Visited(s) : k # caller => t.lowLinks[k] = s.lowLinks[k]
             /\ t.lowLinks[caller] <= s.lowLinks[caller]
             /\ t.lowLinks[caller] <= s.lowLinks[n]
             /\ t.lowLinks[caller] \in {s.lowLinks[caller], s.lowLinks[n]}
  BY LoweredIs
<1> HIDE DEF n
<1>6. n \in Stacked(s) /\ n \in Visited(s) /\ s.indices[n] \in Nat /\ s.lowLinks[n] \in Nat
  BY <1>2, <1>5
\* The node that n leads to below, and the call below that.
<1>7. PICK low \in Stacked(s) : s.indices[low] = s.lowLinks[n] /\ Leads(g, n, low)
  BY <1>1, <1>6 DEF LinksFit
<1>8. s.indices[low] < s.indices[n]
  <2>1. s.lowLinks[n] <= s.indices[n] /\ s.lowLinks[n] # s.indices[n]
    BY <1>1, <1>6 DEF LinksFit, n
  <2> QED
    BY <1>6, <1>7, <2>1
<1>9. PICK base \in Calling(s) : s.indices[base] <= s.indices[low] /\ Leads(g, low, base)
  BY <1>1 DEF CallsLead
<1>10. /\ s.indices[base] \in Nat /\ s.indices[low] \in Nat /\ s.indices[base] < s.indices[n]
       /\ base \in Calling(t) /\ Leads(g, n, base)
  <2>1. s.indices[base] \in Nat /\ s.indices[low] \in Nat
    BY <1>2
  <2>2. s.indices[base] < s.indices[n]
    BY <1>6, <1>8, <1>9, <2>1
  <2>3. base \in Calling(t)
    BY <1>5, <1>6, <2>1, <2>2
  <2>4. Leads(g, n, base)
    BY <1>7, <1>9, LeadsOn
  <2> QED
    BY <2>1, <2>2, <2>3, <2>4
<1>11. PICK caller \in Calling(t) :
         /\ \A p \in Calling(t) : s.indices[p] <= s.indices[caller]
         /\ \A k \in Visited(s) : k # caller => t.lowLinks[k] = s.lowLinks[k]
         /\ t.lowLinks[caller] <= s.lowLinks[caller]
         /\ t.lowLinks[caller] <= s.lowLinks[n]
         /\ t.lowLinks[caller] \in {s.lowLinks[caller], s.lowLinks[n]}
  BY <1>5, <1>10
<1>12. \A k \in Visited(s) : /\ t.lowLinks[k] <= s.lowLinks[k] /\ t.lowLinks[k] \in Nat
                             /\ s.lowLinks[k] \in Nat /\ s.indices[k] \in Nat
  <2> TAKE k \in Visited(s)
  <2>1. t.lowLinks[k] \in Nat /\ s.lowLinks[k] \in Nat /\ s.indices[k] \in Nat
    BY <1>2, <1>5
  <2> QED
    BY <1>11, <2>1
<1>13. caller \in Visited(s) /\ caller \in Calling(s) /\ s.indices[caller] < s.indices[n]
  BY <1>2, <1>5
<1>14. NumbersFit(g, t)
  <2>1. DOMAIN t.lowLinks = Visited(t)
    BY <1>4, <1>5
  <2>2. Calling(t) \subseteq Stacked(t)
    BY <1>2, <1>4, <1>5
  <2> QED
    BY <1>1, <1>4, <1>5, <2>1, <2>2 DEF NumbersFit
<1>15. EdgesFit(g, t)
  <2>1. \A e \in g.edges : e[1] = n => e \notin t.left
    BY DEF n
  <2> QED
    BY <1>1, <1>4, <1>5, <2>1 DEF EdgesFit
<1>16. LinksFit(g, t)
  <2> SUFFICES ASSUME NEW k \in Stacked(s)
               PROVE  /\ t.lowLinks[k] <= s.indices[k]
                      /\ \E o \in Stacked(s) : s.indices[o] = t.lowLinks[k] /\ Leads(g, k, o)
    BY <1>4 DEF LinksFit
  <2>1. s.lowLinks[k] <= s.indices[k]
    BY <1>1 DEF LinksFit
  <2>2. k \in Visited(s)
    BY <1>2
  <2>3. t.lowLinks[k] <= s.indices[k]
    BY <1>12, <2>1, <2>2
  <2>4. CASE t.lowLinks[k] = s.lowLinks[k]
    BY <1>1, <2>3, <2>4 DEF LinksFit
  <2>5. CASE k = caller /\ t.lowLinks[k] = s.lowLinks[n]
    <3>1. Leads(g, caller, n)
      BY <1>1, <1>6, <1>12, <1>13 DEF CallsLead
    <3>2. Leads(g, caller, low)
      BY <1>7, <3>1, LeadsOn
    <3> QED
      BY <1>7, <2>3, <2>5, <3>2
  <2> QED
    BY <1>11, <2>2, <2>4, <2>5
<1>17. CallsLead(g, t)
  <2>1. ASSUME NEW m \in Stacked(s)
        PROVE  \E p \in Calling(t) : s.indices[p] <= s.indices[m] /\ Leads(g, m, p)
    <3>1. PICK p \in Calling(s) : s.indices[p] <= s.indices[m] /\ Leads(g, m, p)
      BY <1>1 DEF CallsLead
    <3>2. CASE p # n
      BY <1>5, <3>1, <3>2
    <3>3. CASE p = n
      <4>1. Leads(g, m, base)
        BY <1>10, <3>1, <3>3, LeadsOn
      <4>2. s.indices[m] \in Nat
        BY <1>2
      <4>3. s.indices[base] <= s.indices[m]
        BY <1>6, <1>10, <3>1, <3>3, <4>2
      <4> QED
        BY <1>10, <4>1, <4>3
    <3> QED
      BY <3>2, <3>3
  <2> QED
    BY <1>1, <1>4, <1>5, <2>1 DEF CallsLead
<1>18. LinksReach(g, t)
  <2> SUFFICES ASSUME NEW e \in g.edges \ s.left, NEW p \in Calling(t),
                      e[1] \in Stacked(s), e[2] \in Stacked(s), s.indices[p] <= s.indices[e[1]],
                      ~(\E c \in Calling(t) : s.indices[p] < s.indices[c] /\ s.indices[c] <= s.indices[e[1]])
               PROVE  t.lowLinks[p] <= s.indices[e[2]]
    BY <1>4 DEF LinksReach
  <2>1. /\ p \in Calling(s) /\ p \in Visited(s) /\ e[1] \in Visited(s) /\ e[2] \in Visited(s)
        /\ s.indices[p] < s.indices[n]
    BY <1>2, <1>5
  <2>2. CASE s.lowLinks[p] <= s.indices[e[2]]
    BY <1>12, <2>1, <2>2
  <2>3. CASE ~(s.lowLinks[p] <= s.indices[e[2]])
    <3>1. PICK c \in Calling(s) : s.indices[p] < s.indices[c] /\ s.indices[c] <= s.indices[e[1]]
      BY <1>1, <2>1, <2>3 DEF LinksReach
    <3>2. c = n
      BY <1>5, <3>1
    <3>3. s.lowLinks[n] <= s.indices[e[2]]
      <4>1. ~(\E d \in Calling(s) : s.indices[n] < s.indices[d] /\ s.indices[d] <= s.indices[e[1]])
        <5>1. \A d \in Calling(s) : s.indices[d] \in Nat /\ s.indices[d] <= s.indices[n]
          BY <1>2, <1>3
        <5> QED
          BY <1>6, <5>1
      <4> QED
        BY <1>1, <1>5, <3>1, <3>2, <4>1 DEF LinksReach
    <3>4. p = caller
      <4>1. s.indices[caller] <= s.indices[e[1]]
        BY <1>12, <1>13, <2>1, <3>1, <3>2, <1>6
      <4>2. ~(s.indices[p] < s.indices[caller])
        BY <4>1
      <4>3. s.indices[p] = s.indices[caller]
        BY <1>11, <1>12, <1>13, <2>1, <4>2
      <4> QED
        BY <1>1, <1>13, <2>1, <4>3 DEF NumbersFit
    <3>5. t.lowLinks[p] <= s.lowLinks[n]
      BY <1>11, <3>4
    <3> QED
      BY <1>6, <1>12, <2>1, <3>3, <3>5
  <2> QED
    BY <2>2, <2>3
<1>19. ComponentsFit(g, t)
  BY <1>1 DEF ComponentsFit
<1> QED
  BY <1>14, <1>15, <1>16, <1>17, <1>18, <1>19 DEF SearchInv

\* What a component takes from the stack.
Above(s) == {y \in Stacked(s) : s.indices[Last(s.path)] <= s.indices[y]}

\* What is popped with a node, and what stays.
LEMMA AboveIs ==
  ASSUME NEW g, NEW s, SearchInv(g, s), s.path # <<>>,
         NEW i \in DOMAIN s.stack, s.stack[i] = Last(s.path)
  PROVE  /\ SubSeq(s.stack, 1, i - 1) \in Seq(Visited(s))
         /\ Rising(s.indices, SubSeq(s.stack, 1, i - 1))
         /\ ToSet(SubSeq(s.stack, 1, i - 1))
              = {y \in Stacked(s) : s.indices[y] < s.indices[Last(s.path)]}
         /\ From(s.stack, i) = Above(s)
<1>1. s \in Searches(g) /\ NumbersFit(g, s)
  BY DEF SearchInv
<1>2. s.indices \in [Visited(s) -> Nat] /\ s.stack \in Seq(Visited(s))
  BY <1>1, SearchShape
<1>3. Rising(s.indices, s.stack) /\ i \in 1..Len(s.stack)
  BY <1>1, <1>2, LenProperties DEF NumbersFit
<1> DEFINE n == s.stack[i]
<1>4. SubSeq(s.stack, 1, i - 1) \in Seq(Visited(s)) /\ Rising(s.indices, SubSeq(s.stack, 1, i - 1))
  BY <1>2, <1>3, Below
<1>6. ToSet(SubSeq(s.stack, 1, i - 1)) = {y \in ToSet(s.stack) : s.indices[y] < s.indices[n]}
  BY <1>2, <1>3, Below
<1>7. From(s.stack, i) = {y \in ToSet(s.stack) : s.indices[n] <= s.indices[y]}
  BY <1>2, <1>3, Below
<1>5. n = Last(s.path)
  OBVIOUS
<1> HIDE DEF n
<1> QED
  BY <1>4, <1>5, <1>6, <1>7 DEF Stacked, Above

\* A root and all above it lead to each other, and to nothing else on the stack.
LEMMA CloseKeeps ==
  ASSUME NEW g, Graph(g), NEW s, SearchInv(g, s), s.path # <<>>,
         \A e \in s.left : e[1] # Last(s.path),
         s.lowLinks[Last(s.path)] = s.indices[Last(s.path)],
         NEW t \in Searches(g), Lowered(s, t),
         t.index = s.index, t.indices = s.indices, t.left = s.left,
         Rising(s.indices, t.stack),
         Stacked(t) = {y \in Stacked(s) : s.indices[y] < s.indices[Last(s.path)]},
         t.components = Append(s.components, Above(s))
  PROVE  SearchInv(g, t)
<1> DEFINE n == Last(s.path)
           above == {y \in Stacked(s) : s.indices[n] <= s.indices[y]}
<1>1. /\ s \in Searches(g) /\ NumbersFit(g, s) /\ EdgesFit(g, s) /\ LinksFit(g, s)
      /\ CallsLead(g, s) /\ LinksReach(g, s) /\ ComponentsFit(g, s)
  BY DEF SearchInv
<1>2. /\ s.indices \in [Visited(s) -> Nat] /\ s.lowLinks \in [Visited(s) -> Nat]
      /\ Calling(s) \subseteq Stacked(s) /\ Stacked(s) \subseteq Visited(s)
      /\ s.left \subseteq g.edges /\ s.stack \in Seq(Visited(s))
      /\ s.components \in Seq(SUBSET g.nodes) /\ Visited(s) \subseteq g.nodes
  BY <1>1, SearchShape
<1>3. \A p \in Calling(s) : s.indices[p] <= s.indices[n]
  BY LastCall
<1>4. /\ Visited(t) = Visited(s)
      /\ Stacked(t) = {y \in Stacked(s) : s.indices[y] < s.indices[n]}
      /\ Rising(s.indices, t.stack)
      /\ t.components = Append(s.components, above)
  BY DEF Visited, Above
<1>5. /\ Calling(t) = Calling(s) \ {n} /\ n \in Calling(s)
      /\ Rising(s.indices, t.path)
      /\ \A p \in Calling(t) : s.indices[p] < s.indices[n]
      /\ t.lowLinks \in [Visited(s) -> Nat]
      /\ Calling(t) = {} => t.lowLinks = s.lowLinks
      /\ Calling(t) # {} =>
           \E caller \in Calling(t) :
             /\ \A p \in Calling(t) : s.indices[p] <= s.indices[caller]
             /\ \A k \in Visited(s) : k # caller => t.lowLinks[k] = s.lowLinks[k]
             /\ t.lowLinks[caller] <= s.lowLinks[caller]
             /\ t.lowLinks[caller] <= s.lowLinks[n]
             /\ t.lowLinks[caller] \in {s.lowLinks[caller], s.lowLinks[n]}
  BY LoweredIs
<1>6. s.lowLinks[n] = s.indices[n] /\ \A e \in s.left : e[1] # n
  OBVIOUS
<1> HIDE DEF n
<1>7. \A k \in Visited(s) : s.indices[k] \in Nat /\ s.lowLinks[k] \in Nat /\ t.lowLinks[k] \in Nat
  BY <1>2, <1>5
<1>8. n \in Stacked(s) /\ n \in Visited(s) /\ s.indices[n] \in Nat
  BY <1>2, <1>5
\* The caller is below n, and stays as low as it was.
<1>9. t.lowLinks = s.lowLinks
  <2>1. CASE Calling(t) = {}
    BY <1>5, <2>1
  <2>2. CASE Calling(t) # {}
    <3>1. PICK caller \in Calling(t) :
             /\ \A k \in Visited(s) : k # caller => t.lowLinks[k] = s.lowLinks[k]
             /\ t.lowLinks[caller] <= s.lowLinks[caller]
             /\ t.lowLinks[caller] \in {s.lowLinks[caller], s.lowLinks[n]}
      BY <1>5, <2>2
    <3>2. caller \in Visited(s) /\ caller \in Stacked(s) /\ s.indices[caller] < s.indices[n]
      BY <1>2, <1>5
    <3>3. s.lowLinks[caller] <= s.indices[caller]
      BY <1>1, <3>2 DEF LinksFit
    <3>4. s.lowLinks[caller] < s.lowLinks[n]
      BY <1>6, <1>7, <1>8, <3>2, <3>3
    <3>5. t.lowLinks[caller] = s.lowLinks[caller]
      BY <1>7, <1>8, <3>1, <3>2, <3>4
    <3>6. \A k \in Visited(s) : t.lowLinks[k] = s.lowLinks[k]
      BY <3>1, <3>5
    <3> QED
      BY <1>2, <1>5, <3>6
  <2> QED
    BY <2>1, <2>2
<1>10. Stacked(s) = Stacked(t) \cup above /\ Stacked(t) \cap above = {} /\ n \in above
  <2>1. \A y \in Stacked(s) : s.indices[y] < s.indices[n] <=> ~(s.indices[n] <= s.indices[y])
    BY <1>2, <1>7, <1>8
  <2>2. n \in above
    BY <1>8
  <2> QED
    BY <1>4, <2>1, <2>2
<1>11. Placed(t) = Placed(s) \cup above
  <2>1. ToSet(t.components) = ToSet(s.components) \cup {above}
    BY <1>2, <1>4, Pushed
  <2> HIDE DEF above
  <2> QED
    BY <2>1 DEF Placed
<1>12. NumbersFit(g, t)
  <2>1. DOMAIN t.lowLinks = Visited(t)
    BY <1>4, <1>5
  <2>2. Calling(t) \subseteq Stacked(t)
    BY <1>2, <1>4, <1>5
  <2>3. Visited(s) = Stacked(s) \cup Placed(s) /\ Stacked(s) \cap Placed(s) = {}
    BY <1>1 DEF NumbersFit
  <2>4. Visited(t) = Stacked(t) \cup Placed(t) /\ Stacked(t) \cap Placed(t) = {}
    <3> HIDE DEF above
    <3> QED
      BY <1>4, <1>10, <1>11, <2>3
  <2>5. /\ \A m \in Visited(t) : t.indices[m] < t.index
        /\ \A m, o \in Visited(t) : t.indices[m] = t.indices[o] => m = o
    BY <1>1, <1>4 DEF NumbersFit
  <2> QED
    BY <1>4, <1>5, <2>1, <2>2, <2>4, <2>5 DEF NumbersFit
<1>13. EdgesFit(g, t)
  <2>1. \A e \in g.edges : e[1] = n => e \notin t.left
    BY <1>6
  <2> QED
    BY <1>1, <1>4, <1>5, <2>1 DEF EdgesFit
<1>14. LinksFit(g, t)
  <2> SUFFICES ASSUME NEW k \in Stacked(t)
               PROVE  /\ s.lowLinks[k] <= s.indices[k]
                      /\ \E o \in Stacked(t) : s.indices[o] = s.lowLinks[k] /\ Leads(g, k, o)
    BY <1>9 DEF LinksFit
  <2>1. k \in Stacked(s) /\ s.indices[k] < s.indices[n] /\ k \in Visited(s)
    BY <1>2, <1>4
  <2>2. s.lowLinks[k] <= s.indices[k]
    BY <1>1, <2>1 DEF LinksFit
  <2>3. PICK o \in Stacked(s) : s.indices[o] = s.lowLinks[k] /\ Leads(g, k, o)
    BY <1>1, <2>1 DEF LinksFit
  <2>4. s.indices[o] < s.indices[n]
    BY <1>2, <1>7, <1>8, <2>1, <2>2, <2>3
  <2> QED
    BY <1>4, <2>2, <2>3, <2>4
<1>15. CallsLead(g, t)
  <2>1. ASSUME NEW p \in Calling(t), NEW m \in Stacked(t), s.indices[p] <= s.indices[m]
        PROVE  Leads(g, p, m)
    BY <1>1, <1>4, <1>5, <2>1 DEF CallsLead
  <2>2. ASSUME NEW m \in Stacked(t)
        PROVE  \E p \in Calling(t) : s.indices[p] <= s.indices[m] /\ Leads(g, m, p)
    <3>1. m \in Stacked(s) /\ s.indices[m] < s.indices[n] /\ m \in Visited(s)
      BY <1>2, <1>4
    <3>2. PICK p \in Calling(s) : s.indices[p] <= s.indices[m] /\ Leads(g, m, p)
      BY <1>1, <3>1 DEF CallsLead
    <3>3. p \in Visited(s)
      BY <1>2
    <3>4. p # n
      BY <1>7, <1>8, <3>1, <3>2, <3>3
    <3> QED
      BY <1>5, <3>2, <3>4
  <2> QED
    BY <2>1, <2>2 DEF CallsLead
<1>16. LinksReach(g, t)
  <2> SUFFICES ASSUME NEW e \in g.edges \ s.left, NEW p \in Calling(t),
                      e[1] \in Stacked(t), e[2] \in Stacked(t), s.indices[p] <= s.indices[e[1]]
               PROVE  \/ s.lowLinks[p] <= s.indices[e[2]]
                      \/ \E c \in Calling(t) : /\ s.indices[p] < s.indices[c]
                                               /\ s.indices[c] <= s.indices[e[1]]
    BY <1>9 DEF LinksReach
  <2>1. /\ e[1] \in Stacked(s) /\ e[2] \in Stacked(s) /\ s.indices[e[1]] < s.indices[n]
        /\ p \in Calling(s) /\ e[1] \in Visited(s)
    BY <1>2, <1>4, <1>5
  <2>2. CASE s.lowLinks[p] <= s.indices[e[2]]
    BY <2>2
  <2>3. CASE ~(s.lowLinks[p] <= s.indices[e[2]])
    <3>1. PICK c \in Calling(s) : s.indices[p] < s.indices[c] /\ s.indices[c] <= s.indices[e[1]]
      BY <1>1, <2>1, <2>3 DEF LinksReach
    <3>2. c \in Visited(s)
      BY <1>2
    <3>3. c # n
      BY <1>7, <1>8, <2>1, <3>1, <3>2
    <3> QED
      BY <1>5, <3>1, <3>3
  <2> QED
    BY <2>2, <2>3
\* What is above n leads to nothing on the stack that is below n.
<1>17. \A e \in g.edges : e[1] \in above => e[2] \in above \cup Placed(s)
  <2> SUFFICES ASSUME NEW e \in g.edges, e[1] \in Stacked(s), s.indices[n] <= s.indices[e[1]],
                      e[2] \notin Placed(s)
               PROVE  e[2] \in above
    OBVIOUS
  <2>1. e \notin s.left
    <3>1. CASE e[1] \in Calling(s)
      <4>1. s.indices[e[1]] = s.indices[n] /\ e[1] \in Visited(s)
        BY <1>2, <1>3, <1>7, <1>8, <3>1
      <4>2. e[1] = n
        BY <1>1, <1>8, <4>1 DEF NumbersFit
      <4> QED
        BY <1>6, <4>2
    <3>2. CASE e[1] \notin Calling(s)
      BY <1>1, <1>2, <3>2 DEF EdgesFit
    <3> QED
      BY <3>1, <3>2
  <2>2. e[2] \in Stacked(s)
    <3>1. e[2] \in Visited(s)
      BY <1>1, <2>1 DEF EdgesFit
    <3> QED
      BY <1>1, <3>1 DEF NumbersFit
  <2>3. ~(\E c \in Calling(s) : s.indices[n] < s.indices[c] /\ s.indices[c] <= s.indices[e[1]])
    <3>1. \A c \in Calling(s) : s.indices[c] \in Nat /\ s.indices[c] <= s.indices[n]
      BY <1>2, <1>3
    <3> QED
      BY <1>8, <3>1
  <2>4. s.lowLinks[n] <= s.indices[e[2]]
    BY <1>1, <1>5, <2>1, <2>2, <2>3 DEF LinksReach
  <2> QED
    BY <1>6, <2>2, <2>4
<1>18. \A m, o \in above : Leads(g, m, o)
  <2>1. ASSUME NEW m \in above PROVE Leads(g, m, n) /\ Leads(g, n, m)
    <3>1. Leads(g, n, m)
      BY <1>1, <1>5 DEF CallsLead
    <3>2. PICK p \in Calling(s) : s.indices[p] <= s.indices[m] /\ Leads(g, m, p)
      BY <1>1 DEF CallsLead
    <3>3. Leads(g, p, n)
      BY <1>1, <1>3, <1>8 DEF CallsLead
    <3> QED
      BY <3>1, <3>2, <3>3, LeadsOn
  <2> HIDE DEF above
  <2> QED
    BY <2>1, LeadsOn
<1>19. above \cap Placed(s) = {}
  <2>1. Stacked(s) \cap Placed(s) = {}
    BY <1>1 DEF NumbersFit
  <2> HIDE DEF above
  <2> QED
    BY <1>10, <2>1
<1> DEFINE k == Len(s.components)
<1>20. /\ k \in Nat /\ DOMAIN s.components = 1..k
       /\ DOMAIN t.components = 1..(k + 1) /\ t.components[k + 1] = above
       /\ \A j \in 1..k : t.components[j] = s.components[j]
  <2>1. t.components = Append(s.components, above)
    BY <1>4
  <2> HIDE DEF above
  <2>2. /\ DOMAIN Append(s.components, above) = 1..(Len(s.components) + 1)
        /\ DOMAIN s.components = 1..Len(s.components) /\ Len(s.components) \in Nat
        /\ Append(s.components, above)[Len(s.components) + 1] = above
        /\ \A j \in 1..Len(s.components) : Append(s.components, above)[j] = s.components[j]
    BY <1>2, Appended
  <2> QED
    BY <2>1, <2>2
<1> HIDE DEF above, k
<1>23. \A j \in 1..(k + 1) : j \in 1..k \/ j = k + 1
  BY <1>20
<1>21. \A j \in 1..k : s.components[j] \subseteq Placed(s)
  BY <1>20 DEF Placed, ToSet
<1>22. ComponentsFit(g, t)
  <2> SUFFICES ASSUME NEW j \in 1..(k + 1)
               PROVE  /\ t.components[j] # {}
                      /\ \A m, o \in t.components[j] : Leads(g, m, o)
                      /\ \A e \in g.edges : e[1] \in t.components[j] =>
                           \E l \in 1..j : e[2] \in t.components[l]
                      /\ \A l \in 1..(k + 1) : j # l => t.components[j] \cap t.components[l] = {}
    BY <1>20 DEF ComponentsFit
  <2>1. CASE j \in 1..k
    <3>1. /\ s.components[j] # {}
          /\ \A m, o \in s.components[j] : Leads(g, m, o)
          /\ \A e \in g.edges : e[1] \in s.components[j] => \E l \in 1..j : e[2] \in s.components[l]
          /\ \A l \in 1..k : j # l => s.components[j] \cap s.components[l] = {}
      BY <1>1, <1>20, <2>1 DEF ComponentsFit
    <3>2. \A l \in 1..j : l \in 1..k
      BY <1>20, <2>1
    <3>3. \A e \in g.edges : e[1] \in t.components[j] => \E l \in 1..j : e[2] \in t.components[l]
      BY <1>20, <2>1, <3>1, <3>2
    <3>4. \A l \in 1..(k + 1) : j # l => t.components[j] \cap t.components[l] = {}
      <4> TAKE l \in 1..(k + 1)
      <4>1. CASE l \in 1..k
        BY <1>20, <2>1, <3>1, <4>1
      <4>2. CASE l = k + 1
        BY <1>19, <1>20, <1>21, <2>1, <4>2
      <4> QED
        BY <1>23, <4>1, <4>2
    <3> QED
      BY <1>20, <2>1, <3>1, <3>3, <3>4
  <2>2. CASE j = k + 1
    <3>1. above # {}
      BY <1>10
    <3>2. \A e \in g.edges : e[1] \in above => \E l \in 1..j : e[2] \in t.components[l]
      <4> TAKE e \in g.edges
      <4> HAVE e[1] \in above
      <4>1. CASE e[2] \in above
        BY <1>20, <2>2, <4>1
      <4>2. CASE e[2] \in Placed(s)
        <5>1. PICK l \in 1..k : e[2] \in s.components[l]
          BY <1>20, <4>2 DEF Placed, ToSet
        <5>2. l \in 1..j
          BY <1>20, <2>2
        <5> QED
          BY <1>20, <5>1, <5>2
      <4> QED
        BY <1>17, <4>1, <4>2
    <3>3. \A l \in 1..(k + 1) : j # l => above \cap t.components[l] = {}
      <4> TAKE l \in 1..(k + 1)
      <4> HAVE j # l
      <4>1. l \in 1..k
        BY <1>20, <2>2
      <4> QED
        BY <1>19, <1>20, <1>21, <4>1
    <3> QED
      BY <1>18, <1>20, <2>2, <3>1, <3>2, <3>3
  <2> QED
    BY <1>23, <2>1, <2>2
<1> QED
  BY <1>12, <1>13, <1>14, <1>15, <1>16, <1>22 DEF SearchInv


-----------------------------------------------------------------------------
(* What the operators of a step return. *)

LEMMA MinIs ==
  ASSUME NEW S \in SUBSET Nat, S # {}
  PROVE  Min(S) \in S
BY LeastOf DEF Min

\* A map into numbers stays one.
LEMMA PutMaps ==
  ASSUME NEW g, NEW f \in Maps(g), NEW n \in g.nodes, NEW v \in Nat
  PROVE  Put(f, n, v) \in Maps(g)
<1>1. f \in [DOMAIN f -> Nat] /\ DOMAIN f \subseteq g.nodes
  BY DEF Maps
<1>2. Put(f, n, v) \in [DOMAIN f \cup {n} -> Nat]
  BY <1>1, PutIs
<1>3. DOMAIN f \cup {n} \in SUBSET g.nodes
  BY <1>1
<1> QED
  BY <1>2, <1>3 DEF Maps

\* What entering a node writes.
LEMMA EnterIs ==
  ASSUME NEW g, NEW s \in Searches(g), NEW n \in g.nodes, NEW r \in Searches(g),
         r.index = s.index, r.indices = s.indices, r.lowLinks = s.lowLinks,
         r.stack = s.stack, r.path = s.path, r.components = s.components,
         NEW t, t = Enter(r, n)
  PROVE  /\ t \in Searches(g)
         /\ t.index = s.index + 1
         /\ t.indices = Put(s.indices, n, s.index) /\ t.lowLinks = Put(s.lowLinks, n, s.index)
         /\ t.stack = Append(s.stack, n) /\ t.path = Append(s.path, n)
         /\ t.components = s.components /\ t.left = r.left
<1>1. /\ r.index \in Nat /\ r.indices \in Maps(g) /\ r.lowLinks \in Maps(g)
      /\ r.stack \in Seq(g.nodes) /\ r.path \in Seq(g.nodes)
      /\ r.components \in Seq(SUBSET g.nodes) /\ r.left \in SUBSET g.edges
  BY DEF Searches
<1>2. /\ t.index = r.index + 1
      /\ t.indices = Put(r.indices, n, r.index) /\ t.lowLinks = Put(r.lowLinks, n, r.index)
      /\ t.stack = Append(r.stack, n) /\ t.path = Append(r.path, n)
      /\ t.components = r.components /\ t.left = r.left
  BY DEF Enter, Searches
<1>3. Put(r.indices, n, r.index) \in Maps(g) /\ Put(r.lowLinks, n, r.index) \in Maps(g)
  BY <1>1, PutMaps
<1>4. Append(r.stack, n) \in Seq(g.nodes) /\ Append(r.path, n) \in Seq(g.nodes)
  BY <1>1, AppendProperties
<1>5. r.index + 1 \in Nat
  BY <1>1
<1>6. t \in Searches(g)
  BY <1>3, <1>4, <1>5 DEF Enter, Searches
<1> QED
  BY <1>2, <1>6

\* What taking an edge off the list writes.
LEMMA SeenIs ==
  ASSUME NEW g, NEW s \in Searches(g), NEW e, NEW t, t = [s EXCEPT !.left = @ \ {e}]
  PROVE  /\ t \in Searches(g) /\ t.left = s.left \ {e}
         /\ t.index = s.index /\ t.indices = s.indices /\ t.lowLinks = s.lowLinks
         /\ t.stack = s.stack /\ t.path = s.path /\ t.components = s.components
BY DEF Searches

\* What lowering a link writes.
LEMMA LowerIs ==
  ASSUME NEW g, NEW s \in Searches(g), NEW n \in g.nodes, NEW link \in Nat, s.lowLinks[n] \in Nat,
         NEW t, t = Lower(s, n, link)
  PROVE  /\ t \in Searches(g)
         /\ t.lowLinks = Put(s.lowLinks, n, IF s.lowLinks[n] <= link THEN s.lowLinks[n] ELSE link)
         /\ t.index = s.index /\ t.indices = s.indices /\ t.left = s.left
         /\ t.stack = s.stack /\ t.path = s.path /\ t.components = s.components
<1> DEFINE low == IF s.lowLinks[n] <= link THEN s.lowLinks[n] ELSE link
<1>1. low \in Nat
  OBVIOUS
<1>2. t = [s EXCEPT !.lowLinks = Put(s.lowLinks, n, low)]
  BY DEF Lower, Searches
<1> HIDE DEF low
<1>3. s.lowLinks \in Maps(g)
  BY DEF Searches
<1>4. Put(s.lowLinks, n, low) \in Maps(g)
  BY <1>1, <1>3, PutMaps
<1>5. t \in Searches(g) /\ t.lowLinks = Put(s.lowLinks, n, low)
  BY <1>2, <1>4 DEF Searches
<1>6. /\ t.index = s.index /\ t.indices = s.indices /\ t.left = s.left
      /\ t.stack = s.stack /\ t.path = s.path /\ t.components = s.components
  BY <1>2 DEF Searches
<1> QED
  BY <1>5, <1>6 DEF low

\* What a return writes.
LEMMA ReturnIs ==
  ASSUME NEW g, NEW s, SearchInv(g, s), s.path # <<>>,
         NEW r \in Searches(g), r.path = s.path, r.lowLinks = s.lowLinks,
         NEW t, t = Return(r)
  PROVE  /\ t \in Searches(g) /\ Lowered(s, t)
         /\ t.index = r.index /\ t.indices = r.indices /\ t.left = r.left
         /\ t.stack = r.stack /\ t.components = r.components
<1> DEFINE callers == Front(r.path)
           caller == Last(callers)
           link == r.lowLinks[Last(r.path)]
           returned == [r EXCEPT !.path = callers]
<1>1. s \in Searches(g) /\ NumbersFit(g, s)
  BY DEF SearchInv
<1>2. /\ s.indices \in [Visited(s) -> Nat] /\ s.lowLinks \in [Visited(s) -> Nat]
      /\ Calling(s) \subseteq Visited(s) /\ Visited(s) \subseteq g.nodes
  BY <1>1, SearchShape
<1>3. /\ Last(r.path) \in Calling(s) /\ callers \in Seq(Visited(s))
      /\ Rising(s.indices, callers) /\ ToSet(callers) \subseteq Calling(s)
  <2>1. /\ Last(s.path) \in Calling(s) /\ Front(s.path) \in Seq(Visited(s))
        /\ Rising(s.indices, Front(s.path)) /\ ToSet(Front(s.path)) = Calling(s) \ {Last(s.path)}
    BY LastCall
  <2> QED
    BY <2>1
<1> HIDE DEF callers
<1>4. callers \in Seq(g.nodes)
  BY <1>2, <1>3, SeqMonotonic
<1>5. /\ returned \in Searches(g) /\ returned.path = callers /\ returned.lowLinks = r.lowLinks
      /\ returned.index = r.index /\ returned.indices = r.indices /\ returned.left = r.left
      /\ returned.stack = r.stack /\ returned.components = r.components
  BY <1>4 DEF Searches
<1> HIDE DEF returned
<1>6. CASE callers = <<>>
  <2>1. t = returned
    BY <1>6 DEF Return, callers, returned
  <2> QED
    BY <1>5, <1>6, <2>1 DEF Lowered, callers
<1>7. CASE callers # <<>>
  <2>1. t = Lower(returned, caller, link)
    BY <1>7 DEF Return, callers, returned
  <2>2. caller \in Visited(s)
    BY <1>2, <1>3, <1>7, Highest
  <2>3. link \in Nat /\ returned.lowLinks[caller] \in Nat /\ caller \in g.nodes
    BY <1>2, <1>3, <1>5, <2>2
  <2> HIDE DEF caller, link
  <2>4. /\ t \in Searches(g)
        /\ t.lowLinks = Put(returned.lowLinks, caller,
                            IF returned.lowLinks[caller] <= link THEN returned.lowLinks[caller]
                            ELSE link)
        /\ t.index = returned.index /\ t.indices = returned.indices /\ t.left = returned.left
        /\ t.stack = returned.stack /\ t.path = returned.path /\ t.components = returned.components
    BY <1>5, <2>1, <2>3, LowerIs
  <2>5. Lowered(s, t)
    <3>1. t.path = callers /\ callers = Front(s.path) /\ link = s.lowLinks[Last(s.path)]
      BY <1>5, <2>4 DEF callers, link
    <3>2. t.lowLinks = Put(s.lowLinks, caller,
                           IF s.lowLinks[caller] <= link THEN s.lowLinks[caller] ELSE link)
      BY <1>5, <2>4
    <3> QED
      BY <1>7, <3>1, <3>2 DEF Lowered, caller
  <2> QED
    BY <1>5, <2>4, <2>5
<1> QED
  BY <1>6, <1>7

\* What closing a component writes.
LEMMA CloseIs ==
  ASSUME NEW g, NEW s, SearchInv(g, s), s.path # <<>>,
         NEW t, t = Close(s, Last(s.path))
  PROVE  /\ t \in Searches(g)
         /\ t.index = s.index /\ t.indices = s.indices /\ t.left = s.left
         /\ t.path = s.path /\ t.lowLinks = s.lowLinks
         /\ Rising(s.indices, t.stack)
         /\ Stacked(t) = {y \in Stacked(s) : s.indices[y] < s.indices[Last(s.path)]}
         /\ t.components = Append(s.components, Above(s))
<1> DEFINE n == Last(s.path)
           i == CHOOSE i \in DOMAIN s.stack : s.stack[i] = n
<1>1. s \in Searches(g) /\ NumbersFit(g, s)
  BY DEF SearchInv
<1>2. /\ s.stack \in Seq(g.nodes) /\ s.components \in Seq(SUBSET g.nodes)
      /\ Stacked(s) \subseteq g.nodes
  BY <1>1, SearchShape DEF Searches
<1>3. n \in Stacked(s)
  BY <1>1, LastCall DEF NumbersFit
<1>4. i \in DOMAIN s.stack /\ s.stack[i] = n
  BY <1>3 DEF Stacked, ToSet
<1> DEFINE above == From(s.stack, i)
           below == SubSeq(s.stack, 1, i - 1)
<1>5. t = [s EXCEPT !.components = Append(@, above), !.stack = below]
  BY <1>1 DEF Close, From, Searches
<1> HIDE DEF i
<1>6. below \in Seq(Visited(s)) /\ Rising(s.indices, below)
  BY <1>4, AboveIs
<1>7. ToSet(below) = {y \in Stacked(s) : s.indices[y] < s.indices[n]} /\ above = Above(s)
  BY <1>4, AboveIs
<1> HIDE DEF above, below
<1>8. below \in Seq(g.nodes)
  BY <1>1, <1>6, SearchShape, SeqMonotonic
<1>9. above \in SUBSET g.nodes
  BY <1>2, <1>7 DEF Above
<1>10. Append(s.components, above) \in Seq(SUBSET g.nodes)
  BY <1>2, <1>9, AppendProperties
<1>11. t \in Searches(g)
  BY <1>1, <1>5, <1>8, <1>10 DEF Searches
<1>12. /\ t.index = s.index /\ t.indices = s.indices /\ t.left = s.left
       /\ t.path = s.path /\ t.lowLinks = s.lowLinks
       /\ t.stack = below /\ t.components = Append(s.components, above)
  BY <1>1, <1>5 DEF Searches
<1> QED
  BY <1>6, <1>7, <1>11, <1>12 DEF Stacked

-----------------------------------------------------------------------------
(* Every step of the search gets nearer its end. *)

LEMMA EdgesAreFinite ==
  ASSUME NEW g, Graph(g)
  PROVE  IsFiniteSet(g.edges)
<1>1. g.edges \subseteq g.nodes \X g.nodes
  BY DEF Graph, Valid
<1>2. IsFiniteSet(g.nodes \X g.nodes)
  BY FS_Product DEF Graph
<1> QED
  BY <1>1, <1>2, FS_Subset

\* The measure is a number.
LEMMA ToDoIs ==
  ASSUME NEW g, Graph(g), NEW s \in Searches(g)
  PROVE  /\ IsFiniteSet(Unvisited(g, s)) /\ IsFiniteSet(s.left)
         /\ Cardinality(Unvisited(g, s)) \in Nat /\ Cardinality(s.left) \in Nat
         /\ Len(s.path) \in Nat
         /\ ToDo(g, s) = 2 * Cardinality(Unvisited(g, s)) + Len(s.path) + Cardinality(s.left)
         /\ ToDo(g, s) \in Nat
<1>1. IsFiniteSet(Unvisited(g, s)) /\ Cardinality(Unvisited(g, s)) \in Nat
  BY FS_Subset, FS_CardinalityType DEF Unvisited, Graph
<1>2. s.left \subseteq g.edges /\ s.path \in Seq(g.nodes)
  BY DEF Searches
<1>3. IsFiniteSet(s.left) /\ Cardinality(s.left) \in Nat
  BY <1>2, EdgesAreFinite, FS_Subset, FS_CardinalityType
<1>4. Len(s.path) \in Nat
  BY <1>2, LenProperties
<1>5. ToDo(g, s) = 2 * Cardinality(Unvisited(g, s)) + Len(s.path) + Cardinality(s.left)
  BY DEF ToDo
<1> HIDE DEF ToDo, Unvisited
<1>6. ToDo(g, s) \in Nat
  BY <1>1, <1>3, <1>4, <1>5
<1> QED
  BY <1>1, <1>3, <1>4, <1>5, <1>6

\* Entering a node leaves one step less to make,
LEMMA EnterLess ==
  ASSUME NEW g, Graph(g), NEW s, SearchInv(g, s), NEW n \in Unvisited(g, s),
         NEW t \in Searches(g), Entered(s, t, n)
  PROVE  ToDo(g, t) < ToDo(g, s)
<1>1. s \in Searches(g)
  BY DEF SearchInv
<1>2. Visited(t) = Visited(s) \cup {n}
  BY EnterShape
<1>3. Unvisited(g, t) = Unvisited(g, s) \ {n}
  BY <1>2 DEF Unvisited, Visited
<1>4. Len(t.path) = Len(s.path) + 1
  <2>1. s.path \in Seq(g.nodes) /\ n \in g.nodes /\ t.path = Append(s.path, n)
    BY <1>1 DEF Searches, Unvisited, Entered
  <2> QED
    BY <2>1, AppendProperties
<1>5. /\ IsFiniteSet(Unvisited(g, s)) /\ IsFiniteSet(s.left)
      /\ Cardinality(Unvisited(g, s)) \in Nat /\ Cardinality(s.left) \in Nat
      /\ Len(s.path) \in Nat
      /\ ToDo(g, s) = 2 * Cardinality(Unvisited(g, s)) + Len(s.path) + Cardinality(s.left)
  BY <1>1, ToDoIs
<1>6. ToDo(g, t) = 2 * Cardinality(Unvisited(g, t)) + Len(t.path) + Cardinality(t.left)
  BY ToDoIs
<1>7. Cardinality(Unvisited(g, t)) = Cardinality(Unvisited(g, s)) - 1
  BY <1>3, <1>5, FS_RemoveElement
<1>8. Cardinality(t.left) \in Nat /\ Cardinality(t.left) <= Cardinality(s.left)
  <2>1. t.left \subseteq s.left
    BY DEF Entered
  <2> QED
    BY <1>5, <2>1, FS_Subset, FS_CardinalityType
<1> HIDE DEF ToDo, Unvisited
<1> QED
  BY <1>4, <1>5, <1>6, <1>7, <1>8

\* so does looking at an edge,
LEMMA LookLess ==
  ASSUME NEW g, Graph(g), NEW s, SearchInv(g, s), NEW n, NEW m, <<n, m>> \in s.left,
         NEW t \in Searches(g), Looked(s, t, n, m)
  PROVE  ToDo(g, t) < ToDo(g, s)
<1>1. s \in Searches(g)
  BY DEF SearchInv
<1>2. Unvisited(g, t) = Unvisited(g, s) /\ t.path = s.path /\ t.left = s.left \ {<<n, m>>}
  BY DEF Unvisited, Looked
<1>3. /\ IsFiniteSet(s.left)
      /\ Cardinality(Unvisited(g, s)) \in Nat /\ Cardinality(s.left) \in Nat
      /\ Len(s.path) \in Nat
      /\ ToDo(g, s) = 2 * Cardinality(Unvisited(g, s)) + Len(s.path) + Cardinality(s.left)
  BY <1>1, ToDoIs
<1>4. ToDo(g, t) = 2 * Cardinality(Unvisited(g, t)) + Len(t.path) + Cardinality(t.left)
  BY ToDoIs
<1>5. Cardinality(t.left) = Cardinality(s.left) - 1
  BY <1>2, <1>3, FS_RemoveElement
<1> QED
  BY <1>2, <1>3, <1>4, <1>5

\* and so does returning.
LEMMA ReturnLess ==
  ASSUME NEW g, Graph(g), NEW s, SearchInv(g, s), s.path # <<>>,
         NEW t \in Searches(g), Lowered(s, t), t.indices = s.indices, t.left = s.left
  PROVE  ToDo(g, t) < ToDo(g, s)
<1>1. s \in Searches(g)
  BY DEF SearchInv
<1>2. Unvisited(g, t) = Unvisited(g, s)
  BY DEF Unvisited
<1>3. Len(t.path) = Len(s.path) - 1
  BY LoweredIs
<1>4. /\ Cardinality(Unvisited(g, s)) \in Nat /\ Cardinality(s.left) \in Nat
      /\ Len(s.path) \in Nat
      /\ ToDo(g, s) = 2 * Cardinality(Unvisited(g, s)) + Len(s.path) + Cardinality(s.left)
  BY <1>1, ToDoIs
<1>5. ToDo(g, t) = 2 * Cardinality(Unvisited(g, t)) + Len(t.path) + Cardinality(t.left)
  BY ToDoIs
<1> QED
  BY <1>2, <1>3, <1>4, <1>5

\* The four ways a step goes.
LEMMA StepEnters ==
  ASSUME NEW g, Graph(g), NEW s, SearchInv(g, s), s.path = <<>>, Unvisited(g, s) # {},
         NEW t, t = Advance(g, s)
  PROVE  SearchInv(g, t) /\ ToDo(g, t) < ToDo(g, s)
<1> DEFINE n == Min(Unvisited(g, s))
<1>1. s \in Searches(g)
  BY DEF SearchInv
<1>2. n \in Unvisited(g, s)
  <2>1. Unvisited(g, s) \in SUBSET Nat
    BY DEF Unvisited, Graph
  <2> QED
    BY <2>1, MinIs
<1>3. t = Enter(s, n)
  BY DEF Advance
<1> HIDE DEF n
<1>4. n \in g.nodes
  BY <1>2 DEF Unvisited
<1>5. t \in Searches(g) /\ Entered(s, t, n)
  BY <1>1, <1>3, <1>4, EnterIs DEF Entered
<1> QED
  BY <1>2, <1>5, EnterKeeps, EnterLess

\* A step that looks at an edge keeps the invariant and gets nearer the end.
LEMMA StepLooks ==
  ASSUME NEW g, Graph(g), NEW s, SearchInv(g, s), s.path # <<>>,
         NEW m \in g.nodes, <<Last(s.path), m>> \in s.left,
         NEW t, t = LookAt(s, Last(s.path), m)
  PROVE  SearchInv(g, t) /\ ToDo(g, t) < ToDo(g, s)
<1> DEFINE n == Last(s.path)
           seen == [s EXCEPT !.left = @ \ {<<n, m>>}]
<1>1. s \in Searches(g) /\ NumbersFit(g, s)
  BY DEF SearchInv
<1>2. /\ seen \in Searches(g) /\ seen.left = s.left \ {<<n, m>>}
      /\ seen.index = s.index /\ seen.indices = s.indices /\ seen.lowLinks = s.lowLinks
      /\ seen.stack = s.stack /\ seen.path = s.path /\ seen.components = s.components
  BY <1>1, SeenIs
<1>3. t = IF m \notin DOMAIN s.indices THEN Enter(seen, m)
          ELSE IF m \in ToSet(s.stack) THEN Lower(seen, n, s.indices[m])
          ELSE seen
  BY DEF LookAt
<1> HIDE DEF seen
<1>4. CASE m \notin Visited(s)
  <2>1. m \in Unvisited(g, s)
    BY <1>4 DEF Unvisited, Visited
  <2>2. t = Enter(seen, m)
    BY <1>3, <1>4 DEF Visited
  <2>3. /\ t \in Searches(g)
        /\ t.index = s.index + 1
        /\ t.indices = Put(s.indices, m, s.index) /\ t.lowLinks = Put(s.lowLinks, m, s.index)
        /\ t.stack = Append(s.stack, m) /\ t.path = Append(s.path, m)
        /\ t.components = s.components /\ t.left = seen.left
    BY <1>1, <1>2, <2>2, EnterIs
  <2>4. Entered(s, t, m)
    BY <1>2, <2>3 DEF Entered
  <2> QED
    BY <2>1, <2>3, <2>4, EnterKeeps, EnterLess
<1>5. CASE m \in Visited(s) /\ m \in Stacked(s)
  <2>1. t = Lower(seen, n, s.indices[m])
    BY <1>3, <1>5 DEF Visited, Stacked
  <2>2. /\ s.indices \in [Visited(s) -> Nat] /\ s.lowLinks \in [Visited(s) -> Nat]
        /\ Calling(s) \subseteq Visited(s) /\ Visited(s) \subseteq g.nodes
    BY <1>1, SearchShape
  <2>3. n \in Calling(s)
    BY LastCall
  <2>4. s.indices[m] \in Nat /\ n \in g.nodes /\ seen.lowLinks[n] \in Nat
    BY <1>2, <1>5, <2>2, <2>3
  <2> HIDE DEF n
  <2>5. /\ t \in Searches(g)
        /\ t.lowLinks = Put(seen.lowLinks, n, IF seen.lowLinks[n] <= s.indices[m]
                                              THEN seen.lowLinks[n] ELSE s.indices[m])
        /\ t.index = seen.index /\ t.indices = seen.indices /\ t.left = seen.left
        /\ t.stack = seen.stack /\ t.path = seen.path /\ t.components = seen.components
    BY <1>2, <2>1, <2>4, LowerIs
  <2>6. Looked(s, t, n, m)
    BY <1>2, <1>5, <2>5 DEF Looked
  <2> QED
    BY <1>5, <2>5, <2>6, LookKeeps, LookLess DEF n
<1>6. CASE m \in Visited(s) /\ m \notin Stacked(s)
  <2>1. t = seen
    BY <1>3, <1>6 DEF Visited, Stacked
  <2>2. t \in Searches(g) /\ Looked(s, t, n, m)
    BY <1>2, <1>6, <2>1 DEF Looked
  <2> QED
    BY <1>6, <2>2, LookKeeps, LookLess
<1> QED
  BY <1>4, <1>5, <1>6

\* So does a step that returns.
LEMMA StepReturns ==
  ASSUME NEW g, Graph(g), NEW s, SearchInv(g, s), s.path # <<>>,
         \A e \in s.left : e[1] # Last(s.path),
         NEW t, t = Return(IF s.lowLinks[Last(s.path)] = s.indices[Last(s.path)]
                           THEN Close(s, Last(s.path)) ELSE s)
  PROVE  SearchInv(g, t) /\ ToDo(g, t) < ToDo(g, s)
<1>1. s \in Searches(g)
  BY DEF SearchInv
<1>2. CASE s.lowLinks[Last(s.path)] = s.indices[Last(s.path)]
  <2> DEFINE r == Close(s, Last(s.path))
  <2>1. t = Return(r)
    BY <1>2
  <2>2. /\ r \in Searches(g)
        /\ r.index = s.index /\ r.indices = s.indices /\ r.left = s.left
        /\ r.path = s.path /\ r.lowLinks = s.lowLinks
        /\ Rising(s.indices, r.stack)
        /\ Stacked(r) = {y \in Stacked(s) : s.indices[y] < s.indices[Last(s.path)]}
        /\ r.components = Append(s.components, Above(s))
    BY CloseIs
  <2> HIDE DEF r
  <2>3. /\ t \in Searches(g) /\ Lowered(s, t)
        /\ t.index = r.index /\ t.indices = r.indices /\ t.left = r.left
        /\ t.stack = r.stack /\ t.components = r.components
    BY <2>1, <2>2, ReturnIs
  <2>4. /\ t.index = s.index /\ t.indices = s.indices /\ t.left = s.left
        /\ Rising(s.indices, t.stack)
        /\ Stacked(t) = {y \in Stacked(s) : s.indices[y] < s.indices[Last(s.path)]}
        /\ t.components = Append(s.components, Above(s))
    BY <2>2, <2>3 DEF Stacked
  <2>5. SearchInv(g, t)
    BY <1>2, <2>3, <2>4, CloseKeeps
  <2> QED
    BY <2>3, <2>4, <2>5, ReturnLess
<1>3. CASE s.lowLinks[Last(s.path)] # s.indices[Last(s.path)]
  <2>1. t = Return(s)
    BY <1>3
  <2>2. /\ t \in Searches(g) /\ Lowered(s, t)
        /\ t.index = s.index /\ t.indices = s.indices /\ t.left = s.left
        /\ t.stack = s.stack /\ t.components = s.components
    BY <1>1, <2>1, ReturnIs
  <2> QED
    BY <1>3, <2>2, ReturnKeeps, ReturnLess
<1> QED
  BY <1>2, <1>3

\* Done: no call is left and no node is unvisited.
Done(g, s) == s.path = <<>> /\ Unvisited(g, s) = {}

\* Every step of the search keeps the invariant; each but the last gets nearer the end.
LEMMA AdvanceKeeps ==
  ASSUME NEW g, Graph(g), NEW s, SearchInv(g, s), NEW t, t = Advance(g, s)
  PROVE  /\ SearchInv(g, t)
         /\ Done(g, s) => t = s
         /\ ~Done(g, s) => ToDo(g, t) < ToDo(g, s)
<1>1. CASE s.path = <<>> /\ Unvisited(g, s) = {}
  <2>1. t = s
    BY <1>1 DEF Advance
  <2> QED
    BY <1>1, <2>1 DEF Done
<1>2. CASE s.path = <<>> /\ Unvisited(g, s) # {}
  BY <1>2, StepEnters DEF Done
<1>3. CASE s.path # <<>>
  <2> DEFINE n == Last(s.path)
             next == {m \in g.nodes : <<n, m>> \in s.left}
  <2>1. CASE next # {}
    <3>1. next \in SUBSET Nat
      BY DEF Graph
    <3>2. Min(next) \in next
      <4> HIDE DEF next
      <4> QED
        BY <2>1, <3>1, MinIs
    <3>3. t = LookAt(s, n, Min(next))
      BY <1>3, <2>1 DEF Advance
    <3>4. Min(next) \in g.nodes /\ <<Last(s.path), Min(next)>> \in s.left
      BY <3>2
    <3> HIDE DEF next
    <3> QED
      BY <1>3, <3>3, <3>4, StepLooks DEF Done
  <2>2. CASE next = {}
    <3>1. t = Return(IF s.lowLinks[n] = s.indices[n] THEN Close(s, n) ELSE s)
      BY <1>3, <2>2 DEF Advance
    <3>2. \A e \in s.left : e[1] # n
      <4>1. s.left \subseteq g.edges
        BY DEF SearchInv, Searches
      <4>2. \A e \in s.left : e = <<e[1], e[2]>> /\ e[2] \in g.nodes
        BY <4>1, EdgeShape
      <4> QED
        BY <2>2, <4>2
    <3> QED
      BY <1>3, <3>1, <3>2, StepReturns DEF Done
  <2> QED
    BY <2>1, <2>2
<1> QED
  BY <1>1, <1>2, <1>3

-----------------------------------------------------------------------------
(* The whole search, and what it ends with. *)

LEMMA UntouchedFits ==
  ASSUME NEW g, Graph(g), NEW s, s = Untouched(g)
  PROVE  SearchInv(g, s) /\ ToDo(g, s) = StepsOf(g)
<1>1. /\ s.index = 0 /\ s.indices = <<>> /\ s.lowLinks = <<>> /\ s.stack = <<>>
      /\ s.components = <<>> /\ s.path = <<>> /\ s.left = g.edges
  BY DEF Untouched
<1>2. <<>> \in Maps(g)
  <2>1. <<>> \in [{} -> Nat]
    OBVIOUS
  <2> QED
    BY <2>1 DEF Maps
<1>3. s \in Searches(g)
  <2>1. <<>> \in Seq(g.nodes) /\ <<>> \in Seq(SUBSET g.nodes)
    OBVIOUS
  <2> QED
    BY <1>2, <2>1 DEF Untouched, Searches
<1>4. Visited(s) = {} /\ Stacked(s) = {} /\ Calling(s) = {} /\ Placed(s) = {}
  BY <1>1 DEF Visited, Stacked, Calling, Placed, ToSet
<1>5. NumbersFit(g, s)
  <2>1. DOMAIN s.lowLinks = Visited(s)
    BY <1>1 DEF Visited
  <2>2. Rising(s.indices, s.stack) /\ Rising(s.indices, s.path)
    BY <1>1 DEF Rising
  <2> QED
    BY <1>4, <2>1, <2>2 DEF NumbersFit
<1>6. EdgesFit(g, s) /\ LinksFit(g, s) /\ CallsLead(g, s) /\ LinksReach(g, s)
  BY <1>1, <1>4 DEF EdgesFit, LinksFit, CallsLead, LinksReach
<1>7. ComponentsFit(g, s)
  BY <1>1 DEF ComponentsFit
<1>8. ToDo(g, s) = StepsOf(g)
  <2>1. Unvisited(g, s) = g.nodes
    BY <1>1 DEF Unvisited
  <2>2. Len(s.path) = 0
    BY <1>1
  <2>3. Cardinality(g.nodes) \in Nat /\ Cardinality(g.edges) \in Nat
    BY EdgesAreFinite, FS_CardinalityType DEF Graph
  <2> QED
    BY <1>1, <2>1, <2>2, <2>3 DEF ToDo, StepsOf
<1> QED
  BY <1>3, <1>5, <1>6, <1>7, <1>8 DEF SearchInv

\* The number of steps of a search is a number.
LEMMA StepsAreNatural ==
  ASSUME NEW g, Graph(g)
  PROVE  StepsOf(g) \in Nat
<1>1. Cardinality(g.nodes) \in Nat /\ Cardinality(g.edges) \in Nat
  BY EdgesAreFinite, FS_CardinalityType DEF Graph
<1> QED
  BY <1>1 DEF StepsOf

SoundSearches(g) == {s \in Searches(g) : SearchInv(g, s)}

Searched(g, search) ==
  /\ search \in [0..StepsOf(g) -> SoundSearches(g)]
  /\ search[0] = Untouched(g)
  /\ \A i \in 1..StepsOf(g) : search[i] = Advance(g, search[i - 1])

\* The recursive function of Components exists.
LEMMA SearchIs ==
  ASSUME NEW g, Graph(g)
  PROVE  \E search : Searched(g, search) /\ Components(g) = search[StepsOf(g)].components
<1> DEFINE n == StepsOf(g)
           S == SoundSearches(g)
           step == [x \in S \X Nat |-> Advance(g, x[1])]
           Rhs(f) == [i \in 0..n |-> IF i = 0 THEN Untouched(g) ELSE Advance(g, f[i - 1])]
           search == CHOOSE f : f = Rhs(f)
<1>1. n \in Nat
  BY StepsAreNatural
<1>2. Components(g) = search[n].components
  BY DEF Components
<1> HIDE DEF n
<1>3. Untouched(g) \in S
  BY UntouchedFits DEF SoundSearches, SearchInv
<1>4. \A s \in S : Advance(g, s) \in S
  <2> TAKE s \in S
  <2>1. SearchInv(g, s)
    BY DEF SoundSearches
  <2>2. SearchInv(g, Advance(g, s))
    BY <2>1, AdvanceKeeps
  <2> QED
    BY <2>2 DEF SoundSearches, SearchInv
<1> HIDE DEF S
<1>5. step \in [S \X Nat -> S]
  BY <1>4
<1>6. \A s \in S, i \in 1..n : step[<<s, i>>] = Advance(g, s)
  <2> TAKE s \in S, i \in 1..n
  <2>1. <<s, i>> \in S \X Nat
    BY <1>1
  <2> QED
    BY <2>1
<1> HIDE DEF step
<1>7. PICK f : Primitive(f, S, Untouched(g), step, n)
  BY <1>1, <1>3, <1>5, Recursive
<1>8. \A i \in 1..n : i - 1 \in 0..n /\ i # 0 /\ i \in 0..n
  BY <1>1
<1>9. \A i \in 1..n : f[i] = Advance(g, f[i - 1])
  BY <1>6, <1>7, <1>8 DEF Primitive
<1>10. f = Rhs(f)
  <2>1. \A i \in 0..n : i = 0 \/ i \in 1..n
    BY <1>1
  <2>2. \A i \in 0..n : f[i] = IF i = 0 THEN Untouched(g) ELSE Advance(g, f[i - 1])
    BY <1>7, <1>9, <2>1 DEF Primitive
  <2>3. \A i \in 0..n : Rhs(f)[i] = f[i]
    BY <2>2
  <2>4. Rhs(f) = [i \in 0..n |-> Rhs(f)[i]]
    OBVIOUS
  <2> HIDE DEF Rhs
  <2> QED
    BY <1>7, <2>3, <2>4 DEF Primitive
<1>11. search = Rhs(search)
  BY <1>10
<1> HIDE DEF search
<1>12. /\ DOMAIN search = 0..n /\ search = [i \in DOMAIN search |-> search[i]]
       /\ search[0] = Untouched(g)
  BY <1>1, <1>11
<1>13. \A i \in 1..n : search[i] = Advance(g, search[i - 1])
  BY <1>8, <1>11
<1>14. \A i \in 1..n : search[i - 1] \in S => search[i] \in S
  BY <1>4, <1>13
<1>15. search \in [0..n -> S]
  BY <1>1, <1>3, <1>12, <1>14, RecursiveType
<1> QED
  BY <1>2, <1>12, <1>13, <1>15 DEF Searched, n, S

\* There are enough steps.
LEMMA SearchEnds ==
  ASSUME NEW g, Graph(g), NEW search, Searched(g, search)
  PROVE  Done(g, search[StepsOf(g)]) /\ SearchInv(g, search[StepsOf(g)])
<1> DEFINE n == StepsOf(g)
           T == {i \in 0..n : Done(g, search[i]) \/ ToDo(g, search[i]) + i <= n}
<1>1. n \in Nat
  BY StepsAreNatural
<1>2. \A i \in 0..n : SearchInv(g, search[i]) /\ ToDo(g, search[i]) \in Nat
  <2> TAKE i \in 0..n
  <2>1. search[i] \in SoundSearches(g)
    BY DEF Searched
  <2> QED
    BY <2>1, ToDoIs DEF SoundSearches
<1>3. 0 \in T
  <2>1. ToDo(g, search[0]) = n
    BY UntouchedFits DEF Searched
  <2> HIDE DEF n
  <2> QED
    BY <1>1, <2>1
<1>4. ASSUME NEW i \in 0..(n - 1), i \in T PROVE i + 1 \in T
  <2>1. i + 1 \in 1..n /\ i + 1 \in 0..n /\ i \in 0..n /\ (i + 1) - 1 = i
    BY <1>1
  <2>2. search[i + 1] = Advance(g, search[i])
    <3>1. search[i + 1] = Advance(g, search[(i + 1) - 1])
      BY <2>1 DEF Searched
    <3> QED
      BY <2>1, <3>1
  <2>3. /\ Done(g, search[i]) => search[i + 1] = search[i]
        /\ ~Done(g, search[i]) => ToDo(g, search[i + 1]) < ToDo(g, search[i])
    BY <1>2, <2>1, <2>2, AdvanceKeeps
  <2>4. Done(g, search[i]) \/ ToDo(g, search[i]) + i <= n
    BY <1>4
  <2>5. ToDo(g, search[i + 1]) \in Nat /\ ToDo(g, search[i]) \in Nat
    BY <1>2, <2>1
  <2> HIDE DEF n
  <2>6. Done(g, search[i + 1]) \/ ToDo(g, search[i + 1]) + (i + 1) <= n
    BY <1>1, <2>3, <2>4, <2>5
  <2> QED
    BY <2>1, <2>6
<1> HIDE DEF T
<1>5. n \in T
  BY <1>1, <1>3, <1>4, UpTo
<1>6. SearchInv(g, search[n]) /\ ToDo(g, search[n]) \in Nat
  BY <1>1, <1>2
<1>7. Done(g, search[n]) \/ ToDo(g, search[n]) + n <= n
  BY <1>5 DEF T
<1>8. CASE ToDo(g, search[n]) + n <= n
  <2> DEFINE s == search[n]
  <2>1. ToDo(g, s) = 0
    BY <1>1, <1>6, <1>8
  <2>2. s \in Searches(g)
    BY <1>6 DEF SearchInv
  <2> HIDE DEF s, n
  <2>3. /\ IsFiniteSet(Unvisited(g, s))
        /\ Cardinality(Unvisited(g, s)) \in Nat /\ Cardinality(s.left) \in Nat
        /\ Len(s.path) \in Nat
        /\ ToDo(g, s) = 2 * Cardinality(Unvisited(g, s)) + Len(s.path) + Cardinality(s.left)
    BY <2>2, ToDoIs
  <2>4. Cardinality(Unvisited(g, s)) = 0 /\ Len(s.path) = 0
    BY <2>1, <2>3
  <2>5. Unvisited(g, s) = {}
    BY <2>3, <2>4, FS_EmptySet
  <2>6. s.path = <<>>
    <3>1. s.path \in Seq(g.nodes)
      BY <2>2 DEF Searches
    <3> QED
      BY <2>4, <3>1, EmptySeq
  <2>7. Done(g, s)
    BY <2>5, <2>6 DEF Done
  <2> QED
    BY <1>6, <2>7 DEF s, n
<1> QED
  BY <1>6, <1>7, <1>8

\* What holds of the components the search ends with: they partition the
\* nodes, and each is a circle that leads to earlier ones only.
OrderedCycles(g, comps) ==
  /\ comps \in Seq(SUBSET g.nodes) /\ UNION ToSet(comps) = g.nodes
  /\ \A i \in DOMAIN comps :
       /\ comps[i] # {}
       /\ \A m, n \in comps[i] : Leads(g, m, n)
       /\ \A e \in g.edges : e[1] \in comps[i] => \E j \in 1..i : e[2] \in comps[j]
       /\ \A j \in DOMAIN comps : i # j => comps[i] \cap comps[j] = {}

\* The search ends with all nodes in components, successors first.
LEMMA ComponentsAreOrdered ==
  ASSUME NEW g, Graph(g), NEW comps, comps = Components(g)
  PROVE  OrderedCycles(g, comps)
<1>1. PICK search : Searched(g, search) /\ Components(g) = search[StepsOf(g)].components
  BY SearchIs
<1> DEFINE s == search[StepsOf(g)]
<1>2. Done(g, s) /\ SearchInv(g, s) /\ comps = s.components
  BY <1>1, SearchEnds
<1> HIDE DEF s
<1>3. s \in Searches(g) /\ NumbersFit(g, s) /\ CallsLead(g, s) /\ ComponentsFit(g, s)
  BY <1>2 DEF SearchInv
<1>4. s.components \in Seq(SUBSET g.nodes) /\ Visited(s) \subseteq g.nodes
  BY <1>3, SearchShape
<1>5. Calling(s) = {} /\ Visited(s) = g.nodes
  <2>1. s.path = <<>> /\ g.nodes \ Visited(s) = {}
    BY <1>2 DEF Done, Unvisited, Visited
  <2>2. Calling(s) = {}
    BY <2>1 DEF Calling, ToSet
  <2> QED
    BY <1>4, <2>1, <2>2
<1>6. Stacked(s) = {}
  BY <1>3, <1>5 DEF CallsLead
<1>7. Placed(s) = g.nodes
  BY <1>3, <1>5, <1>6 DEF NumbersFit
<1>8. UNION ToSet(comps) = g.nodes
  BY <1>2, <1>7 DEF Placed
<1> QED
  BY <1>2, <1>3, <1>4, <1>8 DEF OrderedCycles, ComponentsFit

\* Such components are the classes of nodes that lead to each other.
LEMMA CyclesAreClasses ==
  ASSUME NEW g, Graph(g), NEW comps, OrderedCycles(g, comps)
  PROVE  /\ Len(comps) \in Nat /\ DOMAIN comps = 1..Len(comps)
         /\ \A n \in g.nodes : \E i \in DOMAIN comps : n \in comps[i]
         /\ \A i \in DOMAIN comps : comps[i] \subseteq g.nodes
         /\ \A i \in DOMAIN comps : \A n \in comps[i] :
              comps[i] = {m \in g.nodes : Leads(g, n, m) /\ Leads(g, m, n)}
<1>1. Len(comps) \in Nat /\ DOMAIN comps = 1..Len(comps)
  BY LenProperties DEF OrderedCycles
<1>2. \A n \in g.nodes : \E i \in DOMAIN comps : n \in comps[i]
  BY DEF OrderedCycles, ToSet
<1>3. \A i \in DOMAIN comps : comps[i] \subseteq g.nodes
  BY <1>1, ElementOfSeq DEF OrderedCycles
\* Nothing leads out of the first components.
<1>4. ASSUME NEW i \in DOMAIN comps
      PROVE  UNION {comps[j] : j \in 1..i} \in ClosedSets(g)
  <2> DEFINE S == UNION {comps[j] : j \in 1..i}
  <2>1. \A j \in 1..i : j \in DOMAIN comps /\ 1..j \subseteq 1..i
    BY <1>1
  <2>2. S \subseteq g.nodes
    BY <1>3, <2>1
  <2>3. ASSUME NEW e \in g.edges, e[1] \in S PROVE e[2] \in S
    <3>1. PICK j \in 1..i : e[1] \in comps[j]
      BY <2>3
    <3>2. PICK k \in 1..j : e[2] \in comps[k]
      BY <2>1, <3>1 DEF OrderedCycles
    <3>3. k \in 1..i
      BY <2>1, <3>1, <3>2
    <3> QED
      BY <3>2, <3>3
  <2> QED
    BY <2>2, <2>3 DEF ClosedSets
<1>5. ASSUME NEW i \in DOMAIN comps, NEW n \in comps[i], NEW k \in DOMAIN comps, NEW m \in comps[k],
             Leads(g, n, m)
      PROVE  k <= i
  <2>1. n \in UNION {comps[j] : j \in 1..i}
    <3>1. i \in 1..i
      BY <1>1
    <3> QED
      BY <3>1
  <2>2. m \in UNION {comps[j] : j \in 1..i}
    BY <1>4, <1>5, <2>1, LeadsOut
  <2>3. PICK j \in 1..i : m \in comps[j]
    BY <2>2
  <2>4. j \in DOMAIN comps
    BY <1>1
  <2>5. j = k
    BY <2>3, <2>4 DEF OrderedCycles
  <2> QED
    BY <1>1, <2>5
<1>6. ASSUME NEW i \in DOMAIN comps, NEW n \in comps[i]
      PROVE  comps[i] = {m \in g.nodes : Leads(g, n, m) /\ Leads(g, m, n)}
  <2>1. ASSUME NEW m \in comps[i] PROVE m \in g.nodes /\ Leads(g, n, m) /\ Leads(g, m, n)
    BY <1>3 DEF OrderedCycles
  <2>2. ASSUME NEW m \in g.nodes, Leads(g, n, m), Leads(g, m, n) PROVE m \in comps[i]
    <3>1. PICK k \in DOMAIN comps : m \in comps[k]
      BY <1>2
    <3>2. k <= i /\ i <= k
      BY <1>5, <2>2, <3>1
    <3>3. k = i
      BY <1>1, <3>2
    <3> QED
      BY <3>1, <3>3
  <2> QED
    BY <2>1, <2>2
<1> QED
  BY <1>1, <1>2, <1>3, <1>6

\* The component of a node is the one that has it.
LEMMA ComponentOfIs ==
  ASSUME NEW g, Graph(g), NEW comps, OrderedCycles(g, comps), NEW n \in g.nodes
  PROVE  /\ ComponentOf(comps, n) \in DOMAIN comps /\ n \in comps[ComponentOf(comps, n)]
         /\ \A i \in DOMAIN comps : n \in comps[i] => i = ComponentOf(comps, n)
<1>1. \E i \in DOMAIN comps : n \in comps[i]
  BY CyclesAreClasses
<1>2. ComponentOf(comps, n) \in DOMAIN comps /\ n \in comps[ComponentOf(comps, n)]
  BY <1>1 DEF ComponentOf
<1> QED
  BY <1>2 DEF OrderedCycles

\* The components lead to earlier ones.
LEMMA EdgesGoDown ==
  ASSUME NEW g, Graph(g), NEW comps, OrderedCycles(g, comps),
         NEW e \in ComponentEdges(g, comps)
  PROVE  e = <<e[1], e[2]>> /\ e[1] \in 1..Len(comps) /\ e[2] \in 1..Len(comps) /\ e[2] < e[1]
<1>1. PICK d \in g.edges : e = <<ComponentOf(comps, d[1]), ComponentOf(comps, d[2])>> /\ e[1] # e[2]
  BY DEF ComponentEdges
<1>2. d[1] \in g.nodes /\ d[2] \in g.nodes
  BY EdgeShape
<1>3. Len(comps) \in Nat /\ DOMAIN comps = 1..Len(comps)
  BY CyclesAreClasses
<1>4. /\ e[1] \in DOMAIN comps /\ d[1] \in comps[e[1]]
      /\ e[2] \in DOMAIN comps /\ d[2] \in comps[e[2]]
      /\ \A i \in DOMAIN comps : d[2] \in comps[i] => i = e[2]
  BY <1>1, <1>2, ComponentOfIs
<1>5. PICK j \in 1..e[1] : d[2] \in comps[j]
  BY <1>4 DEF OrderedCycles
<1>6. j \in DOMAIN comps
  BY <1>3, <1>4
<1>7. j = e[2]
  BY <1>4, <1>5, <1>6
<1> QED
  BY <1>1, <1>3, <1>4, <1>7

\* The components of every graph are its cycles.
LEMMA ClassesOfComponents ==
  ASSUME NEW g, Graph(g)
  PROVE  ComponentsAreCycles(g)
<1> DEFINE comps == Components(g)
           Class(n) == {m \in g.nodes : m \in ReachedFrom(g)[n] /\ n \in ReachedFrom(g)[m]}
<1>1. OrderedCycles(g, comps)
  BY ComponentsAreOrdered
<1> HIDE DEF comps
<1>2. /\ Len(comps) \in Nat /\ DOMAIN comps = 1..Len(comps)
      /\ \A n \in g.nodes : \E i \in DOMAIN comps : n \in comps[i]
      /\ \A i \in DOMAIN comps : comps[i] \subseteq g.nodes
      /\ \A i \in DOMAIN comps : \A n \in comps[i] :
           comps[i] = {m \in g.nodes : Leads(g, n, m) /\ Leads(g, m, n)}
  BY <1>1, CyclesAreClasses
<1>3. \A n \in g.nodes : Class(n) = {m \in g.nodes : Leads(g, n, m) /\ Leads(g, m, n)}
  <2> TAKE n \in g.nodes
  <2>1. \A m \in g.nodes : ReachedFrom(g)[m] = {o \in g.nodes : Leads(g, m, o)}
    BY ReachedIsLed
  <2> QED
    BY <2>1
<1> HIDE DEF Class
<1>4. \A i \in DOMAIN comps : comps[i] # {}
  BY <1>1 DEF OrderedCycles
<1>5. ToSet(comps) = {Class(n) : n \in g.nodes}
  <2>1. ASSUME NEW i \in DOMAIN comps PROVE \E n \in g.nodes : comps[i] = Class(n)
    <3>1. PICK n \in comps[i] : TRUE
      BY <1>4
    <3>2. n \in g.nodes
      BY <1>2
    <3> QED
      BY <1>2, <1>3, <3>1, <3>2
  <2>2. ASSUME NEW n \in g.nodes PROVE \E i \in DOMAIN comps : comps[i] = Class(n)
    <3>1. PICK i \in DOMAIN comps : n \in comps[i]
      BY <1>2
    <3> QED
      BY <1>2, <1>3, <3>1
  <2> QED
    BY <2>1, <2>2 DEF ToSet
<1>6. IsInjective(comps)
  <2>1. \A i, j \in DOMAIN comps : comps[i] = comps[j] => i = j
    BY <1>1 DEF OrderedCycles
  <2> QED
    BY <2>1 DEF IsInjective
<1>7. \A e \in ComponentEdges(g, comps) : e[2] < e[1]
  BY <1>1, EdgesGoDown
<1> QED
  BY <1>5, <1>6, <1>7 DEF ComponentsAreCycles, comps, Class

-----------------------------------------------------------------------------
(* Batches *)

\* Dependencies between the components 1..n that point down.
Downward(edges, n) ==
  \A e \in edges : e = <<e[1], e[2]>> /\ e[1] \in 1..n /\ e[2] \in 1..n /\ e[2] < e[1]

Rounds(n) == [pending : [1..n -> Nat], current : SUBSET (1..n), batches : Seq(SUBSET (1..n))]

Taken(r) == UNION ToSet(r.batches)

\* What is in no batch yet.
Untaken(n, r) == (1..n) \ Taken(r)
UntakenNext(n, r) == Untaken(n, r) \ r.current

\* The batches are disjoint, and each component is in the batch after the last
\* of those it depends on.
Layers(edges, batches) ==
  /\ \A a, b \in DOMAIN batches : a # b => batches[a] \cap batches[b] = {}
  /\ \A b \in DOMAIN batches : \A c \in batches[b] :
       /\ \A e \in edges : e[2] = c => \E a \in 1..(b - 1) : e[1] \in batches[a]
       /\ b > 1 => \E d \in batches[b - 1] : <<d, c>> \in edges

\* What each round keeps: a component's count are its dependencies that are in
\* no batch yet, and the next batch are all those without any.
Layered(edges, n, r) ==
  /\ \A c \in 1..n : r.pending[c] = Cardinality(Closed(edges, Untaken(n, r), c))
  /\ \A c \in 1..n : r.pending[c] = 0 <=> c \in Taken(r) \cup r.current
  /\ r.current \cap Taken(r) = {}
  /\ \A c \in r.current : r.batches # <<>> => \E d \in Last(r.batches) : <<d, c>> \in edges
  /\ Layers(edges, r.batches)

\* Counting dependencies tells whether there are any.
LEMMA ClosedCount ==
  ASSUME NEW edges, NEW n \in Nat, NEW S \in SUBSET (1..n), NEW c
  PROVE  /\ IsFiniteSet(Closed(edges, S, c)) /\ Cardinality(Closed(edges, S, c)) \in Nat
         /\ Cardinality(Closed(edges, S, c)) = 0 <=> \A d \in S : <<d, c>> \notin edges
<1>1. IsFiniteSet(1..n)
  BY FS_Interval
<1>2. Closed(edges, S, c) \in SUBSET (1..n)
  BY DEF Closed
<1>3. IsFiniteSet(Closed(edges, S, c)) /\ Cardinality(Closed(edges, S, c)) \in Nat
  BY <1>1, <1>2, FS_Subset, FS_CardinalityType
<1>4. Cardinality(Closed(edges, S, c)) = 0 <=> Closed(edges, S, c) = {}
  BY <1>3, FS_EmptySet
<1>5. Closed(edges, S, c) = {} <=> \A d \in S : <<d, c>> \notin edges
  BY DEF Closed
<1> QED
  BY <1>3, <1>4, <1>5

\* What is left open is counted by what the batch closes.
LEMMA ClosedLess ==
  ASSUME NEW edges, NEW n \in Nat, NEW S \in SUBSET (1..n), NEW B \in SUBSET S, NEW c
  PROVE  Cardinality(Closed(edges, S \ B, c))
           = Cardinality(Closed(edges, S, c)) - Cardinality(Closed(edges, B, c))
<1>1. IsFiniteSet(Closed(edges, S, c))
  BY ClosedCount
<1>2. /\ Closed(edges, S \ B, c) = Closed(edges, S, c) \ Closed(edges, B, c)
      /\ Closed(edges, S, c) \cap Closed(edges, B, c) = Closed(edges, B, c)
  BY DEF Closed
<1> QED
  BY <1>1, <1>2, FS_Difference

\* The loop over batches starts within its invariant.
LEMMA NoBatchLayered ==
  ASSUME NEW edges, NEW n \in Nat, NEW r, r = NoBatch(edges, n)
  PROVE  r \in Rounds(n) /\ Layered(edges, n, r) /\ r.batches = <<>>
<1> DEFINE incoming == [c \in 1..n |-> Cardinality(Closed(edges, 1..n, c))]
           first == {c \in 1..n : incoming[c] = 0}
<1>1. r = [pending |-> incoming, current |-> first, batches |-> <<>>]
  BY DEF NoBatch
<1>2. /\ incoming \in [1..n -> Nat]
      /\ \A c \in 1..n : incoming[c] = Cardinality(Closed(edges, 1..n, c))
  <2>1. \A c \in 1..n : Cardinality(Closed(edges, 1..n, c)) \in Nat
    BY ClosedCount
  <2> QED
    BY <2>1
<1>3. /\ first \in SUBSET (1..n)
      /\ \A c \in 1..n : c \in first <=> incoming[c] = 0
  OBVIOUS
<1> HIDE DEF incoming, first
<1>4. <<>> \in Seq(SUBSET (1..n))
  BY EmptySeq
<1>5. r \in Rounds(n)
  BY <1>1, <1>2, <1>3, <1>4 DEF Rounds
<1>6. r.pending = incoming /\ r.current = first /\ r.batches = <<>>
  BY <1>1
<1>7. Taken(r) = {}
  BY <1>6 DEF Taken, ToSet
<1>8. Layers(edges, r.batches)
  BY <1>6 DEF Layers
<1>9. Untaken(n, r) = 1..n
  BY <1>7 DEF Untaken
<1>10. Layered(edges, n, r)
  BY <1>2, <1>3, <1>6, <1>7, <1>8, <1>9 DEF Layered
<1> QED
  BY <1>5, <1>6, <1>10

\* What a round makes of the state r.
Round(edges, n, r, t) ==
  /\ t \in Rounds(n)
  /\ \A c \in 1..n : t.pending[c] = Cardinality(Closed(edges, UntakenNext(n, r), c))
  /\ \A c \in 1..n : c \in t.current <=> t.pending[c] = 0 /\ r.pending[c] > 0
  /\ t.batches = Append(r.batches, r.current)

\* What a round of the loop writes.
LEMMA NextBatchShape ==
  ASSUME NEW edges, NEW n \in Nat, NEW r \in Rounds(n), Layered(edges, n, r),
         NEW t, t = NextBatch(edges, r)
  PROVE  Round(edges, n, r, t)
<1> DEFINE left == [c \in DOMAIN r.pending |-> r.pending[c] - Cardinality(Closed(edges, r.current, c))]
           next == {c \in DOMAIN left : left[c] = 0 /\ r.pending[c] > 0}
           batches == Append(r.batches, r.current)
<1>1. /\ r.pending \in [1..n -> Nat] /\ r.current \in SUBSET (1..n)
      /\ r.batches \in Seq(SUBSET (1..n))
  BY DEF Rounds
<1>2. t = [pending |-> left, current |-> next, batches |-> batches]
  BY DEF NextBatch
<1>3. \A c \in 1..n : left[c] = Cardinality(Closed(edges, UntakenNext(n, r), c))
  <2> TAKE c \in 1..n
  <2>1. left[c] = r.pending[c] - Cardinality(Closed(edges, r.current, c))
    BY <1>1
  <2>2. r.pending[c] = Cardinality(Closed(edges, Untaken(n, r), c))
    BY DEF Layered
  <2>3. Untaken(n, r) \in SUBSET (1..n) /\ r.current \in SUBSET Untaken(n, r)
    BY <1>1 DEF Layered, Untaken
  <2>4. Cardinality(Closed(edges, UntakenNext(n, r), c))
          = Cardinality(Closed(edges, Untaken(n, r), c)) - Cardinality(Closed(edges, r.current, c))
    BY <2>3, ClosedLess DEF UntakenNext
  <2> HIDE DEF left
  <2> QED
    BY <2>1, <2>2, <2>4
<1>4. \A c \in 1..n : left[c] \in Nat
  <2> TAKE c \in 1..n
  <2>1. UntakenNext(n, r) \in SUBSET (1..n)
    BY DEF Untaken, UntakenNext
  <2>2. Cardinality(Closed(edges, UntakenNext(n, r), c)) \in Nat
    BY <2>1, ClosedCount
  <2> HIDE DEF left
  <2> QED
    BY <1>3, <2>2
<1>5. DOMAIN left = 1..n /\ left = [c \in DOMAIN left |-> left[c]]
  BY <1>1
<1>6. \A c \in 1..n : c \in next <=> left[c] = 0 /\ r.pending[c] > 0
  BY <1>5
<1>7. next \in SUBSET (1..n)
  BY <1>5
<1>8. batches \in Seq(SUBSET (1..n))
  BY <1>1, AppendProperties
<1> HIDE DEF left, next, batches
<1>9. left \in [1..n -> Nat]
  BY <1>4, <1>5
<1>10. t \in Rounds(n)
  BY <1>2, <1>7, <1>8, <1>9 DEF Rounds
<1>11. t.pending = left /\ t.current = next /\ t.batches = batches
  BY <1>2
<1> QED
  BY <1>3, <1>6, <1>10, <1>11 DEF batches, Round

\* A round keeps the invariant.
LEMMA NextBatchKeeps ==
  ASSUME NEW edges, NEW n \in Nat, Downward(edges, n), NEW r \in Rounds(n), Layered(edges, n, r),
         NEW t, t = NextBatch(edges, r)
  PROVE  t \in Rounds(n) /\ Layered(edges, n, t) /\ Taken(t) = Taken(r) \cup r.current
<1>0. Round(edges, n, r, t)
  BY NextBatchShape
<1>1. /\ t \in Rounds(n)
      /\ \A c \in 1..n :
           t.pending[c] = Cardinality(Closed(edges, UntakenNext(n, r), c))
      /\ \A c \in 1..n : c \in t.current <=> t.pending[c] = 0 /\ r.pending[c] > 0
      /\ t.batches = Append(r.batches, r.current)
  BY <1>0 DEF Round
<1>2. /\ r.pending \in [1..n -> Nat] /\ r.current \in SUBSET (1..n)
      /\ r.batches \in Seq(SUBSET (1..n)) /\ t.current \in SUBSET (1..n)
  BY <1>1 DEF Rounds
<1>3. Taken(t) = Taken(r) \cup r.current
  <2>1. ToSet(t.batches) = ToSet(r.batches) \cup {r.current}
    BY <1>1, <1>2, Pushed
  <2> QED
    BY <2>1 DEF Taken
<1>4. /\ Untaken(n, t) = UntakenNext(n, r)
      /\ \A c \in 1..n : c \in Untaken(n, r) <=> c \notin Taken(r)
      /\ Untaken(n, r) \in SUBSET (1..n) /\ Untaken(n, t) \in SUBSET (1..n)
      /\ Untaken(n, t) \subseteq Untaken(n, r)
      /\ Untaken(n, r) \subseteq Untaken(n, t) \cup r.current
  BY <1>3 DEF Untaken, UntakenNext
<1>5. /\ \A c \in 1..n : r.pending[c] = Cardinality(Closed(edges, Untaken(n, r), c))
      /\ \A c \in 1..n : r.pending[c] = 0 <=> c \in Taken(r) \cup r.current
      /\ r.current \cap Taken(r) = {}
      /\ \A c \in r.current : r.batches # <<>> => \E d \in Last(r.batches) : <<d, c>> \in edges
      /\ Layers(edges, r.batches)
  BY DEF Layered
<1>6. \A c \in 1..n : t.pending[c] = Cardinality(Closed(edges, Untaken(n, t), c))
  BY <1>1, <1>4
\* Which counts are zero.
<1>7. \A c \in 1..n : /\ r.pending[c] = 0 <=> \A d \in Untaken(n, r) : <<d, c>> \notin edges
                      /\ t.pending[c] = 0 <=> \A d \in Untaken(n, t) : <<d, c>> \notin edges
                      /\ r.pending[c] \in Nat
  <2> TAKE c \in 1..n
  <2>2. Cardinality(Closed(edges, Untaken(n, r), c)) = 0
          <=> \A d \in Untaken(n, r) : <<d, c>> \notin edges
    BY <1>4, ClosedCount
  <2>3. Cardinality(Closed(edges, Untaken(n, t), c)) = 0
          <=> \A d \in Untaken(n, t) : <<d, c>> \notin edges
    BY <1>4, ClosedCount
  <2> QED
    BY <1>2, <1>5, <1>6, <2>2, <2>3
<1>8. \A c \in 1..n : t.pending[c] = 0 <=> c \in Taken(t) \cup t.current
  <2> TAKE c \in 1..n
  <2>1. r.pending[c] = 0 => t.pending[c] = 0
    BY <1>4, <1>7
  <2>2. c \in t.current <=> t.pending[c] = 0 /\ r.pending[c] # 0
    BY <1>1, <1>7
  <2>3. c \in Taken(t) <=> r.pending[c] = 0
    BY <1>3, <1>5
  <2> QED
    BY <2>1, <2>2, <2>3
<1>9. t.current \cap Taken(t) = {}
  <2>1. \A c \in t.current : r.pending[c] # 0
    BY <1>1, <1>2, <1>7
  <2> QED
    BY <1>2, <1>3, <1>5, <2>1
<1> DEFINE k == Len(r.batches)
<1>10. /\ k \in Nat /\ DOMAIN r.batches = 1..k
       /\ DOMAIN t.batches = 1..(k + 1) /\ t.batches[k + 1] = r.current
       /\ \A b \in 1..k : t.batches[b] = r.batches[b]
  BY <1>1, <1>2, Appended
<1>11. Last(t.batches) = r.current
  <2>1. Len(t.batches) = k + 1
    BY <1>1, <1>2, AppendProperties
  <2> QED
    BY <1>10, <2>1 DEF Last
<1>12. \A c \in t.current : \E d \in r.current : <<d, c>> \in edges
  <2> TAKE c \in t.current
  <2>1. c \in 1..n /\ t.pending[c] = 0 /\ r.pending[c] > 0
    BY <1>1, <1>2
  <2>2. PICK d \in Untaken(n, r) : <<d, c>> \in edges
    BY <1>7, <2>1
  <2>3. d \in r.current
    BY <1>4, <1>7, <2>1, <2>2
  <2> QED
    BY <2>2, <2>3
<1>13. \A b \in 1..k : r.batches[b] \subseteq Taken(r)
  BY <1>10 DEF Taken, ToSet
<1>14. r.batches = <<>> <=> k = 0
  BY <1>2, <1>10, EmptySeq
<1>15. k # 0 => Last(r.batches) = t.batches[k]
  BY <1>10 DEF Last
<1> HIDE DEF k
<1>16. \A b \in 1..(k + 1) : b \in 1..k \/ b = k + 1
  BY <1>10
<1>17. \A a, b \in 1..(k + 1) : a # b => t.batches[a] \cap t.batches[b] = {}
  <2>1. \A a, b \in 1..k : a # b => r.batches[a] \cap r.batches[b] = {}
    BY <1>5, <1>10 DEF Layers
  <2>2. \A b \in 1..k : r.current \cap r.batches[b] = {}
    BY <1>5, <1>13
  <2> QED
    BY <1>10, <1>16, <2>1, <2>2
<1>18. ASSUME NEW b \in 1..(k + 1), NEW c \in t.batches[b]
       PROVE  /\ \A e \in edges : e[2] = c => \E a \in 1..(b - 1) : e[1] \in t.batches[a]
              /\ b > 1 => \E d \in t.batches[b - 1] : <<d, c>> \in edges
  <2>1. CASE b \in 1..k
    <3>1. c \in r.batches[b]
      BY <1>10, <2>1
    <3>2. \A a \in 1..(b - 1) : a \in 1..k
      BY <1>10, <2>1
    <3>3. b > 1 => b - 1 \in 1..k
      BY <1>10, <2>1
    <3>4. /\ \A e \in edges : e[2] = c => \E a \in 1..(b - 1) : e[1] \in r.batches[a]
          /\ b > 1 => \E d \in r.batches[b - 1] : <<d, c>> \in edges
      BY <1>5, <1>10, <2>1, <3>1 DEF Layers
    <3> QED
      BY <1>10, <3>2, <3>3, <3>4
  <2>2. CASE b = k + 1
    <3>1. c \in r.current /\ c \in 1..n
      BY <1>2, <1>10, <2>2
    <3>2. \A e \in edges : e[2] = c => \E a \in 1..(b - 1) : e[1] \in t.batches[a]
      <4> TAKE e \in edges
      <4> HAVE e[2] = c
      <4>1. e[1] \in 1..n /\ <<e[1], c>> \in edges
        BY DEF Downward
      <4>2. e[1] \in Taken(r)
        BY <1>4, <1>5, <1>7, <3>1, <4>1
      <4>3. PICK a \in 1..k : e[1] \in r.batches[a]
        BY <1>10, <4>2 DEF Taken, ToSet
      <4>4. a \in 1..(b - 1)
        BY <1>10, <2>2
      <4> QED
        BY <1>10, <4>3, <4>4
    <3>3. b > 1 => \E d \in t.batches[b - 1] : <<d, c>> \in edges
      <4> HAVE b > 1
      <4>1. k # 0 /\ b - 1 = k
        BY <1>10, <2>2
      <4>2. \E d \in Last(r.batches) : <<d, c>> \in edges
        BY <1>5, <1>14, <3>1, <4>1
      <4> QED
        BY <1>15, <4>1, <4>2
    <3> QED
      BY <3>2, <3>3
  <2> QED
    BY <1>16, <2>1, <2>2
<1>19. Layers(edges, t.batches)
  BY <1>10, <1>17, <1>18 DEF Layers
<1>20. Layered(edges, n, t)
  BY <1>6, <1>8, <1>9, <1>11, <1>12, <1>19 DEF Layered
<1> QED
  BY <1>1, <1>3, <1>20

\* A round without a next batch has taken everything: the last component left
\* would depend on none that is left.
LEMMA NoneLeft ==
  ASSUME NEW edges, NEW n \in Nat, Downward(edges, n), NEW r \in Rounds(n), Layered(edges, n, r),
         r.current = {}
  PROVE  \A c \in 1..n : c \in Taken(r)
<1>0. \A c : c \in Untaken(n, r) <=> c \in 1..n /\ c \notin Taken(r)
  BY DEF Untaken
<1> DEFINE Bad == {n - c : c \in Untaken(n, r)}
<1> SUFFICES ASSUME NEW x \in 1..n, x \notin Taken(r) PROVE FALSE
  OBVIOUS
<1>1. Bad \in SUBSET Nat /\ Bad # {}
  BY <1>0
<1>2. PICK least \in Bad : \A i \in Bad : least <= i
  <2> HIDE DEF Bad
  <2> QED
    BY <1>1, LeastOf
<1>3. PICK c \in Untaken(n, r) : least = n - c
  OBVIOUS
<1>4. \A d \in Untaken(n, r) : d <= c
  <2> TAKE d \in Untaken(n, r)
  <2>1. n - d \in Bad
    OBVIOUS
  <2>2. n - c <= n - d
    BY <1>2, <1>3, <2>1
  <2> QED
    BY <1>0, <2>2
<1>5. \A d \in Untaken(n, r) : <<d, c>> \notin edges
  <2> TAKE d \in Untaken(n, r)
  <2>1. <<d, c>> \in edges => c < d
    <3> HAVE <<d, c>> \in edges
    <3>1. <<d, c>>[2] < <<d, c>>[1]
      BY DEF Downward
    <3> QED
      BY <3>1
  <2> QED
    BY <1>0, <1>4, <2>1
<1>6. Cardinality(Closed(edges, Untaken(n, r), c)) = 0
  <2>1. Untaken(n, r) \in SUBSET (1..n)
    BY <1>0
  <2> QED
    BY <1>5, <2>1, ClosedCount
<1>7. c \in Taken(r) \cup r.current
  BY <1>0, <1>6 DEF Layered
<1> QED
  BY <1>0, <1>3, <1>7

Further(edges, r) == IF r.current = {} THEN r ELSE NextBatch(edges, r)

LayeredRounds(edges, n) == {r \in Rounds(n) : Layered(edges, n, r)}

Batched(edges, n, round) ==
  /\ round \in [0..n -> LayeredRounds(edges, n)]
  /\ round[0] = NoBatch(edges, n)
  /\ \A i \in 1..n : round[i] = Further(edges, round[i - 1])

\* So does a step of the loop, which makes no round once nothing is ready.
LEMMA FurtherKeeps ==
  ASSUME NEW edges, NEW n \in Nat, Downward(edges, n), NEW r \in LayeredRounds(edges, n)
  PROVE  Further(edges, r) \in LayeredRounds(edges, n)
<1>1. r \in Rounds(n) /\ Layered(edges, n, r)
  BY DEF LayeredRounds
<1>2. NextBatch(edges, r) \in Rounds(n) /\ Layered(edges, n, NextBatch(edges, r))
  BY <1>1, NextBatchKeeps
<1> QED
  BY <1>1, <1>2 DEF Further, LayeredRounds

\* The recursive function of Batches exists.
LEMMA BatchesIs ==
  ASSUME NEW edges, NEW n \in Nat, Downward(edges, n)
  PROVE  \E round : Batched(edges, n, round) /\ Batches(edges, n) = round[n].batches
<1> DEFINE S == LayeredRounds(edges, n)
           first == NoBatch(edges, n)
           step == [x \in S \X Nat |-> Further(edges, x[1])]
           Rhs(f) == [i \in 0..n |-> IF i = 0 THEN first ELSE Further(edges, f[i - 1])]
           round == CHOOSE f : f = [i \in 0..n |-> IF i = 0 THEN NoBatch(edges, n)
                                                   ELSE IF f[i - 1].current = {} THEN f[i - 1]
                                                   ELSE NextBatch(edges, f[i - 1])]
<1>1. Batches(edges, n) = round[n].batches
  BY DEF Batches
<1>2. round = CHOOSE f : f = Rhs(f)
  BY DEF Further
<1>3. first \in S
  BY NoBatchLayered DEF LayeredRounds
<1>4. \A s \in S : Further(edges, s) \in S
  BY FurtherKeeps
<1> HIDE DEF S, first, round
<1>5. step \in [S \X Nat -> S]
  BY <1>4
<1>6. \A s \in S, i \in 1..n : step[<<s, i>>] = Further(edges, s)
  <2> TAKE s \in S, i \in 1..n
  <2>1. <<s, i>> \in S \X Nat
    OBVIOUS
  <2> QED
    BY <2>1
<1> HIDE DEF step
<1>7. PICK f : Primitive(f, S, first, step, n)
  BY <1>3, <1>5, Recursive
<1>8. \A i \in 1..n : i - 1 \in 0..n /\ i # 0 /\ i \in 0..n
  OBVIOUS
<1>9. \A i \in 1..n : f[i] = Further(edges, f[i - 1])
  BY <1>6, <1>7, <1>8 DEF Primitive
<1>10. f = Rhs(f)
  <2>1. \A i \in 0..n : i = 0 \/ i \in 1..n
    OBVIOUS
  <2>2. \A i \in 0..n : f[i] = IF i = 0 THEN first ELSE Further(edges, f[i - 1])
    BY <1>7, <1>9, <2>1 DEF Primitive
  <2>3. \A i \in 0..n : Rhs(f)[i] = f[i]
    BY <2>2
  <2>4. Rhs(f) = [i \in 0..n |-> Rhs(f)[i]]
    OBVIOUS
  <2> HIDE DEF Rhs
  <2> QED
    BY <1>7, <2>3, <2>4 DEF Primitive
<1>11. round = Rhs(round)
  BY <1>2, <1>10
<1>12. /\ DOMAIN round = 0..n /\ round = [i \in DOMAIN round |-> round[i]]
       /\ round[0] = first
  BY <1>11
<1>13. \A i \in 1..n : round[i] = Further(edges, round[i - 1])
  BY <1>8, <1>11
<1>14. \A i \in 1..n : round[i - 1] \in S => round[i] \in S
  BY <1>4, <1>13
<1>15. round \in [0..n -> S]
  BY <1>3, <1>12, <1>14, RecursiveType
<1> QED
  BY <1>1, <1>12, <1>13, <1>15 DEF Batched, first, S

\* Each round takes a component, so that n rounds take all.
LEMMA BatchesEnd ==
  ASSUME NEW edges, NEW n \in Nat, Downward(edges, n), NEW round, Batched(edges, n, round)
  PROVE  /\ round[n] \in Rounds(n) /\ Layered(edges, n, round[n])
         /\ Taken(round[n]) = 1..n
<1> DEFINE T == {i \in 0..n : round[i].current = {} \/ Cardinality(Taken(round[i])) >= i}
<1>1. \A i \in 0..n : /\ round[i] \in Rounds(n) /\ Layered(edges, n, round[i])
                      /\ Taken(round[i]) \in SUBSET (1..n)
                      /\ IsFiniteSet(Taken(round[i])) /\ Cardinality(Taken(round[i])) \in Nat
  <2> TAKE i \in 0..n
  <2>1. round[i] \in Rounds(n) /\ Layered(edges, n, round[i])
    BY DEF Batched, LayeredRounds
  <2>2. round[i].batches \in Seq(SUBSET (1..n))
    BY <2>1 DEF Rounds
  <2>3. Taken(round[i]) \in SUBSET (1..n)
    <3>1. \A S \in ToSet(round[i].batches) : S \in SUBSET (1..n)
      BY <2>2, LenProperties, ElementOfSeq DEF ToSet
    <3> QED
      BY <3>1 DEF Taken
  <2>4. IsFiniteSet(1..n)
    BY FS_Interval
  <2>5. IsFiniteSet(Taken(round[i])) /\ Cardinality(Taken(round[i])) \in Nat
    BY <2>3, <2>4, FS_Subset, FS_CardinalityType
  <2> QED
    BY <2>1, <2>3, <2>5
<1>2. 0 \in T
  BY <1>1
<1>3. ASSUME NEW i \in 0..(n - 1), i \in T PROVE i + 1 \in T
  <2>1. i + 1 \in 1..n /\ i + 1 \in 0..n /\ i \in 0..n /\ (i + 1) - 1 = i
    OBVIOUS
  <2> DEFINE r == round[i]
             t == round[i + 1]
  <2>2. t = Further(edges, r)
    <3>1. round[i + 1] = Further(edges, round[(i + 1) - 1])
      BY <2>1 DEF Batched
    <3> QED
      BY <2>1, <3>1
  <2>3. CASE r.current = {}
    BY <2>1, <2>2, <2>3 DEF Further
  <2>4. CASE r.current # {}
    <3>1. t = NextBatch(edges, r)
      BY <2>2, <2>4 DEF Further
    <3>2. /\ r \in Rounds(n) /\ Layered(edges, n, r)
          /\ IsFiniteSet(Taken(r)) /\ Cardinality(Taken(r)) \in Nat
          /\ IsFiniteSet(Taken(t)) /\ Cardinality(Taken(t)) \in Nat
      BY <1>1, <2>1
    <3>3. Cardinality(Taken(r)) >= i
      BY <1>3, <2>4
    <3> HIDE DEF r, t
    <3>4. Taken(t) = Taken(r) \cup r.current
      BY <3>1, <3>2, NextBatchKeeps
    <3>5. PICK c \in r.current : TRUE
      BY <2>4
    <3>6. c \notin Taken(r)
      BY <3>2, <3>5 DEF Layered
    <3>7. Cardinality(Taken(r) \cup {c}) = Cardinality(Taken(r)) + 1
      BY <3>2, <3>6, FS_AddElement
    <3>8. Cardinality(Taken(r) \cup {c}) <= Cardinality(Taken(t))
      <4>1. Taken(r) \cup {c} \in SUBSET Taken(t)
        BY <3>4, <3>5
      <4> QED
        BY <3>2, <4>1, FS_Subset
    <3>9. Cardinality(Taken(t)) >= i + 1
      BY <3>2, <3>3, <3>7, <3>8
    <3> QED
      BY <2>1, <3>9 DEF t
  <2> QED
    BY <2>3, <2>4
<1>4. n \in T
  <2> HIDE DEF T
  <2>1. \A i \in 0..n : i \in T
    BY <1>2, <1>3, UpTo
  <2> QED
    BY <2>1
<1> DEFINE r == round[n]
<1>5. /\ r \in Rounds(n) /\ Layered(edges, n, r) /\ Taken(r) \in SUBSET (1..n)
      /\ IsFiniteSet(Taken(r)) /\ Cardinality(Taken(r)) \in Nat
  BY <1>1
<1>6. r.current = {} \/ Cardinality(Taken(r)) >= n
  BY <1>4
<1> HIDE DEF r
<1>7. Taken(r) = 1..n
  <2>1. CASE r.current = {}
    BY <1>5, <2>1, NoneLeft
  <2>2. CASE Cardinality(Taken(r)) >= n
    <3>1. IsFiniteSet(1..n) /\ Cardinality(1..n) = n
      BY FS_Interval
    <3>2. Cardinality(Taken(r)) <= Cardinality(1..n)
      BY <1>5, <3>1, FS_Subset
    <3>3. Cardinality(Taken(r)) = Cardinality(1..n)
      BY <1>5, <2>2, <3>1, <3>2
    <3> QED
      BY <1>5, <3>1, <3>3, FS_Subset
  <2> QED
    BY <1>6, <2>1, <2>2
<1> QED
  BY <1>5, <1>7 DEF r

\* Batches of a graph without cycles are layers.
LEMMA BatchesLayer ==
  ASSUME NEW edges, NEW n \in Nat, Downward(edges, n)
  PROVE  /\ Layers(edges, Batches(edges, n)) /\ UNION ToSet(Batches(edges, n)) = 1..n
         /\ Batches(edges, n) \in Seq(SUBSET (1..n))
<1>1. PICK round : Batched(edges, n, round) /\ Batches(edges, n) = round[n].batches
  BY BatchesIs
<1>2. /\ round[n] \in Rounds(n) /\ Layered(edges, n, round[n])
      /\ Taken(round[n]) = 1..n
  BY <1>1, BatchesEnd
<1> QED
  BY <1>1, <1>2 DEF Layered, Taken, Rounds

\* Edges between components lead from later ones to earlier ones.
LEMMA ComponentsDownward ==
  ASSUME NEW g, Graph(g), NEW comps, OrderedCycles(g, comps)
  PROVE  Downward(ComponentEdges(g, comps), Len(comps))
<1>1. \A e \in ComponentEdges(g, comps) :
         e = <<e[1], e[2]>> /\ e[1] \in 1..Len(comps) /\ e[2] \in 1..Len(comps) /\ e[2] < e[1]
  BY EdgesGoDown
<1> HIDE DEF ComponentEdges
<1> QED
  BY <1>1 DEF Downward

\* The plan of every graph is in layers.
LEMMA LayersOfBatches ==
  ASSUME NEW g, Graph(g)
  PROVE  BatchesAreLayers(g)
<1> DEFINE comps == Components(g)
           edges == ComponentEdges(g, comps)
           n == Len(comps)
           batches == Batches(edges, n)
<1>1. OrderedCycles(g, comps)
  BY ComponentsAreOrdered
<1>2. /\ Plan(g).components = comps /\ Plan(g).batches = batches
      /\ Plan(g).planned = (UNION ToSet(batches) = DOMAIN comps)
  BY DEF Plan, PlanComponents, PlanWith
<1> HIDE DEF comps
<1>3. n \in Nat /\ DOMAIN comps = 1..n
  BY <1>1, CyclesAreClasses
<1>4. Downward(edges, n)
  BY <1>1, ComponentsDownward
<1> HIDE DEF edges, n
<1>5. Layers(edges, batches) /\ UNION ToSet(batches) = 1..n
  BY <1>3, <1>4, BatchesLayer
<1>6. Plan(g).planned
  BY <1>2, <1>3, <1>5
<1>7. ComponentEdges(g, Plan(g).components) = edges
  BY <1>2 DEF edges
<1> HIDE DEF batches
<1>8. /\ \A a, b \in DOMAIN batches : a # b => batches[a] \cap batches[b] = {}
      /\ \A b \in DOMAIN batches : \A c \in batches[b] :
           /\ \A e \in edges : e[2] = c => \E a \in 1..(b - 1) : e[1] \in batches[a]
           /\ b > 1 => \E d \in batches[b - 1] : <<d, c>> \in edges
  BY <1>5 DEF Layers
<1> QED
  BY <1>2, <1>6, <1>7, <1>8 DEF BatchesAreLayers, comps

-----------------------------------------------------------------------------
(* The scope of a run, and the theorem. *)

Grown(g, nodes) == nodes \cup UNION {SuccessorsOf(g, n) : n \in nodes}

\* What is found from the start nodes, round by round.
Found(g, starts, included) ==
  /\ included \in [0..Cardinality(g.nodes) -> SUBSET g.nodes]
  /\ included[0] = starts
  /\ \A i \in 1..Cardinality(g.nodes) : included[i] = Grown(g, included[i - 1])

\* The recursive function of Included exists.
LEMMA IncludedIs ==
  ASSUME NEW g, Graph(g), NEW starts \in SUBSET g.nodes
  PROVE  \E included : /\ Found(g, starts, included)
                       /\ Included(g, starts) = included[Cardinality(g.nodes)]
<1> DEFINE n == Cardinality(g.nodes)
           S == SUBSET g.nodes
           step == [x \in S \X Nat |-> Grown(g, x[1])]
           Rhs(f) == [i \in 0..n |-> IF i = 0 THEN starts ELSE Grown(g, f[i - 1])]
           included == CHOOSE f : f = [i \in 0..n |-> IF i = 0 THEN starts
                                         ELSE f[i - 1] \cup UNION {SuccessorsOf(g, m) : m \in f[i - 1]}]
<1>0. n \in Nat
  BY FS_CardinalityType DEF Graph
<1>1. Included(g, starts) = included[n]
  BY DEF Included
<1>2. included = CHOOSE f : f = Rhs(f)
  BY DEF Grown
<1>3. starts \in S
  OBVIOUS
<1>4. \A s \in S : Grown(g, s) \in S
  BY DEF Grown, SuccessorsOf
<1> HIDE DEF S, n, included
<1>5. step \in [S \X Nat -> S]
  BY <1>4
<1>6. \A s \in S, i \in 1..n : step[<<s, i>>] = Grown(g, s)
  <2> TAKE s \in S, i \in 1..n
  <2>1. <<s, i>> \in S \X Nat
    BY <1>0
  <2> QED
    BY <2>1
<1> HIDE DEF step
<1>7. PICK f : Primitive(f, S, starts, step, n)
  BY <1>0, <1>3, <1>5, Recursive
<1>8. \A i \in 1..n : i - 1 \in 0..n /\ i # 0 /\ i \in 0..n
  BY <1>0
<1>9. \A i \in 1..n : f[i] = Grown(g, f[i - 1])
  BY <1>6, <1>7, <1>8 DEF Primitive
<1>10. f = Rhs(f)
  <2>1. \A i \in 0..n : i = 0 \/ i \in 1..n
    BY <1>0
  <2>2. \A i \in 0..n : f[i] = IF i = 0 THEN starts ELSE Grown(g, f[i - 1])
    BY <1>7, <1>9, <2>1 DEF Primitive
  <2>3. \A i \in 0..n : Rhs(f)[i] = f[i]
    BY <2>2
  <2>4. Rhs(f) = [i \in 0..n |-> Rhs(f)[i]]
    OBVIOUS
  <2> HIDE DEF Rhs
  <2> QED
    BY <1>7, <2>3, <2>4 DEF Primitive
<1>11. included = Rhs(included)
  BY <1>2, <1>10
<1>12. /\ DOMAIN included = 0..n /\ included = [i \in DOMAIN included |-> included[i]]
       /\ included[0] = starts
  BY <1>0, <1>11
<1>13. \A i \in 1..n : included[i] = Grown(g, included[i - 1])
  BY <1>8, <1>11
<1>14. \A i \in 1..n : included[i - 1] \in S => included[i] \in S
  BY <1>4, <1>13
<1>15. included \in [0..n -> S]
  BY <1>0, <1>3, <1>12, <1>14, RecursiveType
<1> QED
  BY <1>1, <1>12, <1>13, <1>15 DEF Found, n, S

\* The nodes the start nodes lead to.
LedFrom(g, starts) == {m \in g.nodes : \E n \in starts : Leads(g, n, m)}

\* The rounds find all that the start nodes lead to.
LEMMA IncludedIsLed ==
  ASSUME NEW g, Graph(g), NEW starts \in SUBSET g.nodes
  PROVE  Included(g, starts) = LedFrom(g, starts) /\ Included(g, starts) \in ClosedSets(g)
<1> DEFINE n == Cardinality(g.nodes)
<1>1. PICK included : Found(g, starts, included) /\ Included(g, starts) = included[n]
  BY IncludedIs
<1>2. n \in Nat /\ IsFiniteSet(g.nodes)
  BY FS_CardinalityType DEF Graph
<1> DEFINE T == {i \in 0..n : /\ starts \subseteq included[i]
                              /\ included[i] \subseteq LedFrom(g, starts)
                              /\ \/ Grown(g, included[i]) = included[i]
                                 \/ Cardinality(included[i]) >= i}
<1>3. \A i \in 0..n : /\ included[i] \in SUBSET g.nodes
                      /\ IsFiniteSet(included[i]) /\ Cardinality(included[i]) \in Nat
  <2> TAKE i \in 0..n
  <2>1. included[i] \in SUBSET g.nodes
    BY <1>1 DEF Found
  <2> QED
    BY <1>2, <2>1, FS_Subset, FS_CardinalityType
<1>4. 0 \in T
  <2>1. included[0] = starts
    BY <1>1 DEF Found
  <2>2. starts \subseteq LedFrom(g, starts)
    BY LeadsOn DEF LedFrom
  <2>3. Cardinality(included[0]) >= 0 /\ 0 \in 0..n
    BY <1>2, <1>3
  <2> QED
    BY <2>1, <2>2, <2>3
<1>5. ASSUME NEW i \in 0..(n - 1), i \in T PROVE i + 1 \in T
  <2>1. i + 1 \in 1..n /\ i + 1 \in 0..n /\ i \in 0..n /\ (i + 1) - 1 = i
    BY <1>2
  <2> DEFINE r == included[i]
             t == included[i + 1]
  <2>2. t = Grown(g, r)
    <3>1. included[i + 1] = Grown(g, included[(i + 1) - 1])
      BY <1>1, <2>1 DEF Found
    <3> QED
      BY <2>1, <3>1
  <2>3. /\ starts \subseteq r /\ r \subseteq LedFrom(g, starts)
        /\ Grown(g, r) = r \/ Cardinality(r) >= i
    BY <1>5
  <2>4. /\ r \in SUBSET g.nodes /\ IsFiniteSet(r) /\ Cardinality(r) \in Nat
        /\ t \in SUBSET g.nodes /\ IsFiniteSet(t) /\ Cardinality(t) \in Nat
    BY <1>3, <2>1
  <2> HIDE DEF r, t
  <2>5. r \subseteq t
    BY <2>2 DEF Grown
  <2>6. t \subseteq LedFrom(g, starts)
    <3>1. ASSUME NEW m \in r, NEW o \in SuccessorsOf(g, m) PROVE o \in LedFrom(g, starts)
      <4>1. PICK s \in starts : Leads(g, s, m)
        BY <2>3 DEF LedFrom
      <4>2. o \in g.nodes /\ <<m, o>> \in g.edges
        BY DEF SuccessorsOf
      <4>3. Leads(g, s, o)
        BY <4>1, <4>2, LeadsOn
      <4> QED
        BY <4>2, <4>3 DEF LedFrom
    <3> QED
      BY <2>2, <2>3, <3>1 DEF Grown
  <2>7. Grown(g, t) = t \/ Cardinality(t) >= i + 1
    <3>1. CASE t = r
      BY <2>2, <3>1
    <3>2. CASE t # r
      <4>1. PICK c \in t : c \notin r
        BY <2>5, <3>2
      <4>2. Cardinality(r \cup {c}) = Cardinality(r) + 1
        BY <2>4, <4>1, FS_AddElement
      <4>3. r \cup {c} \in SUBSET t
        BY <2>5, <4>1
      <4>4. Cardinality(r \cup {c}) <= Cardinality(t)
        BY <2>4, <4>3, FS_Subset
      <4>5. Cardinality(r) >= i
        BY <2>2, <2>3, <3>2
      <4> QED
        BY <2>4, <4>2, <4>4, <4>5
    <3> QED
      BY <3>1, <3>2
  <2> QED
    BY <2>1, <2>3, <2>5, <2>6, <2>7 DEF t
<1>6. n \in T
  <2> HIDE DEF T, n
  <2>1. \A i \in 0..n : i \in T
    BY <1>2, <1>4, <1>5, UpTo
  <2> QED
    BY <1>2, <2>1
<1> DEFINE all == included[n]
<1>7. /\ starts \subseteq all /\ all \subseteq LedFrom(g, starts)
      /\ Grown(g, all) = all \/ Cardinality(all) >= n
      /\ all \in SUBSET g.nodes /\ IsFiniteSet(all) /\ Cardinality(all) \in Nat
  BY <1>2, <1>3, <1>6
<1> HIDE DEF all
<1>8. Grown(g, all) = all
  <2>1. CASE Cardinality(all) >= n
    <3>1. Cardinality(all) <= Cardinality(g.nodes)
      BY <1>2, <1>7, FS_Subset
    <3>2. Cardinality(all) = Cardinality(g.nodes)
      BY <1>2, <1>7, <2>1, <3>1
    <3>3. all = g.nodes
      BY <1>2, <1>7, <3>2, FS_Subset
    <3> QED
      BY <3>3 DEF Grown, SuccessorsOf
  <2> QED
    BY <1>7, <2>1
<1>9. all \in ClosedSets(g)
  <2>1. ASSUME NEW e \in g.edges, e[1] \in all PROVE e[2] \in all
    <3>1. e = <<e[1], e[2]>> /\ e[2] \in g.nodes
      BY EdgeShape
    <3>2. e[2] \in SuccessorsOf(g, e[1])
      BY <3>1 DEF SuccessorsOf
    <3> QED
      BY <1>8, <2>1, <3>2 DEF Grown
  <2> QED
    BY <1>7, <2>1 DEF ClosedSets
<1>10. LedFrom(g, starts) \subseteq all
  BY <1>7, <1>9 DEF LedFrom, Leads
<1> QED
  BY <1>1, <1>7, <1>9, <1>10 DEF all

\* The scope of every run is downstream of its start nodes.
LEMMA ScopeOfStarts ==
  ASSUME NEW g, Graph(g), NEW starts \in SUBSET g.nodes
  PROVE  ScopeIsDownstream(g, starts)
<1> SUFFICES ASSUME starts # {}
             PROVE  /\ ExecutionGraph(g, starts).nodes = UNION {ReachedFrom(g)[n] : n \in starts}
                    /\ ExecutionGraph(g, starts).edges
                         = {e \in g.edges : e[1] \in ExecutionGraph(g, starts).nodes}
                    /\ BatchesAreLayers(ExecutionGraph(g, starts))
  BY DEF ScopeIsDownstream
<1> DEFINE scoped == ExecutionGraph(g, starts)
           nodes == Included(g, starts)
<1>1. scoped.nodes = nodes /\ scoped.edges = g.edges \cap (nodes \X nodes)
  BY DEF ExecutionGraph
<1>2. nodes = LedFrom(g, starts) /\ nodes \in ClosedSets(g)
  BY IncludedIsLed
<1> HIDE DEF scoped, nodes
<1>3. scoped.nodes = UNION {ReachedFrom(g)[n] : n \in starts}
  <2>1. \A n \in starts : ReachedFrom(g)[n] = {m \in g.nodes : Leads(g, n, m)}
    BY ReachedIsLed
  <2> QED
    BY <1>1, <1>2, <2>1 DEF LedFrom
<1>4. nodes \subseteq g.nodes /\ \A e \in g.edges : e[1] \in nodes => e[2] \in nodes
  BY <1>2 DEF ClosedSets
<1>5. \A e \in g.edges : e = <<e[1], e[2]>> /\ e[1] \in g.nodes /\ e[2] \in g.nodes /\ e[1] # e[2]
  BY EdgeShape
<1>6. scoped.edges = {e \in g.edges : e[1] \in scoped.nodes}
  BY <1>1, <1>4, <1>5
<1>7. Graph(scoped)
  <2>1. IsFiniteSet(scoped.nodes) /\ scoped.nodes \subseteq Nat
    BY <1>1, <1>4, FS_Subset DEF Graph
  <2>2. Valid(scoped)
    BY <1>1, <1>5 DEF Valid
  <2> QED
    BY <2>1, <2>2 DEF Graph
<1>8. BatchesAreLayers(scoped)
  BY <1>7, LayersOfBatches
<1> QED
  BY <1>3, <1>6, <1>8 DEF scoped

\* The graphs a caller draws are ones the planner accepts.
DrawnGraph ==
  /\ sourceGraph \in [nodes : {1..N}, edges : SUBSET ((1..N) \X (1..N))]
  /\ Valid(sourceGraph)
  /\ startNodes \subseteq 1..N

(***************************************************************************)
(* Whatever edges and start nodes a caller adds, in whatever order, the    *)
(* planner is given a graph it accepts, and start nodes that it has.       *)
(***************************************************************************)
THEOREM DrawnGraphs == PlannerSpec => []DrawnGraph
<1>1. PlannerInit => DrawnGraph
  BY DEF PlannerInit, NoEdges, DrawnGraph, Valid
<1>2. DrawnGraph /\ [PlannerNext]_plannerVars => DrawnGraph'
  <2> SUFFICES ASSUME DrawnGraph, [PlannerNext]_plannerVars PROVE DrawnGraph'
    OBVIOUS
  <2>1. ASSUME NEW e \in (1..N) \X (1..N), AddEdge(e) PROVE DrawnGraph'
    BY <2>1 DEF AddEdge, DrawnGraph
  <2>2. ASSUME NEW n \in 1..N, AddStart(n) PROVE DrawnGraph'
    BY <2>2 DEF AddStart, DrawnGraph, Valid
  <2>3. CASE UNCHANGED plannerVars
    BY <2>3 DEF plannerVars, DrawnGraph, Valid
  <2> QED
    BY <2>1, <2>2, <2>3 DEF PlannerNext
<1> QED
  BY <1>1, <1>2, PTL DEF PlannerSpec

(***************************************************************************)
(* However many nodes a graph has and whatever its edges are, its plan is  *)
(* in layers of its cycles, and so is the plan of the part of it that runs *)
(* from start nodes (planner.ts:136-228, executor.ts:642-709).             *)
(***************************************************************************)
THEOREM PlansStaySound == PlannerSpec => []PlansAreSound
<1>1. DrawnGraph => PlansAreSound
  <2> SUFFICES ASSUME DrawnGraph PROVE PlansAreSound
    OBVIOUS
  <2>1. sourceGraph.nodes = 1..N /\ Valid(sourceGraph) /\ startNodes \in SUBSET sourceGraph.nodes
    BY DEF DrawnGraph
  <2>2. Graph(sourceGraph)
    <3>1. IsFiniteSet(1..N)
      BY SizeAssumption, FS_Interval
    <3> QED
      BY <2>1, <3>1 DEF Graph
  <2>3. ComponentsAreCycles(sourceGraph) /\ BatchesAreLayers(sourceGraph)
    BY <2>2, ClassesOfComponents, LayersOfBatches
  <2>4. ScopeIsDownstream(sourceGraph, startNodes)
    BY <2>1, <2>2, ScopeOfStarts
  <2> QED
    BY <2>3, <2>4 DEF PlansAreSound
<1> QED
  BY <1>1, DrawnGraphs, PTL

-----------------------------------------------------------------------------
(***************************************************************************)
(* Part two: the engine.                                                   *)
(***************************************************************************)

RecordStatus == {"none", "pending", "running", "completed", "failed", "cancelled"}
Places == {"idle", "node", "aborting", "failing", "caught", "done", "released"}

\* The places of the plan.
PlanPlaces == UNION {{<<c, i>> : i \in 1..Len(graph.nodesOf[c])} : c \in Comps}

TypeOK ==
  /\ graph \in Graphs
  /\ pump \in {"enter", "loop", "no"}
  /\ ready \subseteq Comps /\ scheduled \subseteq Comps /\ completed \subseteq Comps
  /\ remaining \in [Comps -> Int]
  /\ activeCount \in Int
  /\ activeCountByKey \in [Keys -> Int]
  /\ pc \in [Comps -> Places]
  /\ at \in [Comps -> Nat]
  /\ \A c \in Comps : at[c] <= Len(graph.nodesOf[c]) /\ (at[c] = 0 => graph.nodesOf[c] = <<>>)
  /\ \A c \in Comps : pc[c] = "node" => graph.nodesOf[c] # <<>>
  /\ record \in [Comps -> RecordStatus]
  /\ parent \in [Comps -> Comps \cup {NoParent}]
  /\ order \in Seq(PlanPlaces)
  /\ calls \in Seq([place : PlanPlaces, given : SUBSET Nodes])
  /\ inFlight \subseteq PlanPlaces
  /\ aborted \in BOOLEAN
  /\ outcome \in {"none", "completed", "failed", "cancelled"}
  /\ executions \in [Comps -> RecordStatus]

-----------------------------------------------------------------------------
(* The inductive invariant, part by part. *)

\* Nothing starts before pump() began or after the run settled.
PumpFits == pump \in {"enter", "loop"} => ~Settled

\* Where a component stands and what its record says.
RecordsFit ==
  \A c \in Comps :
    /\ pc[c] = "idle" => record[c] = "none" /\ at[c] <= 1
    /\ pc[c] = "aborting" => aborted
    /\ pc[c] = "caught" => record[c] \in {"cancelled", "failed"}
    /\ record[c] = "cancelled" => aborted
    /\ pc[c] \in {"done", "released"} => Settled \/ c \in completed
    /\ c \in completed =>
         pc[c] \in {"done", "released"} /\ record[c] = "completed" /\ LastNode(c)

\* The components whose slot is taken.
Occupied == {c \in Comps : pc[c] \notin {"idle", "released"}}
OccupiedWith(k) == {c \in Occupied : graph.key[c] = k}

SlotsFit ==
  /\ activeCount = Cardinality(Occupied)
  /\ \A k \in Keys : activeCountByKey[k] = Cardinality(OccupiedWith(k))
  /\ activeCount <= MaxConcurrency
  /\ \A k \in Keys :
       KeyLimit[k] # NoLimit => activeCountByKey[k] <= AtLeastOne(KeyLimit[k])

\* Until the run settles every call under way holds the slot of its component.
CallsHoldSlots ==
  ~Settled =>
    \A p \in inFlight : pc[p[1]] \in {"node", "failing", "caught"} /\ p = Current(p[1])

\* A component is queued, or was, exactly when its dependencies completed.
QueueFits ==
  /\ \A c \in Comps : remaining[c] = Cardinality(Dependencies(c) \ completed)
  /\ \A c \in Comps :
       Dependencies(c) \subseteq completed <=> c \in ready \/ pc[c] # "idle"
  /\ \A c \in ready : pc[c] = "idle"
  /\ scheduled = {c \in Comps : Dependencies(c) # {} /\ Dependencies(c) \subseteq completed}

WorkFits == IsFiniteSet(inFlight) /\ WorkIsBounded

\* A call in the component the node is taken to be in has what the node needs.
HasNeeded(call) ==
  call.place[1] = Home(NodeAt(call.place)) => Needed(NodeAt(call.place)) \subseteq call.given

\* The nodes of a component up to the current one were called, those before it
\* have their results.
CallsFit ==
  /\ \A i \in DOMAIN calls : LET p == calls[i].place IN pc[p[1]] # "idle" /\ p[2] <= at[p[1]]
  /\ \A i, j \in DOMAIN calls : calls[i].place = calls[j].place => i = j
  /\ \A i \in DOMAIN calls : HasNeeded(calls[i])

HasResult(c, j) == j < at[c] \/ (j = at[c] /\ c \in completed)

ResultsFit ==
  /\ \A c \in Comps : \A j \in 1..at[c] :
       HasResult(c, j) => \E i \in DOMAIN order : order[i] = <<c, j>>
  /\ \A i \in DOMAIN order : LET p == order[i] IN
       /\ p[2] <= at[p[1]]
       /\ HasResult(p[1], p[2]) \/ pc[p[1]] \in {"aborting", "caught", "released"}
  /\ \A i, j \in DOMAIN order : order[i] = order[j] => i = j

\* The component that completed last of those it waited for enqueued it.
ParentsFit ==
  \A c \in Comps :
    /\ c \notin scheduled => parent[c] = NoParent
    /\ c \in scheduled =>
         /\ parent[c] \in Dependencies(c)
         /\ \A d \in Dependencies(c) : Position(d) <= Position(parent[c])

GraphInv ==
  /\ TypeOK /\ PumpFits /\ RecordsFit /\ SlotsFit /\ CallsHoldSlots /\ QueueFits
  /\ CallsFit /\ ResultsFit /\ ParentsFit /\ WorkFits /\ OutcomeIsHonest

-----------------------------------------------------------------------------
(* Facts about the graph, which no step changes. *)

LEMMA GraphShape ==
  ASSUME TypeOK
  PROVE  /\ Comps \subseteq Nat /\ IsFiniteSet(Comps)
         /\ \A c \in Comps : /\ graph.nodesOf[c] \in Seq(Nodes)
                             /\ Len(graph.nodesOf[c]) \in Nat
                             /\ graph.nodesOf[c] = <<>> <=> Len(graph.nodesOf[c]) = 0
         /\ \A c \in Comps : graph.key[c] \in Keys \cup {NoKey}
         /\ \A e \in graph.edges : /\ Home(e[1]) \in Comps /\ e[1] \in NodeSet(Home(e[1]))
                                   /\ Home(e[2]) \in Comps /\ e[2] \in NodeSet(Home(e[2]))
<1>1. PlannedGraph(graph)
  BY GraphsAssumption DEF TypeOK
<1>2. Comps = 1..Len(graph.nodesOf) /\ Len(graph.nodesOf) \in Nat
  BY <1>1 DEF PlannedGraph, Comps
<1>3. IsFiniteSet(Comps)
  BY <1>2, FS_Interval
<1>4. \A c \in Comps : graph.nodesOf[c] \in Seq(Nodes)
  BY <1>1, <1>2 DEF PlannedGraph, Comps
<1>5. \A c \in Comps : /\ Len(graph.nodesOf[c]) \in Nat
                       /\ graph.nodesOf[c] = <<>> <=> Len(graph.nodesOf[c]) = 0
  BY <1>4, EmptySeq
<1>6. \A c \in Comps : graph.key[c] \in Keys \cup {NoKey}
  BY <1>1 DEF PlannedGraph, Comps
<1>7. \A n \in PlannedNodes(graph) : Home(n) \in Comps /\ n \in NodeSet(Home(n))
  BY <1>1 DEF PlannedGraph, Comps, Home, NodeSet
<1>8. \A e \in graph.edges : e[1] \in PlannedNodes(graph) /\ e[2] \in PlannedNodes(graph)
  BY <1>1 DEF PlannedGraph
<1> QED
  BY <1>2, <1>3, <1>4, <1>5, <1>6, <1>7, <1>8

\* Dependencies are other components.
LEMMA DependencyShape ==
  ASSUME TypeOK
  PROVE  \A c \in Comps :
           /\ Dependencies(c) \subseteq Comps \ {c} /\ IsFiniteSet(Dependencies(c))
           /\ \A d \in Comps : d \in Dependents(c) <=> c \in Dependencies(d)
           /\ Dependents(c) \subseteq Comps
<1>1. \A c \in Comps : Dependencies(c) \subseteq Comps
  BY DEF Dependencies
<1>2. \A c \in Comps : IsFiniteSet(Dependencies(c))
  BY <1>1, GraphShape, FS_Subset
<1> QED
  BY <1>2 DEF Dependencies, Dependents

\* The nodes of a component, by their places.
LEMMA NodeShape ==
  ASSUME TypeOK
  PROVE  \A c \in Comps :
           /\ NodeSet(c) = {graph.nodesOf[c][i] : i \in 1..Len(graph.nodesOf[c])}
           /\ NodeSet(c) \subseteq Nodes
           /\ at[c] \in 0..Len(graph.nodesOf[c])
           /\ \A i \in 1..Len(graph.nodesOf[c]) : <<c, i>> \in PlanPlaces
           /\ graph.nodesOf[c] # <<>> =>
                at[c] \in 1..Len(graph.nodesOf[c]) /\ Current(c) \in PlanPlaces
<1>1. \A c \in Comps : DOMAIN graph.nodesOf[c] = 1..Len(graph.nodesOf[c])
  BY GraphShape
<1>2. \A c \in Comps : /\ at[c] \in 0..Len(graph.nodesOf[c])
                       /\ graph.nodesOf[c] # <<>> => at[c] \in 1..Len(graph.nodesOf[c])
  <2>1. \A c \in Comps : /\ at[c] \in Nat /\ at[c] <= Len(graph.nodesOf[c])
                         /\ at[c] = 0 => graph.nodesOf[c] = <<>>
    BY DEF TypeOK
  <2>2. \A c \in Comps : Len(graph.nodesOf[c]) \in Nat
    BY GraphShape
  <2> QED
    BY <2>1, <2>2
<1>3. \A c \in Comps : NodeSet(c) = {graph.nodesOf[c][i] : i \in 1..Len(graph.nodesOf[c])}
  BY <1>1 DEF NodeSet, NodesIn
<1>4. \A c \in Comps : NodeSet(c) \subseteq Nodes
  <2>1. \A c \in Comps : graph.nodesOf[c] \in Seq(Nodes)
    BY GraphShape
  <2>2. \A c \in Comps : \A i \in 1..Len(graph.nodesOf[c]) : graph.nodesOf[c][i] \in Nodes
    BY <2>1, ElementOfSeq
  <2> QED
    BY <1>3, <2>2
<1>5. \A c \in Comps : \A i \in 1..Len(graph.nodesOf[c]) : <<c, i>> \in PlanPlaces
  BY DEF PlanPlaces
<1> QED
  BY <1>2, <1>3, <1>4, <1>5 DEF Current

\* A place is a component and the number of one of its nodes.
LEMMA PlaceShape ==
  ASSUME TypeOK
  PROVE  \A p \in PlanPlaces :
           /\ p = <<p[1], p[2]>> /\ p[1] \in Comps
           /\ p[2] \in 1..Len(graph.nodesOf[p[1]]) /\ graph.nodesOf[p[1]] # <<>>
           /\ NodeAt(p) \in NodeSet(p[1]) /\ NodeAt(p) \in Nodes
<1> SUFFICES ASSUME NEW p \in PlanPlaces
             PROVE  /\ p = <<p[1], p[2]>> /\ p[1] \in Comps
                    /\ p[2] \in 1..Len(graph.nodesOf[p[1]]) /\ graph.nodesOf[p[1]] # <<>>
                    /\ NodeAt(p) \in NodeSet(p[1]) /\ NodeAt(p) \in Nodes
  OBVIOUS
<1>1. PICK c \in Comps : \E i \in 1..Len(graph.nodesOf[c]) : p = <<c, i>>
  BY DEF PlanPlaces
<1>2. PICK i \in 1..Len(graph.nodesOf[c]) : p = <<c, i>>
  BY <1>1
<1>3. graph.nodesOf[c] # <<>>
  BY <1>2, GraphShape
<1>4. graph.nodesOf[c][i] \in NodeSet(c) /\ NodeSet(c) \subseteq Nodes
  BY <1>2, NodeShape
<1> QED
  BY <1>2, <1>3, <1>4 DEF NodeAt

\* Calls and results are of places of the plan.
LEMMA CalledPlaces ==
  ASSUME TypeOK
  PROVE  /\ \A i \in DOMAIN calls : calls[i].place \in PlanPlaces /\ calls[i].place[1] \in Comps
         /\ \A i \in DOMAIN order : order[i] \in PlanPlaces /\ order[i][1] \in Comps
<1>1. /\ calls \in Seq([place : PlanPlaces, given : SUBSET Nodes])
      /\ order \in Seq(PlanPlaces)
  BY DEF TypeOK
<1>2. DOMAIN calls = 1..Len(calls) /\ DOMAIN order = 1..Len(order)
  BY <1>1, LenProperties
<1>3. \A i \in DOMAIN calls : calls[i] \in [place : PlanPlaces, given : SUBSET Nodes]
  BY <1>1, <1>2, ElementOfSeq
<1>4. \A i \in DOMAIN order : order[i] \in PlanPlaces
  BY <1>1, <1>2, ElementOfSeq
<1> QED
  BY <1>3, <1>4, PlaceShape

\* What is depended on has nodes.
LEMMA DependenciesHaveNodes ==
  ASSUME TypeOK
  PROVE  \A c \in Comps : \A d \in Dependencies(c) : graph.nodesOf[d] # <<>>
<1> SUFFICES ASSUME NEW c \in Comps, NEW d \in Dependencies(c), graph.nodesOf[d] = <<>>
             PROVE  FALSE
  OBVIOUS
<1>1. d \in Comps
  BY DEF Dependencies
<1>2. PICK e \in graph.edges : Home(e[1]) = d
  BY DEF Dependencies
<1>3. e[1] \in NodeSet(d)
  BY <1>2, GraphShape
<1>4. NodeSet(d) = {graph.nodesOf[d][i] : i \in 1..Len(graph.nodesOf[d])}
  BY <1>1, NodeShape
<1> QED
  BY <1>1, <1>3, <1>4, GraphShape

\* A run keeps the plan it began with.
LEMMA GraphStays ==
  ASSUME UNCHANGED graph
  PROVE  /\ Comps' = Comps /\ PlanPlaces' = PlanPlaces
         /\ \A c : NodeSet(c)' = NodeSet(c)
         /\ \A c : Dependencies(c)' = Dependencies(c)
         /\ \A c : Dependents(c)' = Dependents(c)
         /\ \A n : /\ Predecessors(n)' = Predecessors(n) /\ Home(n)' = Home(n)
                   /\ Needed(n)' = Needed(n)
         /\ \A p : NodeAt(p)' = NodeAt(p)
BY DEF Comps, PlanPlaces, NodeSet, Dependencies, Dependents, Predecessors, Home, Needed, NodeAt

-----------------------------------------------------------------------------
(* Types *)

LEMMA SettleType ==
  ASSUME TypeOK, NEW status \in {"completed", "failed", "cancelled"}, Settle(status)
  PROVE  /\ outcome' \in {"none", "completed", "failed", "cancelled"}
         /\ executions' \in [Comps -> RecordStatus]
BY DEF TypeOK, Settle, RecordStatus

LEMMA CallPumpType ==
  ASSUME TypeOK, CallPump
  PROVE  /\ pump' \in {"loop", "no"}
         /\ outcome' \in {"none", "completed", "failed", "cancelled"}
         /\ executions' \in [Comps -> RecordStatus]
<1>1. UNCHANGED result \/ Settle("cancelled")
  BY DEF CallPump
<1> QED
  BY <1>1, SettleType DEF CallPump, result, TypeOK

LEMMA OccupyType ==
  ASSUME TypeOK, NEW c \in Comps, Occupy(c)
  PROVE  /\ ready' \subseteq Comps /\ activeCount' \in Int
         /\ activeCountByKey' \in [Keys -> Int]
BY DEF TypeOK, Occupy, TakeSlot

LEMMA CallNodeType ==
  ASSUME TypeOK, NEW p \in PlanPlaces, NEW results, CallNode(p, results)
  PROVE  calls' \in Seq([place : PlanPlaces, given : SUBSET Nodes])
<1>1. Predecessors(NodeAt(p)) \cap results \in SUBSET Nodes
  BY DEF Predecessors
<1>2. [place |-> p, given |-> Predecessors(NodeAt(p)) \cap results]
        \in [place : PlanPlaces, given : SUBSET Nodes]
  BY <1>1
<1> QED
  BY <1>2 DEF TypeOK, CallNode

LEMMA TypePump ==
  ASSUME TypeOK, Pump
  PROVE  TypeOK'
<1>1. CASE Begin
  <2>1. Comps' = Comps /\ PlanPlaces' = PlanPlaces
    BY <1>1, GraphStays DEF Begin
  <2> QED
    BY <1>1, <2>1, CallPumpType
    DEF TypeOK, Begin, scheduler, slots, progress
<1>2. CASE PumpEnds
  <2>1. Comps' = Comps /\ PlanPlaces' = PlanPlaces
    BY <1>2, GraphStays DEF PumpEnds
  <2>2. UNCHANGED result \/ Settle("completed") \/ Settle("failed")
    BY <1>2 DEF PumpEnds
  <2>3. /\ outcome' \in {"none", "completed", "failed", "cancelled"}
        /\ executions' \in [Comps -> RecordStatus]
    BY <2>2, SettleType DEF TypeOK, result
  <2> QED
    BY <1>2, <2>1, <2>3 DEF TypeOK, PumpEnds, scheduler, slots, progress
<1>3. ASSUME NEW c \in Comps, StartComponent(c) PROVE TypeOK'
  <2>1. Comps' = Comps /\ PlanPlaces' = PlanPlaces
    BY <1>3, GraphStays DEF StartComponent
  <2>2. Current(c) \in PlanPlaces
    BY <1>3, NodeShape DEF StartComponent
  <2>3. calls' \in Seq([place : PlanPlaces, given : SUBSET Nodes])
    BY <1>3, <2>2, CallNodeType DEF StartComponent
  <2>4. Occupy(c)
    BY <1>3 DEF StartComponent
  <2>5. /\ ready' \subseteq Comps /\ activeCount' \in Int
        /\ activeCountByKey' \in [Keys -> Int]
    BY <2>4, OccupyType
  <2>6. UNCHANGED <<scheduled, remaining, parent, completed>>
    BY <2>4 DEF Occupy
  <2> QED
    BY <1>3, <2>1, <2>2, <2>3, <2>5, <2>6
    DEF TypeOK, StartComponent, Places, RecordStatus, result
<1>4. ASSUME NEW c \in Comps, StartAborted(c) PROVE TypeOK'
  <2>1. Comps' = Comps /\ PlanPlaces' = PlanPlaces
    BY <1>4, GraphStays DEF StartAborted
  <2>2. Occupy(c)
    BY <1>4 DEF StartAborted
  <2>3. /\ ready' \subseteq Comps /\ activeCount' \in Int
        /\ activeCountByKey' \in [Keys -> Int]
    BY <2>2, OccupyType
  <2>4. UNCHANGED <<scheduled, remaining, parent, completed>>
    BY <2>2 DEF Occupy
  <2> QED
    BY <1>4, <2>1, <2>3, <2>4
    DEF TypeOK, StartAborted, Places, RecordStatus, result, progress
<1>5. ASSUME NEW c \in Comps, StartEmpty(c) PROVE TypeOK'
  <2>1. Comps' = Comps /\ PlanPlaces' = PlanPlaces
    BY <1>5, GraphStays DEF StartEmpty
  <2>2. /\ ready' \subseteq Comps /\ activeCount' \in Int
        /\ activeCountByKey' \in [Keys -> Int]
    BY <1>5 DEF StartEmpty, TakeSlot, TypeOK
  <2> QED
    BY <1>5, <2>1, <2>2 DEF TypeOK, StartEmpty, Places, RecordStatus, result, progress
<1> QED
  BY <1>1, <1>2, <1>3, <1>4, <1>5 DEF Pump

LEMMA VacateType ==
  ASSUME TypeOK, NEW c \in Comps, Vacate(c)
  PROVE  /\ activeCount' \in Int /\ activeCountByKey' \in [Keys -> Int]
         /\ pc' \in [Comps -> Places] /\ \A d \in Comps : pc'[d] = "node" => pc[d] = "node"
BY DEF TypeOK, Vacate, Places

LEMMA TypeRun ==
  ASSUME TypeOK, NEW c \in Comps, Run(c)
  PROVE  TypeOK'
<1>1. UNCHANGED graph /\ Comps' = Comps /\ PlanPlaces' = PlanPlaces
  BY GraphStays
  DEF Run, NodeEndsLate, NodeCompletes, ComponentCompletes, Finish, NodeFails,
      CatchFailure, Release, ReleaseFailed
<1>2. pc[c] = "node" => Current(c) \in PlanPlaces /\ at[c] \in 1..Len(graph.nodesOf[c])
  BY NodeShape DEF TypeOK
<1>3. pc[c] = "node" => Append(order, Current(c)) \in Seq(PlanPlaces)
  BY <1>2 DEF TypeOK
<1>4. CASE NodeEndsLate(c) \/ NodeFails(c)
  BY <1>1, <1>4
  DEF TypeOK, NodeEndsLate, NodeFails, Places, scheduler, slots, result
<1>5. CASE NodeCompletes(c)
  <2>1. ~LastNode(c) /\ pc[c] = "node" /\ order' \in Seq(PlanPlaces)
    BY <1>3, <1>5 DEF NodeCompletes, AwaitsNode
  <2>2. at[c] + 1 \in 1..Len(graph.nodesOf[c])
    BY <1>2, <2>1, GraphShape DEF LastNode
  <2>3. <<c, at[c] + 1>> \in PlanPlaces
    BY <2>2, NodeShape
  <2>4. CASE aborted /\ pc' = [pc EXCEPT ![c] = "aborting"] /\ UNCHANGED <<at, calls>>
    BY <1>1, <1>5, <2>1, <2>4 DEF TypeOK, NodeCompletes, Places, scheduler, slots, result
  <2>5. CASE ~aborted
    <3>1. /\ at' = [at EXCEPT ![c] = @ + 1]
          /\ inFlight' \subseteq PlanPlaces
          /\ CallNode(<<c, at[c] + 1>>, Results \cup {NodeAt(Current(c))})
          /\ UNCHANGED pc
      BY <1>5, <2>3, <2>5 DEF NodeCompletes, TypeOK
    <3>2. calls' \in Seq([place : PlanPlaces, given : SUBSET Nodes])
      BY <2>3, <3>1, CallNodeType
    <3>3. at' \in [Comps -> Nat] /\ at'[c] # 0 /\ \A d \in Comps : at'[d] <= Len(graph.nodesOf[d])
      BY <2>2, <3>1 DEF TypeOK
    <3>4. \A d \in Comps : at'[d] = 0 => graph.nodesOf[d] = <<>>
      BY <3>1, <3>3 DEF TypeOK
    <3> QED
      BY <1>1, <1>5, <2>1, <3>1, <3>2, <3>3, <3>4 DEF TypeOK, NodeCompletes, scheduler, slots, result
  <2> QED
    BY <1>5, <2>4, <2>5 DEF NodeCompletes
<1>6. CASE ComponentCompletes(c)
  <2>1. EnqueuedBy(c) \subseteq Comps
    BY DependencyShape DEF EnqueuedBy
  <2>2. Finish(c) /\ pc[c] = "node"
    BY <1>6 DEF ComponentCompletes, AwaitsNode
  <2>3. /\ ready' \subseteq Comps /\ scheduled' \subseteq Comps /\ completed' \subseteq Comps
        /\ remaining' \in [Comps -> Int]
        /\ parent' \in [Comps -> Comps \cup {NoParent}]
    BY <2>1, <2>2 DEF Finish, TypeOK
  <2>4. /\ order' \in Seq(PlanPlaces) /\ inFlight' \subseteq PlanPlaces
        /\ pc' \in [Comps -> Places] /\ record' \in [Comps -> RecordStatus]
        /\ \A d \in Comps : pc'[d] = "node" => pc[d] = "node"
    BY <1>3, <2>2 DEF Finish, TypeOK, Places, RecordStatus
  <2> QED
    BY <1>1, <2>2, <2>3, <2>4 DEF Finish, TypeOK, slots, result
<1>7. CASE CatchFailure(c)
  BY <1>1, <1>7
  DEF TypeOK, CatchFailure, Places, RecordStatus, scheduler, slots, progress, result
<1>8. CASE Release(c)
  BY <1>1, <1>8, VacateType, CallPumpType DEF TypeOK, Release, scheduler, progress
<1>9. CASE ReleaseFailed(c)
  <2>1. UNCHANGED result \/ Settle("cancelled") \/ Settle("failed")
    BY <1>9 DEF ReleaseFailed
  <2>2. /\ outcome' \in {"none", "completed", "failed", "cancelled"}
        /\ executions' \in [Comps -> RecordStatus]
    BY <2>1, SettleType DEF TypeOK, result
  <2> QED
    BY <1>1, <1>9, <2>2, VacateType DEF TypeOK, ReleaseFailed, scheduler, progress
<1> QED
  BY <1>4, <1>5, <1>6, <1>7, <1>8, <1>9 DEF Run

LEMMA TypeStep == TypeOK /\ [Next]_vars => TypeOK'
<1> SUFFICES ASSUME TypeOK, [Next]_vars PROVE TypeOK'
  OBVIOUS
<1>1. CASE (\E p \in inFlight : DetachedNodeEnds(p)) \/ Abort \/ UNCHANGED vars
  <2>1. UNCHANGED graph /\ Comps' = Comps /\ PlanPlaces' = PlanPlaces
    BY <1>1, GraphStays DEF DetachedNodeEnds, Abort, vars
  <2> QED
    BY <1>1, <2>1
    DEF TypeOK, DetachedNodeEnds, Abort, vars, scheduler, slots, progress, result
<1> QED
  BY <1>1, TypePump, TypeRun DEF Next

-----------------------------------------------------------------------------
(* The slots *)

LEMMA OccupiedShape ==
  ASSUME TypeOK
  PROVE  /\ IsFiniteSet(Occupied) /\ Cardinality(Occupied) \in Nat
         /\ \A k : /\ OccupiedWith(k) \subseteq Occupied /\ IsFiniteSet(OccupiedWith(k))
                   /\ Cardinality(OccupiedWith(k)) \in Nat
<1>1. Occupied \subseteq Comps /\ \A k : OccupiedWith(k) \subseteq Occupied
  BY DEF Occupied, OccupiedWith
<1>2. IsFiniteSet(Occupied) /\ \A k : IsFiniteSet(OccupiedWith(k))
  BY <1>1, GraphShape, FS_Subset
<1> QED
  BY <1>1, <1>2, FS_CardinalityType

LEMMA SlotsFrame ==
  ASSUME TypeOK, SlotsFit, UNCHANGED <<graph, slots>>,
         \A c \in Comps : pc'[c] \in {"idle", "released"} <=> pc[c] \in {"idle", "released"}
  PROVE  SlotsFit'
<1>1. Comps' = Comps
  BY GraphStays
<1>2. Occupied' = Occupied
  BY <1>1 DEF Occupied
<1>3. \A k : OccupiedWith(k)' = OccupiedWith(k)
  BY <1>2 DEF OccupiedWith
<1> QED
  BY <1>2, <1>3 DEF SlotsFit, slots

\* A component that starts takes a slot, and one of its key.
LEMMA SlotsTaken ==
  ASSUME TypeOK, SlotsFit, NEW c \in Comps, pc[c] = "idle", CanStart(c), TakeSlot(c),
         NEW label \in {"node", "aborting", "done"}, pc' = [pc EXCEPT ![c] = label],
         UNCHANGED graph
  PROVE  SlotsFit'
<1>1. Comps' = Comps
  BY GraphStays
<1>2. Occupied' = Occupied \cup {c} /\ c \notin Occupied
  BY <1>1 DEF Occupied, TypeOK
<1>3. \A k : OccupiedWith(k)' = IF graph.key[c] = k THEN OccupiedWith(k) \cup {c}
                               ELSE OccupiedWith(k)
  BY <1>2 DEF OccupiedWith
<1>4. Cardinality(Occupied') = Cardinality(Occupied) + 1
  BY <1>2, OccupiedShape, FS_AddElement
<1>5. \A k : c \notin OccupiedWith(k)
  BY <1>2 DEF OccupiedWith
<1>6. \A k : Cardinality(OccupiedWith(k)') =
               Cardinality(OccupiedWith(k)) + IF k = graph.key[c] THEN 1 ELSE 0
  <2> TAKE k
  <2>1. CASE graph.key[c] = k
    BY <1>3, <1>5, <2>1, OccupiedShape, FS_AddElement
  <2>2. CASE graph.key[c] # k
    <3>1. OccupiedWith(k)' = OccupiedWith(k)
      BY <1>3, <2>2
    <3> QED
      BY <3>1, <2>2, OccupiedShape
  <2> QED
    BY <2>1, <2>2
<1>7. activeCount' = Cardinality(Occupied') /\ activeCount' <= MaxConcurrency
  <2>1. activeCount' = activeCount + 1 /\ activeCount < MaxConcurrency
    BY DEF TakeSlot, CanStart
  <2> QED
    BY <1>4, <2>1, OccupiedShape, LimitsAssumption DEF SlotsFit
<1>8. ASSUME NEW k \in Keys
      PROVE  /\ activeCountByKey'[k] = Cardinality(OccupiedWith(k)')
             /\ KeyLimit[k] # NoLimit => activeCountByKey'[k] <= AtLeastOne(KeyLimit[k])
  <2>1. activeCountByKey'[k] = activeCountByKey[k] + IF k = graph.key[c] THEN 1 ELSE 0
    BY DEF TakeSlot
  <2>2. activeCountByKey'[k] = Cardinality(OccupiedWith(k)')
    BY <1>6, <2>1 DEF SlotsFit
  <2>3. CASE k = graph.key[c] /\ KeyLimit[k] # NoLimit
    <3>1. activeCountByKey[k] < AtLeastOne(KeyLimit[k])
      BY <2>3, LimitsAssumption DEF CanStart, Runnable, WithinKeyLimit
    <3>2. activeCountByKey[k] \in Int /\ AtLeastOne(KeyLimit[k]) \in Nat
      BY <2>3, LimitsAssumption DEF TypeOK, AtLeastOne
    <3> QED
      BY <2>1, <2>2, <2>3, <3>1, <3>2
  <2>4. CASE k # graph.key[c]
    BY <2>1, <2>2, <2>4 DEF SlotsFit, TypeOK
  <2> QED
    BY <2>2, <2>3, <2>4
<1> QED
  BY <1>7, <1>8 DEF SlotsFit

LEMMA SlotsFreed ==
  ASSUME TypeOK, SlotsFit, NEW c \in Comps, pc[c] \in {"done", "caught"}, Vacate(c),
         UNCHANGED graph
  PROVE  SlotsFit'
<1>1. Comps' = Comps
  BY GraphStays
<1>2. Occupied' = Occupied \ {c} /\ c \in Occupied
  BY <1>1 DEF Occupied, TypeOK, Vacate
<1>3. \A k : OccupiedWith(k)' = OccupiedWith(k) \ {c}
  BY <1>2 DEF OccupiedWith
<1>4. \A k : c \in OccupiedWith(k) <=> graph.key[c] = k
  BY <1>2 DEF OccupiedWith
<1>5. Cardinality(Occupied') = Cardinality(Occupied) - 1
  BY <1>2, OccupiedShape, FS_RemoveElement
<1>6. \A k : Cardinality(OccupiedWith(k)') =
               Cardinality(OccupiedWith(k)) - IF k = graph.key[c] THEN 1 ELSE 0
  <2> TAKE k
  <2>1. Cardinality(OccupiedWith(k)') =
          IF c \in OccupiedWith(k) THEN Cardinality(OccupiedWith(k)) - 1
          ELSE Cardinality(OccupiedWith(k))
    BY <1>3, OccupiedShape, FS_RemoveElement
  <2> QED
    BY <1>4, <2>1, OccupiedShape
<1>7. activeCount' = Cardinality(Occupied') /\ activeCount' <= MaxConcurrency
  BY <1>5, OccupiedShape, LimitsAssumption DEF SlotsFit, Vacate
<1>8. ASSUME NEW k \in Keys
      PROVE  /\ activeCountByKey'[k] = Cardinality(OccupiedWith(k)')
             /\ KeyLimit[k] # NoLimit => activeCountByKey'[k] <= AtLeastOne(KeyLimit[k])
  <2>1. activeCountByKey'[k] = activeCountByKey[k] - IF k = graph.key[c] THEN 1 ELSE 0
    BY DEF Vacate
  <2>2. activeCountByKey'[k] = Cardinality(OccupiedWith(k)')
    BY <1>6, <2>1 DEF SlotsFit
  <2>3. KeyLimit[k] # NoLimit => AtLeastOne(KeyLimit[k]) \in Nat
    BY LimitsAssumption DEF AtLeastOne
  <2> QED
    BY <2>1, <2>2, <2>3 DEF SlotsFit, TypeOK
<1> QED
  BY <1>7, <1>8 DEF SlotsFit

-----------------------------------------------------------------------------
(* The calls under way *)

\* While the run is open each call under way has a slot of its own.
LEMMA FlightBound ==
  TypeOK /\ SlotsFit /\ CallsHoldSlots /\ ~Settled => WorkFits
<1> SUFFICES ASSUME TypeOK, SlotsFit, CallsHoldSlots, ~Settled PROVE WorkFits
  OBVIOUS
<1>1. \A p \in inFlight : p[1] \in Occupied /\ p = Current(p[1])
  BY PlaceShape DEF CallsHoldSlots, Occupied, TypeOK
<1>2. ASSUME NEW S, S \subseteq inFlight, NEW C, C \subseteq Occupied,
             \A p \in S : \E c \in C : p = Current(c)
      PROVE  IsFiniteSet(S) /\ Cardinality(S) <= Cardinality(C)
  <2> DEFINE T == {Current(c) : c \in C}
  <2> DEFINE f == [c \in C |-> Current(c)]
  <2>1. IsFiniteSet(C)
    BY <1>2, OccupiedShape, FS_Subset
  <2>2. f \in Surjection(C, T)
    BY DEF Surjection
  <2>3. IsFiniteSet(T) /\ Cardinality(T) <= Cardinality(C)
    <3> HIDE DEF f, T
    <3> QED
      BY <2>1, <2>2, FS_Surjection
  <2>4. S \in SUBSET T
    BY <1>2
  <2>5. IsFiniteSet(S) /\ Cardinality(S) <= Cardinality(T)
    <3> HIDE DEF T
    <3> QED
      BY <2>3, <2>4, FS_Subset
  <2>6. Cardinality(S) \in Nat /\ Cardinality(T) \in Nat /\ Cardinality(C) \in Nat
    BY <2>1, <2>3, <2>5, FS_CardinalityType
  <2> QED
    BY <2>3, <2>5, <2>6
<1>3. IsFiniteSet(inFlight) /\ Cardinality(inFlight) <= Cardinality(Occupied)
  BY <1>1, <1>2
<1>4. ASSUME NEW k \in Keys, KeyLimit[k] # NoLimit
      PROVE  Cardinality(WithKey(k)) <= AtLeastOne(KeyLimit[k])
  <2>1. \A p \in WithKey(k) : \E c \in OccupiedWith(k) : p = Current(c)
    BY <1>1 DEF WithKey, OccupiedWith
  <2>2. WithKey(k) \subseteq inFlight /\ OccupiedWith(k) \subseteq Occupied
    BY DEF WithKey, OccupiedWith
  <2>3. Cardinality(WithKey(k)) <= Cardinality(OccupiedWith(k)) /\ IsFiniteSet(WithKey(k))
    BY <1>2, <2>1, <2>2
  <2>4. Cardinality(OccupiedWith(k)) <= AtLeastOne(KeyLimit[k])
    BY <1>4 DEF SlotsFit
  <2>5. /\ Cardinality(WithKey(k)) \in Nat /\ Cardinality(OccupiedWith(k)) \in Nat
        /\ AtLeastOne(KeyLimit[k]) \in Nat
    BY <1>4, <2>3, OccupiedShape, FS_CardinalityType, LimitsAssumption DEF AtLeastOne
  <2> QED
    BY <2>3, <2>4, <2>5
<1>5. Cardinality(inFlight) <= MaxConcurrency
  <2>1. Cardinality(Occupied) <= MaxConcurrency
    BY DEF SlotsFit
  <2>2. Cardinality(inFlight) \in Nat
    BY <1>3, FS_CardinalityType
  <2> QED
    BY <1>3, <2>1, <2>2, OccupiedShape, LimitsAssumption
<1> QED
  BY <1>3, <1>4, <1>5 DEF WorkFits, WorkIsBounded

\* Fewer calls keep within the limits.
LEMMA FewerCalls ==
  ASSUME TypeOK, WorkFits, UNCHANGED graph, inFlight' \subseteq inFlight
  PROVE  WorkFits'
<1>1. IsFiniteSet(inFlight') /\ Cardinality(inFlight') <= Cardinality(inFlight)
  BY FS_Subset DEF WorkFits
<1>2. Cardinality(inFlight') \in Nat /\ Cardinality(inFlight) \in Nat
  BY <1>1, FS_CardinalityType DEF WorkFits
<1>3. ASSUME NEW k \in Keys, KeyLimit[k] # NoLimit
      PROVE  Cardinality(WithKey(k)') <= AtLeastOne(KeyLimit[k])
  <2>1. WithKey(k)' \in SUBSET WithKey(k) /\ WithKey(k) \in SUBSET inFlight
    BY GraphStays DEF WithKey
  <2>2. IsFiniteSet(WithKey(k))
    BY <2>1, FS_Subset DEF WorkFits
  <2>3. IsFiniteSet(WithKey(k)') /\ Cardinality(WithKey(k)') <= Cardinality(WithKey(k))
    BY <2>1, <2>2, FS_Subset
  <2>4. Cardinality(WithKey(k)) <= AtLeastOne(KeyLimit[k])
    BY <1>3 DEF WorkFits, WorkIsBounded
  <2>5. /\ Cardinality(WithKey(k)') \in Nat /\ Cardinality(WithKey(k)) \in Nat
        /\ AtLeastOne(KeyLimit[k]) \in Nat
    BY <1>3, <2>2, <2>3, FS_CardinalityType, LimitsAssumption DEF AtLeastOne
  <2> QED
    BY <2>3, <2>4, <2>5
<1>4. Cardinality(inFlight') <= MaxConcurrency
  BY <1>1, <1>2, LimitsAssumption DEF WorkFits, WorkIsBounded
<1> QED
  BY <1>1, <1>3, <1>4 DEF WorkFits, WorkIsBounded

LEMMA WorkStep ==
  ASSUME TypeOK, WorkFits, UNCHANGED graph, TypeOK', SlotsFit', CallsHoldSlots',
         inFlight' \subseteq inFlight \/ ~Settled'
  PROVE  WorkFits'
<1>1. (TypeOK /\ SlotsFit /\ CallsHoldSlots /\ ~Settled)' => WorkFits'
  BY FlightBound, PTL
<1> QED
  BY <1>1, FewerCalls

-----------------------------------------------------------------------------
(* What keeps a part of the invariant. *)

LEMMA CallsHoldSlotsFrame ==
  ASSUME TypeOK, CallsHoldSlots, UNCHANGED <<graph, at, outcome>>,
         inFlight' \subseteq inFlight,
         \A c \in Comps : pc[c] \in {"node", "failing", "caught"} /\ Current(c) \in inFlight' =>
                            pc'[c] \in {"node", "failing", "caught"}
  PROVE  CallsHoldSlots'
<1>1. Comps' = Comps /\ \A c : Current(c)' = Current(c)
  BY GraphStays DEF Current
<1> SUFFICES ASSUME ~Settled, NEW p \in inFlight'
             PROVE  pc'[p[1]] \in {"node", "failing", "caught"} /\ p = Current(p[1])
  BY <1>1 DEF CallsHoldSlots, Settled
<1>2. p[1] \in Comps /\ pc[p[1]] \in {"node", "failing", "caught"} /\ p = Current(p[1])
  BY PlaceShape DEF CallsHoldSlots, TypeOK
<1> QED
  BY <1>2

LEMMA QueueFrame ==
  ASSUME TypeOK, QueueFits, UNCHANGED <<graph, scheduled, remaining, completed>>,
         \A c \in Comps : (c \in ready' \/ pc'[c] # "idle") <=> (c \in ready \/ pc[c] # "idle"),
         \A c \in ready' : pc'[c] = "idle"
  PROVE  QueueFits'
BY GraphStays DEF QueueFits

LEMMA CallsFrame ==
  ASSUME TypeOK, CallsFit, UNCHANGED <<graph, calls, at>>,
         \A c \in Comps : pc[c] # "idle" => pc'[c] # "idle"
  PROVE  CallsFit'
<1>1. \A i \in DOMAIN calls : calls[i].place[1] \in Comps
  BY CalledPlaces
<1>2. \A call : HasNeeded(call)' = HasNeeded(call)
  BY GraphStays DEF HasNeeded
<1> QED
  BY <1>1, <1>2 DEF CallsFit

Interrupted == {"aborting", "caught", "released"}

LEMMA ResultsFrame ==
  ASSUME TypeOK, ResultsFit, UNCHANGED <<graph, order, at, completed>>,
         \A c \in Comps : pc[c] \in Interrupted => pc'[c] \in Interrupted
  PROVE  ResultsFit'
<1>1. \A i \in DOMAIN order : order[i][1] \in Comps
  BY CalledPlaces
<1> QED
  BY <1>1, GraphStays DEF ResultsFit, HasResult, Interrupted

LEMMA ParentsFrame ==
  ASSUME ParentsFit, UNCHANGED <<graph, scheduled, parent, order>>
  PROVE  ParentsFit'
<1>1. \A c : Position(c)' = Position(c)
  BY DEF Position
<1> QED
  BY <1>1, GraphStays DEF ParentsFit

LEMMA OutcomeFrame ==
  ASSUME OutcomeIsHonest, UNCHANGED <<graph, result>>,
         Settled => UNCHANGED order /\ (aborted => aborted')
  PROVE  OutcomeIsHonest'
<1>1. Comps' = Comps /\ (\A c : NodeSet(c)' = NodeSet(c)) /\ UNCHANGED <<outcome, executions>>
  BY GraphStays DEF result
<1>2. CASE ~Settled
  BY <1>1, <1>2 DEF OutcomeIsHonest, Settled
<1>3. CASE Settled
  <2>1. Results' = Results
    BY <1>3, GraphStays DEF Results
  <2>2. UNION {NodeSet(c)' : c \in Comps} = UNION {NodeSet(c) : c \in Comps}
    BY <1>1
  <2>3. ASSUME outcome = "failed"
        PROVE  \/ \E c \in Comps : executions[c] = "failed"
               \/ \E C \in (SUBSET Comps) \ {{}} : \A c \in C : Dependencies(c)' \cap C # {}
    BY <2>3, GraphStays DEF OutcomeIsHonest
  <2> QED
    BY <1>1, <1>3, <2>1, <2>2, <2>3 DEF OutcomeIsHonest
<1> QED
  BY <1>2, <1>3

\* A cancelled run leaves no execution pending or running.
LEMMA CancelIsHonest ==
  ASSUME TypeOK, Settle("cancelled"), aborted, UNCHANGED <<graph, aborted>>
  PROVE  OutcomeIsHonest'
<1>1. Comps' = Comps
  BY GraphStays
<1>2. outcome' = "cancelled" /\ \A c \in Comps : executions'[c] \notin {"pending", "running"}
  BY DEF Settle
<1> QED
  BY <1>1, <1>2 DEF OutcomeIsHonest

LEMMA CallPumpIsHonest ==
  ASSUME TypeOK, OutcomeIsHonest, CallPump, UNCHANGED <<graph, aborted, order>>
  PROVE  OutcomeIsHonest' /\ PumpFits' /\ (~Settled' => ~Settled)
<1>1. CASE UNCHANGED result
  <2>1. OutcomeIsHonest'
    BY <1>1, OutcomeFrame
  <2> QED
    BY <1>1, <2>1 DEF CallPump, PumpFits, Settled, result, Settle
<1>2. CASE aborted /\ Settle("cancelled") /\ pump' = "no"
  BY <1>2, CancelIsHonest DEF PumpFits, Settled, Settle
<1> QED
  BY <1>1, <1>2 DEF CallPump

-----------------------------------------------------------------------------
(* Every step keeps the invariant: the steps that move no component first. *)

\* The parts about components, calls and results depend on these variables.
LEMMA NothingMoves ==
  ASSUME GraphInv, TypeOK',
         UNCHANGED <<graph, scheduler, slots, pc, at, record, order, calls>>,
         inFlight' \subseteq inFlight, aborted => aborted',
         PumpFits', OutcomeIsHonest', Settled => Settled'
  PROVE  GraphInv'
<1> USE DEF GraphInv
<1>1. Comps' = Comps
  BY GraphStays
<1>2. RecordsFit'
  BY <1>1 DEF RecordsFit, LastNode, scheduler
<1>3. SlotsFit'
  BY SlotsFrame
<1>4. CallsHoldSlots'
  <2>1. CASE Settled'
    BY <2>1 DEF CallsHoldSlots
  <2>2. CASE ~Settled'
    <3>1. \A p \in inFlight :
            pc[p[1]] \in {"node", "failing", "caught"} /\ p = Current(p[1])
      BY <2>2 DEF CallsHoldSlots
    <3> QED
      BY <1>1, <3>1 DEF CallsHoldSlots, Current
  <2> QED
    BY <2>1, <2>2
<1>5. QueueFits'
  BY QueueFrame DEF QueueFits, scheduler
<1>6. CallsFit'
  BY CallsFrame
<1>7. ResultsFit'
  BY ResultsFrame DEF scheduler
<1>8. ParentsFit'
  BY ParentsFrame DEF scheduler
<1>9. WorkFits'
  BY <1>3, <1>4, WorkStep
<1> QED
  BY <1>2, <1>3, <1>4, <1>5, <1>6, <1>7, <1>8, <1>9

LEMMA BeginStep == GraphInv /\ Begin => GraphInv'
<1> SUFFICES ASSUME GraphInv, Begin PROVE GraphInv'
  OBVIOUS
<1> USE DEF GraphInv
<1>1. TypeOK'
  BY TypePump DEF Pump
<1>2. OutcomeIsHonest' /\ PumpFits' /\ (~Settled' => ~Settled)
  BY CallPumpIsHonest DEF Begin, progress
<1> QED
  BY <1>1, <1>2, NothingMoves DEF Begin, progress

\* A run that settles as completed has every component completed; one that
\* settles as failed here has components left that wait for one another.
LEMMA PumpEndsStep == GraphInv /\ PumpEnds => GraphInv'
<1> SUFFICES ASSUME GraphInv, PumpEnds PROVE GraphInv'
  OBVIOUS
<1> USE DEF GraphInv
<1>1. TypeOK'
  BY TypePump DEF Pump
<1>2. /\ pump = "loop" /\ pump' = "no" /\ ~Settled /\ aborted' = aborted
      /\ UNCHANGED <<graph, scheduler, slots, pc, at, record, order, calls, inFlight>>
  BY DEF PumpEnds, PumpDone, PumpFits, progress
<1>3. Comps' = Comps /\ (\A c : NodeSet(c)' = NodeSet(c)) /\ Results' = Results
  BY <1>2, GraphStays DEF Results
<1>4. CASE UNCHANGED result
  BY <1>1, <1>2, <1>4, NothingMoves, OutcomeFrame DEF PumpFits, Settled, result
<1>5. CASE completed = Comps /\ Settle("completed")
  <2>1. outcome' = "completed" /\ \A c \in Comps : executions'[c] = "completed"
    BY <1>5 DEF Settle, RecordsFit
  <2>2. ASSUME NEW n \in UNION {NodeSet(c) : c \in Comps} PROVE n \in Results
    <3>1. PICK c \in Comps : n \in NodeSet(c)
      OBVIOUS
    <3>2. PICK j \in 1..Len(graph.nodesOf[c]) : n = graph.nodesOf[c][j]
      BY <3>1, NodeShape
    <3>3. LastNode(c) /\ at[c] \in Nat
      BY <1>5 DEF RecordsFit, TypeOK
    <3>4. j \in 1..at[c] /\ HasResult(c, j)
      BY <1>5, <3>2, <3>3 DEF LastNode, HasResult
    <3>5. PICK i \in DOMAIN order : order[i] = <<c, j>>
      BY <3>4 DEF ResultsFit
    <3> QED
      BY <3>2, <3>5 DEF Results, NodeAt
  <2>3. ASSUME NEW n \in Results PROVE n \in UNION {NodeSet(c) : c \in Comps}
    <3>1. PICK i \in DOMAIN order : n = NodeAt(order[i])
      BY DEF Results
    <3>2. order[i] \in PlanPlaces
      BY <3>1, CalledPlaces
    <3> QED
      BY <3>1, <3>2, PlaceShape
  <2>4. Results = UNION {NodeSet(c) : c \in Comps}
    BY <2>2, <2>3
  <2>5. OutcomeIsHonest'
    BY <1>3, <2>1, <2>4 DEF OutcomeIsHonest
  <2> QED
    BY <1>1, <1>2, <2>5, NothingMoves DEF PumpFits, Settled
<1>6. CASE activeCount = 0 /\ ready = {} /\ completed # Comps /\ Settle("failed")
  <2> DEFINE Left == Comps \ completed
  <2>1. Occupied = {}
    BY <1>6, OccupiedShape, FS_EmptySet DEF SlotsFit
  <2>2. ASSUME NEW c \in Left PROVE Dependencies(c) \cap Left # {}
    <3>1. pc[c] \in Places /\ c \in Comps
      BY DEF TypeOK
    <3>2. pc[c] = "idle"
      BY <1>2, <2>1, <3>1 DEF Occupied, RecordsFit
    <3>3. ~(Dependencies(c) \subseteq completed)
      BY <1>6, <3>1, <3>2 DEF QueueFits
    <3> QED
      BY <3>1, <3>3, DependencyShape
  <2>3. Left \in (SUBSET Comps) \ {{}}
    BY <1>6 DEF TypeOK
  <2>4. outcome' = "failed" /\ \A c : Dependencies(c)' = Dependencies(c)
    BY <1>2, <1>6, GraphStays DEF Settle
  <2>5. OutcomeIsHonest'
    <3> HIDE DEF Left
    <3>1. \A c \in Left : Dependencies(c)' \cap Left # {}
      BY <2>2, <2>4
    <3> QED
      BY <1>3, <2>3, <2>4, <3>1 DEF OutcomeIsHonest
  <2> QED
    BY <1>1, <1>2, <2>5, NothingMoves DEF PumpFits, Settled
<1> QED
  BY <1>4, <1>5, <1>6 DEF PumpEnds

LEMMA WorldStep ==
  ASSUME GraphInv, (\E p \in inFlight : DetachedNodeEnds(p)) \/ Abort \/ UNCHANGED vars
  PROVE  GraphInv'
<1> USE DEF GraphInv
<1>1. TypeOK'
  BY TypeStep DEF Next
<1>2. /\ UNCHANGED <<graph, pump, scheduler, slots, pc, at, record, order, calls, result>>
      /\ inFlight' \subseteq inFlight /\ (aborted => aborted')
  BY DEF DetachedNodeEnds, Abort, vars, progress
<1>3. OutcomeIsHonest' /\ PumpFits'
  BY <1>2, OutcomeFrame DEF PumpFits, Settled, result
<1> QED
  BY <1>1, <1>2, <1>3, NothingMoves DEF Settled, result

-----------------------------------------------------------------------------
(* A component starts. *)

\* What both ways to start have in common.
LEMMA StartFits ==
  ASSUME GraphInv, NEW c \in Comps, CanStart(c), Occupy(c),
         NEW label \in {"node", "aborting"}, pc' = [pc EXCEPT ![c] = label],
         NEW mark \in {"pending", "running"}, record' = [record EXCEPT ![c] = mark],
         label = "aborting" => aborted,
         UNCHANGED <<graph, pump, at, order, aborted, result>>
  PROVE  /\ pc[c] = "idle" /\ ~Settled
         /\ PumpFits' /\ RecordsFit' /\ SlotsFit' /\ QueueFits' /\ ResultsFit'
         /\ ParentsFit' /\ OutcomeIsHonest'
<1> USE DEF GraphInv
<1>1. /\ c \in ready /\ pc[c] = "idle" /\ pump = "loop" /\ ~Settled
      /\ UNCHANGED <<scheduled, remaining, parent, completed, outcome>>
      /\ ready' = ready \ {c}
  BY DEF CanStart, Runnable, QueueFits, PumpFits, Occupy, result
<1>2. Comps' = Comps
  BY GraphStays
<1>3. /\ pc'[c] = label /\ \A d \in Comps \ {c} : pc'[d] = pc[d]
      /\ record'[c] = mark /\ \A d \in Comps \ {c} : record'[d] = record[d]
  BY DEF TypeOK
<1>4. PumpFits'
  BY <1>1 DEF PumpFits, Settled
<1>5. RecordsFit'
  BY <1>1, <1>2, <1>3 DEF RecordsFit, LastNode, Settled
<1>6. SlotsFit'
  <2>1. TakeSlot(c)
    BY DEF Occupy
  <2> QED
    BY <1>1, <2>1, SlotsTaken
<1>7. QueueFits'
  <2>1. \A d \in Comps : (d \in ready' \/ pc'[d] # "idle") <=> (d \in ready \/ pc[d] # "idle")
    BY <1>1, <1>3
  <2>2. \A d \in ready' : pc'[d] = "idle"
    BY <1>1, <1>3 DEF QueueFits, TypeOK
  <2> QED
    BY <1>1, <2>1, <2>2, QueueFrame
<1>8. ResultsFit'
  BY <1>1, <1>3, ResultsFrame DEF Interrupted
<1>9. ParentsFit'
  BY <1>1, ParentsFrame
<1>10. OutcomeIsHonest'
  BY OutcomeFrame
<1> QED
  BY <1>1, <1>4, <1>5, <1>6, <1>7, <1>8, <1>9, <1>10

LEMMA StartAbortedStep ==
  ASSUME GraphInv, NEW c \in Comps, StartAborted(c)
  PROVE  GraphInv'
<1> USE DEF GraphInv
<1>1. TypeOK'
  BY TypePump DEF Pump
<1>2. /\ CanStart(c) /\ Occupy(c) /\ aborted
      /\ pc' = [pc EXCEPT ![c] = "aborting"] /\ record' = [record EXCEPT ![c] = "pending"]
      /\ UNCHANGED <<graph, pump, at, order, calls, inFlight, aborted, result, outcome>>
  BY DEF StartAborted, progress, result
<1>3. /\ pc[c] = "idle" /\ ~Settled
      /\ PumpFits' /\ RecordsFit' /\ SlotsFit' /\ QueueFits' /\ ResultsFit'
      /\ ParentsFit' /\ OutcomeIsHonest'
  BY <1>2, StartFits
<1>4. \A d \in Comps \ {c} : pc'[d] = pc[d]
  BY <1>2 DEF TypeOK
<1>5. CallsHoldSlots'
  BY <1>2, <1>3, <1>4, CallsHoldSlotsFrame
<1>6. CallsFit'
  BY <1>2, <1>3, <1>4, CallsFrame
<1>7. WorkFits'
  BY <1>1, <1>2, <1>3, <1>5, WorkStep
<1> QED
  BY <1>1, <1>3, <1>5, <1>6, <1>7

\* A component without nodes is completed at once.
LEMMA StartEmptyStep ==
  ASSUME GraphInv, NEW c \in Comps, StartEmpty(c)
  PROVE  GraphInv'
<1> USE DEF GraphInv
<1>1. TypeOK'
  BY TypePump DEF Pump
<1>2. /\ CanStart(c) /\ TakeSlot(c) /\ graph.nodesOf[c] = <<>> /\ ready' = ready \ {c}
      /\ pc' = [pc EXCEPT ![c] = "done"] /\ record' = [record EXCEPT ![c] = "completed"]
      /\ completed' = completed \cup {c}
      /\ UNCHANGED <<graph, pump, scheduled, remaining, parent, at, order, calls, inFlight,
                     aborted, result, outcome>>
  BY DEF StartEmpty, progress, result
<1>3. c \in ready /\ pc[c] = "idle" /\ pump = "loop" /\ ~Settled
  BY <1>2 DEF CanStart, Runnable, QueueFits, PumpFits
<1>4. Comps' = Comps /\ \A d : Dependencies(d)' = Dependencies(d)
  BY <1>2, GraphStays
<1>5. /\ pc'[c] = "done" /\ \A d \in Comps \ {c} : pc'[d] = pc[d]
      /\ record'[c] = "completed" /\ \A d \in Comps \ {c} : record'[d] = record[d]
  BY <1>2 DEF TypeOK
<1>6. \A d \in Comps : c \notin Dependencies(d)
  BY <1>2, DependenciesHaveNodes
<1>7. at[c] = 0 /\ LastNode(c)
  BY <1>2, NodeShape, GraphShape DEF LastNode
<1>8. PumpFits' /\ OutcomeIsHonest'
  BY <1>2, <1>3, OutcomeFrame DEF PumpFits, Settled
<1>9. RecordsFit'
  BY <1>2, <1>3, <1>4, <1>5, <1>7 DEF RecordsFit, LastNode, Settled
<1>10. SlotsFit'
  BY <1>2, <1>3, SlotsTaken
<1>11. CallsHoldSlots'
  BY <1>2, <1>3, <1>5, CallsHoldSlotsFrame
<1>12. QueueFits'
  <2>1. \A d \in Comps : /\ Dependencies(d) \ completed' = Dependencies(d) \ completed
                         /\ Dependencies(d) \subseteq completed' <=> Dependencies(d) \subseteq completed
    BY <1>2, <1>6
  <2>2. \A d \in Comps : (d \in ready' \/ pc'[d] # "idle") <=> (d \in ready \/ pc[d] # "idle")
    BY <1>2, <1>3, <1>5
  <2>3. \A d \in ready' : pc'[d] = "idle"
    BY <1>2, <1>5 DEF QueueFits, TypeOK
  <2>4. ASSUME NEW d \in Comps
        PROVE  /\ remaining'[d] = Cardinality(Dependencies(d) \ completed')
               /\ Dependencies(d) \subseteq completed' <=> d \in ready' \/ pc'[d] # "idle"
    <3>1. /\ remaining[d] = Cardinality(Dependencies(d) \ completed)
          /\ Dependencies(d) \subseteq completed <=> d \in ready \/ pc[d] # "idle"
      BY DEF QueueFits
    <3>2. Dependencies(d) \ completed' = Dependencies(d) \ completed
      BY <2>1
    <3>3. remaining'[d] = Cardinality(Dependencies(d) \ completed')
      BY <1>2, <3>1, <3>2
    <3> QED
      BY <2>1, <2>2, <3>1, <3>3
  <2>5. scheduled' = {d \in Comps : Dependencies(d) # {} /\ Dependencies(d) \subseteq completed'}
    <3>1. scheduled = {d \in Comps : Dependencies(d) # {} /\ Dependencies(d) \subseteq completed}
      BY DEF QueueFits
    <3> QED
      BY <1>2, <2>1, <3>1
  <2> QED
    BY <1>4, <2>3, <2>4, <2>5 DEF QueueFits
<1>13. CallsFit'
  BY <1>2, <1>3, <1>5, CallsFrame
<1>14. ResultsFit'
  <2>1. \A i \in DOMAIN order : order[i][1] \in Comps
    BY CalledPlaces
  <2>2. \A d \in Comps : \A j : HasResult(d, j) => HasResult(d, j)'
    BY <1>2 DEF HasResult
  <2>3. \A d \in Comps : \A j \in 1..at[d] : HasResult(d, j)' => HasResult(d, j)
    <3> SUFFICES ASSUME NEW d \in Comps, NEW j \in 1..at[d], HasResult(d, j)'
                 PROVE  HasResult(d, j)
      OBVIOUS
    <3>1. d # c
      BY <1>7
    <3> QED
      BY <1>2, <3>1 DEF HasResult
  <2>4. \A d \in Comps : pc[d] \in {"aborting", "caught", "released"} => pc'[d] = pc[d]
    BY <1>3, <1>5
  <2>5. \A d \in Comps : \A j \in 1..at[d] :
          HasResult(d, j)' => \E i \in DOMAIN order : order[i] = <<d, j>>
    BY <2>3 DEF ResultsFit
  <2>6. \A i \in DOMAIN order :
          /\ order[i][2] <= at[order[i][1]]
          /\ \/ HasResult(order[i][1], order[i][2])'
             \/ pc'[order[i][1]] \in {"aborting", "caught", "released"}
    <3> TAKE i \in DOMAIN order
    <3>1. /\ order[i][2] <= at[order[i][1]]
          /\ HasResult(order[i][1], order[i][2]) \/ pc[order[i][1]] \in {"aborting", "caught", "released"}
      BY DEF ResultsFit
    <3> QED
      BY <1>2, <2>1, <2>2, <2>4, <3>1 DEF HasResult
  <2> QED
    BY <1>2, <1>4, <2>5, <2>6 DEF ResultsFit
<1>15. ParentsFit'
  BY <1>2, ParentsFrame
<1>16. WorkFits'
  BY <1>1, <1>2, <1>10, <1>11, WorkStep
<1> QED
  BY <1>1, <1>8, <1>9, <1>10, <1>11, <1>12, <1>13, <1>14, <1>15, <1>16

\* A place is called for the first time and with what its node needs.
LEMMA CallFits ==
  ASSUME GraphInv, NEW c \in Comps, NEW j \in 1..Len(graph.nodesOf[c]),
         NEW results, Results \subseteq results,
         CallNode(<<c, j>>, results),
         Dependencies(c) \subseteq completed,
         pc[c] = "idle" \/ at[c] < j,
         at' \in [Comps -> Nat], at'[c] = j, \A d \in Comps \ {c} : at'[d] = at[d],
         j = 1 \/ j = at[c] + 1,
         pc' \in [Comps -> Places], pc'[c] # "idle",
         \A d \in Comps \ {c} : pc'[d] = pc[d],
         UNCHANGED graph
  PROVE  CallsFit'
<1> USE DEF GraphInv
<1> DEFINE n == graph.nodesOf[c][j]
           k == Len(calls) + 1
           call == [place |-> <<c, j>>, given |-> Predecessors(n) \cap results]
<1>2. <<c, j>> \in PlanPlaces /\ NodeAt(<<c, j>>) = n
  <2>1. <<c, j>> \in PlanPlaces
    BY NodeShape
  <2>2. NodeAt(<<c, j>>) = n
    BY DEF NodeAt
  <2> QED
    BY <2>1, <2>2
<1>3. call \in [place : PlanPlaces, given : SUBSET Nodes]
  <2>1. Predecessors(n) \subseteq Nodes
    BY DEF Predecessors
  <2> HIDE DEF n
  <2> QED
    BY <1>2, <2>1
<1>4. /\ Len(calls') = k /\ calls'[k] = call /\ DOMAIN calls' = 1..k
      /\ \A i \in 1..Len(calls) : calls'[i] = calls[i]
      /\ Len(calls) \in Nat /\ DOMAIN calls = 1..Len(calls)
  <2>1. calls \in Seq([place : PlanPlaces, given : SUBSET Nodes])
    BY DEF TypeOK
  <2>2. calls' = Append(calls, call)
    BY <1>2 DEF CallNode
  <2> HIDE DEF call
  <2> QED
    BY <1>3, <2>1, <2>2
<1>5. \A i \in 1..Len(calls) : calls[i].place \in PlanPlaces
  BY <1>4, CalledPlaces
<1>6. \A i \in 1..Len(calls) : calls[i].place # <<c, j>>
  <2> SUFFICES ASSUME NEW i \in 1..Len(calls), calls[i].place = <<c, j>> PROVE FALSE
    OBVIOUS
  <2>1. pc[c] # "idle" /\ j <= at[c]
    BY <1>4 DEF CallsFit
  <2> QED
    BY <2>1 DEF TypeOK
<1>7. HasNeeded(call)
  <2> SUFFICES ASSUME c = Home(n), NEW m \in Predecessors(n), Home(m) # Home(n)
               PROVE  m \in results
    BY <1>2 DEF HasNeeded, Needed
  <2>1. <<m, n>> \in graph.edges
    BY DEF Predecessors
  <2>2. /\ Home(<<m, n>>[1]) \in Comps /\ <<m, n>>[1] \in NodeSet(Home(<<m, n>>[1]))
        /\ Home(<<m, n>>[1]) = Home(m) /\ Home(<<m, n>>[2]) = c
    BY <2>1, GraphShape
  <2>3. Home(m) \in Dependencies(c)
    BY <2>1, <2>2 DEF Dependencies
  <2>4. Home(m) \in completed /\ LastNode(Home(m)) /\ Home(m) \in Comps
    BY <2>2, <2>3 DEF RecordsFit
  <2>5. PICK i \in 1..Len(graph.nodesOf[Home(m)]) : m = graph.nodesOf[Home(m)][i]
    BY <2>2, <2>4, NodeShape
  <2>6. i \in 1..at[Home(m)] /\ HasResult(Home(m), i)
    BY <2>4, <2>5, GraphShape DEF LastNode, HasResult
  <2>7. PICK o \in DOMAIN order : order[o] = <<Home(m), i>>
    BY <2>4, <2>6 DEF ResultsFit
  <2> QED
    BY <2>5, <2>7 DEF Results, NodeAt
<1>8. \A i \in 1..k : i = k \/ i \in 1..Len(calls)
  BY <1>4
<1>9. \A i \in 1..k : LET p == calls'[i].place IN pc'[p[1]] # "idle" /\ p[2] <= at'[p[1]]
  <2> SUFFICES ASSUME NEW i \in 1..k
               PROVE  pc'[calls'[i].place[1]] # "idle"
                      /\ calls'[i].place[2] <= at'[calls'[i].place[1]]
    OBVIOUS
  <2>1. CASE i = k
    BY <1>4, <2>1
  <2>2. CASE i \in 1..Len(calls)
    <3> DEFINE p == calls[i].place
    <3>1. p \in PlanPlaces /\ p[1] \in Comps /\ p[2] \in Nat
      BY <1>5, <2>2, PlaceShape, GraphShape
    <3>2. pc[p[1]] # "idle" /\ p[2] <= at[p[1]]
      BY <1>4, <2>2 DEF CallsFit
    <3>3. calls'[i].place = p
      BY <1>4, <2>2
    <3> HIDE DEF p
    <3>4. CASE p[1] # c
      BY <3>1, <3>2, <3>3, <3>4
    <3>5. CASE p[1] = c
      <4>1. at[c] < j /\ at[c] \in Nat
        BY <3>2, <3>5 DEF TypeOK
      <4> QED
        BY <3>1, <3>2, <3>3, <3>5, <4>1
    <3> QED
      BY <3>4, <3>5
  <2> QED
    BY <1>8, <2>1, <2>2
<1>10. \A i, m \in 1..k : calls'[i].place = calls'[m].place => i = m
  <2>1. calls'[k].place = <<c, j>> /\ \A i \in 1..Len(calls) : calls'[i].place = calls[i].place
    BY <1>4
  <2>2. \A i, m \in 1..Len(calls) : calls[i].place = calls[m].place => i = m
    BY <1>4 DEF CallsFit
  <2> HIDE DEF k, call
  <2> QED
    BY <1>6, <1>8, <2>1, <2>2
<1>11. \A i \in 1..k : HasNeeded(calls'[i])
  <2>1. \A i \in 1..Len(calls) : HasNeeded(calls[i])
    BY <1>4 DEF CallsFit
  <2> HIDE DEF k, call
  <2> QED
    BY <1>4, <1>7, <1>8, <2>1
<1> HIDE DEF n, k, call
<1>12. (\A i \in DOMAIN calls : HasNeeded(calls[i]))'
  BY <1>4, <1>11, GraphStays DEF HasNeeded
<1> QED
  BY <1>4, <1>9, <1>10, <1>12 DEF CallsFit

LEMMA StartComponentStep ==
  ASSUME GraphInv, NEW c \in Comps, StartComponent(c)
  PROVE  GraphInv'
<1> USE DEF GraphInv
<1>1. TypeOK'
  BY TypePump DEF Pump
<1>2. /\ CanStart(c) /\ Occupy(c)
      /\ pc' = [pc EXCEPT ![c] = "node"] /\ record' = [record EXCEPT ![c] = "running"]
      /\ inFlight' = inFlight \cup {Current(c)} /\ CallNode(Current(c), Results)
      /\ graph.nodesOf[c] # <<>>
      /\ UNCHANGED <<graph, pump, at, order, aborted, result, outcome>>
  BY DEF StartComponent, result
<1>3. /\ pc[c] = "idle" /\ ~Settled
      /\ PumpFits' /\ RecordsFit' /\ SlotsFit' /\ QueueFits' /\ ResultsFit'
      /\ ParentsFit' /\ OutcomeIsHonest'
  BY <1>2, StartFits
<1>4. pc'[c] = "node" /\ \A d \in Comps \ {c} : pc'[d] = pc[d]
  BY <1>2 DEF TypeOK
<1>5. Comps' = Comps /\ \A d : Current(d)' = Current(d)
  BY <1>2, GraphStays DEF Current
<1>6. CallsHoldSlots'
  <2> SUFFICES ASSUME NEW p \in inFlight'
               PROVE  pc'[p[1]] \in {"node", "failing", "caught"} /\ p = Current(p[1])
    BY <1>5 DEF CallsHoldSlots
  <2>1. CASE p = Current(c)
    BY <1>4, <2>1 DEF Current
  <2>2. CASE p \in inFlight
    <3>1. p[1] \in Comps /\ pc[p[1]] \in {"node", "failing", "caught"} /\ p = Current(p[1])
      BY <1>3, <2>2, PlaceShape DEF CallsHoldSlots, TypeOK
    <3>2. p[1] # c
      BY <1>3, <3>1
    <3> QED
      BY <1>4, <3>1, <3>2
  <2> QED
    BY <1>2, <2>1, <2>2
<1>7. CallsFit'
  <2>1. at[c] = 1 /\ Current(c) = <<c, 1>> /\ 1 \in 1..Len(graph.nodesOf[c])
    <3>1. at[c] \in 1..Len(graph.nodesOf[c]) /\ at[c] <= 1 /\ Len(graph.nodesOf[c]) \in Nat
      BY <1>2, <1>3, NodeShape, GraphShape DEF RecordsFit
    <3> QED
      BY <3>1 DEF Current
  <2>2. Dependencies(c) \subseteq completed
    BY <1>2 DEF CanStart, Runnable, QueueFits
  <2>3. at' \in [Comps -> Nat] /\ pc' \in [Comps -> Places]
    BY <1>1, <1>5 DEF TypeOK
  <2> QED
    BY <1>2, <1>3, <1>4, <2>1, <2>2, <2>3, CallFits
<1>8. WorkFits'
  <2>1. ~Settled'
    BY <1>2, <1>3 DEF Settled
  <2> QED
    BY <1>1, <1>2, <1>3, <1>6, <2>1, WorkStep
<1> QED
  BY <1>1, <1>3, <1>6, <1>7, <1>8

-----------------------------------------------------------------------------
(* A component moves without a result. *)

LEMMA LoneMove ==
  ASSUME GraphInv, NEW c \in Comps, NEW label \in Places \ {"idle"},
         pc[c] # "idle", pc' = [pc EXCEPT ![c] = label],
         pc[c] \in Interrupted => label \in Interrupted,
         UNCHANGED <<graph, scheduler, at, order, calls, aborted>>
  PROVE  /\ pc'[c] = label /\ \A d \in Comps \ {c} : pc'[d] = pc[d]
         /\ Comps' = Comps
         /\ QueueFits' /\ CallsFit' /\ ResultsFit' /\ ParentsFit'
<1> USE DEF GraphInv, scheduler
<1>1. pc'[c] = label /\ \A d \in Comps \ {c} : pc'[d] = pc[d]
  BY DEF TypeOK
<1>2. Comps' = Comps
  BY GraphStays
<1>3. QueueFits'
  <2>1. \A d \in ready : pc'[d] = "idle"
    BY <1>1 DEF QueueFits, TypeOK
  <2>2. \A d \in Comps : (d \in ready' \/ pc'[d] # "idle") <=> (d \in ready \/ pc[d] # "idle")
    BY <1>1
  <2> QED
    BY <2>1, <2>2, QueueFrame
<1>4. CallsFit'
  BY <1>1, CallsFrame
<1>5. ResultsFit'
  BY <1>1, ResultsFrame
<1>6. ParentsFit'
  BY ParentsFrame
<1> QED
  BY <1>1, <1>2, <1>3, <1>4, <1>5, <1>6

LEMMA NodeEndsBadlyStep ==
  ASSUME GraphInv, NEW c \in Comps, NodeEndsLate(c) \/ NodeFails(c)
  PROVE  GraphInv'
<1> USE DEF GraphInv
<1>1. TypeOK'
  BY TypeRun DEF Run
<1>2. PICK label \in {"done", "failing"} :
        /\ pc[c] = "node" /\ pump = "no" /\ pc' = [pc EXCEPT ![c] = label]
        /\ label = "done" => Settled
        /\ inFlight' \subseteq inFlight
        /\ UNCHANGED <<graph, pump, scheduler, slots, at, record, order, calls, aborted,
                       result, outcome>>
  BY DEF NodeEndsLate, NodeFails, AwaitsNode, result
<1>3. /\ pc'[c] = label /\ \A d \in Comps \ {c} : pc'[d] = pc[d]
      /\ Comps' = Comps
      /\ QueueFits' /\ CallsFit' /\ ResultsFit' /\ ParentsFit'
  BY <1>2, LoneMove DEF Places, Interrupted
<1>4. RecordsFit'
  <2>1. c \notin completed
    BY <1>2 DEF RecordsFit
  <2> QED
    BY <1>2, <1>3, <2>1 DEF RecordsFit, LastNode, Settled, scheduler
<1>5. SlotsFit'
  BY <1>2, <1>3, SlotsFrame
<1>6. CallsHoldSlots'
  <2>1. CASE Settled
    BY <1>2, <2>1 DEF CallsHoldSlots, Settled
  <2>2. CASE ~Settled
    BY <1>2, <1>3, <2>2, CallsHoldSlotsFrame
  <2> QED
    BY <2>1, <2>2
<1>7. WorkFits'
  BY <1>1, <1>2, <1>5, <1>6, WorkStep
<1>8. OutcomeIsHonest' /\ PumpFits'
  BY <1>2, OutcomeFrame DEF PumpFits
<1> QED
  BY <1>1, <1>3, <1>4, <1>5, <1>6, <1>7, <1>8

LEMMA CatchFailureStep ==
  ASSUME GraphInv, NEW c \in Comps, CatchFailure(c)
  PROVE  GraphInv'
<1> USE DEF GraphInv
<1>1. TypeOK'
  BY TypeRun DEF Run
<1>2. PICK mark \in {"cancelled", "failed"} :
        /\ pc[c] \in {"aborting", "failing"} /\ pump = "no"
        /\ pc' = [pc EXCEPT ![c] = "caught"] /\ record' = [record EXCEPT ![c] = mark]
        /\ mark = "cancelled" => pc[c] = "aborting"
        /\ UNCHANGED <<graph, pump, scheduler, slots, at, order, calls, inFlight, aborted,
                       result, outcome>>
  BY DEF CatchFailure, result, progress
<1>3. /\ pc'[c] = "caught" /\ \A d \in Comps \ {c} : pc'[d] = pc[d]
      /\ Comps' = Comps
      /\ QueueFits' /\ CallsFit' /\ ResultsFit' /\ ParentsFit'
  BY <1>2, LoneMove DEF Places, Interrupted
<1>4. record'[c] = mark /\ \A d \in Comps \ {c} : record'[d] = record[d]
  BY <1>2 DEF TypeOK
<1>5. RecordsFit'
  <2>1. c \notin completed /\ (mark = "cancelled" => aborted)
    BY <1>2 DEF RecordsFit
  <2> QED
    BY <1>2, <1>3, <1>4, <2>1 DEF RecordsFit, LastNode, Settled, scheduler
<1>6. SlotsFit'
  BY <1>2, <1>3, SlotsFrame
<1>7. CallsHoldSlots'
  BY <1>2, <1>3, CallsHoldSlotsFrame
<1>8. WorkFits'
  BY <1>1, <1>2, <1>6, <1>7, WorkStep
<1>9. OutcomeIsHonest' /\ PumpFits'
  BY <1>2, OutcomeFrame DEF PumpFits
<1> QED
  BY <1>1, <1>3, <1>5, <1>6, <1>7, <1>8, <1>9

LEMMA ReleaseStep ==
  ASSUME GraphInv, NEW c \in Comps, Release(c)
  PROVE  GraphInv'
<1> USE DEF GraphInv
<1>1. TypeOK'
  BY TypeRun DEF Run
<1>2. /\ pc[c] = "done" /\ Vacate(c) /\ CallPump
      /\ pc' = [pc EXCEPT ![c] = "released"]
      /\ UNCHANGED <<graph, scheduler, at, record, order, calls, inFlight, aborted>>
  BY DEF Release, Vacate, progress
<1>3. /\ pc'[c] = "released" /\ \A d \in Comps \ {c} : pc'[d] = pc[d]
      /\ Comps' = Comps
      /\ QueueFits' /\ CallsFit' /\ ResultsFit' /\ ParentsFit'
  BY <1>2, LoneMove DEF Places, Interrupted
<1>4. OutcomeIsHonest' /\ PumpFits' /\ (~Settled' => ~Settled)
  BY <1>2, CallPumpIsHonest
<1>5. RecordsFit'
  BY <1>2, <1>3, <1>4 DEF RecordsFit, LastNode, scheduler
<1>6. SlotsFit'
  BY <1>2, SlotsFreed
<1>7. CallsHoldSlots'
  <2>1. CASE Settled'
    BY <2>1 DEF CallsHoldSlots
  <2>2. CASE ~Settled'
    <3>1. UNCHANGED outcome
      BY <1>4, <2>2 DEF Settled
    <3> QED
      BY <1>2, <1>3, <3>1, CallsHoldSlotsFrame
  <2> QED
    BY <2>1, <2>2
<1>8. WorkFits'
  BY <1>1, <1>2, <1>6, <1>7, WorkStep
<1> QED
  BY <1>1, <1>3, <1>4, <1>5, <1>6, <1>7, <1>8

LEMMA ReleaseFailedStep ==
  ASSUME GraphInv, NEW c \in Comps, ReleaseFailed(c)
  PROVE  GraphInv'
<1> USE DEF GraphInv
<1>1. TypeOK'
  BY TypeRun DEF Run
<1>2. /\ pc[c] = "caught" /\ Vacate(c) /\ pump = "no"
      /\ pc' = [pc EXCEPT ![c] = "released"]
      /\ UNCHANGED <<graph, pump, scheduler, at, record, order, calls, inFlight, aborted>>
  BY DEF ReleaseFailed, Vacate, progress
<1>3. /\ pc'[c] = "released" /\ \A d \in Comps \ {c} : pc'[d] = pc[d]
      /\ Comps' = Comps
      /\ QueueFits' /\ CallsFit' /\ ResultsFit' /\ ParentsFit'
  BY <1>2, LoneMove DEF Places, Interrupted
<1>4. Settled'
  BY DEF ReleaseFailed, RecordsFit, Settle, Settled, result
<1>5. OutcomeIsHonest'
  <2>1. CASE Settled /\ UNCHANGED result
    BY <1>2, <2>1, OutcomeFrame
  <2>2. CASE record[c] = "cancelled" /\ Settle("cancelled")
    <3>1. aborted
      BY <2>2 DEF RecordsFit
    <3> QED
      BY <1>2, <2>2, <3>1, CancelIsHonest
  <2>3. CASE record[c] = "failed" /\ Settle("failed")
    <3>1. outcome' = "failed" /\ executions'[c] = "failed"
      BY <2>3 DEF Settle
    <3> QED
      BY <1>3, <3>1 DEF OutcomeIsHonest
  <2> QED
    BY <2>1, <2>2, <2>3 DEF ReleaseFailed
<1>6. RecordsFit'
  BY <1>2, <1>3, <1>4 DEF RecordsFit, LastNode, scheduler
<1>7. SlotsFit'
  BY <1>2, SlotsFreed
<1>8. CallsHoldSlots' /\ PumpFits'
  BY <1>2, <1>4 DEF CallsHoldSlots, PumpFits
<1>9. WorkFits'
  BY <1>1, <1>2, <1>7, <1>8, WorkStep
<1> QED
  BY <1>1, <1>3, <1>5, <1>6, <1>7, <1>8, <1>9

-----------------------------------------------------------------------------
(* A component gets a result. *)

LEMMA ResultIsNew ==
  ASSUME GraphInv, NEW c \in Comps, pc[c] = "node", order' = Append(order, Current(c))
  PROVE  /\ Len(order) \in Nat /\ DOMAIN order = 1..Len(order)
         /\ DOMAIN order' = 1..(Len(order) + 1)
         /\ order'[Len(order) + 1] = Current(c)
         /\ \A i \in 1..Len(order) : /\ order'[i] = order[i] /\ order[i] # Current(c)
                                     /\ order[i] \in PlanPlaces
         /\ at[c] \in Nat \ {0}
<1> USE DEF GraphInv
<1>1. Current(c) \in PlanPlaces /\ order \in Seq(PlanPlaces) /\ at[c] \in Nat \ {0}
  BY NodeShape, GraphShape DEF TypeOK
<1>2. /\ Len(order) \in Nat /\ DOMAIN order = 1..Len(order)
      /\ DOMAIN order' = 1..(Len(order) + 1)
      /\ order'[Len(order) + 1] = Current(c)
      /\ \A i \in 1..Len(order) : order'[i] = order[i] /\ order[i] \in PlanPlaces
  BY <1>1
<1>3. ASSUME NEW i \in 1..Len(order), order[i] = Current(c) PROVE FALSE
  <2>1. HasResult(c, at[c]) \/ pc[c] \in {"aborting", "caught", "released"}
    BY <1>2, <1>3 DEF ResultsFit, Current
  <2>2. c \in completed
    BY <1>1, <2>1 DEF HasResult
  <2> QED
    BY <2>2 DEF RecordsFit
<1> QED
  BY <1>1, <1>2, <1>3

LEMMA ResultsGrow ==
  ASSUME GraphInv, NEW c \in Comps, pc[c] = "node", order' = Append(order, Current(c)),
         UNCHANGED graph, at' \in [Comps -> Nat], at[c] <= at'[c],
         \A d \in Comps \ {c} : at'[d] = at[d] /\ pc'[d] = pc[d]
                                /\ (d \in completed' <=> d \in completed),
         \A j \in 1..at'[c] : HasResult(c, j)' => j <= at[c],
         \/ at[c] < at'[c] \/ c \in completed'
         \/ pc'[c] \in {"aborting", "caught", "released"}
  PROVE  ResultsFit'
<1> USE DEF GraphInv
<1>1. Comps' = Comps
  BY GraphStays
<1>2. /\ Len(order) \in Nat /\ DOMAIN order = 1..Len(order)
      /\ DOMAIN order' = 1..(Len(order) + 1)
      /\ order'[Len(order) + 1] = Current(c)
      /\ \A i \in 1..Len(order) : /\ order'[i] = order[i] /\ order[i] # Current(c)
                                  /\ order[i] \in PlanPlaces
      /\ at[c] \in Nat \ {0}
  BY ResultIsNew
<1>3. \A d \in Comps \ {c} : \A j : HasResult(d, j)' <=> HasResult(d, j)
  BY DEF HasResult
<1>4. at'[c] \in Nat
  OBVIOUS
<1>5. ASSUME NEW d \in Comps, NEW j \in 1..at'[d], HasResult(d, j)'
      PROVE  \E i \in 1..(Len(order) + 1) : order'[i] = <<d, j>>
  <2>1. CASE d = c /\ j = at[c]
    <3>1. order'[Len(order) + 1] = <<d, j>> /\ Len(order) + 1 \in 1..(Len(order) + 1)
      BY <1>2, <2>1 DEF Current
    <3> QED
      BY <3>1
  <2>2. CASE ~(d = c /\ j = at[c])
    <3>1. j \in 1..at[d] /\ HasResult(d, j)
      BY <1>2, <1>3, <1>4, <1>5, <2>2 DEF HasResult
    <3>2. PICK i \in 1..Len(order) : order[i] = <<d, j>>
      BY <1>2, <3>1 DEF ResultsFit
    <3>3. i \in 1..(Len(order) + 1) /\ order'[i] = <<d, j>>
      BY <1>2, <3>2
    <3> QED
      BY <3>3
  <2> QED
    BY <2>1, <2>2
<1>6. ASSUME NEW i \in 1..(Len(order) + 1)
      PROVE  /\ order'[i][2] <= at'[order'[i][1]]
             /\ \/ order'[i][2] < at'[order'[i][1]]
                \/ order'[i][2] = at'[order'[i][1]] /\ order'[i][1] \in completed'
                \/ pc'[order'[i][1]] \in {"aborting", "caught", "released"}
  <2>1. CASE i = Len(order) + 1
    <3>1. order'[i][1] = c /\ order'[i][2] = at[c]
      BY <1>2, <2>1 DEF Current
    <3>2. at[c] < at'[c] \/ (at[c] = at'[c] /\ c \in completed')
          \/ pc'[c] \in {"aborting", "caught", "released"}
      BY <1>2, <1>4
    <3> QED
      BY <3>1, <3>2 DEF HasResult
  <2>2. CASE i \in 1..Len(order)
    <3> DEFINE p == order[i]
    <3>1. p[1] \in Comps /\ p = <<p[1], p[2]>> /\ p[2] \in Nat /\ order'[i] = p /\ p # Current(c)
      BY <1>2, <2>2, PlaceShape, GraphShape
    <3>2. /\ p[2] <= at[p[1]]
          /\ HasResult(p[1], p[2]) \/ pc[p[1]] \in {"aborting", "caught", "released"}
      BY <1>2, <2>2 DEF ResultsFit
    <3> HIDE DEF p
    <3>3. CASE p[1] # c
      BY <3>1, <3>2, <3>3 DEF HasResult
    <3>4. CASE p[1] = c
      <4>1. p[2] # at[c]
        BY <3>1, <3>4 DEF Current
      <4>2. p[2] < at'[c]
        BY <1>2, <1>4, <3>1, <3>2, <3>4, <4>1
      <4> QED
        BY <1>4, <3>1, <3>4, <4>2 DEF HasResult
    <3> QED
      BY <3>3, <3>4
  <2> QED
    BY <1>2, <2>1, <2>2
<1>7. ASSUME NEW i \in 1..(Len(order) + 1), NEW j \in 1..(Len(order) + 1),
             order'[i] = order'[j]
      PROVE  i = j
  <2>1. \A k \in 1..(Len(order) + 1) : k = Len(order) + 1 \/ k \in 1..Len(order)
    BY <1>2
  <2>2. \A k, m \in 1..Len(order) : order[k] = order[m] => k = m
    BY <1>2 DEF ResultsFit
  <2> QED
    BY <1>2, <1>7, <2>1, <2>2
<1> QED
  <2>1. (\A d \in Comps : \A j \in 1..at[d] :
          HasResult(d, j) => \E i \in DOMAIN order : order[i] = <<d, j>>)'
    <3> SUFFICES ASSUME NEW d \in Comps, NEW j \in 1..at'[d], HasResult(d, j)'
                 PROVE  \E i \in DOMAIN order' : order'[i] = <<d, j>>
      BY <1>1
    <3> QED
      BY <1>2, <1>5
  <2>2. (\A i \in DOMAIN order : LET p == order[i] IN
          /\ p[2] <= at[p[1]]
          /\ HasResult(p[1], p[2]) \/ pc[p[1]] \in {"aborting", "caught", "released"})'
    BY <1>2, <1>6 DEF HasResult
  <2>3. (\A i, j \in DOMAIN order : order[i] = order[j] => i = j)'
    BY <1>2, <1>7
  <2> QED
    BY <2>1, <2>2, <2>3 DEF ResultsFit

\* The last result of a completed component keeps its place in the order.
LEMMA PositionsStay ==
  ASSUME GraphInv, NEW c \in Comps, pc[c] = "node", order' = Append(order, Current(c)),
         UNCHANGED graph
  PROVE  /\ \A d \in completed : graph.nodesOf[d] # <<>> =>
              Position(d) \in 1..Len(order) /\ Position(d)' = Position(d)
         /\ LastNode(c) => Position(c)' = Len(order) + 1
<1> USE DEF GraphInv
<1> DEFINE LastOf(d) == <<d, Len(graph.nodesOf[d])>>
<1>1. /\ Len(order) \in Nat /\ DOMAIN order = 1..Len(order)
      /\ DOMAIN order' = 1..(Len(order) + 1)
      /\ order'[Len(order) + 1] = Current(c)
      /\ \A i \in 1..Len(order) : order'[i] = order[i] /\ order[i] # Current(c)
  BY ResultIsNew
<1>2. \A k \in 1..(Len(order) + 1) : k = Len(order) + 1 \/ k \in 1..Len(order)
  BY <1>1
<1>3. ASSUME NEW d \in completed, graph.nodesOf[d] # <<>>
      PROVE  Position(d) \in 1..Len(order) /\ Position(d)' = Position(d)
  <2>1. d \in Comps /\ LastNode(d) /\ at[d] \in 1..at[d]
    BY <1>3, NodeShape, GraphShape DEF RecordsFit, TypeOK
  <2>2. PICK i \in 1..Len(order) : order[i] = LastOf(d)
    <3>1. HasResult(d, at[d])
      BY <2>1 DEF HasResult
    <3>2. \E i \in DOMAIN order : order[i] = <<d, at[d]>>
      BY <2>1, <3>1 DEF ResultsFit
    <3> QED
      BY <1>1, <2>1, <3>2 DEF LastNode
  <2>3. Position(d) \in 1..Len(order) /\ order[Position(d)] = LastOf(d)
    BY <1>1, <2>2 DEF Position
  <2>4. Position(d)' \in 1..(Len(order) + 1) /\ order'[Position(d)'] = LastOf(d)
    <3>1. i \in DOMAIN order' /\ order'[i] = LastOf(d)
      BY <1>1, <2>2
    <3> QED
      BY <1>1, <3>1 DEF Position
  <2>5. Position(d)' \in 1..Len(order)
    BY <1>1, <1>2, <2>2, <2>4
  <2>6. order[Position(d)'] = order[Position(d)]
    BY <1>1, <2>3, <2>4, <2>5
  <2> QED
    BY <1>1, <2>3, <2>5, <2>6 DEF ResultsFit
<1>4. ASSUME LastNode(c) PROVE Position(c)' = Len(order) + 1
  <2>1. LastOf(c) = Current(c) /\ Len(order) + 1 \in 1..(Len(order) + 1)
    BY <1>1, <1>4 DEF LastNode, Current
  <2>2. Position(c)' \in 1..(Len(order) + 1) /\ order'[Position(c)'] = LastOf(c)
    BY <1>1, <2>1 DEF Position
  <2> QED
    BY <1>1, <1>2, <2>1, <2>2
<1> QED
  BY <1>3, <1>4

\* ParentsFit looks only at results of completed components.
LEMMA ParentsKept ==
  ASSUME GraphInv, NEW c \in Comps, pc[c] = "node", order' = Append(order, Current(c)),
         UNCHANGED <<graph, scheduled, parent>>
  PROVE  ParentsFit'
<1> USE DEF GraphInv
<1>1. \A d \in completed : graph.nodesOf[d] # <<>> => Position(d)' = Position(d)
  BY PositionsStay
<1>2. \A d \in scheduled : /\ Dependencies(d) \subseteq completed
                           /\ \A e \in Dependencies(d) : graph.nodesOf[e] # <<>>
  BY DependenciesHaveNodes DEF QueueFits, TypeOK
<1> QED
  BY <1>1, <1>2, GraphStays DEF ParentsFit, TypeOK

LEMMA NodeCompletesStep ==
  ASSUME GraphInv, NEW c \in Comps, NodeCompletes(c)
  PROVE  GraphInv'
<1> USE DEF GraphInv
<1>1. TypeOK'
  BY TypeRun DEF Run
<1>2. /\ pc[c] = "node" /\ pump = "no" /\ ~Settled /\ ~LastNode(c)
      /\ order' = Append(order, Current(c))
      /\ UNCHANGED <<graph, pump, scheduled, remaining, parent, completed, ready, slots,
                     record, aborted, result, outcome>>
  BY DEF NodeCompletes, AwaitsNode, scheduler, result
<1>3. Comps' = Comps /\ c \notin completed /\ at[c] \in Nat \ {0}
      /\ \A d \in Comps : at'[d] \in Nat
  BY <1>1, <1>2, GraphStays, ResultIsNew DEF RecordsFit, TypeOK
<1>4. ParentsFit'
  BY <1>2, ParentsKept
<1>5. OutcomeIsHonest' /\ PumpFits' /\ ~Settled'
  BY <1>2, OutcomeFrame DEF PumpFits, Settled
<1>6. CASE /\ aborted /\ pc' = [pc EXCEPT ![c] = "aborting"]
           /\ inFlight' = inFlight \ {Current(c)} /\ UNCHANGED <<at, calls>>
  <2>1. pc'[c] = "aborting" /\ \A d \in Comps \ {c} : pc'[d] = pc[d]
    BY <1>6 DEF TypeOK
  <2>2. RecordsFit'
    BY <1>2, <1>3, <1>6, <2>1 DEF RecordsFit, LastNode, Settled
  <2>3. SlotsFit'
    BY <1>2, <2>1, SlotsFrame
  <2>4. CallsHoldSlots'
    BY <1>2, <1>6, <2>1, CallsHoldSlotsFrame
  <2>5. QueueFits'
    <3>1. \A d \in ready : d # c
      BY <1>2 DEF QueueFits
    <3> QED
      BY <1>2, <2>1, <3>1, QueueFrame DEF QueueFits, TypeOK
  <2>6. CallsFit'
    BY <1>2, <1>6, <2>1, CallsFrame
  <2>7. ResultsFit'
    <3>1. \A j \in 1..at'[c] : HasResult(c, j)' => j <= at[c]
      BY <1>3, <1>6
    <3>2. at' \in [Comps -> Nat]
      BY <1>6 DEF TypeOK
    <3> QED
      BY <1>2, <1>3, <1>6, <2>1, <3>1, <3>2, ResultsGrow
  <2>8. WorkFits'
    BY <1>1, <1>2, <1>6, <2>3, <2>4, WorkStep
  <2> QED
    BY <1>1, <1>4, <1>5, <2>2, <2>3, <2>4, <2>5, <2>6, <2>7, <2>8
<1>7. CASE ~aborted /\ UNCHANGED pc
  <2> DEFINE j == at[c] + 1
             next == <<c, j>>
  <2>1. /\ at' = [at EXCEPT ![c] = j]
        /\ inFlight' = (inFlight \ {Current(c)}) \cup {next}
        /\ CallNode(next, Results \cup {NodeAt(Current(c))})
    BY <1>7 DEF NodeCompletes
  <2>2. /\ at' \in [Comps -> Nat] /\ at'[c] = j /\ \A d \in Comps \ {c} : at'[d] = at[d]
    BY <1>3, <2>1 DEF TypeOK
  <2>3. j \in 1..Len(graph.nodesOf[c])
    BY <1>2, NodeShape, GraphShape DEF LastNode
  <2>4. Current(c)' = next /\ \A d \in Comps \ {c} : Current(d)' = Current(d)
    BY <1>2, <2>2 DEF Current
  <2>5. RecordsFit'
    BY <1>2, <1>3, <1>7, <2>2 DEF RecordsFit, LastNode, Settled
  <2>6. SlotsFit'
    BY <1>2, <1>7, SlotsFrame
  <2>7. CallsHoldSlots'
    <3> SUFFICES ASSUME NEW p \in inFlight'
                 PROVE  /\ pc[p[1]] \in {"node", "failing", "caught"}
                        /\ p = IF p[1] = c THEN next ELSE Current(p[1])
      BY <1>1, <1>2, <1>3, <1>7, <2>4, GraphStays, PlaceShape DEF CallsHoldSlots, TypeOK
    <3>1. CASE p = next
      BY <1>2, <3>1
    <3>2. CASE p \in inFlight \ {Current(c)}
      <4>1. p[1] \in Comps /\ pc[p[1]] \in {"node", "failing", "caught"} /\ p = Current(p[1])
        BY <1>2, <3>2, PlaceShape DEF CallsHoldSlots, TypeOK
      <4> QED
        BY <3>2, <4>1
    <3> QED
      BY <2>1, <3>1, <3>2
  <2>8. QueueFits'
    BY <1>2, <1>7, QueueFrame DEF QueueFits
  <2>9. CallsFit'
    <3>1. Dependencies(c) \subseteq completed
      BY <1>2 DEF QueueFits
    <3>2. pc' \in [Comps -> Places] /\ pc'[c] # "idle" /\ \A d \in Comps \ {c} : pc'[d] = pc[d]
      BY <1>2, <1>7 DEF TypeOK
    <3>3. at[c] < j /\ Results \subseteq Results \cup {NodeAt(Current(c))}
      BY <1>3
    <3> QED
      BY <1>2, <2>1, <2>2, <2>3, <3>1, <3>2, <3>3, CallFits
  <2>10. ResultsFit'
    <3>1. \A i \in 1..at'[c] : HasResult(c, i)' => i <= at[c]
      BY <1>2, <1>3, <2>2 DEF HasResult
    <3>2. at[c] < at'[c] /\ at[c] <= at'[c]
      BY <1>3, <2>2
    <3> QED
      BY <1>2, <1>7, <2>2, <3>1, <3>2, ResultsGrow
  <2>11. WorkFits'
    BY <1>1, <1>2, <1>5, <2>6, <2>7, WorkStep
  <2> QED
    BY <1>1, <1>4, <1>5, <2>5, <2>6, <2>7, <2>8, <2>9, <2>10, <2>11
<1> QED
  BY <1>6, <1>7 DEF NodeCompletes

LEMMA ComponentCompletesStep ==
  ASSUME GraphInv, NEW c \in Comps, ComponentCompletes(c)
  PROVE  GraphInv'
<1> USE DEF GraphInv
<1>1. TypeOK'
  BY TypeRun DEF Run
<1>2. /\ pc[c] = "node" /\ pump = "no" /\ ~Settled /\ LastNode(c)
      /\ order' = Append(order, Current(c))
      /\ inFlight' = inFlight \ {Current(c)}
      /\ record' = [record EXCEPT ![c] = "completed"]
      /\ completed' = completed \cup {c}
      /\ remaining' = [d \in Comps |-> remaining[d] - IF d \in Dependents(c) THEN 1 ELSE 0]
      /\ ready' = ready \cup EnqueuedBy(c)
      /\ scheduled' = scheduled \cup EnqueuedBy(c)
      /\ parent' = [d \in Comps |-> IF d \in EnqueuedBy(c) THEN c ELSE parent[d]]
      /\ pc' = [pc EXCEPT ![c] = "done"]
      /\ UNCHANGED <<graph, pump, slots, at, calls, aborted, result, outcome>>
  BY DEF ComponentCompletes, Finish, AwaitsNode, result
<1>3. Comps' = Comps /\ c \notin completed /\ (\A d \in Comps : Dependencies(d)' = Dependencies(d))
  BY <1>2, GraphStays DEF RecordsFit
<1>4. /\ pc'[c] = "done" /\ \A d \in Comps \ {c} : pc'[d] = pc[d]
      /\ record'[c] = "completed" /\ \A d \in Comps \ {c} : record'[d] = record[d]
  BY <1>2 DEF TypeOK
<1>5. OutcomeIsHonest' /\ PumpFits' /\ ~Settled'
  BY <1>2, OutcomeFrame DEF PumpFits, Settled
<1>6. RecordsFit'
  BY <1>2, <1>3, <1>4 DEF RecordsFit, LastNode, Settled
<1>7. SlotsFit'
  BY <1>2, <1>4, SlotsFrame
<1>8. CallsHoldSlots'
  BY <1>2, <1>4, CallsHoldSlotsFrame
<1>9. \A d \in Comps : /\ IsFiniteSet(Dependencies(d) \ completed)
                       /\ remaining[d] = Cardinality(Dependencies(d) \ completed)
  BY DependencyShape, FS_Difference DEF QueueFits
<1>10. \A d \in Comps : /\ d \in Dependents(c) <=> c \in Dependencies(d) \ completed
                        /\ Dependencies(d) \ completed' = (Dependencies(d) \ completed) \ {c}
  BY <1>2, <1>3, DependencyShape
<1>11. \A d \in Comps : d \in EnqueuedBy(c) <=>
         d \in Dependents(c) /\ Dependencies(d) \subseteq completed'
  <2> SUFFICES ASSUME NEW d \in Comps
               PROVE  d \in EnqueuedBy(c) <=>
                        d \in Dependents(c) /\ Dependencies(d) \subseteq completed'
    OBVIOUS
  <2> DEFINE Open == Dependencies(d) \ completed
  <2>1. CASE d \notin Dependents(c)
    BY <2>1 DEF EnqueuedBy
  <2>2. CASE d \in Dependents(c)
    <3>1. c \in Open /\ IsFiniteSet(Open) /\ remaining[d] = Cardinality(Open)
      BY <1>9, <1>10, <2>2
    <3>2. d \notin scheduled
      BY <3>1 DEF QueueFits
    <3>3. Cardinality(Open) = 1 <=> Open = {c}
      <4> HIDE DEF Open
      <4>1. Cardinality(Open) = 1 => \E x : Open = {x}
        BY <3>1, FS_Singleton
      <4>2. Open = {c} => Cardinality(Open) = 1
        BY FS_Singleton
      <4> QED
        BY <3>1, <4>1, <4>2
    <3>4. Open = {c} <=> Dependencies(d) \subseteq completed'
      BY <1>2, <3>1
    <3> QED
      BY <2>2, <3>1, <3>2, <3>3, <3>4 DEF EnqueuedBy
  <2> QED
    BY <2>1, <2>2
<1>12. QueueFits'
  <2>1. ASSUME NEW d \in Comps PROVE remaining'[d] = Cardinality(Dependencies(d) \ completed')
    <3>1. remaining'[d] = remaining[d] - IF d \in Dependents(c) THEN 1 ELSE 0
      BY <1>2
    <3>2. Cardinality((Dependencies(d) \ completed) \ {c}) =
            IF c \in Dependencies(d) \ completed
            THEN Cardinality(Dependencies(d) \ completed) - 1
            ELSE Cardinality(Dependencies(d) \ completed)
      BY <1>9, FS_RemoveElement
    <3>3. remaining[d] \in Int /\ remaining[d] = Cardinality(Dependencies(d) \ completed)
      BY <1>9 DEF TypeOK
    <3>4. Dependencies(d) \ completed' = (Dependencies(d) \ completed) \ {c}
      BY <1>10
    <3>5. d \in Dependents(c) <=> c \in Dependencies(d) \ completed
      BY <1>10
    <3>6. remaining'[d] = Cardinality((Dependencies(d) \ completed) \ {c})
      BY <3>1, <3>2, <3>3, <3>5
    <3> QED
      BY <3>4, <3>6
  <2>2. ASSUME NEW d \in Comps
        PROVE  Dependencies(d) \subseteq completed' <=> d \in ready' \/ pc'[d] # "idle"
    <3>1. d \in Dependents(c) => ~(Dependencies(d) \subseteq completed)
      BY <1>10
    <3>2. d \notin Dependents(c) =>
            (Dependencies(d) \subseteq completed' <=> Dependencies(d) \subseteq completed)
      BY <1>2, <1>10
    <3>3. Dependencies(d) \subseteq completed <=> d \in ready \/ pc[d] # "idle"
      BY DEF QueueFits
    <3>4. pc'[d] # "idle" <=> pc[d] # "idle"
      BY <1>2, <1>4
    <3>5. d \in ready' <=> d \in ready \/ d \in EnqueuedBy(c)
      BY <1>2
    <3> QED
      BY <1>11, <3>1, <3>2, <3>3, <3>4, <3>5
  <2>3. ASSUME NEW d \in ready' PROVE pc'[d] = "idle"
    <3>1. CASE d \in ready
      BY <1>2, <1>4, <3>1 DEF QueueFits, TypeOK
    <3>2. CASE d \in EnqueuedBy(c)
      <4>1. d \in Comps /\ ~(Dependencies(d) \subseteq completed)
        BY <1>10, <3>2, DependencyShape DEF EnqueuedBy
      <4>2. pc[d] = "idle"
        BY <4>1 DEF QueueFits
      <4> QED
        BY <1>2, <1>4, <4>1, <4>2
    <3> QED
      BY <1>2, <3>1, <3>2
  <2>4. scheduled' = {d \in Comps : Dependencies(d) # {} /\ Dependencies(d) \subseteq completed'}
    <3>1. ASSUME NEW d \in Comps
          PROVE  d \in scheduled' <=> Dependencies(d) # {} /\ Dependencies(d) \subseteq completed'
      <4>1. d \in scheduled <=> Dependencies(d) # {} /\ Dependencies(d) \subseteq completed
        BY DEF QueueFits
      <4>2. d \in Dependents(c) => Dependencies(d) # {}
        BY <1>10
      <4>3. d \notin Dependents(c) =>
              (Dependencies(d) \subseteq completed' <=> Dependencies(d) \subseteq completed)
        BY <1>2, <1>10
      <4>4. d \in scheduled => d \notin Dependents(c)
        BY <1>10, <4>1
      <4>5. d \in scheduled' <=> d \in scheduled \/ d \in EnqueuedBy(c)
        BY <1>2
      <4> QED
        BY <1>11, <4>1, <4>2, <4>3, <4>4, <4>5
    <3>2. scheduled' \subseteq Comps
      BY <1>1, <1>3 DEF TypeOK
    <3> QED
      BY <3>1, <3>2
  <2> QED
    BY <1>3, <2>1, <2>2, <2>3, <2>4 DEF QueueFits
<1>13. CallsFit'
  BY <1>2, <1>4, CallsFrame
<1>14. ResultsFit'
  <2>1. at[c] \in Nat \ {0} /\ at' \in [Comps -> Nat]
    BY <1>2, ResultIsNew DEF TypeOK
  <2>2. \A j \in 1..at'[c] : HasResult(c, j)' => j <= at[c]
    BY <1>2, <2>1
  <2>3. c \in completed' /\ at[c] <= at'[c]
    BY <1>2, <2>1
  <2>4. \A d \in Comps \ {c} : d \in completed' <=> d \in completed
    BY <1>2
  <2> QED
    BY <1>2, <1>4, <2>1, <2>2, <2>3, <2>4, ResultsGrow
<1>15. ParentsFit'
  <2> DEFINE Later(d) == CHOOSE i \in DOMAIN order' :
                           order'[i] = <<d, Len(graph.nodesOf[d])>>
  <2>1. /\ \A d \in completed : graph.nodesOf[d] # <<>> =>
             Position(d) \in 1..Len(order) /\ Position(d)' = Position(d)
        /\ Position(c)' = Len(order) + 1 /\ Len(order) \in Nat
    BY <1>2, PositionsStay, ResultIsNew
  <2>2. /\ \A d \in completed : graph.nodesOf[d] # <<>> =>
             Position(d) \in 1..Len(order) /\ Later(d) = Position(d)
        /\ Later(c) = Len(order) + 1
    BY <1>2, <2>1 DEF Position
  <2>3. ASSUME NEW d \in Comps, d \notin scheduled' PROVE parent'[d] = NoParent
    BY <1>2, <2>3 DEF ParentsFit
  <2> HIDE DEF Later
  <2>4. ASSUME NEW d \in EnqueuedBy(c)
        PROVE  /\ parent'[d] \in Dependencies(d)
               /\ \A e \in Dependencies(d) : Later(e) <= Later(parent'[d])
    <3>1. d \in Comps /\ c \in Dependencies(d) /\ Dependencies(d) \subseteq completed'
      BY <1>10, <1>11, <2>4, DependencyShape DEF EnqueuedBy
    <3>2. parent'[d] = c
      BY <1>2, <2>4, <3>1
    <3>3. \A e \in Dependencies(d) : Later(e) <= Len(order) + 1
      BY <1>2, <2>1, <2>2, <3>1, DependenciesHaveNodes
    <3> QED
      BY <2>2, <3>1, <3>2, <3>3
  <2>5. ASSUME NEW d \in scheduled, d \notin EnqueuedBy(c)
        PROVE  /\ parent'[d] \in Dependencies(d)
               /\ \A e \in Dependencies(d) : Later(e) <= Later(parent'[d])
    <3>1. d \in Comps /\ Dependencies(d) \subseteq completed
      BY DEF QueueFits
    <3>2. parent'[d] = parent[d]
      BY <1>2, <2>5, <3>1
    <3>3. /\ parent[d] \in Dependencies(d)
          /\ \A e \in Dependencies(d) : Position(e) <= Position(parent[d])
      BY <3>1 DEF ParentsFit
    <3>4. \A e \in Dependencies(d) : Later(e) = Position(e)
      BY <2>2, <3>1, DependenciesHaveNodes
    <3> QED
      BY <3>2, <3>3, <3>4
  <2>6. \A d \in scheduled' : /\ parent'[d] \in Dependencies(d)
                              /\ \A e \in Dependencies(d) : Later(e) <= Later(parent'[d])
    BY <1>2, <2>4, <2>5
  <2>7. ASSUME NEW d \in scheduled'
        PROVE  /\ parent'[d] \in Dependencies(d)'
               /\ \A e \in Dependencies(d)' : Position(e)' <= Position(parent[d])'
    <3>1. d \in Comps
      BY <1>1, <1>3 DEF TypeOK
    <3>2. graph' = graph
      BY <1>2
    <3>3. (\A e : Position(e)' = Later(e)) /\ Position(parent[d])' = Later(parent'[d])
      BY <3>2 DEF Position, Later
    <3>4. \A e \in Dependencies(d) : Later(e) <= Later(parent'[d])
      BY <2>6
    <3>5. \A e \in Dependencies(d)' : e \in Dependencies(d)
      BY <1>3, <3>1
    <3>6. parent'[d] \in Dependencies(d)'
      BY <1>3, <2>6, <3>1
    <3> QED
      BY <3>3, <3>4, <3>5, <3>6
  <2> QED
    BY <1>3, <2>3, <2>7 DEF ParentsFit
<1>16. WorkFits'
  BY <1>1, <1>2, <1>7, <1>8, WorkStep
<1> QED
  BY <1>1, <1>5, <1>6, <1>7, <1>8, <1>12, <1>13, <1>14, <1>15, <1>16

-----------------------------------------------------------------------------
(* The invariant *)

LEMMA GraphInit == Init => GraphInv
<1> SUFFICES ASSUME Init PROVE GraphInv
  OBVIOUS
<1>1. PlannedGraph(graph)
  BY GraphsAssumption DEF Init
<1>2. Comps = 1..Len(graph.nodesOf) /\ Len(graph.nodesOf) \in Nat
  BY <1>1 DEF PlannedGraph, Comps
<1>3. \A c \in Comps : graph.nodesOf[c] \in Seq(Nodes)
  BY <1>1, <1>2 DEF PlannedGraph, Comps
<1>4. \A c \in Comps : Len(graph.nodesOf[c]) \in Nat /\ (graph.nodesOf[c] # <<>> => Len(graph.nodesOf[c]) # 0)
  BY <1>3, EmptySeq
<1>5. \A c \in Comps : IsFiniteSet(Dependencies(c)) /\ Cardinality(Dependencies(c)) \in Nat
  <2>1. \A c \in Comps : Dependencies(c) \in SUBSET Comps
    BY DEF Dependencies
  <2>2. IsFiniteSet(Comps)
    BY <1>2, FS_Interval
  <2> QED
    BY <2>1, <2>2, FS_Subset, FS_CardinalityType
<1>6. TypeOK
  <2>1. remaining \in [Comps -> Int]
    BY <1>5 DEF Init
  <2>2. at \in [Comps -> Nat] /\ \A c \in Comps :
          at[c] <= Len(graph.nodesOf[c]) /\ (at[c] = 0 => graph.nodesOf[c] = <<>>)
    BY <1>4 DEF Init
  <2>3. /\ pc \in [Comps -> Places] /\ record \in [Comps -> RecordStatus]
        /\ executions \in [Comps -> RecordStatus]
        /\ parent \in [Comps -> Comps \cup {NoParent}]
    BY DEF Init, Places, RecordStatus
  <2>4. order \in Seq(PlanPlaces) /\ calls \in Seq([place : PlanPlaces, given : SUBSET Nodes])
    BY DEF Init
  <2>5. ready \subseteq Comps /\ activeCountByKey \in [Keys -> Int] /\ activeCount \in Int
    BY DEF Init
  <2> QED
    BY <2>1, <2>2, <2>3, <2>4, <2>5 DEF Init, TypeOK
<1>7. PumpFits /\ RecordsFit
  BY DEF Init, PumpFits, RecordsFit, Settled
<1>8. SlotsFit
  <2>1. Occupied = {} /\ \A k : OccupiedWith(k) = {}
    BY DEF Init, Occupied, OccupiedWith
  <2>2. Cardinality(Occupied) = 0 /\ \A k : Cardinality(OccupiedWith(k)) = 0
    BY <2>1, FS_EmptySet
  <2>3. \A k \in Keys : KeyLimit[k] # NoLimit => AtLeastOne(KeyLimit[k]) \in Nat
    BY LimitsAssumption DEF AtLeastOne
  <2> QED
    BY <2>2, <2>3, LimitsAssumption DEF Init, SlotsFit
<1>9. CallsHoldSlots
  BY DEF Init, CallsHoldSlots
<1>10. QueueFits
  <2>1. \A c \in Comps : Dependencies(c) \ {} = Dependencies(c)
    OBVIOUS
  <2> QED
    BY <2>1 DEF Init, QueueFits
<1>11. CallsFit
  BY DEF Init, CallsFit
<1>12. ResultsFit
  BY DEF Init, ResultsFit, HasResult
<1>13. ParentsFit
  BY DEF Init, ParentsFit
<1>14. OutcomeIsHonest
  BY DEF Init, OutcomeIsHonest
<1>15. WorkFits
  BY <1>6, <1>7, <1>8, <1>9, FlightBound DEF Init, Settled
<1> QED
  BY <1>6, <1>7, <1>8, <1>9, <1>10, <1>11, <1>12, <1>13, <1>14, <1>15 DEF GraphInv

LEMMA GraphStep == GraphInv /\ [Next]_vars => GraphInv'
<1> SUFFICES ASSUME GraphInv, [Next]_vars PROVE GraphInv'
  OBVIOUS
<1>1. CASE Begin \/ PumpEnds
  BY <1>1, BeginStep, PumpEndsStep
<1>2. ASSUME NEW c \in Comps, StartEmpty(c) \/ StartComponent(c) \/ StartAborted(c)
      PROVE  GraphInv'
  BY <1>2, StartEmptyStep, StartComponentStep, StartAbortedStep
<1>3. ASSUME NEW c \in Comps, Run(c) PROVE GraphInv'
  BY <1>3, NodeEndsBadlyStep, NodeCompletesStep, ComponentCompletesStep, CatchFailureStep,
     ReleaseStep, ReleaseFailedStep DEF Run
<1>4. CASE (\E p \in inFlight : DetachedNodeEnds(p)) \/ Abort \/ UNCHANGED vars
  BY <1>4, WorldStep
<1> QED
  BY <1>1, <1>2, <1>3, <1>4 DEF Next, Pump

LEMMA GraphAlways == Spec => []GraphInv
BY GraphInit, GraphStep, PTL DEF Spec

-----------------------------------------------------------------------------
(* Theorems *)

(***************************************************************************)
(* The variables of a run keep their types; in particular no component     *)
(* runs past its last node.                                                *)
(***************************************************************************)
THEOREM GraphTypesKeep == Spec => []TypeOK
BY GraphAlways, PTL DEF GraphInv

(***************************************************************************)
(* In a run of any plan the engine accepts each place runs at most once,   *)
(* so a node of a partition does; in the component the engine takes it to  *)
(* be in a node has the results of all its predecessors in others; and an  *)
(* execution is delegated by the dependency that completed last            *)
(* (executor.ts:363, 775-810).  A node that a caller's plan has in two     *)
(* places may run twice, and outside its component without those results.  *)
(***************************************************************************)
THEOREM RunsFollowDependencies == Spec => []NodesRunOnceAfterDependencies
<1>1. GraphInv => NodesRunOnceAfterDependencies
  <2> SUFFICES ASSUME GraphInv PROVE NodesRunOnceAfterDependencies
    OBVIOUS
  <2> USE DEF GraphInv
  <2>1. ASSUME NEW c \in Comps, record[c] # "none"
        PROVE  IF Dependencies(c) = {} THEN parent[c] = NoParent
               ELSE /\ parent[c] \in Dependencies(c) \cap completed
                    /\ \A d \in Dependencies(c) \cap completed : Position(d) <= Position(parent[c])
    <3>1. Dependencies(c) \subseteq completed
      BY <2>1 DEF RecordsFit, QueueFits
    <3>2. c \in scheduled <=> Dependencies(c) # {}
      BY <3>1 DEF QueueFits
    <3> QED
      BY <3>1, <3>2 DEF ParentsFit
  <2>2. DelegatedByLastDependency
    BY <2>1 DEF DelegatedByLastDependency
  <2>3. ASSUME Partition(graph), NEW i \in DOMAIN calls, NEW j \in DOMAIN calls,
               NodeAt(calls[i].place) = NodeAt(calls[j].place)
        PROVE  i = j
    <3> DEFINE p == calls[i].place
               q == calls[j].place
    <3>1. p \in PlanPlaces /\ q \in PlanPlaces
      BY CalledPlaces
    <3>2. /\ p = <<p[1], p[2]>> /\ p[1] \in Comps /\ p[2] \in DOMAIN graph.nodesOf[p[1]]
          /\ q = <<q[1], q[2]>> /\ q[1] \in Comps /\ q[2] \in DOMAIN graph.nodesOf[q[1]]
      BY <3>1, PlaceShape, GraphShape
    <3>3. p[1] = q[1] /\ p[2] = q[2]
      BY <2>3, <3>2 DEF Partition, NodeAt, Comps
    <3> QED
      BY <3>2, <3>3 DEF CallsFit
  <2>4. /\ \A i, j \in DOMAIN calls : calls[i].place = calls[j].place => i = j
        /\ \A i \in DOMAIN calls : HasNeeded(calls[i])
    BY DEF CallsFit
  <2> QED
    BY <2>2, <2>3, <2>4 DEF NodesRunOnceAfterDependencies, HasNeeded
<1> QED
  BY <1>1, GraphAlways, PTL

(***************************************************************************)
(* The calls of executeNode under way never exceed maxConcurrency nor the  *)
(* limit of their key, those that timed out and go on unawaited included.  *)
(***************************************************************************)
THEOREM WorkStaysBounded == Spec => []WorkIsBounded
BY GraphAlways, PTL DEF GraphInv, WorkFits

(***************************************************************************)
(* The status run() resolves with tells what happened: completed with all  *)
(* results, failed by a failed execution or a circle of components, or     *)
(* cancelled by an abort.                                                  *)
(***************************************************************************)
THEOREM OutcomesAreHonest == Spec => []OutcomeIsHonest
BY GraphAlways, PTL DEF GraphInv

(***************************************************************************)
(* After the promise of run() settled no branch that goes on changes its   *)
(* outcome, stores a result or starts a node.                              *)
(***************************************************************************)
THEOREM SettledRunsStayFrozen == Spec => SettledRunIsFrozen
<1>1. GraphInv /\ [Next]_vars =>
        [Settled => UNCHANGED <<outcome, executions, order, calls, completed>>]_vars
  <2> SUFFICES ASSUME GraphInv, [Next]_vars, Settled
               PROVE  UNCHANGED <<outcome, executions, order, calls, completed>>
    OBVIOUS
  <2>1. pump = "no"
    BY DEF GraphInv, PumpFits, TypeOK
  <2>2. ~Pump
    BY <2>1 DEF Pump, Begin, PumpEnds, PumpDone, StartEmpty, StartComponent, StartAborted, CanStart
  <2>3. ASSUME NEW c \in Comps, Run(c)
        PROVE  UNCHANGED <<outcome, executions, order, calls, completed>>
    BY <2>3
    DEF Run, NodeEndsLate, NodeCompletes, ComponentCompletes, NodeFails, CatchFailure,
        Release, ReleaseFailed, CallPump, scheduler, progress, result
  <2>4. CASE (\E p \in inFlight : DetachedNodeEnds(p)) \/ Abort \/ UNCHANGED vars
    BY <2>4 DEF DetachedNodeEnds, Abort, vars, scheduler, progress, result
  <2> QED
    BY <2>2, <2>3, <2>4 DEF Next
<1> QED
  BY <1>1, GraphAlways, PTL DEF Spec, SettledRunIsFrozen

-----------------------------------------------------------------------------
(***************************************************************************)
(* Part three: runs of the planner's plans.                                *)
(***************************************************************************)

\* What the engine is given of the plan of g: each component once, and each of
\* its nodes once, in any order.
PlanOf(p, g) ==
  /\ Graph(g) /\ p.edges = g.edges /\ Partition(p)
  /\ {{p.nodesOf[c][i] : i \in DOMAIN p.nodesOf[c]} : c \in DOMAIN p.nodesOf}
       = ToSet(Plan(g).components)

\* A run fails for nothing but an execution that failed.
FailsByExecution == outcome = "failed" => \E c \in Comps : executions[c] = "failed"

\* No components of a plan wait for each other in a circle: of those that do,
\* the one that was found last would wait for one that was found later.
LEMMA NoCircle ==
  ASSUME TypeOK, NEW g, PlanOf(graph, g), NEW C \in SUBSET Comps, C # {}
  PROVE  \E c \in C : Dependencies(c) \cap C = {}
<1> DEFINE comps == Components(g)
           K == {k \in DOMAIN comps : \E c \in C : NodeSet(c) = comps[k]}
           Bad == {Len(comps) - k : k \in K}
<1>1. Graph(g) /\ OrderedCycles(g, comps)
  BY ComponentsAreOrdered DEF PlanOf
<1>2. \A c \in Comps : \E k \in DOMAIN comps : NodeSet(c) = comps[k]
  <2>1. {NodeSet(c) : c \in Comps} = ToSet(comps)
    BY DEF PlanOf, Plan, PlanComponents, PlanWith, NodeSet, NodesIn, Comps
  <2> HIDE DEF comps
  <2> QED
    BY <2>1 DEF ToSet
<1> HIDE DEF comps
<1>3. Len(comps) \in Nat /\ DOMAIN comps = 1..Len(comps)
  BY <1>1, CyclesAreClasses
<1>4. PICK k \in K : \A l \in K : l <= k
  <2>1. Bad \in SUBSET Nat /\ Bad # {}
    <3>1. K \subseteq 1..Len(comps) /\ K # {}
      BY <1>2, <1>3
    <3> HIDE DEF K
    <3> QED
      BY <1>3, <3>1
  <2>2. PICK least \in Bad : \A i \in Bad : least <= i
    <3> HIDE DEF Bad
    <3> QED
      BY <2>1, LeastOf
  <2>3. K \subseteq 1..Len(comps)
    BY <1>3
  <2> HIDE DEF K
  <2>4. PICK k \in K : least = Len(comps) - k
    BY <2>2
  <2>5. ASSUME NEW l \in K PROVE l <= k
    <3>1. Len(comps) - l \in Bad
      OBVIOUS
    <3>2. Len(comps) - k <= Len(comps) - l
      BY <2>2, <2>4, <3>1
    <3> QED
      BY <1>3, <2>3, <3>2
  <2> QED
    BY <2>5
<1>5. PICK c \in C : NodeSet(c) = comps[k]
  OBVIOUS
<1>6. ASSUME NEW d \in Dependencies(c) \cap C PROVE FALSE
  <2>1. d \in Comps /\ d # c /\ d \in C
    BY DEF Dependencies
  <2>2. PICK m \in NodeSet(d), n \in NodeSet(c) : <<m, n>> \in graph.edges
    <3>1. PICK e \in graph.edges : Home(e[1]) = d /\ Home(e[2]) = c
      BY DEF Dependencies
    <3>2. e[1] \in NodeSet(d) /\ e[2] \in NodeSet(c)
      BY <3>1, GraphShape
    <3>3. e = <<e[1], e[2]>>
      BY <3>1, EdgeShape DEF PlanOf
    <3> QED
      BY <3>1, <3>2, <3>3
  <2>3. PICK l \in DOMAIN comps : NodeSet(d) = comps[l]
    BY <1>2, <2>1
  <2>4. l <= k
    BY <1>4, <2>1, <2>3
  <2>5. PICK i \in 1..l : n \in comps[i]
    <3>1. <<m, n>> \in g.edges
      BY <2>2 DEF PlanOf
    <3>2. \A e \in g.edges : e[1] \in comps[l] => \E j \in 1..l : e[2] \in comps[j]
      BY <1>1, <2>3 DEF OrderedCycles
    <3>3. <<m, n>>[1] \in comps[l] => \E j \in 1..l : <<m, n>>[2] \in comps[j]
      BY <3>1, <3>2
    <3> QED
      BY <2>2, <2>3, <3>3
  <2>6. i = k
    <3>1. i \in DOMAIN comps /\ k \in DOMAIN comps /\ n \in comps[k]
      BY <1>3, <1>5, <2>2, <2>3
    <3> QED
      BY <1>1, <2>5, <3>1 DEF OrderedCycles
  <2>7. NodeSet(d) = NodeSet(c)
    BY <1>3, <1>5, <2>3, <2>4, <2>5, <2>6
  <2>8. c = d
    <3>1. \A b \in {c, d} : NodeSet(b) = {graph.nodesOf[b][o] : o \in 1..Len(graph.nodesOf[b])}
      BY <2>1, NodeShape
    <3>2. PICK x \in 1..Len(graph.nodesOf[c]) : n = graph.nodesOf[c][x]
      BY <2>2, <3>1
    <3>3. PICK y \in 1..Len(graph.nodesOf[d]) : n = graph.nodesOf[d][y]
      BY <2>2, <2>7, <3>1
    <3>4. graph.nodesOf[c][x] = graph.nodesOf[d][y] /\ c \in Comps /\ d \in Comps
      BY <2>1, <3>2, <3>3
    <3>5. x \in DOMAIN graph.nodesOf[c] /\ y \in DOMAIN graph.nodesOf[d]
      BY <3>2, <3>3, <3>4, GraphShape
    <3> QED
      BY <3>4, <3>5 DEF PlanOf, Partition, Comps
  <2> QED
    BY <2>1, <2>8
<1> QED
  BY <1>5, <1>6

(***************************************************************************)
(* Runs of the planner's plans do not stall: the engine fails such a run   *)
(* only when an execution failed, never with components left that could    *)
(* not become ready (executor.ts:225-234; planner.ts:197-221).             *)
(***************************************************************************)
THEOREM PlannedRunsNeverStall ==
  ASSUME \A p \in Graphs : \E g : PlanOf(p, g)
  PROVE  Spec => []FailsByExecution
<1>1. GraphInv => FailsByExecution
  <2> SUFFICES ASSUME GraphInv, outcome = "failed"
               PROVE  \E c \in Comps : executions[c] = "failed"
    BY DEF FailsByExecution
  <2>1. TypeOK /\ graph \in Graphs
    BY DEF GraphInv, TypeOK
  <2>2. PICK g : PlanOf(graph, g)
    BY <2>1
  <2>3. \/ \E c \in Comps : executions[c] = "failed"
        \/ \E C \in (SUBSET Comps) \ {{}} : \A c \in C : Dependencies(c) \cap C # {}
    BY DEF GraphInv, OutcomeIsHonest
  <2>4. ~(\E C \in (SUBSET Comps) \ {{}} : \A c \in C : Dependencies(c) \cap C # {})
    BY <2>1, <2>2, NoCircle
  <2> QED
    BY <2>3, <2>4
<1> QED
  BY <1>1, GraphAlways, PTL
=============================================================================
