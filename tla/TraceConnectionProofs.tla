------------------------ MODULE TraceConnectionProofs ------------------------
(***************************************************************************)
(* What a trace connection sends is in order, what it holds is bounded and *)
(* what it drops is counted, for any settings, any number of events and of *)
(* updates, also when messages throw.                                      *)
(***************************************************************************)
EXTENDS TraceConnection, Recursion, Integers, SequenceTheorems, FiniteSetTheorems, TLAPS

Message == [events : Seq(Nat), dropped : Nat]

\* Messages, the events that wait after them, and the number of the next one.
Ordered(messages, waiting, next) ==
  /\ Ascending(waiting) /\ Below(waiting, <<next>>)
  /\ \A i \in DOMAIN messages :
       /\ Ascending(messages[i].events)
       /\ Below(messages[i].events, waiting) /\ Below(messages[i].events, <<next>>)
       /\ \A j \in DOMAIN messages : i < j => Below(messages[i].events, messages[j].events)

\* Every event is one of queue.
Taken(events, queue) == \A i \in DOMAIN events : \E k \in DOMAIN queue : events[i] = queue[k]

-----------------------------------------------------------------------------
(* Batches *)

LEMMA TimesMonotone ==
  ASSUME NEW a \in Nat, NEW b \in Nat, NEW size \in Nat, a <= b
  PROVE  a * size <= b * size
OBVIOUS

LEMMA BatchCountBounds ==
  ASSUME NEW n \in Nat, NEW size \in Nat \ {0}
  PROVE  /\ BatchCount(n, size) \in Nat
         /\ n <= BatchCount(n, size) * size
         /\ (BatchCount(n, size) - 1) * size < n
<1> DEFINE count == (n + size - 1) \div size
<1>1. \A a \in Nat : /\ a \div size \in Nat
                     /\ (a \div size) * size <= a
                     /\ a < ((a \div size) + 1) * size
  OBVIOUS
<1>2. n + size - 1 \in Nat
  OBVIOUS
<1>3. count \in Nat /\ count * size <= n + size - 1 /\ n + size - 1 < (count + 1) * size
  BY <1>1, <1>2
<1>4. (count + 1) * size = count * size + size /\ (count - 1) * size = count * size - size
      /\ count * size \in Nat
  <2> HIDE DEF count
  <2> QED
    BY <1>3
<1>5. n <= count * size /\ (count - 1) * size < n
  <2> HIDE DEF count
  <2> QED
    BY <1>3, <1>4
<1> QED
  BY <1>3, <1>5 DEF BatchCount

LEMMA BatchCountMonotone ==
  ASSUME NEW a \in Nat, NEW b \in Nat, NEW size \in Nat \ {0}, a <= b
  PROVE  BatchCount(a, size) <= BatchCount(b, size)
<1>1. /\ BatchCount(a, size) \in Nat /\ BatchCount(b, size) \in Nat
      /\ (BatchCount(a, size) - 1) * size < BatchCount(b, size) * size
  <2>1. /\ BatchCount(a, size) \in Nat /\ BatchCount(b, size) \in Nat
        /\ (BatchCount(a, size) - 1) * size < a
        /\ b <= BatchCount(b, size) * size
    BY BatchCountBounds
  <2>2. /\ (BatchCount(a, size) - 1) * size \in Int
        /\ BatchCount(b, size) * size \in Int
    BY <2>1
  <2> QED
    BY <2>1, <2>2
<1>2. CASE BatchCount(b, size) + 1 <= BatchCount(a, size)
  <2>1. BatchCount(b, size) * size <= (BatchCount(a, size) - 1) * size
    BY <1>1, <1>2, TimesMonotone
  <2> QED
    BY <1>1, <2>1
<1> QED
  BY <1>1, <1>2

\* Events that are the part of queue after from.
Window(events, queue, from) ==
  /\ events \in Seq(Nat)
  /\ \A x \in DOMAIN events :
       x \in Nat \ {0} /\ from + x \in DOMAIN queue /\ events[x] = queue[from + x]

Until(events, from, to) == \A x \in DOMAIN events : from + x <= to

LEMMA PartIsWindow ==
  ASSUME NEW queue \in Seq(Nat), NEW from \in Nat, NEW to \in Nat, to <= Len(queue)
  PROVE  /\ Window(SubSeq(queue, from + 1, to), queue, from)
         /\ Until(SubSeq(queue, from + 1, to), from, to)
         /\ from <= to => Len(SubSeq(queue, from + 1, to)) = to - from
<1>1. \A k \in (from + 1)..to : queue[k] \in Nat /\ k \in DOMAIN queue
  OBVIOUS
<1>2. CASE from <= to
  <2>1. /\ SubSeq(queue, from + 1, to) = [x \in 1..(to - from) |-> queue[from + x]]
        /\ to - from \in Nat
    BY <1>2
  <2>2. \A x \in 1..(to - from) : queue[from + x] \in Nat /\ from + x \in DOMAIN queue
    BY <1>1
  <2> QED
    BY <2>1, <2>2 DEF Window, Until
<1>3. CASE to < from
  BY <1>3 DEF Window, Until
<1> QED
  BY <1>2, <1>3

LEMMA WindowIsOrdered ==
  ASSUME NEW queue \in Seq(Nat), Ascending(queue), NEW from \in Nat, NEW events,
         Window(events, queue, from)
  PROVE  Ascending(events) /\ Taken(events, queue)
<1>1. \A a, b \in DOMAIN queue : a < b => queue[a] < queue[b]
  BY DEF Ascending
<1> QED
  BY <1>1 DEF Window, Ascending, Taken

LEMMA WindowsAreOrdered ==
  ASSUME NEW queue \in Seq(Nat), Ascending(queue),
         NEW a \in Nat, NEW b \in Nat, NEW c \in Nat, b <= c, NEW u, NEW v,
         Window(u, queue, a), Until(u, a, b), Window(v, queue, c)
  PROVE  Below(u, v)
<1>1. \A k, l \in DOMAIN queue : k < l => queue[k] < queue[l]
  BY DEF Ascending
<1> QED
  BY <1>1 DEF Window, Until, Below

LEMMA WindowIsBelow ==
  ASSUME NEW queue \in Seq(Nat), NEW next \in Nat, Below(queue, <<next>>),
         NEW from \in Nat, NEW events, Window(events, queue, from)
  PROVE  Below(events, <<next>>)
BY DEF Window, Below

\* The i-th batch is the part of the queue from (i - 1) * size to i * size.
LEMMA BatchFacts ==
  ASSUME NEW queue \in Seq(Nat), NEW size \in Nat \ {0},
         NEW i \in 1..BatchCount(Len(queue), size)
  PROVE  /\ Batches(queue, size)[i] \in Message
         /\ Batches(queue, size)[i].dropped = 0
         /\ Window(Batches(queue, size)[i].events, queue, (i - 1) * size)
         /\ Until(Batches(queue, size)[i].events, (i - 1) * size, i * size)
<1> DEFINE from == (i - 1) * size
           to == AtMost(i * size, Len(queue))
           events == SubSeq(queue, from + 1, to)
<1>1. /\ from \in Nat /\ to \in Nat /\ to <= Len(queue) /\ to <= i * size
      /\ i * size \in Nat
  <2>1. BatchCount(Len(queue), size) \in Nat
    BY BatchCountBounds
  <2>2. i \in Nat /\ i - 1 \in Nat
    BY <2>1
  <2>3. i * size \in Nat /\ (i - 1) * size \in Nat
    BY <2>2
  <2> QED
    BY <2>2, <2>3 DEF AtMost
<1>2. Batches(queue, size)[i] = [events |-> events, dropped |-> 0]
  BY DEF Batches, Batch
<1>3. from \in Nat /\ to \in Nat /\ to <= Len(queue)
  BY <1>1
<1>4. Window(events, queue, from) /\ Until(events, from, to)
  <2> HIDE DEF from, to
  <2> QED
    BY <1>3, PartIsWindow
<1>5. events \in Seq(Nat) /\ \A x \in DOMAIN events : x \in Nat /\ from + x <= to
  <2> HIDE DEF from, to, events
  <2> QED
    BY <1>4 DEF Window, Until
<1>6. \A x \in Nat : from + x <= to => from + x <= i * size
  <2> DEFINE most == i * size
  <2>1. most \in Nat /\ to <= most
    BY <1>1
  <2> HIDE DEF from, to, most
  <2>2. \A x \in Nat : from + x <= to => from + x <= most
    BY <1>3, <2>1
  <2> QED
    BY <2>2 DEF most
<1>7. Until(events, from, i * size)
  <2> HIDE DEF from, to, events
  <2> QED
    BY <1>5, <1>6 DEF Until
<1> HIDE DEF from, to, events
<1>8. /\ Batches(queue, size)[i] \in Message /\ Batches(queue, size)[i].dropped = 0
      /\ Batches(queue, size)[i].events = events
  BY <1>2, <1>5 DEF Message
<1> QED
  BY <1>4, <1>7, <1>8 DEF from

\* What is left after n batches is what starts after n * size.
LEMMA AfterFacts ==
  ASSUME NEW queue \in Seq(Nat), NEW size \in Nat \ {0}, NEW n \in Nat
  PROVE  /\ Window(After(queue, size, n), queue, n * size)
         /\ Len(After(queue, size, n)) = Len(queue) - AtMost(n * size, Len(queue))
<1> DEFINE first == n * size
           gone == AtMost(first, Len(queue))
           rest == SubSeq(queue, gone + 1, Len(queue))
<1>1. first \in Nat /\ Len(queue) \in Nat
  OBVIOUS
<1>2. After(queue, size, n) = rest
  BY DEF After
<1>3. gone \in Nat /\ gone <= Len(queue) /\ (gone = first \/ gone = Len(queue))
  <2> HIDE DEF first
  <2> QED
    BY <1>1 DEF AtMost
<1>4. Window(rest, queue, gone) /\ Len(rest) = Len(queue) - gone
  <2>1. Len(queue) \in Nat /\ Len(queue) <= Len(queue)
    OBVIOUS
  <2> HIDE DEF gone
  <2> QED
    BY <1>3, <2>1, PartIsWindow
<1>5. Window(rest, queue, first)
  <2> HIDE DEF first, gone, rest
  <2>1. CASE gone = first
    BY <1>4, <2>1
  <2>2. CASE gone = Len(queue)
    <3>1. Len(rest) = 0 /\ rest \in Seq(Nat)
      BY <1>1, <1>4, <2>2 DEF Window
    <3>2. DOMAIN rest = {}
      BY <3>1
    <3> QED
      BY <3>1, <3>2 DEF Window
  <2> QED
    BY <1>3, <2>1, <2>2
<1> HIDE DEF rest
<1> QED
  BY <1>2, <1>4, <1>5

\* The oldest batch of a queue, when it is not empty.
LEMMA OneBatch ==
  ASSUME NEW queue \in Seq(Nat), NEW size \in Nat \ {0}
  PROVE  /\ AtMost(1, Len(queue)) \in 0..BatchCount(Len(queue), size)
         /\ After(queue, size, 1) = After(queue, size, AtMost(1, Len(queue)))
<1> DEFINE n == AtMost(1, Len(queue))
<1>1. n \in 0..BatchCount(Len(queue), size)
  <2>1. /\ Len(queue) \in Nat /\ BatchCount(Len(queue), size) \in Nat
        /\ Len(queue) <= BatchCount(Len(queue), size) * size
    BY BatchCountBounds
  <2>2. BatchCount(Len(queue), size) = 0 => Len(queue) = 0
    BY <2>1
  <2> QED
    BY <2>1, <2>2 DEF AtMost
<1>2. After(queue, size, 1) = After(queue, size, n)
  <2>1. CASE Len(queue) = 0
    <3>1. n = 0 /\ 0 * size = 0 /\ 1 * size = size
      BY <2>1 DEF AtMost
    <3> QED
      BY <2>1, <3>1 DEF After, AtMost
  <2>2. CASE Len(queue) # 0
    BY <2>2 DEF AtMost
  <2> QED
    BY <2>1, <2>2
<1> QED
  BY <1>1, <1>2

-----------------------------------------------------------------------------
(* Order *)

\* The first n batches of an ordered queue, and what is left of it after as
\* many or more.
LEMMA SplitOrdered ==
  ASSUME NEW queue \in Seq(Nat), NEW size \in Nat \ {0}, NEW next \in Nat,
         Ascending(queue), Below(queue, <<next>>),
         NEW n \in 0..BatchCount(Len(queue), size),
         NEW first, first = SubSeq(Batches(queue, size), 1, n),
         NEW m \in Nat, n <= m,
         NEW rest, rest = After(queue, size, m)
  PROVE  /\ first \in Seq(Message) /\ rest \in Seq(Nat)
         /\ \A i \in DOMAIN first : Taken(first[i].events, queue)
         /\ Taken(rest, queue)
         /\ Ordered(first, rest, next)
<1>1. n \in Nat /\ n <= BatchCount(Len(queue), size) /\ BatchCount(Len(queue), size) \in Nat
  BY BatchCountBounds
<1>2. first = [i \in 1..n |-> Batches(queue, size)[i]]
  BY <1>1 DEF Batches
<1>3. \A i \in 1..n :
        /\ first[i] \in Message
        /\ Window(first[i].events, queue, (i - 1) * size)
        /\ Until(first[i].events, (i - 1) * size, i * size)
  <2>1. \A i \in 1..n : first[i] = Batches(queue, size)[i] /\ i \in 1..BatchCount(Len(queue), size)
    BY <1>1, <1>2
  <2> QED
    BY <2>1, BatchFacts
<1>4. Window(rest, queue, m * size) /\ rest \in Seq(Nat)
  <2>1. Window(After(queue, size, m), queue, m * size)
    BY AfterFacts
  <2>2. After(queue, size, m) \in Seq(Nat)
    BY <2>1 DEF Window
  <2> QED
    BY <2>1, <2>2
<1>5. first \in Seq(Message) /\ DOMAIN first = 1..n
  <2>1. \A i \in 1..n : Batches(queue, size)[i] \in Message
    BY <1>2, <1>3
  <2> QED
    BY <1>1, <1>2, <2>1
<1>6. \A i \in 1..n : i \in Nat /\ i - 1 \in Nat /\ i * size \in Nat /\ (i - 1) * size \in Nat
  BY <1>1
<1>7. m * size \in Nat
  OBVIOUS
<1>8. Ascending(rest) /\ Taken(rest, queue) /\ Below(rest, <<next>>)
  BY <1>4, <1>7, WindowIsOrdered, WindowIsBelow
<1>9. ASSUME NEW i \in 1..n
      PROVE  /\ Ascending(first[i].events) /\ Taken(first[i].events, queue)
             /\ Below(first[i].events, rest) /\ Below(first[i].events, <<next>>)
  <2>1. i * size <= m * size
    <3>1. i <= m
      BY <1>1
    <3> QED
      BY <1>6, <3>1, TimesMonotone
  <2>2. /\ Window(first[i].events, queue, (i - 1) * size) /\ (i - 1) * size \in Nat
        /\ Until(first[i].events, (i - 1) * size, i * size) /\ i * size \in Nat
    BY <1>3, <1>6
  <2>3. Ascending(first[i].events) /\ Taken(first[i].events, queue)
    BY <2>2, WindowIsOrdered
  <2>4. Below(first[i].events, <<next>>)
    BY <2>2, WindowIsBelow
  <2>5. Below(first[i].events, rest)
    BY <1>4, <1>7, <2>1, <2>2, WindowsAreOrdered
  <2> QED
    BY <2>3, <2>4, <2>5
<1>10. ASSUME NEW i \in 1..n, NEW j \in 1..n, i < j
       PROVE  Below(first[i].events, first[j].events)
  <2>1. i \in Nat /\ j - 1 \in Nat /\ i <= j - 1
    BY <1>1, <1>10
  <2>2. i * size <= (j - 1) * size
    BY <2>1, TimesMonotone
  <2>3. /\ Window(first[i].events, queue, (i - 1) * size) /\ (i - 1) * size \in Nat
        /\ Until(first[i].events, (i - 1) * size, i * size) /\ i * size \in Nat
        /\ Window(first[j].events, queue, (j - 1) * size) /\ (j - 1) * size \in Nat
    BY <1>3, <1>6
  <2> QED
    BY <2>2, <2>3, WindowsAreOrdered
<1> QED
  BY <1>4, <1>5, <1>8, <1>9, <1>10 DEF Ordered

\* All batches of an ordered queue.
LEMMA WholeOrdered ==
  ASSUME NEW queue \in Seq(Nat), NEW size \in Nat \ {0}, NEW next \in Nat,
         Ascending(queue), Below(queue, <<next>>)
  PROVE  /\ Batches(queue, size) \in Seq(Message)
         /\ \A i \in DOMAIN Batches(queue, size) : Taken(Batches(queue, size)[i].events, queue)
         /\ Ordered(Batches(queue, size), <<>>, next)
<1> DEFINE n == BatchCount(Len(queue), size)
           first == SubSeq(Batches(queue, size), 1, n)
<1>1. n \in Nat
  BY BatchCountBounds
<1>2. first = Batches(queue, size)
  BY <1>1 DEF Batches
<1>3. /\ first \in Seq(Message)
      /\ \A i \in DOMAIN first : Taken(first[i].events, queue)
      /\ Ordered(first, After(queue, size, n), next)
  <2>1. n \in 0..BatchCount(Len(queue), size) /\ n <= n
    BY <1>1
  <2> HIDE DEF n
  <2> QED
    BY <1>1, <2>1, SplitOrdered
<1>4. Ordered(first, <<>>, next)
  BY <1>3 DEF Ordered, Ascending, Below
<1> QED
  BY <1>2, <1>3, <1>4

LEMMA LastOrEarlier ==
  ASSUME NEW b \in Seq(Nat), NEW next \in Nat, NEW k \in DOMAIN Append(b, next)
  PROVE  \/ Append(b, next)[k] = next
         \/ k \in DOMAIN b /\ Append(b, next)[k] = b[k]
OBVIOUS

\* Messages made of what waited, or of the next event, may follow.
LEMMA ConcatOrdered ==
  ASSUME NEW s \in Seq(Message), NEW t \in Seq(Message), NEW b \in Seq(Nat), NEW c \in Seq(Nat),
         NEW next \in Nat, NEW later \in Nat, next <= later,
         Ordered(s, b, next), Ordered(t, c, later),
         \A k \in DOMAIN t : Taken(t[k].events, Append(b, next)),
         Taken(c, Append(b, next))
  PROVE  s \o t \in Seq(Message) /\ Ordered(s \o t, c, later)
<1>1. /\ s \o t \in Seq(Message) /\ DOMAIN (s \o t) = 1..(Len(s) + Len(t))
      /\ \A i \in 1..(Len(s) + Len(t)) :
           (s \o t)[i] = IF i <= Len(s) THEN s[i] ELSE t[i - Len(s)]
  OBVIOUS
<1>2. ASSUME NEW i \in DOMAIN s, NEW events \in Seq(Nat), Taken(events, Append(b, next))
      PROVE  Below(s[i].events, events)
  <2>1. \A x \in DOMAIN s[i].events : s[i].events[x] < next
    BY DEF Ordered, Below
  <2>2. \A x \in DOMAIN s[i].events, k \in DOMAIN b : s[i].events[x] < b[k]
    BY DEF Ordered, Below
  <2>3. \A k \in DOMAIN Append(b, next) :
          \/ Append(b, next)[k] = next
          \/ k \in DOMAIN b /\ Append(b, next)[k] = b[k]
    BY LastOrEarlier
  <2>4. \A y \in DOMAIN events :
          events[y] = next \/ \E k \in DOMAIN b : events[y] = b[k]
    BY <1>2, <2>3, Zenon DEF Taken
  <2> QED
    BY <2>1, <2>2, <2>4 DEF Below
<1>3. \A i \in DOMAIN s : s[i].events \in Seq(Nat)
  <2>1. \A i \in DOMAIN s : s[i] \in Message
    OBVIOUS
  <2> QED
    BY <2>1 DEF Message
<1>4. \A k \in DOMAIN t : t[k].events \in Seq(Nat)
  <2>1. \A k \in DOMAIN t : t[k] \in Message
    OBVIOUS
  <2> QED
    BY <2>1 DEF Message
<1>5. ASSUME NEW i \in DOMAIN s
      PROVE  /\ Ascending(s[i].events)
             /\ Below(s[i].events, c) /\ Below(s[i].events, <<later>>)
             /\ \A j \in DOMAIN s : i < j => Below(s[i].events, s[j].events)
             /\ \A k \in DOMAIN t : Below(s[i].events, t[k].events)
  <2>1. Below(s[i].events, c) /\ \A k \in DOMAIN t : Below(s[i].events, t[k].events)
    BY <1>2, <1>4
  <2>2. \A x \in DOMAIN s[i].events : s[i].events[x] \in Nat /\ s[i].events[x] < next
    BY <1>3 DEF Ordered, Below
  <2>3. Below(s[i].events, <<later>>)
    BY <2>2 DEF Below
  <2> QED
    BY <2>1, <2>3 DEF Ordered
<1>6. \A k \in DOMAIN t :
        /\ Ascending(t[k].events) /\ Below(t[k].events, c) /\ Below(t[k].events, <<later>>)
        /\ \A j \in DOMAIN t : k < j => Below(t[k].events, t[j].events)
  BY DEF Ordered
<1>7. ASSUME NEW i \in DOMAIN (s \o t)
      PROVE  /\ Ascending((s \o t)[i].events)
             /\ Below((s \o t)[i].events, c) /\ Below((s \o t)[i].events, <<later>>)
             /\ \A j \in DOMAIN (s \o t) : i < j => Below((s \o t)[i].events, (s \o t)[j].events)
  <2>1. \A j \in DOMAIN (s \o t) :
          \/ j \in DOMAIN s /\ j <= Len(s) /\ (s \o t)[j] = s[j]
          \/ j - Len(s) \in DOMAIN t /\ j > Len(s) /\ (s \o t)[j] = t[j - Len(s)]
    BY <1>1
  <2>2. \A j \in DOMAIN (s \o t) : i < j => i - Len(s) < j - Len(s)
    BY <1>1
  <2>3. CASE i <= Len(s)
    <3>1. i \in DOMAIN s /\ (s \o t)[i] = s[i]
      BY <1>1, <2>3
    <3>2. \A j \in DOMAIN (s \o t) : i < j =>
            \/ j \in DOMAIN s /\ (s \o t)[j] = s[j]
            \/ j - Len(s) \in DOMAIN t /\ (s \o t)[j] = t[j - Len(s)]
      BY <2>1
    <3> QED
      BY <1>5, <3>1, <3>2
  <2>4. CASE i > Len(s)
    <3>1. i - Len(s) \in DOMAIN t /\ (s \o t)[i] = t[i - Len(s)]
      BY <1>1, <2>1, <2>4
    <3>2. \A j \in DOMAIN (s \o t) : i < j =>
            j - Len(s) \in DOMAIN t /\ (s \o t)[j] = t[j - Len(s)] /\ i - Len(s) < j - Len(s)
      BY <1>1, <2>1, <2>2, <2>4
    <3> QED
      BY <1>6, <3>1, <3>2
  <2> QED
    BY <1>1, <2>3, <2>4
<1> QED
  BY <1>1, <1>7 DEF Ordered

\* The next event closes an ordered queue.
LEMMA AppendOrdered ==
  ASSUME NEW queue \in Seq(Nat), NEW next \in Nat, Ascending(queue), Below(queue, <<next>>)
  PROVE  /\ Append(queue, next) \in Seq(Nat)
         /\ Ascending(Append(queue, next)) /\ Below(Append(queue, next), <<next + 1>>)
<1>1. /\ Append(queue, next) \in Seq(Nat)
      /\ DOMAIN Append(queue, next) = 1..(Len(queue) + 1)
      /\ \A k \in 1..(Len(queue) + 1) :
           Append(queue, next)[k] = IF k = Len(queue) + 1 THEN next ELSE queue[k]
  OBVIOUS
<1>2. \A k \in 1..Len(queue) : queue[k] \in Nat /\ queue[k] < next
  BY DEF Below
<1>3. \A k, l \in 1..Len(queue) : k < l => queue[k] < queue[l]
  BY DEF Ascending
<1>4. \A k, l \in 1..(Len(queue) + 1) :
        k < l => k \in 1..Len(queue) /\ (l = Len(queue) + 1 \/ l \in 1..Len(queue))
  OBVIOUS
<1>5. Ascending(Append(queue, next))
  BY <1>1, <1>2, <1>3, <1>4 DEF Ascending
<1>6. Below(Append(queue, next), <<next + 1>>)
  BY <1>1, <1>2 DEF Below
<1> QED
  BY <1>1, <1>5, <1>6

LEMMA TakenFacts ==
  ASSUME NEW queue \in Seq(Nat), NEW next
  PROVE  /\ Taken(queue, Append(queue, next)) /\ Taken(<<>>, Append(queue, next))
         /\ Taken(<<next>>, Append(queue, next)) /\ Taken(Append(queue, next), Append(queue, next))
         /\ \A events : Taken(events, queue) => Taken(events, Append(queue, next))
<1>1. /\ \A k \in DOMAIN queue : k \in DOMAIN Append(queue, next) /\ Append(queue, next)[k] = queue[k]
      /\ Len(queue) + 1 \in DOMAIN Append(queue, next)
      /\ Append(queue, next)[Len(queue) + 1] = next
  OBVIOUS
<1> QED
  BY <1>1 DEF Taken

\* Everything in queue goes out, a notice ahead of it.
LEMMA FlushOrdered ==
  ASSUME NEW s \in Seq(Message), NEW b \in Seq(Nat), NEW next \in Nat, Ordered(s, b, next),
         NEW queue \in Seq(Nat), NEW later \in Nat, next <= later,
         Ascending(queue), Below(queue, <<later>>), Taken(queue, Append(b, next)),
         NEW size \in Nat \ {0},
         NEW notice \in Seq(Message), \A i \in DOMAIN notice : notice[i].events = <<>>
  PROVE  /\ s \o notice \o Batches(queue, size) \in Seq(Message)
         /\ Ordered(s \o notice \o Batches(queue, size), <<>>, later)
<1> DEFINE batches == Batches(queue, size)
           sofar == s \o notice
<1>1. /\ batches \in Seq(Message)
      /\ \A i \in DOMAIN batches : Taken(batches[i].events, queue)
      /\ Ordered(batches, <<>>, later)
  BY WholeOrdered
<1> HIDE DEF batches
<1>2. Ordered(notice, queue, later)
  BY DEF Ordered, Ascending, Below
<1>3. \A k \in DOMAIN notice : Taken(notice[k].events, Append(b, next))
  BY TakenFacts
<1>4. sofar \in Seq(Message) /\ Ordered(sofar, queue, later)
  BY <1>2, <1>3, ConcatOrdered
<1> HIDE DEF sofar
<1>5. /\ \A k \in DOMAIN batches : Taken(batches[k].events, Append(queue, later))
      /\ Taken(<<>>, Append(queue, later))
  BY <1>1, TakenFacts
<1>6. <<>> \in Seq(Nat) /\ later <= later
  OBVIOUS
<1>7. sofar \o batches \in Seq(Message) /\ Ordered(sofar \o batches, <<>>, later)
  BY <1>1, <1>4, <1>5, <1>6, ConcatOrdered
<1> QED
  BY <1>7 DEF batches, sofar

\* Some of what waits goes out, the rest or less waits on.
LEMMA SplitStep ==
  ASSUME NEW s \in Seq(Message), NEW b \in Seq(Nat), NEW next \in Nat, Ordered(s, b, next),
         NEW size \in Nat \ {0}, NEW n \in 0..BatchCount(Len(b), size),
         NEW m \in Nat, n <= m
  PROVE  /\ After(b, size, m) \in Seq(Nat)
         /\ s \o SubSeq(Batches(b, size), 1, n) \in Seq(Message)
         /\ Ordered(s \o SubSeq(Batches(b, size), 1, n), After(b, size, m), next)
<1> DEFINE first == SubSeq(Batches(b, size), 1, n)
           rest == After(b, size, m)
<1>1. Ascending(b) /\ Below(b, <<next>>)
  BY DEF Ordered
<1>2. /\ first \in Seq(Message) /\ rest \in Seq(Nat)
      /\ \A i \in DOMAIN first : Taken(first[i].events, b)
      /\ Taken(rest, b)
      /\ Ordered(first, rest, next)
  BY <1>1, SplitOrdered
<1> HIDE DEF first, rest
<1>3. /\ \A k \in DOMAIN first : Taken(first[k].events, Append(b, next))
      /\ Taken(rest, Append(b, next))
  BY <1>2, TakenFacts
<1>4. next <= next
  OBVIOUS
<1>5. s \o first \in Seq(Message) /\ Ordered(s \o first, rest, next)
  BY <1>2, <1>3, <1>4, ConcatOrdered
<1> QED
  BY <1>2, <1>5 DEF first, rest

\* Messages without events change nothing.
LEMMA NoticeOrdered ==
  ASSUME NEW s \in Seq(Message), NEW b \in Seq(Nat), NEW next \in Nat, Ordered(s, b, next),
         NEW notice \in Seq(Message), \A i \in DOMAIN notice : notice[i].events = <<>>
  PROVE  s \o notice \in Seq(Message) /\ Ordered(s \o notice, b, next)
<1>1. Ordered(notice, b, next)
  BY DEF Ordered, Ascending, Below
<1>2. /\ \A k \in DOMAIN notice : Taken(notice[k].events, Append(b, next))
      /\ Taken(b, Append(b, next))
  BY TakenFacts
<1>3. next <= next
  OBVIOUS
<1> QED
  BY <1>1, <1>2, <1>3, ConcatOrdered

\* A new event waits after an ordered queue.
LEMMA WaitingOrdered ==
  ASSUME NEW s \in Seq(Message), NEW b \in Seq(Nat), NEW next \in Nat, Ordered(s, b, next)
  PROVE  Append(b, next) \in Seq(Nat) /\ Ordered(s, Append(b, next), next + 1)
<1> DEFINE q == Append(b, next)
           later == next + 1
           none == <<>>
<1>1. Ascending(b) /\ Below(b, <<next>>)
  BY DEF Ordered
<1>2. q \in Seq(Nat) /\ Ascending(q) /\ Below(q, <<later>>)
  BY <1>1, AppendOrdered
<1>3. Ordered(none, q, later)
  BY <1>2 DEF Ordered
<1>4. none \in Seq(Message) /\ later \in Nat /\ next <= later /\ s \o none = s
  OBVIOUS
<1>5. Taken(q, Append(b, next)) /\ \A k \in DOMAIN none : Taken(none[k].events, Append(b, next))
  <2>1. Taken(q, Append(b, next))
    BY TakenFacts
  <2>2. DOMAIN none = {}
    OBVIOUS
  <2> QED
    BY <2>1, <2>2
<1> HIDE DEF q, later, none
<1>6. Ordered(s \o none, q, later)
  BY <1>2, <1>3, <1>4, <1>5, ConcatOrdered
<1> QED
  BY <1>2, <1>4, <1>6 DEF q, later

\* What is left after some batches is ordered and no longer than before.
LEMMA RestOrdered ==
  ASSUME NEW s \in Seq(Message), NEW b \in Seq(Nat), NEW next \in Nat, Ordered(s, b, next),
         NEW size \in Nat \ {0}, NEW m \in Nat
  PROVE  /\ After(b, size, m) \in Seq(Nat) /\ Ordered(s, After(b, size, m), next)
         /\ Len(After(b, size, m)) <= Len(b)
<1> DEFINE rest == After(b, size, m)
           from == m * size
<1>1. Window(rest, b, from) /\ Len(rest) = Len(b) - AtMost(from, Len(b))
  BY AfterFacts
<1>2. from \in Nat /\ Len(b) \in Nat
  OBVIOUS
<1> HIDE DEF rest, from
<1>3. rest \in Seq(Nat) /\ Len(rest) <= Len(b)
  BY <1>1, <1>2 DEF Window, AtMost
<1>4. Ascending(b) /\ Below(b, <<next>>)
  BY DEF Ordered
<1>5. Ascending(rest) /\ Taken(rest, b) /\ Below(rest, <<next>>)
  BY <1>1, <1>2, <1>4, WindowIsOrdered, WindowIsBelow
<1>6. \A i \in DOMAIN s : Below(s[i].events, rest)
  BY <1>5 DEF Ordered, Below, Taken
<1>7. Ordered(s, rest, next)
  BY <1>5, <1>6 DEF Ordered
<1> QED
  BY <1>3, <1>7 DEF rest

LEMMA BatchSizeFacts ==
  ASSUME NEW queue \in Seq(Nat), NEW size \in Nat \ {0}, NEW n \in Nat
  PROVE  /\ BatchSize(queue, size, n) \in Nat
         /\ BatchSize(queue, size, n)
              = AtMost((n + 1) * size, Len(queue)) - AtMost(n * size, Len(queue))
<1> DEFINE low == n * size
           high == (n + 1) * size
<1>1. low \in Nat /\ high \in Nat /\ low <= high /\ Len(queue) \in Nat /\ n + 1 \in Nat
  <2>1. n + 1 \in Nat /\ n <= n + 1
    OBVIOUS
  <2>2. n * size <= (n + 1) * size
    BY <2>1, TimesMonotone
  <2>3. n * size \in Nat /\ (n + 1) * size \in Nat
    BY <2>1
  <2> QED
    BY <2>1, <2>2, <2>3
<1>2. /\ Len(After(queue, size, n)) = Len(queue) - AtMost(low, Len(queue))
      /\ Len(After(queue, size, n + 1)) = Len(queue) - AtMost(high, Len(queue))
  <2> DEFINE next == n + 1
  <2>1. next \in Nat
    BY <1>1
  <2> HIDE DEF next
  <2>2. Len(After(queue, size, next)) = Len(queue) - AtMost(next * size, Len(queue))
    BY <2>1, AfterFacts
  <2> QED
    BY <2>2, AfterFacts DEF next
<1> DEFINE here == After(queue, size, n)
           there == After(queue, size, n + 1)
<1> HIDE DEF low, high
<1>3. /\ BatchSize(queue, size, n) \in Nat
      /\ BatchSize(queue, size, n) = AtMost(high, Len(queue)) - AtMost(low, Len(queue))
  <2>1. BatchSize(queue, size, n) = Len(here) - Len(there)
    BY DEF BatchSize
  <2>2. \A l, h, m \in Nat : l <= h =>
          /\ (m - AtMost(l, m)) - (m - AtMost(h, m)) = AtMost(h, m) - AtMost(l, m)
          /\ (m - AtMost(l, m)) - (m - AtMost(h, m)) \in Nat
    BY DEF AtMost
  <2>3. Len(here) = Len(queue) - AtMost(low, Len(queue)) /\ Len(there) = Len(queue) - AtMost(high, Len(queue))
    BY <1>2
  <2> HIDE DEF here, there
  <2> QED
    BY <1>1, <2>1, <2>2, <2>3
<1> QED
  BY <1>3 DEF low, high

\* What is older than the next event is older than the one after it.
LEMMA LaterOrdered ==
  ASSUME NEW s \in Seq(Message), NEW b \in Seq(Nat), NEW next \in Nat, Ordered(s, b, next)
  PROVE  Ordered(s, b, next + 1)
<1>1. \A k \in DOMAIN b : b[k] \in Nat /\ b[k] < next
  BY DEF Ordered, Below
<1>2. \A i \in DOMAIN s : s[i].events \in Seq(Nat)
  <2>1. \A i \in DOMAIN s : s[i] \in Message
    OBVIOUS
  <2> QED
    BY <2>1 DEF Message
<1>3. \A i \in DOMAIN s : \A x \in DOMAIN s[i].events :
        s[i].events[x] \in Nat /\ s[i].events[x] < next
  BY <1>2 DEF Ordered, Below
<1>4. Below(b, <<next + 1>>) /\ \A i \in DOMAIN s : Below(s[i].events, <<next + 1>>)
  BY <1>1, <1>3 DEF Below
<1> QED
  BY <1>4 DEF Ordered

-----------------------------------------------------------------------------
(* The invariant *)

TypeOK ==
  /\ config \in Configs
  /\ buffer \in Seq(Nat)
  /\ windowOpen \in BOOLEAN
  /\ droppedEvents \in Nat
  /\ sent \in Seq(Message)
  /\ offered \in Nat

\* While no window is open nothing waits, or the event that opens the next
\* one would overtake it.
ClosedIsEmpty == ~windowOpen => buffer = <<>>

CountersOK == updates \in Nat /\ thrown \in Nat /\ failed \in Nat

ConnectionInv ==
  /\ TypeOK
  /\ CountersOK
  /\ ClosedIsEmpty
  /\ Ordered(sent, buffer, offered + 1)
  /\ BufferIsBounded

LEMMA ConfigFacts ==
  ASSUME NEW c \in Configs
  PROVE  c.maxBatchSize \in Nat \ {0} /\ c.maxBufferedEvents \in Nat
BY ConfigsAssumption DEF Config

LEMMA InvFacts ==
  ASSUME ConnectionInv
  PROVE  /\ buffer \in Seq(Nat) /\ sent \in Seq(Message) /\ offered \in Nat
         /\ droppedEvents \in Nat /\ config \in Configs /\ windowOpen \in BOOLEAN
         /\ config.maxBatchSize \in Nat \ {0} /\ config.maxBufferedEvents \in Nat
         /\ Ordered(sent, buffer, Event) /\ Event \in Nat /\ Event <= Event + 1
         /\ Ascending(buffer) /\ Below(buffer, <<Event>>)
         /\ ~windowOpen => buffer = <<>>
         /\ CountersOK
<1>1. TypeOK /\ CountersOK /\ ClosedIsEmpty /\ Ordered(sent, buffer, offered + 1)
  BY DEF ConnectionInv
<1>2. Ascending(buffer) /\ Below(buffer, <<Event>>) /\ Ordered(sent, buffer, Event)
  BY <1>1 DEF Ordered, Event
<1>3. Event \in Nat /\ Event <= Event + 1
  BY <1>1 DEF TypeOK, Event
<1> QED
  BY <1>1, <1>2, <1>3, ConfigFacts DEF TypeOK, ClosedIsEmpty

\* A buffer that does not grow, or fits the settings, stays bounded.
LEMMA BoundKept ==
  ASSUME ConnectionInv, config' = config, updates' = updates,
         thrown' \in Nat, thrown <= thrown', buffer' \in Seq(Nat),
         \/ Len(buffer') <= Len(buffer)
         \/ Len(buffer') <= AtLeastOne(config.maxBufferedEvents)
  PROVE  BufferIsBounded'
<1>1. /\ buffer \in Seq(Nat) /\ config \in Configs /\ thrown \in Nat /\ BufferIsBounded
  BY DEF ConnectionInv, TypeOK, CountersOK
<1>2. Len(buffer) \in Nat /\ Len(buffer') \in Nat
  BY <1>1
<1>3. \A c \in Configs : AtLeastOne(c.maxBufferedEvents) \in Nat
  BY ConfigFacts DEF AtLeastOne
<1>4. CASE Len(buffer') <= AtLeastOne(config.maxBufferedEvents)
  BY <1>4 DEF BufferIsBounded, Within
<1>5. CASE Len(buffer') <= Len(buffer)
  <2>1. ASSUME NEW c \in Configs, Within(c) PROVE Len(buffer') <= AtLeastOne(c.maxBufferedEvents)
    BY <1>2, <1>3, <1>5, <2>1 DEF Within
  <2>2. CASE Within(config)
    BY <1>1, <1>4, <2>1, <2>2
  <2>3. CASE thrown > 0 /\ updates > 0 /\ \E c \in Configs : Within(c)
    <3>1. thrown' > 0 /\ updates' > 0
      BY <1>1, <2>3
    <3>2. \E c \in Configs : Len(buffer') <= AtLeastOne(c.maxBufferedEvents)
      BY <2>1, <2>3
    <3> QED
      BY <3>1, <3>2 DEF BufferIsBounded, Within
  <2> QED
    BY <1>1, <2>2, <2>3 DEF BufferIsBounded
<1> QED
  BY <1>4, <1>5

\* A step after which no message threw.
LEMMA TroubleKept ==
  ASSUME ConnectionInv, UNCHANGED trouble, updates' = updates \/ updates' = updates + 1
  PROVE  CountersOK' /\ thrown' \in Nat /\ thrown <= thrown' /\ failed' = failed
BY DEF ConnectionInv, CountersOK, trouble

\* A step in which one did.
LEMMA TroubleGrows ==
  ASSUME ConnectionInv, NEW k \in Nat, Loses(k), updates' = updates \/ updates' = updates + 1
  PROVE  CountersOK' /\ thrown' \in Nat /\ thrown <= thrown' /\ thrown' > 0
         /\ failed' = failed + k
BY DEF ConnectionInv, CountersOK, Loses

\* What is to be shown of a step.
LEMMA InvNext ==
  ASSUME config' \in Configs, buffer' \in Seq(Nat), windowOpen' \in BOOLEAN,
         droppedEvents' \in Nat, sent' \in Seq(Message), offered' \in Nat,
         ~windowOpen' => buffer' = <<>>,
         NEW next, next = offered' + 1, Ordered(sent', buffer', next),
         CountersOK', BufferIsBounded'
  PROVE  ConnectionInv'
<1>1. TypeOK' /\ ClosedIsEmpty' /\ CountersOK' /\ BufferIsBounded'
  BY DEF TypeOK, ClosedIsEmpty
<1>2. Ordered(sent, buffer, offered + 1)'
  BY DEF Ordered, Ascending, Below
<1> QED
  BY <1>1, <1>2 DEF ConnectionInv

LEMMA InitInv == Init => ConnectionInv
<1> SUFFICES ASSUME Init PROVE ConnectionInv
  OBVIOUS
<1>1. TypeOK /\ ClosedIsEmpty
  <2>1. <<>> \in Seq(Nat)
    OBVIOUS
  <2>2. <<>> \in Seq(Message)
    OBVIOUS
  <2> QED
    BY <2>1, <2>2 DEF Init, TypeOK, ClosedIsEmpty
<1>2. Ordered(sent, buffer, offered + 1)
  BY DEF Init, Ordered, Ascending, Below
<1>3. BufferIsBounded /\ CountersOK
  <2>1. config.maxBufferedEvents \in Nat /\ Len(buffer) = 0
    BY ConfigFacts DEF Init
  <2> QED
    BY <2>1 DEF BufferIsBounded, Within, AtLeastOne, CountersOK, Init
<1> QED
  BY <1>1, <1>2, <1>3 DEF ConnectionInv

\* The first event of a window goes out at once.
LEMMA SendFirstStep == ConnectionInv /\ SendFirst => ConnectionInv'
<1> SUFFICES ASSUME ConnectionInv, SendFirst PROVE ConnectionInv'
  OBVIOUS
<1> DEFINE e == Event
           message == <<Batch(<<e>>)>>
           later == e + 1
<1>1. /\ buffer = <<>> /\ buffer' = buffer /\ config' = config /\ droppedEvents' = droppedEvents
      /\ windowOpen' = TRUE /\ offered' = e /\ sent' = Append(sent, Batch(<<e>>))
  BY InvFacts DEF SendFirst, Offer, Event
<1>2. /\ e \in Nat /\ sent \in Seq(Message) /\ Ordered(sent, <<>>, e)
      /\ config \in Configs /\ droppedEvents \in Nat /\ config.maxBufferedEvents \in Nat
  BY <1>1, InvFacts
<1> HIDE DEF e
<1>3. /\ message \in Seq(Message) /\ message[1].events = <<e>> /\ DOMAIN message = {1}
      /\ later \in Nat /\ e < later /\ <<>> \in Seq(Nat)
  BY <1>2 DEF Batch, Message
<1>4. Ordered(message, <<>>, later)
  <2> HIDE DEF message, later
  <2> QED
    BY <1>2, <1>3 DEF Ordered, Ascending, Below
<1>5. /\ \A k \in DOMAIN message : Taken(message[k].events, Append(<<>>, e))
      /\ Taken(<<>>, Append(<<>>, e))
  <2> HIDE DEF message
  <2> QED
    BY <1>3, TakenFacts
<1>6. sent \o message \in Seq(Message) /\ Ordered(sent \o message, <<>>, later)
  <2> DEFINE none == <<>>
  <2>1. /\ none \in Seq(Nat) /\ e <= later /\ Ordered(sent, none, e) /\ Ordered(message, none, later)
        /\ \A k \in DOMAIN message : Taken(message[k].events, Append(none, e))
        /\ Taken(none, Append(none, e))
    BY <1>2, <1>3, <1>4, <1>5
  <2> HIDE DEF none, message, later
  <2>2. sent \o message \in Seq(Message) /\ Ordered(sent \o message, none, later)
    BY <1>2, <1>3, <2>1, ConcatOrdered
  <2> QED
    BY <2>2 DEF none
<1>7. sent' = sent \o message
  BY <1>1, <1>2, <1>3
<1>8. CountersOK' /\ BufferIsBounded'
  <2>1. UNCHANGED trouble /\ updates' = updates
    BY DEF SendFirst
  <2>2. CountersOK' /\ thrown' \in Nat /\ thrown <= thrown'
    BY <2>1, TroubleKept
  <2>3. buffer' \in Seq(Nat) /\ Len(buffer') <= Len(buffer)
    BY <1>1
  <2> QED
    BY <1>1, <2>1, <2>2, <2>3, BoundKept
<1>9. /\ config' \in Configs /\ buffer' \in Seq(Nat) /\ windowOpen' \in BOOLEAN
      /\ droppedEvents' \in Nat /\ offered' \in Nat /\ later = offered' + 1
      /\ ~windowOpen' => buffer' = <<>>
  BY <1>1, <1>2
<1>10. sent' \in Seq(Message) /\ Ordered(sent', buffer', later)
  BY <1>1, <1>6, <1>7, Zenon
<1> HIDE DEF later
<1> QED
  BY <1>8, <1>9, <1>10, InvNext

\* The next event is offered and goes nowhere.
LEMMA EventGone ==
  ASSUME ConnectionInv, CountersOK', thrown <= thrown', updates' = updates,
         buffer' = buffer, config' = config, sent' = sent, droppedEvents' \in Nat,
         windowOpen' = windowOpen \/ windowOpen' = TRUE, offered' = Event
  PROVE  ConnectionInv'
<1> DEFINE e == Event
           later == e + 1
<1>1. /\ buffer' = buffer /\ config' = config /\ offered' = e /\ sent' = sent
  OBVIOUS
<1>2. /\ e \in Nat /\ sent \in Seq(Message) /\ Ordered(sent, buffer, e) /\ buffer \in Seq(Nat)
      /\ config \in Configs /\ droppedEvents \in Nat /\ windowOpen \in BOOLEAN
      /\ ~windowOpen => buffer = <<>>
  BY InvFacts
<1> HIDE DEF e
<1>3. Ordered(sent, buffer, later)
  <2> DEFINE st == sent
             b == buffer
  <2>1. st \in Seq(Message) /\ b \in Seq(Nat) /\ Ordered(st, b, e)
    BY <1>2
  <2> HIDE DEF st, b
  <2>2. Ordered(st, b, later)
    BY <1>2, <2>1, LaterOrdered
  <2> QED
    BY <2>2 DEF st, b
<1>4. later = offered' + 1
  BY <1>1
<1> HIDE DEF later
<1>5. /\ config' \in Configs /\ buffer' \in Seq(Nat) /\ windowOpen' \in BOOLEAN
      /\ droppedEvents' \in Nat /\ offered' \in Nat /\ sent' \in Seq(Message)
      /\ ~windowOpen' => buffer' = <<>>
  BY <1>1, <1>2
<1>6. Ordered(sent', buffer', later)
  BY <1>1, <1>3, Zenon
<1>7. CountersOK' /\ BufferIsBounded'
  <2>1. thrown' \in Nat
    BY DEF CountersOK
  <2>2. buffer' \in Seq(Nat) /\ Len(buffer') <= Len(buffer)
    BY <1>1, <1>2
  <2> QED
    BY <2>1, <2>2, BoundKept
<1> QED
  BY <1>4, <1>5, <1>6, <1>7, InvNext

\* An event that finds the buffer full may be dropped.
LEMMA SendDroppedStep == ConnectionInv /\ SendDropped => ConnectionInv'
<1> SUFFICES ASSUME ConnectionInv, SendDropped PROVE ConnectionInv'
  OBVIOUS
<1>1. /\ buffer' = buffer /\ config' = config /\ droppedEvents' = droppedEvents + 1
      /\ windowOpen' = windowOpen /\ offered' = Event /\ sent' = sent /\ updates' = updates
      /\ UNCHANGED trouble
  BY DEF SendDropped, Offer, Event
<1>2. CountersOK' /\ thrown <= thrown'
  BY <1>1, TroubleKept
<1>3. droppedEvents' \in Nat
  BY <1>1, InvFacts
<1> QED
  BY <1>1, <1>2, <1>3, EventGone

\* The message of the first event throws.
LEMMA SendFirstThrowsStep == ConnectionInv /\ SendFirstThrows => ConnectionInv'
<1> SUFFICES ASSUME ConnectionInv, SendFirstThrows PROVE ConnectionInv'
  OBVIOUS
<1>1. /\ buffer' = buffer /\ config' = config /\ droppedEvents' = droppedEvents
      /\ windowOpen' = TRUE /\ offered' = Event /\ sent' = sent /\ updates' = updates
      /\ Loses(1) /\ 1 \in Nat
  BY DEF SendFirstThrows, Offer, Event
<1>2. CountersOK' /\ thrown <= thrown'
  BY <1>1, TroubleGrows
<1>3. droppedEvents' \in Nat
  BY <1>1, InvFacts
<1> QED
  BY <1>1, <1>2, <1>3, EventGone

\* The oldest batch makes room for the event.
LEMMA SendOverflowStep == ConnectionInv /\ SendOverflow => ConnectionInv'
<1> SUFFICES ASSUME ConnectionInv, SendOverflow PROVE ConnectionInv'
  OBVIOUS
<1> DEFINE e == Event
           later == e + 1
           size == config.maxBatchSize
           bound == config.maxBufferedEvents
           n == AtMost(1, Len(buffer))
           first == SubSeq(Batches(buffer, size), 1, n)
           rest == After(buffer, size, 1)
<1>1. /\ sent' = sent \o first /\ buffer' = Append(rest, e) /\ config' = config
      /\ windowOpen' = windowOpen /\ droppedEvents' = droppedEvents /\ offered' = e
      /\ windowOpen = TRUE /\ Len(buffer) >= bound
  BY InvFacts DEF SendOverflow, Offer, Event, Full
<1>2. /\ e \in Nat /\ sent \in Seq(Message) /\ Ordered(sent, buffer, e) /\ buffer \in Seq(Nat)
      /\ config \in Configs /\ droppedEvents \in Nat
      /\ size \in Nat \ {0} /\ bound \in Nat
  BY InvFacts
<1> HIDE DEF e, size, bound
<1>3. n \in 0..BatchCount(Len(buffer), size)
  BY <1>2, OneBatch
<1>4. rest = After(buffer, size, n)
  BY <1>2, OneBatch
<1>5. /\ rest \in Seq(Nat) /\ sent \o first \in Seq(Message)
      /\ Ordered(sent \o first, rest, e)
  <2> DEFINE s == sent
             b == buffer
  <2>1. /\ s \in Seq(Message) /\ b \in Seq(Nat) /\ e \in Nat /\ Ordered(s, b, e)
        /\ size \in Nat \ {0} /\ n \in 0..BatchCount(Len(b), size) /\ n \in Nat /\ n <= n
    BY <1>2, <1>3, BatchCountBounds
  <2> HIDE DEF n, s, b
  <2>2. /\ After(b, size, n) \in Seq(Nat) /\ s \o SubSeq(Batches(b, size), 1, n) \in Seq(Message)
        /\ Ordered(s \o SubSeq(Batches(b, size), 1, n), After(b, size, n), e)
    BY <2>1, SplitStep
  <2>3. /\ After(buffer, size, n) \in Seq(Nat) /\ sent \o first \in Seq(Message)
        /\ Ordered(sent \o first, After(buffer, size, n), e)
    BY <2>2, Zenon DEF s, b
  <2> HIDE DEF first, rest
  <2> QED
    BY <1>4, <2>3
<1>6. Len(rest) + 1 <= Len(buffer) \/ Len(rest) + 1 <= AtLeastOne(bound)
  <2>1. Len(rest) = Len(buffer) - AtMost(1 * size, Len(buffer)) /\ Len(buffer) \in Nat
    <3> DEFINE one == 1
    <3>1. one \in Nat /\ Len(buffer) \in Nat
      BY <1>2
    <3> HIDE DEF one
    <3>2. Len(After(buffer, size, one)) = Len(buffer) - AtMost(one * size, Len(buffer))
      BY <1>2, <3>1, AfterFacts
    <3> QED
      BY <3>1, <3>2 DEF one
  <2>2. 1 * size = size
    BY <1>2
  <2> QED
    BY <1>2, <2>1, <2>2 DEF AtMost, AtLeastOne
<1> HIDE DEF first, rest
<1>7. /\ Append(rest, e) \in Seq(Nat) /\ Ordered(sent \o first, Append(rest, e), later)
  <2> DEFINE all == sent \o first
  <2>1. all \in Seq(Message) /\ Ordered(all, rest, e)
    BY <1>5
  <2> HIDE DEF all
  <2>2. Append(rest, e) \in Seq(Nat) /\ Ordered(all, Append(rest, e), later)
    BY <1>2, <1>5, <2>1, WaitingOrdered
  <2> QED
    BY <2>2 DEF all
<1>8. CountersOK' /\ BufferIsBounded'
  <2>1. Len(Append(rest, e)) = Len(rest) + 1
    BY <1>5
  <2>2. UNCHANGED trouble /\ updates' = updates
    BY DEF SendOverflow
  <2>3. CountersOK' /\ thrown' \in Nat /\ thrown <= thrown'
    BY <2>2, TroubleKept
  <2>4. /\ buffer' \in Seq(Nat)
        /\ \/ Len(buffer') <= Len(buffer)
           \/ Len(buffer') <= AtLeastOne(config.maxBufferedEvents)
    BY <1>1, <1>6, <1>7, <2>1 DEF bound
  <2> QED
    BY <1>1, <2>2, <2>3, <2>4, BoundKept
<1>9. /\ config' \in Configs /\ buffer' \in Seq(Nat) /\ windowOpen' \in BOOLEAN
      /\ droppedEvents' \in Nat /\ offered' \in Nat /\ later = offered' + 1
      /\ ~windowOpen' => buffer' = <<>>
  BY <1>1, <1>2, <1>7
<1>10. sent' \in Seq(Message)
  BY <1>1, <1>5
<1> HIDE DEF later
<1>11. Ordered(sent', buffer', later)
  BY <1>1, <1>7, Zenon
<1> QED
  BY <1>8, <1>9, <1>10, <1>11, InvNext

\* The oldest batch and the event are lost.
LEMMA SendOverflowThrowsStep == ConnectionInv /\ SendOverflowThrows => ConnectionInv'
<1> SUFFICES ASSUME ConnectionInv, SendOverflowThrows PROVE ConnectionInv'
  OBVIOUS
<1> DEFINE e == Event
           later == e + 1
           size == config.maxBatchSize
           one == 1
           rest == After(buffer, size, one)
           lost == BatchSize(buffer, size, 0) + 1
<1>1. /\ sent' = sent /\ buffer' = rest /\ config' = config /\ updates' = updates
      /\ windowOpen' = windowOpen /\ droppedEvents' = droppedEvents /\ offered' = e
      /\ Loses(lost) /\ windowOpen = TRUE
  BY InvFacts DEF SendOverflowThrows, Offer, Event, Full
<1>2. /\ e \in Nat /\ sent \in Seq(Message) /\ Ordered(sent, buffer, e) /\ buffer \in Seq(Nat)
      /\ config \in Configs /\ droppedEvents \in Nat /\ size \in Nat \ {0} /\ one \in Nat
  BY InvFacts
<1> HIDE DEF e, size
<1>3. lost \in Nat
  <2> DEFINE none == 0
  <2>1. none \in Nat
    OBVIOUS
  <2> HIDE DEF none
  <2>2. BatchSize(buffer, size, none) \in Nat
    BY <1>2, <2>1, BatchSizeFacts
  <2> QED
    BY <2>2 DEF none
<1>4. rest \in Seq(Nat) /\ Ordered(sent, rest, e) /\ Len(rest) <= Len(buffer)
  <2> DEFINE s == sent
             b == buffer
  <2>1. s \in Seq(Message) /\ b \in Seq(Nat) /\ Ordered(s, b, e)
    BY <1>2
  <2> HIDE DEF s, b, one
  <2>2. /\ After(b, size, one) \in Seq(Nat) /\ Ordered(s, After(b, size, one), e)
        /\ Len(After(b, size, one)) <= Len(b)
    BY <1>2, <2>1, RestOrdered
  <2> QED
    BY <2>2 DEF s, b
<1> HIDE DEF lost, rest, one
<1>5. Ordered(sent, rest, later)
  <2> DEFINE s == sent
  <2>1. s \in Seq(Message) /\ Ordered(s, rest, e)
    BY <1>2, <1>4
  <2> HIDE DEF s
  <2>2. Ordered(s, rest, later)
    BY <1>2, <1>4, <2>1, LaterOrdered
  <2> QED
    BY <2>2 DEF s
<1>6. CountersOK' /\ BufferIsBounded'
  <2>1. CountersOK' /\ thrown' \in Nat /\ thrown <= thrown'
    BY <1>1, <1>3, TroubleGrows
  <2>2. buffer' \in Seq(Nat) /\ Len(buffer') <= Len(buffer)
    BY <1>1, <1>4
  <2> QED
    BY <1>1, <2>1, <2>2, BoundKept
<1>7. /\ config' \in Configs /\ buffer' \in Seq(Nat) /\ windowOpen' \in BOOLEAN
      /\ droppedEvents' \in Nat /\ offered' \in Nat /\ later = offered' + 1
      /\ sent' \in Seq(Message) /\ (~windowOpen' => buffer' = <<>>)
  BY <1>1, <1>2, <1>4
<1> HIDE DEF later
<1>8. Ordered(sent', buffer', later)
  BY <1>1, <1>5, Zenon
<1> QED
  BY <1>6, <1>7, <1>8, InvNext

\* A notice has no events.
LEMMA ReportFacts ==
  ASSUME droppedEvents \in Nat, NEW queue
  PROVE  /\ Report(queue) \in Seq(Message)
         /\ \A i \in DOMAIN Report(queue) : Report(queue)[i].events = <<>>
<1>1. /\ Notice(droppedEvents) \in Message /\ Notice(droppedEvents).events = <<>>
  BY DEF Notice, Message
<1>2. CASE NoticeDue(queue)
  <2>1. Report(queue) = <<Notice(droppedEvents)>>
    BY <1>2 DEF Report
  <2> QED
    BY <1>1, <2>1
<1>3. CASE ~NoticeDue(queue)
  <2>1. Report(queue) = <<>>
    BY <1>3 DEF Report
  <2> QED
    BY <2>1
<1> QED
  BY <1>2, <1>3

\* Everything goes out.
LEMMA FlushAllStep ==
  ASSUME ConnectionInv, NEW queue \in Seq(Nat), FlushAll(queue), config' = config,
         updates' = updates, NEW later \in Nat, offered' \in Nat, later = offered' + 1, Event <= later,
         Ascending(queue), Below(queue, <<later>>), Taken(queue, Append(buffer, Event))
  PROVE  ConnectionInv'
<1> DEFINE e == Event
           notice == Report(queue)
           size == config.maxBatchSize
           all == sent \o notice \o Batches(queue, size)
<1>1. /\ e \in Nat /\ sent \in Seq(Message) /\ Ordered(sent, buffer, e) /\ buffer \in Seq(Nat)
      /\ config \in Configs /\ droppedEvents \in Nat /\ size \in Nat \ {0}
      /\ config.maxBufferedEvents \in Nat
  BY InvFacts
<1>2. /\ sent' = all /\ buffer' = <<>> /\ windowOpen' = FALSE /\ droppedEvents' \in Nat
  BY <1>1 DEF FlushAll
<1>3. /\ notice \in Seq(Message) /\ \A i \in DOMAIN notice : notice[i].events = <<>>
  BY <1>1, ReportFacts
<1> HIDE DEF notice, size
<1>4. all \in Seq(Message) /\ Ordered(all, <<>>, later)
  <2> DEFINE b == buffer
             s == sent
  <2>1. /\ e <= later /\ Taken(queue, Append(b, e)) /\ later \in Nat
        /\ Ascending(queue) /\ Below(queue, <<later>>)
        /\ s \in Seq(Message) /\ b \in Seq(Nat) /\ Ordered(s, b, e)
    BY <1>1
  <2> HIDE DEF e, b, s
  <2>2. /\ s \o notice \o Batches(queue, size) \in Seq(Message)
        /\ Ordered(s \o notice \o Batches(queue, size), <<>>, later)
    BY <1>1, <1>3, <2>1, FlushOrdered
  <2> QED
    BY <2>2 DEF s
<1> HIDE DEF e, all
<1>5. CountersOK' /\ BufferIsBounded'
  <2>1. UNCHANGED trouble
    BY DEF FlushAll
  <2>2. CountersOK' /\ thrown' \in Nat /\ thrown <= thrown'
    BY <2>1, TroubleKept
  <2>3. Len(buffer') = 0 /\ Len(buffer) \in Nat /\ buffer' \in Seq(Nat)
    BY <1>1, <1>2
  <2>4. Len(buffer') <= Len(buffer)
    BY <2>3
  <2> QED
    BY <2>2, <2>3, <2>4, BoundKept
<1>6. buffer' \in Seq(Nat)
  BY <1>2
<1>7. Ordered(sent', buffer', later)
  BY <1>2, <1>4, Zenon
<1>8. sent' \in Seq(Message) /\ config' \in Configs /\ windowOpen' \in BOOLEAN
  BY <1>1, <1>2, <1>4
<1> QED
  BY <1>2, <1>5, <1>6, <1>7, <1>8, InvNext

\* A message of a flush throws.
LEMMA FlushThrowsStep ==
  ASSUME ConnectionInv, NEW queue \in Seq(Nat), FlushThrows(queue),
         config' = config, updates' = updates,
         NEW later \in Nat, offered' \in Nat, later = offered' + 1,
         Ordered(sent, queue, later),
         ~windowOpen => queue = <<>>,
         \/ Len(queue) <= Len(buffer)
         \/ Len(queue) <= AtLeastOne(config.maxBufferedEvents)
  PROVE  ConnectionInv'
<1> DEFINE size == config.maxBatchSize
           st == sent
           notice == Report(queue)
           begun == st \o notice
<1>1. /\ st \in Seq(Message) /\ config \in Configs /\ droppedEvents \in Nat
      /\ size \in Nat \ {0} /\ buffer \in Seq(Nat) /\ windowOpen \in BOOLEAN
      /\ config.maxBufferedEvents \in Nat
  BY InvFacts
<1>2. windowOpen' = windowOpen
  BY DEF FlushThrows
<1>3. Ordered(st, queue, later)
  OBVIOUS
\* What is left to be shown when what waits is no longer than queue was.
<1>4. ASSUME NEW k \in Nat, Loses(k), buffer' \in Seq(Nat), Len(buffer') <= Len(queue),
             sent' \in Seq(Message), droppedEvents' \in Nat, Ordered(sent', buffer', later)
      PROVE  ConnectionInv'
  <2>1. CountersOK' /\ thrown' \in Nat /\ thrown <= thrown'
    BY <1>4, TroubleGrows
  <2>2. /\ Len(buffer') \in Nat /\ Len(queue) \in Nat /\ Len(buffer) \in Nat
        /\ AtLeastOne(config.maxBufferedEvents) \in Nat
    BY <1>1, <1>4 DEF AtLeastOne
  <2>3. \/ Len(buffer') <= Len(buffer)
        \/ Len(buffer') <= AtLeastOne(config.maxBufferedEvents)
    BY <1>4, <2>2
  <2>4. BufferIsBounded'
    BY <1>4, <2>1, <2>3, BoundKept
  <2>5. ~windowOpen' => buffer' = <<>>
    <3>1. ASSUME ~windowOpen' PROVE Len(buffer') = 0
      <4>1. Len(queue) = 0
        BY <1>2, <3>1
      <4> QED
        BY <1>4, <2>2, <4>1
    <3> QED
      BY <1>4, <3>1
  <2>6. config' \in Configs /\ windowOpen' \in BOOLEAN
    BY <1>1, <1>2
  <2> QED
    BY <1>4, <2>1, <2>4, <2>5, <2>6, InvNext
<1>5. CASE Loses(0) /\ buffer' = queue /\ UNCHANGED <<droppedEvents, sent>>
  <2>1. 0 \in Nat /\ Len(queue) <= Len(queue)
    OBVIOUS
  <2>2. /\ sent' \in Seq(Message) /\ droppedEvents' \in Nat /\ buffer' \in Seq(Nat)
        /\ Len(buffer') <= Len(queue)
    BY <1>1, <1>5, <2>1
  <2>3. Ordered(sent', buffer', later)
    BY <1>3, <1>5, Zenon DEF st
  <2> QED
    BY <1>4, <1>5, <2>1, <2>2, <2>3
<1>6. ASSUME NEW n \in 0..Len(queue), n < BatchCount(Len(queue), size),
             Loses(BatchSize(queue, size, n)),
             sent' = st \o notice \o SubSeq(Batches(queue, size), 1, n),
             droppedEvents' = IF config.emitDropNotice THEN 0 ELSE droppedEvents,
             buffer' = After(queue, size, n + 1)
      PROVE  ConnectionInv'
  <2> DEFINE m == n + 1
             rest == After(queue, size, m)
             all == begun \o SubSeq(Batches(queue, size), 1, n)
             lost == BatchSize(queue, size, n)
  <2>1. /\ n \in Nat /\ m \in Nat /\ n <= m /\ n \in 0..BatchCount(Len(queue), size)
    <3> DEFINE count == BatchCount(Len(queue), size)
    <3>1. count \in Nat
      <4>1. size \in Nat \ {0} /\ Len(queue) \in Nat
        BY <1>1
      <4> HIDE DEF size
      <4> QED
        BY <4>1, BatchCountBounds
    <3>2. n < count /\ n \in Nat
      BY <1>6
    <3> HIDE DEF count, size
    <3>3. n \in 0..count /\ n + 1 \in Nat /\ n <= n + 1
      BY <3>1, <3>2
    <3> QED
      BY <3>2, <3>3 DEF count
  <2>2. notice \in Seq(Message) /\ \A i \in DOMAIN notice : notice[i].events = <<>>
    BY <1>1, ReportFacts
  <2> HIDE DEF m, st, notice, size
  <2>3. begun \in Seq(Message) /\ Ordered(begun, queue, later)
    BY <1>1, <1>3, <2>2, NoticeOrdered
  <2> HIDE DEF begun
  <2>4. rest \in Seq(Nat) /\ all \in Seq(Message) /\ Ordered(all, rest, later)
    BY <1>1, <2>1, <2>3, SplitStep
  <2>5. Len(rest) <= Len(queue)
    BY <1>1, <2>1, <2>3, RestOrdered
  <2>6. lost \in Nat
    BY <1>1, <2>1, BatchSizeFacts
  <2> HIDE DEF rest, all, lost
  <2>7. sent' = all /\ buffer' = rest /\ Loses(lost)
    BY <1>6 DEF all, rest, begun, m, lost
  <2>8. Ordered(sent', buffer', later)
    BY <2>4, <2>7, Zenon
  <2>9. /\ sent' \in Seq(Message) /\ droppedEvents' \in Nat /\ buffer' \in Seq(Nat)
        /\ Len(buffer') <= Len(queue)
    BY <1>1, <1>6, <2>4, <2>5, <2>7
  <2> QED
    BY <1>4, <2>6, <2>7, <2>8, <2>9
<1> QED
  BY <1>5, <1>6 DEF FlushThrows

LEMMA SendBufferedStep == ConnectionInv /\ SendBuffered => ConnectionInv'
<1> SUFFICES ASSUME ConnectionInv, SendBuffered PROVE ConnectionInv'
  OBVIOUS
<1> DEFINE e == Event
           later == e + 1
           queue == Append(buffer, e)
           bound == config.maxBufferedEvents
<1>1. /\ e \in Nat /\ sent \in Seq(Message) /\ Ordered(sent, buffer, e) /\ buffer \in Seq(Nat)
      /\ config \in Configs /\ droppedEvents \in Nat /\ bound \in Nat
      /\ Ascending(buffer) /\ Below(buffer, <<e>>)
  BY InvFacts
<1>2. /\ config' = config /\ offered' = e /\ windowOpen = TRUE /\ ~(Len(buffer) >= bound)
      /\ updates' = updates
  BY InvFacts DEF SendBuffered, Offer, Event, Full
<1>3. /\ later \in Nat /\ e <= later /\ later = offered' + 1 /\ offered' \in Nat
  BY <1>1, <1>2
<1>4. /\ queue \in Seq(Nat) /\ Ordered(sent, queue, later)
      /\ Len(queue) <= AtLeastOne(bound)
  <2> DEFINE st == sent
             b == buffer
  <2>1. Len(queue) = Len(buffer) + 1
    BY <1>1
  <2>2. st \in Seq(Message) /\ b \in Seq(Nat) /\ Ordered(st, b, e)
    BY <1>1
  <2> HIDE DEF e, st, b
  <2>3. Append(b, e) \in Seq(Nat) /\ Ordered(st, Append(b, e), later)
    BY <1>1, <2>2, WaitingOrdered
  <2>4. Len(queue) <= AtLeastOne(bound)
    BY <1>1, <1>2, <2>1 DEF AtLeastOne
  <2> QED
    BY <2>3, <2>4 DEF st, b
<1>5. CASE /\ buffer' = queue
           /\ UNCHANGED <<windowOpen, timer, droppedEvents, sent, trouble>>
  <2> HIDE DEF e
  <2>1. CountersOK' /\ thrown' \in Nat /\ thrown <= thrown'
    BY <1>2, <1>5, TroubleKept
  <2>2. buffer' \in Seq(Nat) /\ Len(buffer') <= AtLeastOne(config.maxBufferedEvents)
    BY <1>5, <1>4
  <2>3. BufferIsBounded'
    BY <1>2, <2>1, <2>2, BoundKept
  <2> HIDE DEF queue, later
  <2>4. /\ config' \in Configs /\ buffer' \in Seq(Nat) /\ windowOpen' \in BOOLEAN
        /\ droppedEvents' \in Nat /\ sent' \in Seq(Message) /\ (~windowOpen' => buffer' = <<>>)
    BY <1>1, <1>2, <1>5, <1>4
  <2>5. Ordered(sent', buffer', later)
    BY <1>5, <1>4, Zenon
  <2> QED
    BY <1>3, <2>1, <2>3, <2>4, <2>5, InvNext
<1>6. CASE FlushAll(queue)
  <2> DEFINE b == buffer
  <2>1. queue \in Seq(Nat) /\ Ascending(queue) /\ Below(queue, <<later>>)
    BY <1>1, AppendOrdered
  <2>2. Taken(queue, Append(buffer, Event))
    <3>1. Taken(Append(b, e), Append(b, e))
      <4> HIDE DEF b, e
      <4> QED
        BY <1>1, TakenFacts DEF b
    <3> QED
      BY <3>1
  <2>3. Event <= later
    BY <1>3
  <2> HIDE DEF e, queue, later
  <2> QED
    BY <1>2, <1>3, <1>6, <2>1, <2>2, <2>3, FlushAllStep
<1>7. CASE FlushThrows(queue)
  <2> HIDE DEF e, queue, later
  <2> QED
    BY <1>2, <1>3, <1>4, <1>7, FlushThrowsStep
<1> QED
  BY <1>5, <1>6, <1>7 DEF SendBuffered

\* The timer fires, or somebody flushes.
LEMMA FlushStep == ConnectionInv /\ (Timer \/ Flush) => ConnectionInv'
<1> SUFFICES ASSUME ConnectionInv, Timer \/ Flush PROVE ConnectionInv'
  OBVIOUS
<1>1. /\ FlushAll(buffer) \/ FlushThrows(buffer)
      /\ config' = config /\ offered' = offered /\ updates' = updates
  BY DEF Timer, Flush
<1>2. /\ buffer \in Seq(Nat) /\ offered \in Nat /\ Event \in Nat
      /\ Ascending(buffer) /\ Below(buffer, <<Event>>) /\ Ordered(sent, buffer, Event)
      /\ ~windowOpen => buffer = <<>>
  BY InvFacts
<1>3. Taken(buffer, Append(buffer, Event))
  BY <1>2, TakenFacts
<1>4. /\ Event = offered' + 1 /\ offered' \in Nat /\ Event <= Event
      /\ Len(buffer) <= Len(buffer)
  BY <1>1, <1>2 DEF Event
<1>5. CASE FlushAll(buffer)
  BY <1>1, <1>2, <1>3, <1>4, <1>5, FlushAllStep
<1>6. CASE FlushThrows(buffer)
  BY <1>1, <1>2, <1>4, <1>6, FlushThrowsStep
<1> QED
  BY <1>1, <1>5, <1>6

\* No more rounds of overflow handling than there are batches.
LEMMA RoundsFit ==
  ASSUME buffer \in Seq(Nat), NEW c \in Configs, NEW n \in Nat, n < Rounds(c)
  PROVE  n \in 0..BatchCount(Len(buffer), c.maxBatchSize)
<1> DEFINE size == c.maxBatchSize
           rounds == BatchCount(Excess(c), size)
           count == BatchCount(Len(buffer), size)
<1>1. size \in Nat \ {0} /\ c.maxBufferedEvents \in Nat /\ Len(buffer) \in Nat
  BY ConfigFacts
<1>2. Excess(c) \in Nat /\ Excess(c) <= Len(buffer)
  BY <1>1 DEF Excess
<1> HIDE DEF size
<1>3. rounds \in Nat /\ count \in Nat /\ rounds <= count
  BY <1>1, <1>2, BatchCountBounds, BatchCountMonotone
<1>4. n < rounds
  BY DEF Rounds, size
<1> HIDE DEF rounds, count
<1>5. n \in 0..count
  BY <1>3, <1>4
<1> QED
  BY <1>5 DEF count, size

\* New settings: what no longer fits is dropped or goes out.
LEMMA UpdateStep ==
  ASSUME ConnectionInv, NEW c \in Configs, UpdateConfig(c)
  PROVE  ConnectionInv'
<1> DEFINE e == Event
           size == c.maxBatchSize
           bound == c.maxBufferedEvents
           excess == Excess(c)
<1>1. /\ e \in Nat /\ sent \in Seq(Message) /\ Ordered(sent, buffer, e) /\ buffer \in Seq(Nat)
      /\ droppedEvents \in Nat /\ offered \in Nat /\ windowOpen \in BOOLEAN
      /\ (~windowOpen => buffer = <<>>)
      /\ e = offered + 1
  BY InvFacts DEF Event
<1>2. size \in Nat \ {0} /\ bound \in Nat /\ Len(buffer) \in Nat
  BY <1>1, ConfigFacts
<1>3. /\ excess \in Nat /\ excess <= Len(buffer) /\ Len(buffer) - excess <= bound
  BY <1>2 DEF Excess
<1>4. config' = c /\ windowOpen' = windowOpen /\ offered' = offered /\ CountersOK'
  <2>1. UNCHANGED trouble /\ updates' = updates + 1
    BY DEF UpdateConfig, Update
  <2> QED
    BY <2>1, TroubleKept DEF UpdateConfig, Update
<1>5. CASE /\ buffer' = SubSeq(buffer, 1, Len(buffer) - excess)
           /\ droppedEvents' = droppedEvents + excess
           /\ sent' = sent
  <2> DEFINE kept == SubSeq(buffer, 1, Len(buffer) - excess)
  <2>1. /\ kept \in Seq(Nat) /\ Len(kept) = Len(buffer) - excess
        /\ \A k \in DOMAIN kept : k \in DOMAIN buffer /\ kept[k] = buffer[k]
        /\ DOMAIN kept = 1..(Len(buffer) - excess)
    <3> HIDE DEF excess
    <3> QED
      BY <1>1, <1>2, <1>3
  <2>2. Ordered(sent, kept, e)
    <3> HIDE DEF kept, e, excess
    <3> QED
      BY <1>1, <2>1 DEF Ordered, Ascending, Below
  <2>3. Len(kept) <= AtLeastOne(bound)
    <3> HIDE DEF kept, excess
    <3> QED
      BY <1>2, <1>3, <2>1 DEF AtLeastOne
  <2>4. buffer = <<>> => kept = <<>>
    <3>1. ASSUME buffer = <<>> PROVE Len(kept) = 0
      <4> HIDE DEF kept, excess
      <4>1. Len(buffer) = 0
        BY <3>1
      <4> QED
        BY <1>2, <1>3, <2>1, <4>1
    <3> HIDE DEF kept
    <3> QED
      BY <2>1, <3>1
  <2> HIDE DEF kept, e, excess, bound
  <2>5. buffer' = kept
    BY <1>5 DEF kept
  <2>6. /\ config' \in Configs /\ buffer' \in Seq(Nat) /\ windowOpen' \in BOOLEAN
        /\ sent' \in Seq(Message) /\ offered' \in Nat
        /\ (~windowOpen' => buffer' = <<>>) /\ e = offered' + 1
    BY <1>1, <1>4, <1>5, <2>1, <2>4, <2>5
  <2>7. droppedEvents' \in Nat
    BY <1>1, <1>3, <1>5 DEF excess
  <2>8. Ordered(sent', buffer', e)
    BY <1>5, <2>2, <2>5, Zenon
  <2>9. CountersOK' /\ BufferIsBounded'
    BY <1>4, <2>3, <2>5 DEF bound, BufferIsBounded, Within
  <2> QED
    BY <2>6, <2>7, <2>8, <2>9, InvNext
<1>6. CASE /\ sent' = sent \o SubSeq(Batches(buffer, size), 1, Rounds(c))
           /\ buffer' = After(buffer, size, Rounds(c))
           /\ droppedEvents' = droppedEvents
  <2> DEFINE n == Rounds(c)
             rest == After(buffer, size, n)
             all == sent \o SubSeq(Batches(buffer, size), 1, n)
  <2>1. n = BatchCount(excess, size)
    BY DEF Rounds
  <2> HIDE DEF n, size, bound, excess, e
  <2>2. n \in Nat /\ excess <= n * size /\ n <= BatchCount(Len(buffer), size)
        /\ BatchCount(Len(buffer), size) \in Nat
    BY <1>2, <1>3, <2>1, BatchCountBounds, BatchCountMonotone
  <2>3. n \in 0..BatchCount(Len(buffer), size) /\ n <= n
    BY <2>2
  <2>4. rest \in Seq(Nat) /\ all \in Seq(Message) /\ Ordered(all, rest, e)
    BY <1>1, <1>2, <2>2, <2>3, SplitStep
  <2>5. Len(rest) = Len(buffer) - AtMost(n * size, Len(buffer))
    BY <1>1, <1>2, <2>2, AfterFacts
  <2>6. Len(rest) <= AtLeastOne(bound) /\ (Len(buffer) = 0 => Len(rest) = 0)
    <3> DEFINE gone == n * size
    <3>1. gone \in Nat /\ excess <= gone
      BY <1>2, <2>2
    <3> HIDE DEF gone, rest
    <3>2. Len(rest) = Len(buffer) - AtMost(gone, Len(buffer))
      BY <2>5 DEF gone
    <3>3. \A m, k, x, g \in Nat : k <= x /\ m - k <= g =>
            m - AtMost(x, m) <= AtLeastOne(g) /\ (m = 0 => m - AtMost(x, m) = 0)
      BY DEF AtMost, AtLeastOne
    <3> QED
      BY <1>2, <1>3, <3>1, <3>2, <3>3
  <2> HIDE DEF rest, all
  <2>7. sent' = all /\ buffer' = rest
    BY <1>6 DEF all, rest, n, size
  <2>8. buffer = <<>> => rest = <<>>
    BY <2>4, <2>6
  <2>9. /\ config' \in Configs /\ buffer' \in Seq(Nat) /\ windowOpen' \in BOOLEAN
        /\ droppedEvents' \in Nat /\ sent' \in Seq(Message) /\ offered' \in Nat
        /\ (~windowOpen' => buffer' = <<>>) /\ e = offered' + 1
    BY <1>1, <1>4, <1>6, <2>4, <2>7, <2>8
  <2>10. Ordered(sent', buffer', e)
    BY <2>4, <2>7, Zenon
  <2>11. CountersOK' /\ BufferIsBounded'
    BY <1>4, <2>6, <2>7 DEF bound, BufferIsBounded, Within
  <2> QED
    BY <2>9, <2>10, <2>11, InvNext
<1> QED
  BY <1>5, <1>6 DEF UpdateConfig

\* A message throws while room is made for new settings.
LEMMA UpdateThrowsStep ==
  ASSUME ConnectionInv, NEW c \in Configs, UpdateConfigThrows(c)
  PROVE  ConnectionInv'
<1> DEFINE e == Event
           size == c.maxBatchSize
           st == sent
           b == buffer
<1>1. /\ e \in Nat /\ st \in Seq(Message) /\ Ordered(st, b, e) /\ b \in Seq(Nat)
      /\ droppedEvents \in Nat /\ offered \in Nat /\ windowOpen \in BOOLEAN
      /\ (~windowOpen => b = <<>>) /\ config \in Configs
      /\ e = offered + 1
  BY InvFacts DEF Event
<1>2. size \in Nat \ {0} /\ Len(b) \in Nat /\ c.maxBufferedEvents \in Nat
  BY <1>1, ConfigFacts
<1>3. /\ config' = c /\ windowOpen' = windowOpen /\ offered' = offered
      /\ updates' = updates + 1 /\ droppedEvents' = droppedEvents
  BY DEF UpdateConfigThrows, Update
<1>4. PICK n \in 0..Len(b) :
        /\ n < Rounds(c)
        /\ Loses(BatchSize(b, size, n))
        /\ sent' = st \o SubSeq(Batches(b, size), 1, n)
        /\ buffer' = After(b, size, n + 1)
  BY DEF UpdateConfigThrows
<1> DEFINE m == n + 1
           rest == After(b, size, m)
           all == st \o SubSeq(Batches(b, size), 1, n)
           lost == BatchSize(b, size, n)
<1>5. n \in Nat /\ m \in Nat /\ n <= m /\ n \in 0..BatchCount(Len(b), size)
  BY <1>1, <1>2, <1>4, RoundsFit
<1>6. sent' = all /\ buffer' = rest /\ Loses(lost)
  BY <1>4
<1> HIDE DEF b, st, size, m, e
<1>7. rest \in Seq(Nat) /\ all \in Seq(Message) /\ Ordered(all, rest, e)
  BY <1>1, <1>2, <1>5, SplitStep
<1>8. Len(rest) <= Len(b)
  BY <1>1, <1>2, <1>5, RestOrdered
<1>9. lost \in Nat
  BY <1>1, <1>2, <1>5, BatchSizeFacts
<1> HIDE DEF rest, all, lost
<1>10. CountersOK' /\ thrown' > 0 /\ updates' > 0
  BY <1>3, <1>6, <1>9, TroubleGrows DEF ConnectionInv, CountersOK
<1>11. \E d \in Configs : Len(buffer') <= AtLeastOne(d.maxBufferedEvents)
  <2>1. PICK d \in Configs : Within(d)
    BY <1>1 DEF ConnectionInv, BufferIsBounded
  <2>2. AtLeastOne(d.maxBufferedEvents) \in Nat
    BY ConfigFacts DEF AtLeastOne
  <2>3. Len(b) <= AtLeastOne(d.maxBufferedEvents) /\ Len(buffer') = Len(rest) /\ Len(rest) \in Nat
    BY <1>6, <1>7, <2>1 DEF Within, b
  <2> QED
    BY <1>2, <1>8, <2>2, <2>3
<1>12. BufferIsBounded'
  BY <1>10, <1>11 DEF BufferIsBounded, Within
<1>13. ~windowOpen' => buffer' = <<>>
  <2>1. ASSUME ~windowOpen' PROVE Len(rest) = 0
    <3>1. Len(b) = 0
      BY <1>1, <1>3, <2>1
    <3> QED
      BY <1>7, <1>8, <3>1
  <2> QED
    BY <1>6, <1>7, <2>1
<1>14. /\ config' \in Configs /\ buffer' \in Seq(Nat) /\ windowOpen' \in BOOLEAN
       /\ droppedEvents' \in Nat /\ sent' \in Seq(Message) /\ offered' \in Nat /\ e = offered' + 1
  BY <1>1, <1>3, <1>6, <1>7
<1>15. Ordered(sent', buffer', e)
  BY <1>6, <1>7, Zenon
<1> QED
  BY <1>10, <1>12, <1>13, <1>14, <1>15, InvNext

LEMMA NextInv == ConnectionInv /\ [Next]_vars => ConnectionInv'
<1> SUFFICES ASSUME ConnectionInv, [Next]_vars PROVE ConnectionInv'
  OBVIOUS
<1>1. CASE Send
  BY <1>1, SendFirstStep, SendFirstThrowsStep, SendDroppedStep, SendOverflowStep,
     SendOverflowThrowsStep, SendBufferedStep DEF Send
<1>2. CASE Timer \/ Flush
  BY <1>2, FlushStep
<1>3. ASSUME NEW c \in Configs, UpdateConfig(c) \/ UpdateConfigThrows(c) PROVE ConnectionInv'
  BY <1>3, UpdateStep, UpdateThrowsStep
<1>4. CASE UNCHANGED vars
  <2>1. /\ config' = config /\ buffer' = buffer /\ windowOpen' = windowOpen
        /\ droppedEvents' = droppedEvents /\ sent' = sent /\ offered' = offered
        /\ updates' = updates /\ UNCHANGED trouble
    BY <1>4 DEF vars
  <2>2. Ordered(sent', buffer', Event) /\ Event = offered' + 1
    BY <2>1, InvFacts, Zenon DEF Event
  <2>3. /\ config' \in Configs /\ buffer' \in Seq(Nat) /\ windowOpen' \in BOOLEAN
        /\ droppedEvents' \in Nat /\ sent' \in Seq(Message) /\ offered' \in Nat
        /\ ~windowOpen' => buffer' = <<>>
    BY <2>1, InvFacts
  <2>4. CountersOK' /\ thrown' \in Nat /\ thrown <= thrown'
    BY <2>1, TroubleKept
  <2>5. buffer' \in Seq(Nat) /\ Len(buffer') <= Len(buffer)
    BY <2>1, <2>3
  <2>6. BufferIsBounded'
    BY <2>1, <2>4, <2>5, BoundKept
  <2> QED
    BY <2>2, <2>3, <2>4, <2>6, InvNext
<1> QED
  BY <1>1, <1>2, <1>3, <1>4 DEF Next

LEMMA AlwaysInv == Spec => []ConnectionInv
<1>1. Init => ConnectionInv
  BY InitInv
<1>2. ConnectionInv /\ [Next]_vars => ConnectionInv'
  BY NextInv
<1> QED
  BY <1>1, <1>2, PTL DEF Spec

(***************************************************************************)
(* The consumer sees the events in the order they were offered, whatever   *)
(* the settings and however they change (EventsKeepOrder).                 *)
(***************************************************************************)
THEOREM EventsAlwaysKeepOrder == Spec => []EventsKeepOrder
<1>1. ConnectionInv => EventsKeepOrder
  BY DEF ConnectionInv, EventsKeepOrder, Ordered
<1> QED
  BY <1>1, AlwaysInv, PTL

(***************************************************************************)
(* No more events wait than maxBufferedEvents allows, or one, unless an    *)
(* update of the settings was cut short by a message that threw            *)
(* (BufferIsBounded).                                                      *)
(***************************************************************************)
THEOREM BufferStaysBounded == Spec => []BufferIsBounded
<1>1. ConnectionInv => BufferIsBounded
  BY DEF ConnectionInv
<1> QED
  BY <1>1, AlwaysInv, PTL

-----------------------------------------------------------------------------
(* What the notices report *)

\* Reported of the messages s.
Tally(s) ==
  CHOOSE f : f = [n \in 0..Len(s) |-> IF n = 0 THEN 0 ELSE f[n - 1] + s[n].dropped]

Total(s) == Tally(s)[Len(s)]

\* f counts what the notices among s report.
Counts(f, s) ==
  /\ f \in [0..Len(s) -> Nat]
  /\ f[0] = 0
  /\ \A n \in 1..Len(s) : f[n] = f[n - 1] + s[n].dropped

LEMMA TallyCounts ==
  ASSUME NEW s \in Seq(Message)
  PROVE  Counts(Tally(s), s)
<1> DEFINE n == Len(s)
           number == [i \in 1..n |-> s[i].dropped]
           step == [x \in Nat \X Nat |-> IF x[2] \in 1..n THEN x[1] + number[x[2]] ELSE x[1]]
           Rhs(f) == [i \in 0..n |-> IF i = 0 THEN 0 ELSE f[i - 1] + s[i].dropped]
           tally == CHOOSE f : f = Rhs(f)
<1>1. n \in Nat /\ \A i \in 1..n : s[i].dropped \in Nat
  <2>1. \A i \in 1..n : s[i] \in Message
    OBVIOUS
  <2> QED
    BY <2>1 DEF Message
<1>2. Tally(s) = tally
  BY DEF Tally
<1> HIDE DEF n
<1>3. number \in [1..n -> Nat]
  BY <1>1
<1>4. \A i \in 1..n : number[i] = s[i].dropped
  OBVIOUS
<1> HIDE DEF number
<1>5. step \in [Nat \X Nat -> Nat]
  BY <1>3
<1>6. \A x \in Nat, i \in 1..n : step[<<x, i>>] = x + s[i].dropped
  <2> TAKE x \in Nat, i \in 1..n
  <2>1. <<x, i>> \in Nat \X Nat
    BY <1>1
  <2> QED
    BY <1>4, <2>1
<1> HIDE DEF step
<1>7. PICK g : Primitive(g, Nat, 0, step, n)
  BY <1>1, <1>5, Recursive
<1>8. \A i \in 1..n : i - 1 \in 0..n /\ i # 0 /\ i \in 0..n
  BY <1>1
<1>9. \A i \in 1..n : g[i] = g[i - 1] + s[i].dropped
  BY <1>6, <1>7, <1>8 DEF Primitive
<1>10. g = Rhs(g)
  <2>1. \A i \in 0..n : i = 0 \/ i \in 1..n
    BY <1>1
  <2>2. \A i \in 0..n : Rhs(g)[i] = g[i]
    BY <1>7, <1>9, <2>1 DEF Primitive
  <2>3. Rhs(g) = [i \in 0..n |-> Rhs(g)[i]]
    OBVIOUS
  <2> HIDE DEF Rhs
  <2> QED
    BY <1>7, <2>2, <2>3 DEF Primitive
<1>11. tally = Rhs(tally)
  BY <1>10
<1> HIDE DEF tally
<1>12. DOMAIN tally = 0..n /\ tally = [i \in DOMAIN tally |-> tally[i]] /\ tally[0] = 0
  BY <1>1, <1>11
<1>13. \A i \in 1..n : tally[i] = tally[i - 1] + s[i].dropped
  BY <1>8, <1>11
<1>14. \A i \in 1..n : tally[i - 1] \in Nat => tally[i] \in Nat
  BY <1>1, <1>13
<1>15. tally \in [0..n -> Nat]
  <2> DEFINE N == Nat
  <2>1. /\ tally[0] \in N
        /\ \A i \in 1..n : tally[i - 1] \in N => tally[i] \in N
    BY <1>12, <1>14
  <2> HIDE DEF N
  <2>2. tally \in [0..n -> N]
    BY <1>1, <1>12, <2>1, RecursiveType
  <2> QED
    BY <2>2 DEF N
<1> QED
  BY <1>2, <1>12, <1>13, <1>15 DEF Counts, n

LEMMA TotalType ==
  ASSUME NEW s \in Seq(Message)
  PROVE  Total(s) \in Nat
<1>1. Len(s) \in 0..Len(s) /\ Counts(Tally(s), s)
  BY TallyCounts
<1> QED
  BY <1>1 DEF Total, Counts

\* Messages that are not notices report nothing.
LEMMA TotalZero ==
  ASSUME NEW s \in Seq(Message), \A i \in DOMAIN s : s[i].dropped = 0
  PROVE  Total(s) = 0
<1> DEFINE f == Tally(s)
           S == {i \in 0..Len(s) : f[i] = 0}
<1>1. Counts(f, s) /\ Len(s) \in Nat
  BY TallyCounts
<1> HIDE DEF f
<1>2. 0 \in S
  BY <1>1 DEF Counts
<1>3. ASSUME NEW i \in 0..(Len(s) - 1), i \in S PROVE i + 1 \in S
  <2>1. i + 1 \in 1..Len(s) /\ i + 1 \in 0..Len(s) /\ (i + 1) - 1 = i /\ i + 1 \in DOMAIN s
    BY <1>1
  <2>2. f[i + 1] = f[i] + s[i + 1].dropped
    BY <1>1, <2>1 DEF Counts
  <2> QED
    BY <1>3, <2>1, <2>2
<1>4. \A i \in 0..Len(s) : i \in S
  <2> HIDE DEF S
  <2> QED
    BY <1>1, <1>2, <1>3, UpTo
<1>5. Len(s) \in 0..Len(s)
  BY <1>1
<1> QED
  BY <1>4, <1>5 DEF Total, f

LEMMA TotalOne ==
  ASSUME NEW m \in Message
  PROVE  <<m>> \in Seq(Message) /\ Total(<<m>>) = m.dropped
<1> DEFINE s == <<m>>
<1>1. s \in Seq(Message) /\ Len(s) = 1 /\ s[1] = m /\ m.dropped \in Nat
  BY DEF Message
<1> HIDE DEF s
<1>2. Counts(Tally(s), s)
  BY <1>1, TallyCounts
<1>3. Tally(s)[1] = Tally(s)[0] + s[1].dropped /\ Tally(s)[0] = 0
  <2>1. 1 \in 1..Len(s) /\ 1 - 1 = 0
    BY <1>1
  <2> QED
    BY <1>2, <2>1 DEF Counts
<1>4. Total(s) = m.dropped
  BY <1>1, <1>3 DEF Total
<1> QED
  BY <1>1, <1>4 DEF s

LEMMA TotalConcat ==
  ASSUME NEW s \in Seq(Message), NEW t \in Seq(Message)
  PROVE  Total(s \o t) = Total(s) + Total(t)
<1> DEFINE all == s \o t
           m == Len(s)
           n == Len(t)
           f == Tally(all)
           g == Tally(s)
           h == Tally(t)
           S == {i \in 0..m : f[i] = g[i]}
           T == {i \in 0..n : f[m + i] = g[m] + h[i]}
<1>1. /\ all \in Seq(Message) /\ Len(all) = m + n /\ m \in Nat /\ n \in Nat
      /\ \A i \in 1..m : all[i] = s[i]
      /\ \A i \in 1..n : all[m + i] = t[i]
  OBVIOUS
<1>2. Counts(f, all) /\ Counts(g, s) /\ Counts(h, t)
  BY <1>1, TallyCounts
<1>3. /\ f \in [0..(m + n) -> Nat] /\ g \in [0..m -> Nat] /\ h \in [0..n -> Nat]
      /\ f[0] = 0 /\ g[0] = 0 /\ h[0] = 0
      /\ \A i \in 1..(m + n) : f[i] = f[i - 1] + all[i].dropped
      /\ \A i \in 1..m : g[i] = g[i - 1] + s[i].dropped
      /\ \A i \in 1..n : h[i] = h[i - 1] + t[i].dropped
  BY <1>1, <1>2 DEF Counts
<1>4. /\ Total(all) = f[m + n] /\ Total(s) = g[m] /\ Total(t) = h[n]
  BY <1>1 DEF Total
<1>5. /\ \A i \in 1..n : t[i].dropped \in Nat
      /\ \A i \in 1..m : s[i].dropped \in Nat
  <2>1. (\A i \in 1..n : t[i] \in Message) /\ (\A i \in 1..m : s[i] \in Message)
    OBVIOUS
  <2> QED
    BY <2>1 DEF Message
<1> HIDE DEF all, m, n, f, g, h
<1>6. \A i \in 0..m : i \in S
  <2>1. 0 \in S
    BY <1>1, <1>3
  <2>2. ASSUME NEW i \in 0..(m - 1), i \in S PROVE i + 1 \in S
    <3>1. /\ i + 1 \in 1..m /\ i + 1 \in 1..(m + n) /\ i + 1 \in 0..m /\ (i + 1) - 1 = i
      BY <1>1
    <3>2. f[i + 1] = f[i] + s[i + 1].dropped
      BY <1>1, <1>3, <3>1
    <3>3. g[i + 1] = g[i] + s[i + 1].dropped
      BY <1>3, <3>1
    <3> QED
      BY <2>2, <3>1, <3>2, <3>3
  <2> HIDE DEF S
  <2> QED
    BY <1>1, <2>1, <2>2, UpTo
<1>7. f[m] = g[m] /\ g[m] \in Nat
  <2>1. m \in 0..m
    BY <1>1
  <2> QED
    BY <1>3, <1>6, <2>1
<1>8. \A i \in 0..n : i \in T
  <2>1. 0 \in T
    BY <1>1, <1>3, <1>7
  <2>2. ASSUME NEW i \in 0..(n - 1), i \in T PROVE i + 1 \in T
    <3>1. /\ i + 1 \in 1..n /\ m + (i + 1) \in 1..(m + n) /\ i + 1 \in 0..n /\ i \in 0..n
          /\ (i + 1) - 1 = i /\ (m + (i + 1)) - 1 = m + i
      BY <1>1
    <3>2. f[m + (i + 1)] = f[m + i] + t[i + 1].dropped
      BY <1>1, <1>3, <3>1
    <3>3. h[i + 1] = h[i] + t[i + 1].dropped
      BY <1>3, <3>1
    <3>4. h[i] \in Nat /\ t[i + 1].dropped \in Nat
      BY <1>3, <1>5, <3>1
    <3>5. f[m + i] = g[m] + h[i]
      BY <2>2
    <3> QED
      BY <1>7, <3>1, <3>2, <3>3, <3>4, <3>5
  <2> HIDE DEF T
  <2> QED
    BY <1>1, <2>1, <2>2, UpTo
<1>9. n \in 0..n
  BY <1>1
<1>10. f[m + n] = g[m] + h[n]
  BY <1>8, <1>9
<1> QED
  BY <1>4, <1>10 DEF all

-----------------------------------------------------------------------------
(* What was delivered *)

\* Delivered of the messages s.
DeliveredBy(s) == UNION {EventsOf(s[i].events) : i \in DOMAIN s}

LEMMA DeliveredConcat ==
  ASSUME NEW s \in Seq(Message), NEW t \in Seq(Message)
  PROVE  DeliveredBy(s \o t) = DeliveredBy(s) \cup DeliveredBy(t)
<1>1. /\ DOMAIN (s \o t) = 1..(Len(s) + Len(t)) /\ DOMAIN s = 1..Len(s) /\ DOMAIN t = 1..Len(t)
      /\ Len(s) \in Nat /\ Len(t) \in Nat
      /\ \A i \in 1..Len(s) : (s \o t)[i] = s[i]
      /\ \A i \in 1..Len(t) : (s \o t)[Len(s) + i] = t[i]
  OBVIOUS
<1>2. ASSUME NEW i \in DOMAIN (s \o t)
      PROVE  \/ \E j \in DOMAIN s : (s \o t)[i] = s[j]
             \/ \E j \in DOMAIN t : (s \o t)[i] = t[j]
  <2>1. CASE i <= Len(s)
    BY <1>1, <2>1
  <2>2. CASE i > Len(s)
    <3>1. i - Len(s) \in 1..Len(t) /\ Len(s) + (i - Len(s)) = i
      BY <1>1, <2>2
    <3> QED
      BY <1>1, <3>1
  <2> QED
    BY <1>1, <2>1, <2>2
<1>3. \A j \in DOMAIN s : \E i \in DOMAIN (s \o t) : (s \o t)[i] = s[j]
  BY <1>1
<1>4. ASSUME NEW j \in DOMAIN t
      PROVE  \E i \in DOMAIN (s \o t) : (s \o t)[i] = t[j]
  <2>1. Len(s) + j \in DOMAIN (s \o t) /\ (s \o t)[Len(s) + j] = t[j]
    BY <1>1
  <2> QED
    BY <2>1
<1> DEFINE all == s \o t
<1>5. /\ \A i \in DOMAIN all : \/ \E j \in DOMAIN s : all[i] = s[j]
                               \/ \E j \in DOMAIN t : all[i] = t[j]
      /\ \A j \in DOMAIN s : \E i \in DOMAIN all : all[i] = s[j]
      /\ \A j \in DOMAIN t : \E i \in DOMAIN all : all[i] = t[j]
  BY <1>2, <1>3, <1>4
<1> HIDE DEF all
<1>6. DeliveredBy(all) = DeliveredBy(s) \cup DeliveredBy(t)
  BY <1>5, Zenon DEF DeliveredBy
<1> QED
  BY <1>6 DEF all

LEMMA DeliveredOne ==
  ASSUME NEW m \in Message
  PROVE  DeliveredBy(<<m>>) = EventsOf(m.events)
<1>1. DOMAIN <<m>> = {1} /\ <<m>>[1] = m
  OBVIOUS
<1> QED
  BY <1>1 DEF DeliveredBy

LEMMA EventsAppend ==
  ASSUME NEW queue \in Seq(Nat), NEW e \in Nat
  PROVE  EventsOf(Append(queue, e)) = EventsOf(queue) \cup {e}
<1>1. /\ DOMAIN Append(queue, e) = 1..(Len(queue) + 1) /\ DOMAIN queue = 1..Len(queue)
      /\ Len(queue) \in Nat
      /\ \A k \in 1..Len(queue) : Append(queue, e)[k] = queue[k]
      /\ Append(queue, e)[Len(queue) + 1] = e
  OBVIOUS
<1>2. \A k \in DOMAIN Append(queue, e) : k \in DOMAIN queue \/ k = Len(queue) + 1
  BY <1>1
<1>3. DOMAIN queue \subseteq DOMAIN Append(queue, e) /\ Len(queue) + 1 \in DOMAIN Append(queue, e)
  BY <1>1
<1> QED
  BY <1>1, <1>2, <1>3 DEF EventsOf

\* The first n batches of a queue and what is left hold its events, and no notice.
LEMMA BatchesCover ==
  ASSUME NEW queue \in Seq(Nat), NEW size \in Nat \ {0},
         NEW n \in 0..BatchCount(Len(queue), size),
         NEW first, first = SubSeq(Batches(queue, size), 1, n)
  PROVE  /\ first \in Seq(Message) /\ Total(first) = 0
         /\ DeliveredBy(first) \cup EventsOf(After(queue, size, n)) = EventsOf(queue)
<1> DEFINE rest == After(queue, size, n)
<1>1. n \in Nat /\ n <= BatchCount(Len(queue), size) /\ BatchCount(Len(queue), size) \in Nat
      /\ Len(queue) \in Nat
  BY BatchCountBounds
<1>2. first = [i \in 1..n |-> Batches(queue, size)[i]]
  BY <1>1 DEF Batches
<1>3. \A i \in 1..n : first[i] = Batches(queue, size)[i] /\ i \in 1..BatchCount(Len(queue), size)
  BY <1>1, <1>2
<1>4. \A i \in 1..n :
        /\ first[i] \in Message /\ first[i].dropped = 0
        /\ Window(first[i].events, queue, (i - 1) * size)
  BY <1>3, BatchFacts
<1>5. first \in Seq(Message) /\ DOMAIN first = 1..n
  BY <1>1, <1>2, <1>4
<1>6. Total(first) = 0
  BY <1>4, <1>5, TotalZero
<1>7. Window(rest, queue, n * size) /\ Len(rest) = Len(queue) - AtMost(n * size, Len(queue))
  BY <1>1, AfterFacts
<1>8. ASSUME NEW i \in 1..n, NEW x \in DOMAIN first[i].events
      PROVE  first[i].events[x] \in EventsOf(queue)
  <2>1. \E k \in DOMAIN queue : first[i].events[x] = queue[k]
    BY <1>4 DEF Window
  <2> QED
    BY <2>1 DEF EventsOf
<1>9. ASSUME NEW x \in DOMAIN rest
      PROVE  rest[x] \in EventsOf(queue)
  <2>1. \E k \in DOMAIN queue : rest[x] = queue[k]
    BY <1>7 DEF Window
  <2> QED
    BY <2>1 DEF EventsOf
<1>10. ASSUME NEW k \in DOMAIN queue
       PROVE  queue[k] \in DeliveredBy(first) \cup EventsOf(rest)
  <2> DEFINE gone == n * size
  <2>1. gone \in Nat /\ k \in Nat \ {0} /\ k <= Len(queue)
    BY <1>1
  <2>2. CASE gone < k
    <3> HIDE DEF gone
    <3>1. k - gone \in 1..(Len(queue) - gone) /\ AtMost(gone, Len(queue)) = gone
      BY <1>1, <2>1, <2>2 DEF AtMost
    <3>2. Len(rest) = Len(queue) - gone /\ rest \in Seq(Nat) /\ Window(rest, queue, gone)
      BY <1>7, <3>1 DEF gone, Window
    <3> HIDE DEF rest
    <3>3. k - gone \in DOMAIN rest
      BY <3>1, <3>2
    <3>4. rest[k - gone] = queue[gone + (k - gone)] /\ gone + (k - gone) = k
      BY <2>1, <3>2, <3>3 DEF Window
    <3> QED
      BY <3>3, <3>4 DEF EventsOf
  <2>3. CASE k <= gone
    <3> DEFINE i == BatchCount(k, size)
               from == (i - 1) * size
               to == AtMost(i * size, Len(queue))
               events == SubSeq(queue, from + 1, to)
    <3>1. i \in Nat /\ k <= i * size /\ (i - 1) * size < k
      BY <2>1, BatchCountBounds
    <3>2. i # 0
      <4>1. ASSUME i = 0 PROVE FALSE
        <5>1. 0 * size = 0
          OBVIOUS
        <5>2. k <= 0
          BY <3>1, <4>1, <5>1
        <5> QED
          BY <2>1, <5>2
      <4> QED
        BY <4>1
    <3> HIDE DEF i
    <3>3. i \in 1..n
      <4>1. ASSUME n + 1 <= i PROVE FALSE
        <5>1. n <= i - 1 /\ i - 1 \in Nat
          BY <1>1, <3>1, <3>2, <4>1
        <5>2. n * size <= (i - 1) * size
          BY <1>1, <5>1, TimesMonotone
        <5> DEFINE low == (i - 1) * size
        <5>3. low \in Nat /\ gone <= low /\ low < k
          BY <3>1, <5>1, <5>2
        <5> HIDE DEF gone, low
        <5> QED
          BY <2>1, <2>3, <5>3
      <4> QED
        BY <1>1, <3>1, <3>2, <4>1
    <3>4. first[i].events = events
      <4>1. Batches(queue, size)[i] = Batch(events)
        BY <1>3, <3>3 DEF Batches
      <4>2. Batch(events).events = events
        BY DEF Batch
      <4> QED
        BY <1>3, <3>3, <4>1, <4>2
    <3>5. from \in Nat /\ i * size \in Nat /\ from < k
      <4>1. i - 1 \in Nat
        BY <3>1, <3>2
      <4> QED
        BY <3>1, <4>1
    <3>6. to \in Nat /\ to <= Len(queue) /\ k <= to
      <4> DEFINE top == i * size
      <4>1. top \in Nat /\ k <= top
        BY <3>1, <3>5
      <4> HIDE DEF top
      <4>2. /\ AtMost(top, Len(queue)) \in Nat /\ AtMost(top, Len(queue)) <= Len(queue)
            /\ k <= AtMost(top, Len(queue))
        BY <1>1, <2>1, <4>1 DEF AtMost
      <4> QED
        BY <4>2 DEF top
    <3> HIDE DEF from, to
    <3>7. /\ Window(events, queue, from)
          /\ Len(events) = to - from /\ events \in Seq(Nat)
      <4>1. from <= to
        BY <2>1, <3>5, <3>6
      <4>2. Window(events, queue, from) /\ Len(events) = to - from
        BY <3>5, <3>6, <4>1, PartIsWindow
      <4> QED
        BY <4>2 DEF Window
    <3> HIDE DEF events
    <3>8. k - from \in DOMAIN events /\ from + (k - from) = k
      BY <2>1, <3>5, <3>6, <3>7
    <3>9. events[k - from] = queue[k]
      BY <3>7, <3>8 DEF Window
    <3>10. queue[k] \in EventsOf(first[i].events)
      BY <3>4, <3>8, <3>9 DEF EventsOf
    <3> QED
      BY <1>5, <3>3, <3>10 DEF DeliveredBy
  <2> QED
    BY <2>1, <2>2, <2>3
<1> HIDE DEF rest
<1>11. DeliveredBy(first) \subseteq EventsOf(queue)
  BY <1>5, <1>8 DEF DeliveredBy, EventsOf
<1>12. EventsOf(rest) \subseteq EventsOf(queue)
  BY <1>9 DEF EventsOf
<1>13. EventsOf(queue) \subseteq DeliveredBy(first) \cup EventsOf(rest)
  BY <1>10 DEF EventsOf
<1> QED
  BY <1>5, <1>6, <1>11, <1>12, <1>13 DEF rest

\* All batches of a queue.
LEMMA WholeCover ==
  ASSUME NEW queue \in Seq(Nat), NEW size \in Nat \ {0}
  PROVE  /\ Batches(queue, size) \in Seq(Message) /\ Total(Batches(queue, size)) = 0
         /\ DeliveredBy(Batches(queue, size)) = EventsOf(queue)
<1> DEFINE n == BatchCount(Len(queue), size)
           first == SubSeq(Batches(queue, size), 1, n)
           rest == After(queue, size, n)
<1>1. n \in Nat /\ Len(queue) <= n * size /\ Len(queue) \in Nat
  BY BatchCountBounds
<1>2. first = Batches(queue, size)
  BY <1>1 DEF Batches
<1>3. rest \in Seq(Nat) /\ Len(rest) = 0
  <2> DEFINE gone == n * size
  <2>1. /\ Window(rest, queue, gone) /\ Len(rest) = Len(queue) - AtMost(gone, Len(queue))
    BY <1>1, AfterFacts
  <2>2. gone \in Nat /\ Len(queue) <= gone
    BY <1>1
  <2> HIDE DEF gone, rest
  <2>3. AtMost(gone, Len(queue)) = Len(queue)
    BY <1>1, <2>2 DEF AtMost
  <2> QED
    BY <1>1, <2>1, <2>3 DEF Window
<1>4. EventsOf(rest) = {}
  <2> HIDE DEF rest
  <2>1. DOMAIN rest = {}
    BY <1>3
  <2> QED
    BY <2>1 DEF EventsOf
<1>5. /\ first \in Seq(Message) /\ Total(first) = 0
      /\ DeliveredBy(first) \cup EventsOf(rest) = EventsOf(queue)
  <2>1. n \in 0..BatchCount(Len(queue), size)
    BY <1>1
  <2> HIDE DEF n
  <2> QED
    BY <2>1, BatchesCover
<1> HIDE DEF first, rest
<1> QED
  BY <1>2, <1>4, <1>5

-----------------------------------------------------------------------------
(* The invariant of the count *)

Seen == Delivered \cup EventsOf(buffer)

\* With a notice due there is an event it can go ahead of.
NoticeCanGo == config.emitDropNotice /\ droppedEvents > 0 => buffer # <<>>

CountIsKept ==
  /\ Accounted + failed <= Cardinality(Lost)
  /\ updates = 0 /\ config.maxBufferedEvents > 0 =>
       Accounted + failed = Cardinality(Lost) /\ NoticeCanGo

\* Nothing is dropped under "flush".
FlushDropsNone == updates = 0 /\ config.overflowStrategy = "flush" => droppedEvents = 0

DropsInv ==
  /\ ConnectionInv
  /\ updates \in Nat
  /\ Seen \subseteq 1..offered
  /\ CountIsKept

LEMMA CountFacts ==
  ASSUME DropsInv
  PROVE  /\ ConnectionInv /\ updates \in Nat /\ failed \in Nat
         /\ sent \in Seq(Message) /\ buffer \in Seq(Nat) /\ droppedEvents \in Nat /\ offered \in Nat
         /\ Seen = DeliveredBy(sent) \cup EventsOf(buffer) /\ Seen \subseteq 1..offered
         /\ Lost = (1..offered) \ Seen /\ IsFiniteSet(Lost) /\ Cardinality(Lost) \in Nat
         /\ Accounted = Total(sent) + droppedEvents /\ Total(sent) \in Nat
         /\ Accounted + failed <= Cardinality(Lost)
         /\ updates = 0 /\ config.maxBufferedEvents > 0 =>
              Accounted + failed = Cardinality(Lost) /\ NoticeCanGo
<1>1. /\ sent \in Seq(Message) /\ buffer \in Seq(Nat) /\ droppedEvents \in Nat /\ offered \in Nat
      /\ failed \in Nat
  BY InvFacts DEF DropsInv, CountersOK
<1>2. Seen = DeliveredBy(sent) \cup EventsOf(buffer) /\ Lost = (1..offered) \ Seen
  BY DEF Seen, Lost, Delivered, DeliveredBy
<1>3. IsFiniteSet(1..offered)
  BY <1>1, FS_Interval
<1>4. IsFiniteSet(Lost) /\ Cardinality(Lost) \in Nat
  <2>1. Lost \in SUBSET (1..offered)
    BY <1>2
  <2> QED
    BY <1>3, <2>1, FS_Subset, FS_CardinalityType
<1>5. Accounted = Total(sent) + droppedEvents
  BY DEF Accounted, Reported, Total, Tally
<1>6. Total(sent) \in Nat
  BY <1>1, TotalType
<1> QED
  BY <1>1, <1>2, <1>4, <1>5, <1>6 DEF DropsInv, CountIsKept

\* Sums of what is reported, what is not yet reported and what failed.
LEMMA SumBelow ==
  ASSUME NEW a \in Nat, NEW b \in Nat, NEW c \in Nat, NEW x \in Nat, NEW y \in Nat, NEW z \in Nat,
         NEW more \in Nat, NEW most \in Nat,
         a + b + c <= x + y + z + more, x + y + z <= most
  PROVE  a + b + c <= most + more
OBVIOUS

LEMMA SumReported ==
  ASSUME NEW was \in Nat, NEW reported \in Nat, NEW dropped \in Nat, NEW rest \in Nat,
         NEW lost \in Nat, NEW more \in Nat, NEW total, NEW after,
         total = was + reported, after = lost + more, reported + rest <= dropped
  PROVE  /\ total + rest + after <= was + dropped + lost + more
         /\ reported + rest = dropped => total + rest + after = was + dropped + lost + more
OBVIOUS

LEMMA SumMoves ==
  ASSUME NEW a \in Nat, NEW b \in Nat, NEW c \in Nat, NEW y \in Nat, NEW z \in Nat,
         NEW more \in Nat, b + c = y + z + more
  PROVE  a + b + c = a + y + z + more /\ a + b + c <= a + y + z + more
OBVIOUS

\* What is to be shown of a step that loses this many events.
LEMMA CountNext ==
  ASSUME ConnectionInv', updates' \in Nat, DropsInv, NEW seen,
         seen = DeliveredBy(sent') \cup EventsOf(buffer'), seen \subseteq 1..offered',
         NEW lost \in Nat, Cardinality((1..offered') \ seen) = Cardinality(Lost) + lost,
         Total(sent') + droppedEvents' + failed' <= Total(sent) + droppedEvents + failed + lost,
         updates' = 0 =>
           /\ updates = 0 /\ config' = config
           /\ config.maxBufferedEvents > 0 /\ NoticeCanGo =>
                /\ Total(sent') + droppedEvents' + failed'
                     = Total(sent) + droppedEvents + failed + lost
                /\ config.emitDropNotice /\ droppedEvents' > 0 => buffer' # <<>>
  PROVE  DropsInv'
<1>1. Seen' = seen /\ Lost' = (1..offered') \ seen
  BY DEF Seen, Lost, Delivered, DeliveredBy
<1>2. Accounted' = Total(sent') + droppedEvents'
  BY DEF Accounted, Reported, Total, Tally
<1>3. /\ Accounted = Total(sent) + droppedEvents
      /\ Total(sent) \in Nat /\ droppedEvents \in Nat /\ Cardinality(Lost) \in Nat
      /\ failed \in Nat
      /\ Accounted + failed <= Cardinality(Lost)
      /\ updates = 0 /\ config.maxBufferedEvents > 0 =>
           Accounted + failed = Cardinality(Lost) /\ NoticeCanGo
  BY CountFacts
<1>4. sent' \in Seq(Message) /\ droppedEvents' \in Nat /\ failed' \in Nat
  BY DEF ConnectionInv, TypeOK, CountersOK
<1>5. Total(sent') \in Nat
  BY <1>4, TotalType
<1>6. Accounted' + failed' <= Cardinality(Lost')
  <2> DEFINE before == Cardinality(Lost)
             after == Cardinality(Lost')
             total == Total(sent')
             was == Total(sent)
  <2>1. after = before + lost
    BY <1>1
  <2>2. /\ total + droppedEvents' + failed' <= was + droppedEvents + failed + lost
        /\ was + droppedEvents + failed <= before
    BY <1>3
  <2>3. total \in Nat /\ was \in Nat /\ before \in Nat
    BY <1>3, <1>5
  <2> HIDE DEF before, after, total, was
  <2>4. total + droppedEvents' + failed' <= after
    BY <1>3, <1>4, <2>1, <2>2, <2>3, SumBelow
  <2> QED
    BY <1>2, <2>4 DEF after, total
<1>7. ASSUME updates' = 0, config'.maxBufferedEvents > 0
      PROVE  Accounted' + failed' = Cardinality(Lost') /\ NoticeCanGo'
  <2>1. config.maxBufferedEvents > 0 /\ updates = 0 /\ config' = config
    BY <1>7
  <2>2. /\ Total(sent') + droppedEvents' + failed' = Total(sent) + droppedEvents + failed + lost
        /\ config.emitDropNotice /\ droppedEvents' > 0 => buffer' # <<>>
    BY <1>3, <1>7, <2>1
  <2>3. NoticeCanGo'
    BY <2>1, <2>2 DEF NoticeCanGo
  <2> QED
    BY <1>1, <1>2, <1>3, <1>4, <1>5, <2>1, <2>2, <2>3
<1>8. CountIsKept'
  BY <1>6, <1>7 DEF CountIsKept
<1> QED
  BY <1>1, <1>8 DEF DropsInv

\* A step after which all events there were, and the next one if it was
\* offered, are sent or buffered loses none.
LEMMA NoneLost ==
  ASSUME ConnectionInv', updates' \in Nat, DropsInv, failed' = failed,
         \/ /\ offered' = offered
            /\ DeliveredBy(sent') \cup EventsOf(buffer') = DeliveredBy(sent) \cup EventsOf(buffer)
         \/ /\ offered' = Event
            /\ DeliveredBy(sent') \cup EventsOf(buffer')
                 = DeliveredBy(sent) \cup EventsOf(buffer) \cup {Event},
         Total(sent') + droppedEvents' <= Total(sent) + droppedEvents,
         updates' = 0 =>
           /\ updates = 0 /\ config' = config
           /\ config.maxBufferedEvents > 0 /\ NoticeCanGo =>
                /\ Total(sent') + droppedEvents' = Total(sent) + droppedEvents
                /\ config.emitDropNotice /\ droppedEvents' > 0 => buffer' # <<>>
  PROVE  DropsInv'
<1> DEFINE seen == DeliveredBy(sent') \cup EventsOf(buffer')
           none == 0
<1>1. /\ Seen = DeliveredBy(sent) \cup EventsOf(buffer) /\ Seen \subseteq 1..offered
      /\ Lost = (1..offered) \ Seen /\ offered \in Nat /\ Cardinality(Lost) \in Nat
      /\ Total(sent) \in Nat /\ droppedEvents \in Nat /\ failed \in Nat
      /\ Total(sent') \in Nat /\ droppedEvents' \in Nat
  <2>1. sent' \in Seq(Message) /\ droppedEvents' \in Nat
    BY DEF ConnectionInv, TypeOK
  <2> QED
    BY <2>1, CountFacts, TotalType
<1>2. Event = offered + 1
  BY DEF Event
<1>3. /\ \/ offered' = offered /\ seen = Seen
         \/ offered' = Event /\ seen = Seen \cup {Event}
  BY <1>1
<1> HIDE DEF seen
<1>4. seen \subseteq 1..offered' /\ (1..offered') \ seen = Lost
  <2>1. CASE offered' = offered /\ seen = Seen
    BY <1>1, <2>1
  <2>2. CASE offered' = Event /\ seen = Seen \cup {Event}
    <3>1. 1..Event = (1..offered) \cup {Event} /\ Event \notin 1..offered
      BY <1>1, <1>2
    <3> QED
      BY <1>1, <2>2, <3>1
  <2> QED
    BY <1>3, <2>1, <2>2
<1>5. /\ none \in Nat /\ Cardinality((1..offered') \ seen) = Cardinality(Lost) + none
      /\ Total(sent) + droppedEvents + failed + none = Total(sent) + droppedEvents + failed
  <2>1. Cardinality((1..offered') \ seen) = Cardinality(Lost)
    BY <1>4, Zenon
  <2> QED
    BY <1>1, <2>1
<1> HIDE DEF none
<1>6. seen = DeliveredBy(sent') \cup EventsOf(buffer')
  BY DEF seen
<1>7. /\ Total(sent') + droppedEvents' + failed' <= Total(sent) + droppedEvents + failed + none
      /\ updates' = 0 =>
           /\ updates = 0 /\ config' = config
           /\ config.maxBufferedEvents > 0 /\ NoticeCanGo =>
                /\ Total(sent') + droppedEvents' + failed'
                     = Total(sent) + droppedEvents + failed + none
                /\ config.emitDropNotice /\ droppedEvents' > 0 => buffer' # <<>>
  BY <1>1, <1>5
<1> QED
  BY <1>4, <1>5, <1>6, <1>7, CountNext

LEMMA InitDrops == Init => DropsInv
<1> SUFFICES ASSUME Init PROVE DropsInv
  OBVIOUS
<1>1. ConnectionInv /\ updates = 0 /\ offered = 0 /\ sent = <<>> /\ buffer = <<>>
      /\ droppedEvents = 0 /\ failed = 0
  BY InitInv DEF Init
<1>2. Seen = {} /\ Lost = {}
  <2>1. DOMAIN sent = {} /\ DOMAIN buffer = {}
    BY <1>1
  <2> QED
    BY <1>1, <2>1 DEF Seen, Lost, Delivered, EventsOf
<1>3. Accounted = Total(sent) + droppedEvents
  BY DEF Accounted, Reported, Total, Tally
<1>4. Total(sent) = 0
  <2> DEFINE none == <<>>
  <2>1. none \in Seq(Message) /\ \A i \in DOMAIN none : none[i].dropped = 0
    OBVIOUS
  <2> HIDE DEF none
  <2>2. Total(none) = 0
    BY <2>1, TotalZero
  <2> QED
    BY <1>1, <2>2 DEF none
<1>5. Cardinality(Lost) = 0
  BY <1>2, FS_EmptySet
<1> QED
  BY <1>1, <1>2, <1>3, <1>4, <1>5 DEF DropsInv, CountIsKept, NoticeCanGo

\* A message at the end of those sent.
LEMMA SentOne ==
  ASSUME NEW s \in Seq(Message), NEW m \in Message
  PROVE  /\ Append(s, m) \in Seq(Message)
         /\ Total(Append(s, m)) = Total(s) + m.dropped
         /\ DeliveredBy(Append(s, m)) = DeliveredBy(s) \cup EventsOf(m.events)
<1> DEFINE one == <<m>>
<1>1. one \in Seq(Message) /\ Total(one) = m.dropped /\ DeliveredBy(one) = EventsOf(m.events)
  BY TotalOne, DeliveredOne
<1>2. Append(s, m) = s \o one
  OBVIOUS
<1> HIDE DEF one
<1>3. s \o one \in Seq(Message)
  BY <1>1
<1> QED
  BY <1>1, <1>2, <1>3, TotalConcat, DeliveredConcat

LEMMA SentMore ==
  ASSUME NEW s \in Seq(Message), NEW t \in Seq(Message), Total(t) = 0
  PROVE  /\ s \o t \in Seq(Message)
         /\ Total(s \o t) = Total(s)
         /\ DeliveredBy(s \o t) = DeliveredBy(s) \cup DeliveredBy(t)
<1>1. Total(s) \in Nat /\ Total(s \o t) = Total(s) + Total(t)
  BY TotalType, TotalConcat
<1> QED
  BY <1>1, DeliveredConcat

-----------------------------------------------------------------------------
(* A batch that is lost *)

\* The buffered and the delivered events are older than the next one.
LEMMA NextIsNew ==
  ASSUME DropsInv
  PROVE  Event \notin Seen /\ Event \notin 1..offered
BY CountFacts DEF Event

\* The events of a part of an ordered queue are as many as there are places.
LEMMA CutCount ==
  ASSUME NEW queue \in Seq(Nat), Ascending(queue), NEW m \in 0..Len(queue), NEW top \in m..Len(queue)
  PROVE  LET cut == {queue[k] : k \in (m + 1)..top}
         IN  IsFiniteSet(cut) /\ Cardinality(cut) = top - m
<1> DEFINE places == (m + 1)..top
           cut == {queue[k] : k \in places}
           f == [k \in places |-> queue[k]]
<1>1. m \in Nat /\ Len(queue) \in Nat /\ top \in Nat /\ m <= top /\ places \subseteq Nat
      /\ places \subseteq DOMAIN queue /\ \A k \in DOMAIN queue : queue[k] \in Nat
  OBVIOUS
<1>2. IsFiniteSet(places) /\ Cardinality(places) = top - m
  <2>1. m + 1 \in Int /\ top \in Int
    BY <1>1
  <2>2. /\ IsFiniteSet((m + 1)..top)
        /\ Cardinality((m + 1)..top)
             = IF m + 1 > top THEN 0 ELSE top - (m + 1) + 1
    BY <2>1, FS_Interval
  <2> QED
    BY <1>1, <2>2
<1>3. \A k, l \in places : k # l => queue[k] # queue[l]
  <2>1. \A k, l \in places : k < l => queue[k] < queue[l]
    BY <1>1 DEF Ascending
  <2>2. \A k, l \in places : k \in Nat /\ l \in Nat /\ queue[k] \in Nat /\ queue[l] \in Nat
    BY <1>1
  <2> HIDE DEF places
  <2> QED
    BY <2>1, <2>2
<1> HIDE DEF places
<1>4. f \in Surjection(places, cut) /\ f \in Injection(places, cut)
  <2>1. f \in [places -> cut] /\ \A k \in places : f[k] = queue[k]
    OBVIOUS
  <2>2. \A x \in cut : \E k \in places : f[k] = x
    BY <2>1
  <2>3. \A k, l \in places : f[k] = f[l] => k = l
    BY <1>3, <2>1
  <2> HIDE DEF f, cut
  <2> QED
    BY <2>1, <2>2, <2>3 DEF Surjection, Injection, IsInjective
<1> HIDE DEF f, cut
<1>5. IsFiniteSet(cut) /\ Cardinality(cut) = Cardinality(places)
  BY <1>2, <1>4, FS_Surjection
<1> QED
  BY <1>2, <1>5 DEF places, cut

\* The events of r but its first g.
From(r, g) == {r[k] : k \in (g + 1)..Len(r)}

\* What the next batch leaves of a queue is what is left but its first events.
LEMMA AfterNext ==
  ASSUME NEW queue \in Seq(Nat), NEW size \in Nat \ {0}, NEW n \in Nat,
         NEW rest, rest = After(queue, size, n), NEW g, g = BatchSize(queue, size, n)
  PROVE  /\ rest \in Seq(Nat) /\ g \in 0..Len(rest)
         /\ EventsOf(After(queue, size, n + 1)) = From(rest, g)
<1> DEFINE low == AtMost(n * size, Len(queue))
           high == AtMost((n + 1) * size, Len(queue))
           later == After(queue, size, n + 1)
<1>1. /\ g \in Nat /\ g = high - low
  BY BatchSizeFacts
<1>2. /\ low \in Nat /\ low <= Len(queue) /\ high \in Nat /\ high <= Len(queue) /\ Len(queue) \in Nat
  <2> DEFINE a == n * size
             b == (n + 1) * size
  <2>1. a \in Nat /\ b \in Nat /\ Len(queue) \in Nat
    OBVIOUS
  <2> HIDE DEF a, b
  <2>2. \A x, m \in Nat : AtMost(x, m) \in Nat /\ AtMost(x, m) <= m
    BY DEF AtMost
  <2> QED
    BY <2>1, <2>2 DEF a, b
<1>3. rest = SubSeq(queue, low + 1, Len(queue)) /\ later = SubSeq(queue, high + 1, Len(queue))
  BY DEF After
<1> HIDE DEF low, high, later
<1>4. /\ rest \in Seq(Nat) /\ Len(rest) = Len(queue) - low
      /\ \A k \in 1..(Len(queue) - low) : rest[k] = queue[low + k]
  BY <1>2, <1>3
<1>5. /\ later \in Seq(Nat) /\ DOMAIN later = 1..(Len(queue) - high)
      /\ \A k \in 1..(Len(queue) - high) : later[k] = queue[high + k]
  BY <1>2, <1>3
<1>6. g \in 0..Len(rest)
  BY <1>1, <1>2, <1>4
<1>7. ASSUME NEW k \in 1..(Len(queue) - high)
      PROVE  g + k \in (g + 1)..Len(rest) /\ later[k] = rest[g + k]
  <2>1. g + k \in (g + 1)..Len(rest) /\ g + k \in 1..(Len(queue) - low) /\ low + (g + k) = high + k
    BY <1>1, <1>2, <1>4
  <2> QED
    BY <1>4, <1>5, <2>1
<1>8. ASSUME NEW k \in (g + 1)..Len(rest)
      PROVE  k - g \in 1..(Len(queue) - high) /\ rest[k] = later[k - g]
  <2>1. k - g \in 1..(Len(queue) - high) /\ g + (k - g) = k
    BY <1>1, <1>2, <1>4
  <2> QED
    BY <1>7, <2>1
<1>9. EventsOf(later) = From(rest, g)
  BY <1>5, <1>7, <1>8 DEF EventsOf, From
<1> QED
  BY <1>4, <1>6, <1>9 DEF later

\* What is shown is all there was, and the next event if top counts it.
Shows(shown, top) ==
  \/ top = offered /\ shown = Seen
  \/ top = Event /\ shown = Seen \cup {Event}

\* What is seen are as many events less as were lost before and are now.
LosesOf(seen, top, g) ==
  /\ seen \subseteq 1..top /\ IsFiniteSet((1..top) \ seen)
  /\ Cardinality((1..top) \ seen) = Cardinality(Lost) + g

\* The first events of what waits are lost.
LEMMA FrontLost ==
  ASSUME DropsInv, NEW all \in Seq(Message), NEW r \in Seq(Nat), NEW next \in Nat,
         Ordered(all, r, next), NEW g \in 0..Len(r), NEW top \in Nat,
         Shows(DeliveredBy(all) \cup EventsOf(r), top)
  PROVE  LosesOf(DeliveredBy(all) \cup From(r, g), top, g)
<1> DEFINE seen == DeliveredBy(all) \cup From(r, g)
           cut == {r[k] : k \in 1..g}
           kept == {r[k] : k \in (g + 1)..Len(r)}
           shown == DeliveredBy(all) \cup EventsOf(r)
<1>1. /\ offered \in Nat /\ Seen \subseteq 1..offered /\ Lost = (1..offered) \ Seen
      /\ IsFiniteSet(Lost) /\ Cardinality(Lost) \in Nat
  BY CountFacts
<1>2. Event = offered + 1 /\ Event \notin 1..offered
  BY NextIsNew DEF Event
<1>3. /\ g \in Nat /\ Len(r) \in Nat /\ g <= Len(r) /\ Ascending(r)
      /\ 1..g \subseteq DOMAIN r /\ (g + 1)..Len(r) \subseteq DOMAIN r
      /\ \A k \in DOMAIN r : r[k] \in Nat /\ (k \in 1..g \/ k \in (g + 1)..Len(r))
  BY DEF Ordered
<1>4. IsFiniteSet(cut) /\ Cardinality(cut) = g
  <2> DEFINE none == 0
  <2>1. none \in 0..Len(r) /\ g \in none..Len(r) /\ g - none = g
    BY <1>3
  <2>2. (none + 1)..g = 1..g
    OBVIOUS
  <2> HIDE DEF none
  <2>3. /\ IsFiniteSet({r[k] : k \in (none + 1)..g})
        /\ Cardinality({r[k] : k \in (none + 1)..g}) = g - none
    BY <1>3, <2>1, CutCount
  <2> QED
    BY <2>1, <2>2, <2>3
<1>5. EventsOf(r) = cut \cup kept
  BY <1>3 DEF EventsOf
<1>6. cut \cap kept = {}
  <2>1. \A k \in 1..g, l \in (g + 1)..Len(r) : k < l
    BY <1>3
  <2>2. \A k \in 1..g, l \in (g + 1)..Len(r) : r[k] \in Nat /\ r[l] \in Nat /\ r[k] < r[l]
    BY <1>3, <2>1 DEF Ascending
  <2>3. \A k \in 1..g, l \in (g + 1)..Len(r) : r[k] # r[l]
    BY <2>2
  <2> QED
    BY <2>3
<1>7. cut \cap DeliveredBy(all) = {}
  <2>1. \A i \in DOMAIN all : all[i].events \in Seq(Nat)
    <3>1. \A i \in DOMAIN all : all[i] \in Message
      OBVIOUS
    <3> QED
      BY <3>1 DEF Message
  <2>2. \A i \in DOMAIN all : \A x \in DOMAIN all[i].events :
          all[i].events[x] \in Nat /\ \A k \in DOMAIN r : all[i].events[x] < r[k]
    BY <2>1 DEF Ordered, Below
  <2>3. \A i \in DOMAIN all : \A x \in DOMAIN all[i].events : \A k \in 1..g :
          all[i].events[x] # r[k]
    BY <1>3, <2>2
  <2> QED
    BY <2>3 DEF DeliveredBy, EventsOf
<1> HIDE DEF cut, kept
<1>8. shown = seen \cup cut /\ cut \cap seen = {}
  BY <1>5, <1>6, <1>7 DEF kept, From
<1> HIDE DEF seen
<1>9. shown \subseteq 1..top /\ (1..top) \ shown = Lost
  <2> HIDE DEF shown
  <2>1. CASE top = offered /\ shown = Seen
    BY <1>1, <2>1
  <2>2. CASE top = Event /\ shown = Seen \cup {Event}
    <3>1. 1..Event = (1..offered) \cup {Event}
      BY <1>1, <1>2
    <3> QED
      BY <1>1, <1>2, <2>2, <3>1
  <2> QED
    BY <2>1, <2>2 DEF shown, Shows
<1> HIDE DEF shown
<1>10. /\ seen \subseteq 1..top /\ (1..top) \ seen = Lost \cup cut /\ Lost \cap cut = {}
  BY <1>8, <1>9
<1>11. IsFiniteSet(Lost \cup cut) /\ Cardinality(Lost \cup cut) = Cardinality(Lost) + g
  <2>1. /\ IsFiniteSet(Lost \cup cut)
        /\ Cardinality(Lost \cup cut)
             = Cardinality(Lost) + Cardinality(cut) - Cardinality(Lost \cap cut)
    BY <1>1, <1>4, FS_Union
  <2>2. Cardinality(Lost \cap cut) = 0
    BY <1>10, FS_EmptySet
  <2> DEFINE a == Cardinality(Lost)
             b == Cardinality(Lost \cup cut)
  <2>3. b = a + g - 0 /\ a \in Nat
    BY <1>1, <1>4, <2>1, <2>2
  <2> HIDE DEF a, b
  <2>4. b = a + g
    BY <1>3, <2>3
  <2> QED
    BY <2>1, <2>4 DEF a, b
<1>12. LosesOf(seen, top, g)
  BY <1>10, <1>11 DEF LosesOf
<1> QED
  BY <1>12 DEF seen

\* After s, the first n batches of a queue are sent (all), g events of the next one are
\* lost, and seen is what is left of the events up to top.
Losing(queue, s, next, size, n, top, all, seen, g) ==
  /\ queue \in Seq(Nat) /\ s \in Seq(Message) /\ next \in Nat /\ Ordered(s, queue, next)
  /\ DeliveredBy(s) = DeliveredBy(sent)
  /\ size \in Nat \ {0} /\ n \in 0..BatchCount(Len(queue), size) /\ top \in Nat
  /\ \/ top = offered /\ EventsOf(queue) = EventsOf(buffer)
     \/ top = Event /\ EventsOf(queue) = EventsOf(buffer) \cup {Event}
  /\ all = s \o SubSeq(Batches(queue, size), 1, n)
  /\ seen = DeliveredBy(all) \cup EventsOf(After(queue, size, n + 1))
  /\ g = BatchSize(queue, size, n)

Lossy(s, top, all, seen, g) ==
  /\ g \in Nat /\ Total(all) = Total(s)
  /\ seen \subseteq 1..top /\ IsFiniteSet((1..top) \ seen)
  /\ Cardinality((1..top) \ seen) = Cardinality(Lost) + g

LEMMA BatchLost ==
  ASSUME DropsInv, NEW queue, NEW s, NEW next, NEW size, NEW n, NEW top, NEW all, NEW seen,
         NEW g, Losing(queue, s, next, size, n, top, all, seen, g)
  PROVE  Lossy(s, top, all, seen, g)
<1> DEFINE first == SubSeq(Batches(queue, size), 1, n)
           rest == After(queue, size, n)
<1> USE DEF Losing, Lossy
<1>1. n \in Nat /\ n <= n
  <2> DEFINE count == BatchCount(Len(queue), size)
  <2>1. count \in Nat
    BY BatchCountBounds
  <2> HIDE DEF count
  <2>2. n \in 0..count
    BY DEF count
  <2> QED
    BY <2>1, <2>2
<1>2. /\ first \in Seq(Message) /\ Total(first) = 0
      /\ DeliveredBy(first) \cup EventsOf(rest) = EventsOf(queue)
  BY BatchesCover
<1>3. /\ all \in Seq(Message) /\ Ordered(all, rest, next)
  BY <1>1, SplitStep
<1>4. /\ rest \in Seq(Nat) /\ g \in 0..Len(rest)
      /\ EventsOf(After(queue, size, n + 1)) = From(rest, g)
  BY <1>1, AfterNext
<1> HIDE DEF first, rest
<1>5. all = s \o first
  BY DEF first
<1>6. Total(all) = Total(s) /\ DeliveredBy(all) = DeliveredBy(s) \cup DeliveredBy(first)
  BY <1>2, <1>5, SentMore
<1>7. Seen = DeliveredBy(sent) \cup EventsOf(buffer)
  BY CountFacts
<1>8. DeliveredBy(all) \cup EventsOf(rest) = DeliveredBy(sent) \cup EventsOf(queue)
  BY <1>2, <1>6
<1>9. Shows(DeliveredBy(all) \cup EventsOf(rest), top)
  BY <1>7, <1>8 DEF Shows
<1>10. seen = DeliveredBy(all) \cup From(rest, g)
  BY <1>4
<1>11. LosesOf(DeliveredBy(all) \cup From(rest, g), top, g)
  BY <1>3, <1>4, <1>9, FrontLost
<1>12. g \in Nat
  BY <1>4
<1> QED
  BY <1>6, <1>10, <1>11, <1>12 DEF LosesOf

-----------------------------------------------------------------------------
(* The count in a step *)

LEMMA SendFirstDrops == DropsInv /\ ConnectionInv' /\ SendFirst => DropsInv'
<1> SUFFICES ASSUME DropsInv, ConnectionInv', SendFirst PROVE DropsInv'
  OBVIOUS
<1> DEFINE m == Batch(<<Event>>)
<1>1. /\ buffer' = buffer /\ config' = config /\ droppedEvents' = droppedEvents
      /\ updates' = updates /\ offered' = Event /\ sent' = Append(sent, m) /\ failed' = failed
  BY DEF SendFirst, Offer, Event, trouble
<1>2. /\ sent \in Seq(Message) /\ updates \in Nat /\ offered \in Nat /\ Total(sent) \in Nat
      /\ droppedEvents \in Nat
  BY CountFacts
<1>3. m \in Message /\ m.dropped = 0 /\ m.events = <<Event>> /\ EventsOf(m.events) = {Event}
  <2>1. <<Event>> \in Seq(Nat)
    BY <1>2 DEF Event
  <2>2. DOMAIN <<Event>> = {1} /\ <<Event>>[1] = Event
    OBVIOUS
  <2>3. EventsOf(<<Event>>) = {Event}
    BY <2>2 DEF EventsOf
  <2> QED
    BY <2>1, <2>3 DEF Batch, Message
<1> HIDE DEF m
<1>4. Total(sent') = Total(sent) + 0 /\ DeliveredBy(sent') = DeliveredBy(sent) \cup {Event}
  BY <1>1, <1>2, <1>3, SentOne
<1>5. DeliveredBy(sent') \cup EventsOf(buffer')
        = DeliveredBy(sent) \cup EventsOf(buffer) \cup {Event}
  BY <1>1, <1>4
<1>6. Total(sent') + droppedEvents' = Total(sent) + droppedEvents
      /\ Total(sent') + droppedEvents' <= Total(sent) + droppedEvents
  BY <1>1, <1>2, <1>4
<1>7. NoticeCanGo => (config.emitDropNotice /\ droppedEvents' > 0 => buffer' # <<>>)
  BY <1>1 DEF NoticeCanGo
<1> QED
  BY <1>1, <1>2, <1>5, <1>6, <1>7, NoneLost

\* The next event goes nowhere, but is counted.
LEMMA EventLost ==
  ASSUME DropsInv, ConnectionInv', buffer' = buffer, sent' = sent, config' = config,
         updates' = updates, offered' = Event,
         droppedEvents' + failed' = droppedEvents + failed + 1,
         config.maxBufferedEvents > 0 /\ NoticeCanGo =>
           (config.emitDropNotice /\ droppedEvents' > 0 => buffer' # <<>>)
  PROVE  DropsInv'
<1> DEFINE one == 1
<1>1. /\ ConnectionInv /\ updates \in Nat /\ offered \in Nat /\ Total(sent) \in Nat
      /\ droppedEvents \in Nat /\ IsFiniteSet(Lost) /\ Cardinality(Lost) \in Nat
      /\ Seen = DeliveredBy(sent) \cup EventsOf(buffer) /\ Seen \subseteq 1..offered
      /\ Lost = (1..offered) \ Seen /\ buffer \in Seq(Nat) /\ failed \in Nat
  BY CountFacts
<1>2. droppedEvents' \in Nat /\ failed' \in Nat
  BY DEF ConnectionInv, TypeOK, CountersOK
<1>3. Event = offered + 1 /\ Event \notin Seen /\ Event \notin 1..offered
  BY NextIsNew DEF Event
<1>4. 1..offered' = (1..offered) \cup {Event}
  BY <1>1, <1>3
<1>5. (1..offered') \ Seen = Lost \cup {Event} /\ Event \notin Lost /\ Seen \subseteq 1..offered'
  BY <1>1, <1>3, <1>4
<1>6. Cardinality((1..offered') \ Seen) = Cardinality(Lost) + one
  BY <1>1, <1>5, FS_AddElement
<1>7. /\ one \in Nat
      /\ Total(sent') + droppedEvents' + failed' = Total(sent) + droppedEvents + failed + one
      /\ Total(sent') + droppedEvents' + failed' <= Total(sent) + droppedEvents + failed + one
  <2>1. sent' = sent /\ droppedEvents' + failed' = droppedEvents + failed + one
    OBVIOUS
  <2>2. Total(sent') = Total(sent)
    BY <2>1
  <2> DEFINE total == Total(sent)
  <2>3. total \in Nat
    BY <1>1
  <2> HIDE DEF total
  <2>4. /\ total + droppedEvents' + failed' = total + droppedEvents + failed + one
        /\ total + droppedEvents' + failed' <= total + droppedEvents + failed + one
    BY <1>1, <1>2, <2>1, <2>3, SumMoves
  <2> QED
    BY <2>2, <2>4 DEF total
<1>8. Seen = DeliveredBy(sent') \cup EventsOf(buffer')
  BY <1>1
<1> HIDE DEF one
<1>9. updates' = 0 => updates = 0 /\ config' = config
  OBVIOUS
<1> QED
  BY <1>1, <1>5, <1>6, <1>7, <1>8, <1>9, CountNext

LEMMA SendDroppedDrops == DropsInv /\ ConnectionInv' /\ SendDropped => DropsInv'
<1> SUFFICES ASSUME DropsInv, ConnectionInv', SendDropped PROVE DropsInv'
  OBVIOUS
<1>1. /\ buffer' = buffer /\ config' = config /\ droppedEvents' = droppedEvents + 1
      /\ updates' = updates /\ offered' = Event /\ sent' = sent /\ failed' = failed
      /\ Len(buffer) >= config.maxBufferedEvents
  BY DEF SendDropped, Offer, Event, Full, trouble
<1>2. ConnectionInv /\ droppedEvents \in Nat /\ failed \in Nat /\ buffer \in Seq(Nat)
  BY CountFacts
<1>3. config.maxBufferedEvents > 0 => buffer' # <<>>
  <2>1. config.maxBufferedEvents \in Nat
    BY <1>2, InvFacts
  <2> QED
    BY <1>1, <1>2, <2>1
<1>4. droppedEvents' + failed' = droppedEvents + failed + 1
  BY <1>1, <1>2
<1> QED
  BY <1>1, <1>3, <1>4, EventLost

LEMMA SendFirstThrowsDrops == DropsInv /\ ConnectionInv' /\ SendFirstThrows => DropsInv'
<1> SUFFICES ASSUME DropsInv, ConnectionInv', SendFirstThrows PROVE DropsInv'
  OBVIOUS
<1>1. /\ buffer' = buffer /\ config' = config /\ droppedEvents' = droppedEvents
      /\ updates' = updates /\ offered' = Event /\ sent' = sent /\ failed' = failed + 1
  BY DEF SendFirstThrows, Offer, Event, Loses
<1>2. ConnectionInv /\ droppedEvents \in Nat /\ failed \in Nat
  BY CountFacts
<1>3. droppedEvents' + failed' = droppedEvents + failed + 1
  BY <1>1, <1>2
<1>4. NoticeCanGo => (config.emitDropNotice /\ droppedEvents' > 0 => buffer' # <<>>)
  BY <1>1 DEF NoticeCanGo
<1> QED
  BY <1>1, <1>3, <1>4, EventLost

LEMMA SendOverflowDrops == DropsInv /\ ConnectionInv' /\ SendOverflow => DropsInv'
<1> SUFFICES ASSUME DropsInv, ConnectionInv', SendOverflow PROVE DropsInv'
  OBVIOUS
<1> DEFINE size == config.maxBatchSize
           n == AtMost(1, Len(buffer))
           first == SubSeq(Batches(buffer, size), 1, n)
           rest == After(buffer, size, 1)
<1>1. /\ sent' = sent \o first /\ buffer' = Append(rest, Event) /\ config' = config
      /\ droppedEvents' = droppedEvents /\ offered' = Event /\ updates' = updates
      /\ failed' = failed
  BY DEF SendOverflow, Offer, Event, trouble
<1>2. /\ ConnectionInv /\ updates \in Nat /\ sent \in Seq(Message) /\ buffer \in Seq(Nat)
      /\ droppedEvents \in Nat /\ Total(sent) \in Nat
  BY CountFacts
<1>3. size \in Nat \ {0} /\ Event \in Nat
  BY <1>2, InvFacts
<1> HIDE DEF size
<1>4. n \in 0..BatchCount(Len(buffer), size) /\ rest = After(buffer, size, n)
  BY <1>2, <1>3, OneBatch
<1>5. /\ first \in Seq(Message) /\ Total(first) = 0
      /\ DeliveredBy(first) \cup EventsOf(rest) = EventsOf(buffer)
  <2> HIDE DEF n, rest
  <2> QED
    BY <1>2, <1>3, <1>4, BatchesCover
<1>6. rest \in Seq(Nat)
  <2> DEFINE one == 1
  <2>1. one \in Nat
    OBVIOUS
  <2> HIDE DEF one
  <2>2. After(buffer, size, one) \in Seq(Nat)
    BY <1>2, <1>3, <2>1, AfterFacts DEF Window
  <2> QED
    BY <2>2 DEF one
<1> HIDE DEF n, first, rest
<1>7. Total(sent') = Total(sent) /\ DeliveredBy(sent') = DeliveredBy(sent) \cup DeliveredBy(first)
  BY <1>1, <1>2, <1>5, SentMore
<1>8. EventsOf(buffer') = EventsOf(rest) \cup {Event}
  BY <1>1, <1>3, <1>6, EventsAppend
<1>9. DeliveredBy(sent') \cup EventsOf(buffer')
        = DeliveredBy(sent) \cup EventsOf(buffer) \cup {Event}
  BY <1>5, <1>7, <1>8
<1>10. Total(sent') + droppedEvents' = Total(sent) + droppedEvents
       /\ Total(sent') + droppedEvents' <= Total(sent) + droppedEvents
  BY <1>1, <1>2, <1>7
<1>11. buffer' # <<>>
  <2>1. Len(Append(rest, Event)) = Len(rest) + 1 /\ Len(rest) \in Nat
    BY <1>6
  <2>2. Len(buffer') # 0
    BY <1>1, <2>1
  <2> QED
    BY <2>2
<1>12. updates' = 0 => updates = 0 /\ config' = config
  BY <1>1
<1> QED
  BY <1>1, <1>2, <1>9, <1>10, <1>11, <1>12, NoneLost

\* The notice, if there is one, says what is no longer to be reported.
LEMMA ReportCounts ==
  ASSUME droppedEvents \in Nat, buffer \in Seq(Nat), Event \in Nat,
         NEW queue, queue = buffer \/ queue = Append(buffer, Event),
         NEW rest, rest = IF config.emitDropNotice THEN 0 ELSE droppedEvents
  PROVE  /\ Report(queue) \in Seq(Message) /\ DeliveredBy(Report(queue)) = {}
         /\ Total(Report(queue)) \in Nat /\ Total(Report(queue)) + rest <= droppedEvents
         /\ NoticeCanGo => /\ Total(Report(queue)) + rest = droppedEvents
                           /\ config.emitDropNotice => rest = 0
<1> DEFINE notice == Report(queue)
           reported == IF NoticeDue(queue) THEN droppedEvents ELSE 0
<1>1. /\ notice \in Seq(Message) /\ Total(notice) = reported /\ DeliveredBy(notice) = {}
      /\ reported \in Nat
  <2>1. CASE NoticeDue(queue)
    <3> DEFINE m == Notice(droppedEvents)
    <3>1. m \in Message /\ m.dropped = droppedEvents /\ m.events = <<>>
      BY DEF Notice, Message
    <3>2. EventsOf(m.events) = {}
      <4>1. DOMAIN <<>> = {}
        OBVIOUS
      <4> QED
        BY <3>1, <4>1 DEF EventsOf
    <3> HIDE DEF m
    <3>3. <<m>> \in Seq(Message) /\ Total(<<m>>) = droppedEvents /\ DeliveredBy(<<m>>) = {}
      BY <3>1, <3>2, TotalOne, DeliveredOne
    <3>4. notice = <<m>> /\ reported = droppedEvents
      BY <2>1 DEF m, Report
    <3> HIDE DEF notice, reported
    <3> QED
      BY <3>3, <3>4
  <2>2. CASE ~NoticeDue(queue)
    <3> DEFINE none == <<>>
    <3>1. none \in Seq(Message) /\ DOMAIN none = {}
      OBVIOUS
    <3>2. notice = none /\ reported = 0
      BY <2>2 DEF Report
    <3> HIDE DEF notice, none, reported
    <3>3. Total(none) = 0 /\ DeliveredBy(none) = {}
      BY <3>1, TotalZero DEF DeliveredBy
    <3> QED
      BY <3>1, <3>2, <3>3
  <2> QED
    BY <2>1, <2>2
<1>2. reported + rest <= droppedEvents
  BY DEF NoticeDue
<1>3. ASSUME NoticeCanGo
      PROVE  reported + rest = droppedEvents /\ (config.emitDropNotice => rest = 0)
  <2>1. buffer # <<>> => queue # <<>>
    <3>1. Len(Append(buffer, Event)) = Len(buffer) + 1 /\ Len(buffer) \in Nat
      OBVIOUS
    <3>2. Append(buffer, Event) # <<>>
      <4> DEFINE q == Append(buffer, Event)
      <4>1. Len(q) # 0
        BY <3>1
      <4> HIDE DEF q
      <4>2. q # <<>>
        BY <4>1
      <4> QED
        BY <4>2 DEF q
    <3> QED
      BY <3>2
  <2>2. config.emitDropNotice => rest = 0 /\ reported = droppedEvents
    BY <1>3, <2>1 DEF NoticeCanGo, NoticeDue
  <2>3. ~config.emitDropNotice => rest = droppedEvents /\ reported = 0
    BY DEF NoticeDue
  <2> HIDE DEF reported
  <2> QED
    BY <2>2, <2>3
<1> HIDE DEF notice, reported
<1>4. /\ notice \in Seq(Message) /\ DeliveredBy(notice) = {}
      /\ Total(notice) \in Nat /\ Total(notice) + rest <= droppedEvents
      /\ NoticeCanGo => /\ Total(notice) + rest = droppedEvents
                        /\ config.emitDropNotice => rest = 0
  BY <1>1, <1>2, <1>3
<1> QED
  BY <1>4 DEF notice

\* Everything goes out, the notice ahead of it if one can go.
LEMMA FlushAllDrops ==
  ASSUME DropsInv, ConnectionInv', NEW queue \in Seq(Nat), FlushAll(queue),
         config' = config, updates' = updates,
         \/ /\ offered' = offered /\ queue = buffer
         \/ /\ offered' = Event /\ queue = Append(buffer, Event)
  PROVE  DropsInv'
<1> DEFINE notice == Report(queue)
           size == config.maxBatchSize
           batches == Batches(queue, size)
           reported == Total(notice)
           begun == sent \o notice
<1>1. /\ sent' = sent \o notice \o batches /\ buffer' = <<>>
      /\ droppedEvents' = IF config.emitDropNotice THEN 0 ELSE droppedEvents
      /\ failed' = failed
  BY DEF FlushAll, trouble
<1>2. /\ ConnectionInv /\ updates \in Nat /\ sent \in Seq(Message) /\ buffer \in Seq(Nat)
      /\ droppedEvents \in Nat /\ Total(sent) \in Nat
  BY CountFacts
<1>3. size \in Nat \ {0} /\ Event \in Nat
  BY <1>2, InvFacts
<1>4. /\ notice \in Seq(Message) /\ DeliveredBy(notice) = {} /\ reported \in Nat
      /\ reported + droppedEvents' <= droppedEvents
      /\ NoticeCanGo => /\ reported + droppedEvents' = droppedEvents
                        /\ config.emitDropNotice => droppedEvents' = 0
  BY <1>1, <1>2, <1>3, ReportCounts
<1>5. batches \in Seq(Message) /\ Total(batches) = 0 /\ DeliveredBy(batches) = EventsOf(queue)
  BY <1>3, WholeCover
<1> HIDE DEF notice, batches, size
<1>6. /\ begun \in Seq(Message) /\ Total(begun) = Total(sent) + reported
      /\ DeliveredBy(begun) = DeliveredBy(sent)
  <2>1. begun \in Seq(Message)
    BY <1>2, <1>4
  <2>2. Total(begun) = Total(sent) + Total(notice)
    BY <1>2, <1>4, TotalConcat
  <2>3. DeliveredBy(begun) = DeliveredBy(sent) \cup DeliveredBy(notice)
    BY <1>2, <1>4, DeliveredConcat
  <2> HIDE DEF begun
  <2> QED
    BY <1>4, <2>1, <2>2, <2>3
<1>7. sent' = begun \o batches
  BY <1>1
<1> HIDE DEF begun
<1>8. /\ Total(sent') = Total(sent) + reported
      /\ DeliveredBy(sent') = DeliveredBy(sent) \cup EventsOf(queue)
  BY <1>5, <1>6, <1>7, SentMore
<1>9. EventsOf(buffer') = {}
  <2>1. DOMAIN buffer' = {}
    BY <1>1
  <2> QED
    BY <2>1 DEF EventsOf
<1>10. \/ /\ offered' = offered
          /\ DeliveredBy(sent') \cup EventsOf(buffer') = DeliveredBy(sent) \cup EventsOf(buffer)
       \/ /\ offered' = Event
          /\ DeliveredBy(sent') \cup EventsOf(buffer')
               = DeliveredBy(sent) \cup EventsOf(buffer) \cup {Event}
  <2>1. EventsOf(Append(buffer, Event)) = EventsOf(buffer) \cup {Event}
    BY <1>2, <1>3, EventsAppend
  <2> QED
    BY <1>8, <1>9, <2>1
<1>11. /\ Total(sent') + droppedEvents' <= Total(sent) + droppedEvents
       /\ NoticeCanGo =>
            /\ Total(sent') + droppedEvents' = Total(sent) + droppedEvents
            /\ config.emitDropNotice /\ droppedEvents' > 0 => buffer' # <<>>
  <2> HIDE DEF reported
  <2> QED
    BY <1>1, <1>2, <1>4, <1>8
<1>12. updates' \in Nat /\ (updates' = 0 => updates = 0 /\ config' = config)
  BY <1>2
<1> QED
  BY <1>1, <1>10, <1>11, <1>12, NoneLost

\* A message of a flush throws: the notice, and nothing is lost, or a batch.
LEMMA FlushThrowsDrops ==
  ASSUME DropsInv, ConnectionInv', NEW queue \in Seq(Nat), FlushThrows(queue),
         config' = config, updates' = updates,
         NEW next \in Nat, Ordered(sent, queue, next),
         \/ /\ offered' = offered /\ queue = buffer
         \/ /\ offered' = Event /\ queue = Append(buffer, Event)
  PROVE  DropsInv'
<1> DEFINE size == config.maxBatchSize
           st == sent
           notice == Report(queue)
           begun == st \o notice
           reported == Total(notice)
<1>1. /\ ConnectionInv /\ updates \in Nat /\ st \in Seq(Message) /\ buffer \in Seq(Nat)
      /\ droppedEvents \in Nat /\ Total(st) \in Nat /\ offered \in Nat /\ failed \in Nat
  BY CountFacts
<1>2. size \in Nat \ {0} /\ Event \in Nat
  BY <1>1, InvFacts
<1>3. EventsOf(Append(buffer, Event)) = EventsOf(buffer) \cup {Event}
  BY <1>1, <1>2, EventsAppend
<1>4. \/ offered' = offered /\ EventsOf(queue) = EventsOf(buffer)
      \/ offered' = Event /\ EventsOf(queue) = EventsOf(buffer) \cup {Event}
  BY <1>3
<1>5. updates' \in Nat /\ (updates' = 0 => updates = 0 /\ config' = config)
  BY <1>1
<1>6. CASE NoticeDue(queue) /\ Loses(0) /\ buffer' = queue /\ UNCHANGED <<droppedEvents, sent>>
  <2>1. failed' = failed
    BY <1>1, <1>6 DEF Loses
  <2>2. \/ /\ offered' = offered
           /\ DeliveredBy(sent') \cup EventsOf(buffer') = DeliveredBy(sent) \cup EventsOf(buffer)
        \/ /\ offered' = Event
           /\ DeliveredBy(sent') \cup EventsOf(buffer')
                = DeliveredBy(sent) \cup EventsOf(buffer) \cup {Event}
    <3>1. sent' = sent /\ buffer' = queue
      BY <1>6
    <3> QED
      BY <1>4, <3>1
  <2>3. /\ Total(sent') + droppedEvents' = Total(sent) + droppedEvents
        /\ Total(sent') + droppedEvents' <= Total(sent) + droppedEvents
    BY <1>1, <1>6
  <2>4. buffer' # <<>>
    BY <1>6 DEF NoticeDue
  <2> QED
    BY <1>5, <2>1, <2>2, <2>3, <2>4, NoneLost
<1>7. ASSUME NEW n \in 0..Len(queue), n < BatchCount(Len(queue), size),
             Loses(BatchSize(queue, size, n)),
             sent' = st \o notice \o SubSeq(Batches(queue, size), 1, n),
             droppedEvents' = IF config.emitDropNotice THEN 0 ELSE droppedEvents,
             buffer' = After(queue, size, n + 1)
      PROVE  DropsInv'
  <2> DEFINE all == begun \o SubSeq(Batches(queue, size), 1, n)
             rest == After(queue, size, n + 1)
             g == BatchSize(queue, size, n)
             seen == DeliveredBy(all) \cup EventsOf(rest)
  <2>1. n \in 0..BatchCount(Len(queue), size)
    <3> DEFINE count == BatchCount(Len(queue), size)
    <3>1. count \in Nat
      <4>1. size \in Nat \ {0} /\ Len(queue) \in Nat
        BY <1>2
      <4> HIDE DEF size
      <4> QED
        BY <4>1, BatchCountBounds
    <3>2. n < count /\ n \in Nat
      BY <1>7
    <3> HIDE DEF count, size
    <3>3. n \in 0..count
      BY <3>1, <3>2
    <3> QED
      BY <3>3 DEF count
  <2>2. /\ notice \in Seq(Message) /\ DeliveredBy(notice) = {} /\ reported \in Nat
        /\ reported + droppedEvents' <= droppedEvents
        /\ NoticeCanGo => /\ reported + droppedEvents' = droppedEvents
                          /\ config.emitDropNotice => droppedEvents' = 0
    BY <1>1, <1>2, <1>7, ReportCounts
  <2>3. \A i \in DOMAIN notice : notice[i].events = <<>>
    BY <1>1, ReportFacts
  <2>4. offered' \in Nat
    BY <1>1, <1>2
  <2>5. Ordered(st, queue, next)
    OBVIOUS
  <2> HIDE DEF size, notice, st
  <2>6. begun \in Seq(Message) /\ Ordered(begun, queue, next)
    BY <1>1, <2>2, <2>3, <2>5, NoticeOrdered
  <2>7. Total(begun) = Total(st) + reported /\ DeliveredBy(begun) = DeliveredBy(st)
    <3>1. Total(begun) = Total(st) + Total(notice)
      BY <1>1, <2>2, TotalConcat
    <3>2. DeliveredBy(begun) = DeliveredBy(st) \cup DeliveredBy(notice)
      BY <1>1, <2>2, DeliveredConcat
    <3> HIDE DEF begun
    <3> QED
      BY <2>2, <3>1, <3>2
  <2>8. DeliveredBy(begun) = DeliveredBy(sent)
    BY <2>7 DEF st
  <2> HIDE DEF begun, reported
  <2> DEFINE top == offered'
  <2>9. /\ top \in Nat
        /\ \/ top = offered /\ EventsOf(queue) = EventsOf(buffer)
           \/ top = Event /\ EventsOf(queue) = EventsOf(buffer) \cup {Event}
    BY <1>4, <2>4
  <2>11. sent' = all /\ buffer' = rest /\ failed' = failed + g
    BY <1>7 DEF begun, Loses
  <2>12. seen = DeliveredBy(sent') \cup EventsOf(buffer')
    BY <2>11
  <2> HIDE DEF top
  <2>18. Losing(queue, begun, next, size, n, top, all, seen, g)
    BY <1>2, <2>1, <2>6, <2>8, <2>9 DEF Losing
  <2> HIDE DEF all, rest, g, seen
  <2>10. /\ g \in Nat /\ Total(all) = Total(begun)
         /\ seen \subseteq 1..top /\ IsFiniteSet((1..top) \ seen)
         /\ Cardinality((1..top) \ seen) = Cardinality(Lost) + g
    <3>1. Lossy(begun, top, all, seen, g)
      BY <2>18, BatchLost
    <3> QED
      BY <3>1 DEF Lossy
  <2>13. seen \subseteq 1..offered' /\ Cardinality((1..offered') \ seen) = Cardinality(Lost) + g
    BY <2>10 DEF top
  <2>14. Total(sent') = Total(sent) + reported
    BY <2>7, <2>10, <2>11 DEF st
  <2>15. Total(sent) \in Nat /\ droppedEvents' \in Nat
    BY <1>1, <1>7 DEF st
  <2>16. /\ Total(sent') + droppedEvents' + failed' <= Total(sent) + droppedEvents + failed + g
         /\ NoticeCanGo =>
              /\ Total(sent') + droppedEvents' + failed' = Total(sent) + droppedEvents + failed + g
              /\ config.emitDropNotice => droppedEvents' = 0
    <3> DEFINE was == Total(sent)
               total == Total(sent')
    <3>1. was \in Nat /\ total = was + reported
      BY <2>14, <2>15
    <3> HIDE DEF was, total
    <3> DEFINE d == droppedEvents
               d2 == droppedEvents'
               f == failed
               f2 == failed'
    <3>3. /\ d \in Nat /\ d2 \in Nat /\ f \in Nat /\ g \in Nat /\ reported \in Nat
          /\ f2 = f + g /\ reported + d2 <= d
      BY <1>1, <2>2, <2>10, <2>11, <2>15
    <3> HIDE DEF d, d2, f, f2
    <3>4. /\ total + d2 + f2 <= was + d + f + g
          /\ reported + d2 = d => total + d2 + f2 = was + d + f + g
      BY <3>1, <3>3
    <3>2. /\ total + droppedEvents' + failed' <= was + droppedEvents + failed + g
          /\ reported + droppedEvents' = droppedEvents =>
               total + droppedEvents' + failed' = was + droppedEvents + failed + g
      BY <3>4 DEF d, d2, f, f2
    <3> QED
      BY <2>2, <3>2 DEF was, total
  <2>17. NoticeCanGo => (config.emitDropNotice /\ droppedEvents' > 0 => buffer' # <<>>)
    BY <2>16
  <2> QED
    BY <1>5, <2>10, <2>12, <2>13, <2>16, <2>17, CountNext
<1> QED
  BY <1>6, <1>7 DEF FlushThrows

\* The oldest batch and the next event are lost.
LEMMA SendOverflowThrowsDrops ==
  DropsInv /\ FlushDropsNone /\ ConnectionInv' /\ SendOverflowThrows => DropsInv'
<1> SUFFICES ASSUME DropsInv, FlushDropsNone, ConnectionInv', SendOverflowThrows PROVE DropsInv'
  OBVIOUS
<1> DEFINE size == config.maxBatchSize
           none == 0
           one == 1
           g == BatchSize(buffer, size, none)
           rest == After(buffer, size, none + 1)
           all == sent \o SubSeq(Batches(buffer, size), 1, none)
           seen == DeliveredBy(all) \cup EventsOf(rest)
           lost == g + 1
<1>1. /\ sent' = sent /\ buffer' = After(buffer, size, 1) /\ config' = config /\ updates' = updates
      /\ droppedEvents' = droppedEvents /\ offered' = Event /\ Loses(lost)
      /\ config.overflowStrategy = "flush"
  BY DEF SendOverflowThrows, Offer, Event
<1>2. /\ ConnectionInv /\ updates \in Nat /\ sent \in Seq(Message) /\ buffer \in Seq(Nat)
      /\ droppedEvents \in Nat /\ Total(sent) \in Nat /\ offered \in Nat /\ failed \in Nat
      /\ Cardinality(Lost) \in Nat
  BY CountFacts
<1>3. size \in Nat \ {0} /\ Ordered(sent, buffer, Event) /\ Event \in Nat
  BY <1>2, InvFacts
<1>4. Event = offered + 1 /\ Event \notin 1..offered
  BY NextIsNew DEF Event
<1>5. all = sent /\ rest = After(buffer, size, 1)
  <2>1. SubSeq(Batches(buffer, size), 1, none) = <<>>
    BY DEF SubSeq
  <2>2. sent \o <<>> = sent
    BY <1>2
  <2>3. none + 1 = 1
    OBVIOUS
  <2> DEFINE first == SubSeq(Batches(buffer, size), 1, none)
             st == sent
  <2>4. st \o <<>> = st /\ first = <<>>
    BY <2>1, <2>2
  <2> HIDE DEF first, st
  <2>5. st \o first = st
    BY <2>4
  <2> QED
    BY <2>3, <2>5 DEF first, st
<1>6. none \in 0..BatchCount(Len(buffer), size)
  <2> DEFINE long == Len(buffer)
             count == BatchCount(long, size)
  <2>1. long \in Nat
    BY <1>2
  <2> HIDE DEF size, long
  <2>2. count \in Nat
    BY <1>3, <2>1, BatchCountBounds
  <2> HIDE DEF count
  <2>3. none \in 0..count
    BY <2>2
  <2> QED
    BY <2>3 DEF count, long
<1>7. failed' = failed + lost
  BY <1>1 DEF Loses
<1> HIDE DEF size, none
<1>8. /\ g \in Nat /\ seen \subseteq 1..offered /\ IsFiniteSet((1..offered) \ seen)
      /\ Cardinality((1..offered) \ seen) = Cardinality(Lost) + g
  <2> DEFINE st == sent
             e == Event
             top == offered
             queue == buffer
  <2>1. Losing(queue, st, e, size, none, top, all, seen, g)
    BY <1>2, <1>3, <1>6 DEF Losing
  <2> HIDE DEF st, e, top, queue, all, rest, seen, g
  <2>2. /\ g \in Nat /\ seen \subseteq 1..top /\ IsFiniteSet((1..top) \ seen)
        /\ Cardinality((1..top) \ seen) = Cardinality(Lost) + g
    <3>1. Lossy(st, top, all, seen, g)
      BY <2>1, BatchLost
    <3> QED
      BY <3>1 DEF Lossy
  <2> QED
    BY <2>2 DEF top
<1>9. seen = DeliveredBy(sent') \cup EventsOf(buffer')
  BY <1>1, <1>5
<1> HIDE DEF all, rest, seen, g
<1>10. /\ seen \subseteq 1..offered'
       /\ Cardinality((1..offered') \ seen) = Cardinality(Lost) + lost
  <2> DEFINE gone == (1..offered) \ seen
  <2>1. 1..Event = (1..offered) \cup {Event}
    BY <1>2, <1>4
  <2>2. /\ seen \subseteq 1..Event /\ (1..Event) \ seen = gone \cup {Event} /\ Event \notin gone
    BY <1>4, <1>8, <2>1
  <2>3. IsFiniteSet(gone) /\ Cardinality(gone) = Cardinality(Lost) + g
    BY <1>8
  <2> HIDE DEF gone
  <2>4. Cardinality(gone \cup {Event}) = Cardinality(gone) + 1
    BY <2>2, <2>3, FS_AddElement
  <2> DEFINE before == Cardinality(Lost)
  <2>5. Cardinality(gone \cup {Event}) = before + g + 1 /\ before \in Nat
    BY <1>2, <2>3, <2>4
  <2> HIDE DEF before
  <2>6. Cardinality(gone \cup {Event}) = before + lost
    BY <1>8, <2>5
  <2> QED
    BY <1>1, <2>2, <2>6 DEF before
<1>11. lost \in Nat
  BY <1>8
<1> HIDE DEF lost
<1>12. /\ Total(sent') + droppedEvents' + failed' = Total(sent) + droppedEvents + failed + lost
       /\ Total(sent') + droppedEvents' + failed' <= Total(sent) + droppedEvents + failed + lost
  <2> DEFINE total == Total(sent)
  <2>1. Total(sent') = total /\ droppedEvents' + failed' = droppedEvents + failed + lost
        /\ total \in Nat /\ failed' \in Nat
    BY <1>1, <1>2, <1>7, <1>11
  <2> HIDE DEF total
  <2> DEFINE d == droppedEvents
             d2 == droppedEvents'
             f == failed
             f2 == failed'
  <2>3. /\ d \in Nat /\ d2 \in Nat /\ f \in Nat /\ f2 \in Nat /\ lost \in Nat /\ total \in Nat
        /\ d2 + f2 = d + f + lost
    BY <1>1, <1>2, <1>11, <2>1
  <2> HIDE DEF d, d2, f, f2
  <2>2. /\ total + d2 + f2 = total + d + f + lost /\ total + d2 + f2 <= total + d + f + lost
    BY <2>3
  <2>4. Total(sent') = total
    BY <2>1
  <2> QED
    BY <2>2, <2>4 DEF total, d, d2, f, f2
<1>13. updates' \in Nat /\ (updates' = 0 => updates = 0 /\ config' = config /\ droppedEvents' = 0)
  BY <1>1, <1>2 DEF FlushDropsNone
<1>14. updates' = 0 =>
         /\ updates = 0 /\ config' = config
         /\ config.maxBufferedEvents > 0 /\ NoticeCanGo =>
              /\ Total(sent') + droppedEvents' + failed'
                   = Total(sent) + droppedEvents + failed + lost
              /\ config.emitDropNotice /\ droppedEvents' > 0 => buffer' # <<>>
  <2>1. ~(0 > 0)
    OBVIOUS
  <2> QED
    BY <1>12, <1>13, <2>1
<1> QED
  BY <1>9, <1>10, <1>11, <1>12, <1>13, <1>14, CountNext

LEMMA SendBufferedDrops == DropsInv /\ ConnectionInv' /\ SendBuffered => DropsInv'
<1> SUFFICES ASSUME DropsInv, ConnectionInv', SendBuffered PROVE DropsInv'
  OBVIOUS
<1> DEFINE queue == Append(buffer, Event)
<1>1. config' = config /\ offered' = Event /\ updates' = updates
  BY DEF SendBuffered, Offer, Event
<1>2. /\ ConnectionInv /\ updates \in Nat /\ sent \in Seq(Message) /\ buffer \in Seq(Nat)
      /\ droppedEvents \in Nat /\ Total(sent) \in Nat
  BY CountFacts
<1>3. Event \in Nat
  BY <1>2, InvFacts
<1>4. CASE /\ buffer' = queue
           /\ UNCHANGED <<windowOpen, timer, droppedEvents, sent, trouble>>
  <2>1. DeliveredBy(sent') \cup EventsOf(buffer')
          = DeliveredBy(sent) \cup EventsOf(buffer) \cup {Event}
    <3>1. EventsOf(buffer') = EventsOf(buffer) \cup {Event}
      BY <1>2, <1>3, <1>4, EventsAppend
    <3>2. sent' = sent
      BY <1>4
    <3> QED
      BY <3>1, <3>2
  <2>2. buffer' # <<>>
    <3>1. Len(queue) = Len(buffer) + 1 /\ Len(buffer) \in Nat
      BY <1>2
    <3>2. Len(buffer') # 0
      BY <1>4, <3>1
    <3> QED
      BY <3>2
  <2>3. /\ Total(sent') + droppedEvents' = Total(sent) + droppedEvents
        /\ Total(sent') + droppedEvents' <= Total(sent) + droppedEvents
        /\ failed' = failed
    BY <1>2, <1>4 DEF trouble
  <2> QED
    BY <1>1, <1>2, <2>1, <2>2, <2>3, NoneLost
<1>5. CASE FlushAll(queue)
  <2>1. queue \in Seq(Nat)
    BY <1>2, <1>3
  <2> QED
    BY <1>1, <1>5, <2>1, FlushAllDrops
<1>6. CASE FlushThrows(queue)
  <2> DEFINE st == sent
             b == buffer
             e == Event
  <2>1. st \in Seq(Message) /\ b \in Seq(Nat) /\ e \in Nat /\ Ordered(st, b, e)
    BY <1>2, InvFacts
  <2> HIDE DEF st, b, e
  <2>2. Append(b, e) \in Seq(Nat) /\ Ordered(st, Append(b, e), e + 1)
    BY <2>1, WaitingOrdered
  <2> DEFINE next == e + 1
  <2>3. next \in Nat /\ queue \in Seq(Nat) /\ Ordered(sent, queue, next)
    BY <2>1, <2>2 DEF st, b, e
  <2> HIDE DEF next, queue
  <2>4. offered' = Event /\ queue = Append(buffer, Event)
    BY <1>1 DEF queue
  <2> QED
    BY <1>1, <1>6, <2>3, <2>4, FlushThrowsDrops
<1> QED
  BY <1>4, <1>5, <1>6 DEF SendBuffered

LEMMA FlushDrops == DropsInv /\ ConnectionInv' /\ (Timer \/ Flush) => DropsInv'
<1> SUFFICES ASSUME DropsInv, ConnectionInv', Timer \/ Flush PROVE DropsInv'
  OBVIOUS
<1>1. /\ FlushAll(buffer) \/ FlushThrows(buffer)
      /\ config' = config /\ offered' = offered /\ updates' = updates
  BY DEF Timer, Flush
<1>2. buffer \in Seq(Nat) /\ ConnectionInv
  BY CountFacts
<1>3. Ordered(sent, buffer, Event) /\ Event \in Nat
  BY <1>2, InvFacts
<1>4. CASE FlushAll(buffer)
  BY <1>1, <1>2, <1>4, FlushAllDrops
<1>5. CASE FlushThrows(buffer)
  BY <1>1, <1>2, <1>3, <1>5, FlushThrowsDrops
<1> QED
  BY <1>1, <1>4, <1>5

LEMMA UpdateDrops ==
  ASSUME DropsInv, ConnectionInv', NEW c \in Configs, UpdateConfig(c)
  PROVE  DropsInv'
<1> DEFINE size == c.maxBatchSize
           excess == Excess(c)
<1>1. /\ config' = c /\ offered' = offered /\ updates' = updates + 1 /\ failed' = failed
  BY DEF UpdateConfig, Update, trouble
<1>2. /\ ConnectionInv /\ updates \in Nat /\ sent \in Seq(Message) /\ buffer \in Seq(Nat)
      /\ droppedEvents \in Nat /\ Total(sent) \in Nat /\ offered \in Nat /\ failed \in Nat
      /\ Seen = DeliveredBy(sent) \cup EventsOf(buffer) /\ Seen \subseteq 1..offered
      /\ Lost = (1..offered) \ Seen /\ IsFiniteSet(Lost) /\ Cardinality(Lost) \in Nat
  BY CountFacts
<1>3. /\ size \in Nat \ {0} /\ c.maxBufferedEvents \in Nat /\ Len(buffer) \in Nat
      /\ Ascending(buffer) /\ Ordered(sent, buffer, Event)
  BY <1>2, ConfigFacts, InvFacts
<1>4. excess \in Nat /\ excess <= Len(buffer)
  BY <1>3 DEF Excess
<1>5. updates' \in Nat /\ updates' # 0
  BY <1>1, <1>2
<1> HIDE DEF excess, size
<1>6. CASE /\ buffer' = SubSeq(buffer, 1, Len(buffer) - excess)
           /\ droppedEvents' = droppedEvents + excess
           /\ sent' = sent
  <2> DEFINE m == Len(buffer) - excess
             cut == {buffer[k] : k \in (m + 1)..Len(buffer)}
             seen == DeliveredBy(sent') \cup EventsOf(buffer')
  <2>1. m \in 0..Len(buffer) /\ Len(buffer) - m = excess
    BY <1>3, <1>4
  <2>2. IsFiniteSet(cut) /\ Cardinality(cut) = excess
    <3> HIDE DEF m
    <3>1. Len(buffer) \in m..Len(buffer)
      BY <1>3, <2>1
    <3>2. IsFiniteSet(cut) /\ Cardinality(cut) = Len(buffer) - m
      BY <1>2, <1>3, <2>1, <3>1, CutCount
    <3> QED
      BY <2>1, <3>2
  <2>3. EventsOf(buffer') = {buffer[k] : k \in 1..m}
    <3>1. buffer' = SubSeq(buffer, 1, m)
      BY <1>6
    <3> HIDE DEF m
    <3>2. DOMAIN buffer' = 1..m /\ \A k \in 1..m : buffer'[k] = buffer[k]
      BY <1>2, <2>1, <3>1
    <3> QED
      BY <3>2 DEF EventsOf
  <2> HIDE DEF m
  <2>4. EventsOf(buffer) = EventsOf(buffer') \cup cut
    <3>1. \A k \in DOMAIN buffer : k \in 1..m \/ k \in (m + 1)..Len(buffer)
      BY <1>3, <2>1
    <3>2. 1..m \subseteq DOMAIN buffer /\ (m + 1)..Len(buffer) \subseteq DOMAIN buffer
      BY <1>2, <1>3, <2>1
    <3> QED
      BY <2>3, <3>1, <3>2 DEF EventsOf
  <2>5. cut \cap EventsOf(buffer') = {}
    <3>1. \A k \in 1..m, l \in (m + 1)..Len(buffer) : buffer[k] < buffer[l]
      BY <1>2, <1>3, <2>1 DEF Ascending
    <3>2. \A k \in 1..m : buffer[k] \in Nat
      BY <1>2, <1>3, <2>1
    <3>3. \A k \in 1..m, l \in (m + 1)..Len(buffer) : buffer[k] # buffer[l]
      BY <3>1, <3>2
    <3> QED
      BY <2>3, <3>3
  <2>6. cut \cap DeliveredBy(sent) = {}
    <3>1. \A i \in DOMAIN sent : sent[i].events \in Seq(Nat)
      <4>1. \A i \in DOMAIN sent : sent[i] \in Message
        BY <1>2
      <4> QED
        BY <4>1 DEF Message
    <3>2. \A i \in DOMAIN sent : \A x \in DOMAIN sent[i].events :
            sent[i].events[x] \in Nat /\ \A k \in DOMAIN buffer : sent[i].events[x] < buffer[k]
      BY <1>3, <3>1 DEF Ordered, Below
    <3>3. (m + 1)..Len(buffer) \subseteq DOMAIN buffer
      BY <1>2, <1>3, <2>1
    <3>4. \A i \in DOMAIN sent : \A x \in DOMAIN sent[i].events :
            \A k \in (m + 1)..Len(buffer) : sent[i].events[x] # buffer[k]
      BY <3>2, <3>3
    <3> QED
      BY <3>4 DEF DeliveredBy, EventsOf
  <2> HIDE DEF cut
  <2>7. sent' = sent
    BY <1>6
  <2>8. /\ seen \subseteq 1..offered' /\ (1..offered') \ seen = Lost \cup cut
        /\ Lost \cap cut = {}
    <3>1. DeliveredBy(sent') = DeliveredBy(sent)
      BY <2>7
    <3>2. Seen = seen \cup cut /\ cut \cap seen = {}
      BY <1>2, <2>4, <2>5, <2>6, <3>1
    <3> HIDE DEF seen
    <3>3. offered' = offered
      BY <1>1
    <3> QED
      BY <1>2, <3>2, <3>3
  <2> HIDE DEF seen
  <2>9. Cardinality(Lost \cup cut) = Cardinality(Lost) + excess
    <3>1. Cardinality(Lost \cup cut)
            = Cardinality(Lost) + Cardinality(cut) - Cardinality(Lost \cap cut)
      BY <1>2, <2>2, FS_Union
    <3>2. Cardinality(Lost \cap cut) = 0
      BY <2>8, FS_EmptySet
    <3> QED
      BY <1>2, <1>4, <2>2, <3>1, <3>2
  <2>10. Cardinality((1..offered') \ seen) = Cardinality(Lost) + excess
    <3>1. Cardinality((1..offered') \ seen) = Cardinality(Lost \cup cut)
      BY <2>8, Zenon
    <3> QED
      BY <2>9, <3>1
  <2>11. Total(sent') + droppedEvents' + failed' <= Total(sent) + droppedEvents + failed + excess
    <3> DEFINE total == Total(sent)
    <3>1. /\ Total(sent') = total /\ droppedEvents' + failed' = droppedEvents + failed + excess
          /\ total \in Nat /\ droppedEvents' \in Nat /\ failed' \in Nat
      BY <1>1, <1>2, <1>4, <1>6, <2>7
    <3> HIDE DEF total
    <3>2. total + droppedEvents' + failed' <= total + droppedEvents + failed + excess
      BY <1>2, <1>4, <3>1, SumMoves
    <3> QED
      BY <3>1, <3>2 DEF total
  <2>12. seen = DeliveredBy(sent') \cup EventsOf(buffer')
    BY DEF seen
  <2> QED
    BY <1>4, <1>5, <2>8, <2>10, <2>11, <2>12, CountNext
<1>7. CASE /\ sent' = sent \o SubSeq(Batches(buffer, size), 1, Rounds(c))
           /\ buffer' = After(buffer, size, Rounds(c))
           /\ droppedEvents' = droppedEvents
  <2> DEFINE n == Rounds(c)
             first == SubSeq(Batches(buffer, size), 1, n)
  <2>1. n = BatchCount(excess, size)
    BY DEF Rounds, excess, size
  <2>2. n \in 0..BatchCount(Len(buffer), size)
    <3> HIDE DEF n
    <3> QED
      BY <1>3, <1>4, <2>1, BatchCountBounds, BatchCountMonotone
  <2>3. /\ sent' = sent \o first /\ buffer' = After(buffer, size, n)
        /\ droppedEvents' = droppedEvents
    BY <1>7
  <2> HIDE DEF n
  <2>4. /\ first \in Seq(Message) /\ Total(first) = 0
        /\ DeliveredBy(first) \cup EventsOf(buffer') = EventsOf(buffer)
    BY <1>2, <1>3, <2>2, <2>3, BatchesCover
  <2> HIDE DEF first
  <2>5. Total(sent') = Total(sent) /\ DeliveredBy(sent') = DeliveredBy(sent) \cup DeliveredBy(first)
    BY <1>2, <2>3, <2>4, SentMore
  <2>6. /\ DeliveredBy(sent') \cup EventsOf(buffer') = DeliveredBy(sent) \cup EventsOf(buffer)
        /\ Total(sent') + droppedEvents' <= Total(sent) + droppedEvents
    BY <1>2, <2>3, <2>4, <2>5
  <2> QED
    BY <1>1, <1>5, <2>6, NoneLost
<1> QED
  BY <1>6, <1>7 DEF UpdateConfig, size, excess

\* A message throws while room is made for new settings.
LEMMA UpdateThrowsDrops ==
  ASSUME DropsInv, ConnectionInv', NEW c \in Configs, UpdateConfigThrows(c)
  PROVE  DropsInv'
<1> DEFINE size == c.maxBatchSize
           b == buffer
           st == sent
           e == Event
<1>1. /\ offered' = offered /\ updates' = updates + 1 /\ droppedEvents' = droppedEvents
  BY DEF UpdateConfigThrows, Update
<1>2. /\ ConnectionInv /\ updates \in Nat /\ st \in Seq(Message) /\ b \in Seq(Nat)
      /\ droppedEvents \in Nat /\ Total(st) \in Nat /\ offered \in Nat /\ failed \in Nat
  BY CountFacts
<1>3. size \in Nat \ {0} /\ Ordered(st, b, e) /\ e \in Nat
  BY <1>2, ConfigFacts, InvFacts
<1>4. PICK n \in 0..Len(b) :
        /\ n < Rounds(c)
        /\ Loses(BatchSize(b, size, n))
        /\ sent' = st \o SubSeq(Batches(b, size), 1, n)
        /\ buffer' = After(b, size, n + 1)
  BY DEF UpdateConfigThrows
<1> DEFINE all == st \o SubSeq(Batches(b, size), 1, n)
           rest == After(b, size, n + 1)
           g == BatchSize(b, size, n)
           seen == DeliveredBy(all) \cup EventsOf(rest)
           top == offered
<1>5. n \in 0..BatchCount(Len(b), size)
  BY <1>2, <1>4, RoundsFit
<1>6. sent' = all /\ buffer' = rest /\ failed' = failed + g
  BY <1>4 DEF Loses
<1>7. /\ DeliveredBy(st) = DeliveredBy(sent) /\ EventsOf(b) = EventsOf(buffer)
      /\ top \in Nat /\ top = offered
  BY <1>2
<1>8. seen = DeliveredBy(sent') \cup EventsOf(buffer')
  BY <1>6
<1>13. Losing(b, st, e, size, n, top, all, seen, g)
  BY <1>2, <1>3, <1>5, <1>7 DEF Losing
<1> HIDE DEF b, st, e, size, top, all, rest, g, seen
<1>9. /\ g \in Nat /\ Total(all) = Total(st) /\ seen \subseteq 1..top
      /\ Cardinality((1..top) \ seen) = Cardinality(Lost) + g
  <2>1. Lossy(st, top, all, seen, g)
    BY <1>13, BatchLost
  <2> QED
    BY <2>1 DEF Lossy
<1>10. seen \subseteq 1..offered' /\ Cardinality((1..offered') \ seen) = Cardinality(Lost) + g
  BY <1>1, <1>9 DEF top
<1>11. Total(sent') + droppedEvents' + failed' <= Total(sent) + droppedEvents + failed + g
  <2> DEFINE total == Total(st)
  <2>1. /\ Total(sent') = total /\ droppedEvents' + failed' = droppedEvents + failed + g
        /\ total \in Nat /\ droppedEvents' \in Nat /\ failed' \in Nat /\ Total(sent) = total
    BY <1>1, <1>2, <1>6, <1>9 DEF st
  <2> HIDE DEF total
  <2>2. total + droppedEvents' + failed' <= total + droppedEvents + failed + g
    BY <1>2, <1>9, <2>1, SumMoves
  <2> QED
    BY <2>1, <2>2
<1>12. updates' \in Nat /\ updates' # 0
  BY <1>1, <1>2
<1> QED
  BY <1>8, <1>9, <1>10, <1>11, <1>12, CountNext

\* Only under "drop" is anything dropped.
LEMMA NextFlushDropsNone == DropsInv /\ FlushDropsNone /\ [Next]_vars => FlushDropsNone'
<1> SUFFICES ASSUME DropsInv, FlushDropsNone, [Next]_vars PROVE FlushDropsNone'
  OBVIOUS
<1>1. updates \in Nat
  BY DEF DropsInv
<1>2. CASE SendDropped
  BY <1>2 DEF SendDropped, FlushDropsNone
<1>3. ASSUME config' = config, updates' = updates, droppedEvents' \in {0, droppedEvents}
      PROVE  FlushDropsNone'
  BY <1>3 DEF FlushDropsNone
<1>4. ASSUME NEW queue, FlushAll(queue) \/ FlushThrows(queue)
      PROVE  droppedEvents' \in {0, droppedEvents}
  BY <1>4 DEF FlushAll, FlushThrows
<1>5. CASE SendFirst \/ SendFirstThrows \/ SendOverflow \/ SendOverflowThrows \/ SendBuffered
  BY <1>3, <1>4, <1>5 DEF SendFirst, SendFirstThrows, SendOverflow, SendOverflowThrows, SendBuffered
<1>6. CASE Timer \/ Flush
  BY <1>3, <1>4, <1>6 DEF Timer, Flush
<1>7. ASSUME NEW c \in Configs, UpdateConfig(c) \/ UpdateConfigThrows(c) PROVE FlushDropsNone'
  BY <1>1, <1>7 DEF UpdateConfig, UpdateConfigThrows, Update, FlushDropsNone
<1>8. CASE UNCHANGED vars
  BY <1>3, <1>8 DEF vars
<1> QED
  BY <1>2, <1>5, <1>6, <1>7, <1>8 DEF Next, Send

LEMMA NextDrops == DropsInv /\ FlushDropsNone /\ [Next]_vars => DropsInv'
<1> SUFFICES ASSUME DropsInv, FlushDropsNone, [Next]_vars PROVE DropsInv'
  OBVIOUS
<1>1. ConnectionInv'
  BY CountFacts, NextInv
<1>2. CASE Send
  BY <1>1, <1>2, SendFirstDrops, SendFirstThrowsDrops, SendDroppedDrops, SendOverflowDrops,
     SendOverflowThrowsDrops, SendBufferedDrops DEF Send
<1>3. CASE Timer \/ Flush
  BY <1>1, <1>3, FlushDrops
<1>4. ASSUME NEW c \in Configs, UpdateConfig(c) \/ UpdateConfigThrows(c) PROVE DropsInv'
  BY <1>1, <1>4, UpdateDrops, UpdateThrowsDrops
<1>5. CASE UNCHANGED vars
  <2>1. /\ config' = config /\ buffer' = buffer /\ droppedEvents' = droppedEvents
        /\ sent' = sent /\ offered' = offered /\ updates' = updates /\ failed' = failed
    BY <1>5 DEF vars, trouble
  <2>2. updates' \in Nat /\ Total(sent) \in Nat /\ droppedEvents \in Nat
    BY <2>1, CountFacts
  <2>3. /\ DeliveredBy(sent') \cup EventsOf(buffer') = DeliveredBy(sent) \cup EventsOf(buffer)
        /\ Total(sent') + droppedEvents' = Total(sent) + droppedEvents
        /\ Total(sent') + droppedEvents' <= Total(sent) + droppedEvents
    BY <2>1, <2>2
  <2>4. NoticeCanGo => (config.emitDropNotice /\ droppedEvents' > 0 => buffer' # <<>>)
    BY <2>1 DEF NoticeCanGo
  <2> QED
    BY <1>1, <2>1, <2>2, <2>3, <2>4, NoneLost
<1> QED
  BY <1>2, <1>3, <1>4, <1>5 DEF Next

(***************************************************************************)
(* The notices never report more events than were lost; under settings     *)
(* that do not change, and with room for at least one event, every event   *)
(* that was neither sent nor buffered is in a notice, still to be reported *)
(* or was in a message that threw (DropsAreReported).                      *)
(***************************************************************************)
THEOREM DropsAreAlwaysReported == Spec => []DropsAreReported
<1>1. Init => DropsInv /\ FlushDropsNone
  BY InitDrops DEF Init, FlushDropsNone
<1>2. DropsInv /\ FlushDropsNone /\ [Next]_vars => (DropsInv /\ FlushDropsNone)'
  BY NextDrops, NextFlushDropsNone
<1>3. DropsInv => DropsAreReported
  BY DEF DropsInv, CountIsKept, DropsAreReported
<1> QED
  BY <1>1, <1>2, <1>3, PTL DEF Spec
=============================================================================
