--------------------------- MODULE TraceConnection ---------------------------
(***************************************************************************)
(* One buffered trace connection (src/src/observability/websocket-trace-   *)
(* connection.ts): the first event of a window goes out at once, those     *)
(* that follow are collected until the window's timer fires, a batch is    *)
(* full or somebody flushes.  Every method runs without an await, so each  *)
(* is one action.  The serializer or the transport may throw (196), which  *)
(* ends the method where it stands: such an end is an action of its own.   *)
(* Events are numbered in the order they are offered.                      *)
(***************************************************************************)
EXTENDS Naturals, Sequences, FiniteSets

CONSTANTS
  Configs,     \* the settings in force after mergeConfig: default and given ones
  MaxEvents,   \* bound: events offered
  MaxUpdates,  \* bound: calls of updateConfig
  MaxThrows    \* bound: messages that throw

Config == [maxBatchSize : Nat \ {0}, maxBufferedEvents : Nat,
           overflowStrategy : {"flush", "drop"}, emitDropNotice : BOOLEAN]

\* With a batch size of zero the loop of flushBuffered would not end.
ASSUME ConfigsAssumption == Configs \subseteq Config
ASSUME BoundsAssumption == MaxEvents \in Nat /\ MaxUpdates \in Nat /\ MaxThrows \in Nat

VARIABLES
  config,
  buffer,         \* the events waiting for the window to end
  windowOpen,
  timer,          \* a timer is set
  droppedEvents,  \* dropped and not yet reported
  sent,           \* the messages given to the transport, in order
  offered,        \* how many events send() was called with
  updates,        \* how many calls of updateConfig were made
  thrown,         \* how many messages threw
  failed          \* how many events were in them

trouble == <<thrown, failed>>
vars == <<config, buffer, windowOpen, timer, droppedEvents, sent, offered, updates, trouble>>

\* A message holds events, or the notice that some were dropped.
Batch(events)  == [events |-> events, dropped |-> 0]
Notice(number) == [events |-> <<>>, dropped |-> number]

AtLeastOne(n) == IF n = 0 THEN 1 ELSE n
AtMost(a, b) == IF a <= b THEN a ELSE b

\* How many batches of this size hold n events.
BatchCount(n, size) == (n + size - 1) \div size

\* The events of queue in batches of this size: splice(0, size) until it is empty.
Batches(queue, size) ==
  [i \in 1..BatchCount(Len(queue), size) |->
     Batch(SubSeq(queue, (i - 1) * size + 1, AtMost(i * size, Len(queue))))]

\* What is left of queue after the first n of its batches.
After(queue, size, n) == SubSeq(queue, AtMost(n * size, Len(queue)) + 1, Len(queue))

Init ==
  /\ config \in Configs
  /\ buffer = <<>>
  /\ windowOpen = FALSE /\ timer = FALSE
  /\ droppedEvents = 0
  /\ sent = <<>>
  /\ offered = 0 /\ updates = 0
  /\ thrown = 0 /\ failed = 0

-----------------------------------------------------------------------------
\* The notice goes ahead of the batches; without an event to refer to the
\* count is forgotten.
NoticeDue(queue) == config.emitDropNotice /\ droppedEvents > 0 /\ queue # <<>>

Report(queue) == IF NoticeDue(queue) THEN <<Notice(droppedEvents)>> ELSE <<>>

\* flushBuffered and resetWindow: everything goes out and the window closes.
FlushAll(queue) ==
  /\ sent' = sent \o Report(queue) \o Batches(queue, config.maxBatchSize)
  /\ droppedEvents' = IF config.emitDropNotice THEN 0 ELSE droppedEvents
  /\ buffer' = <<>>
  /\ windowOpen' = FALSE /\ timer' = FALSE
  /\ UNCHANGED trouble

\* A message with n events throws: they are lost, and not counted as dropped.
Loses(n) == thrown < MaxThrows /\ thrown' = thrown + 1 /\ failed' = failed + n

\* How many events batch n + 1 of queue holds.
BatchSize(queue, size, n) == Len(After(queue, size, n)) - Len(After(queue, size, n + 1))

\* flushBuffered throws at its notice, with nothing taken from the buffer, or
\* at a batch after n others; resetWindow is not reached.
FlushThrows(queue) ==
  /\ \/ /\ NoticeDue(queue)
        /\ Loses(0)
        /\ buffer' = queue
        /\ UNCHANGED <<droppedEvents, sent>>
     \/ \E n \in 0..Len(queue) :
          /\ n < BatchCount(Len(queue), config.maxBatchSize)
          /\ Loses(BatchSize(queue, config.maxBatchSize, n))
          /\ sent' = sent \o Report(queue)
                          \o SubSeq(Batches(queue, config.maxBatchSize), 1, n)
          /\ droppedEvents' = IF config.emitDropNotice THEN 0 ELSE droppedEvents
          /\ buffer' = After(queue, config.maxBatchSize, n + 1)
  /\ UNCHANGED windowOpen

\* send(event) with the next event; each way it can go is one of the actions below.
Offer == offered < MaxEvents /\ offered' = offered + 1
Event == offered + 1

\* Mutant: the window opens without its timer.
SendWithoutTimer ==
  /\ Offer /\ ~windowOpen
  /\ sent' = Append(sent, Batch(<<Event>>))
  /\ windowOpen' = TRUE
  /\ UNCHANGED <<config, buffer, timer, droppedEvents, updates, trouble>>

SendFirst ==
  /\ Offer /\ ~windowOpen
  /\ sent' = Append(sent, Batch(<<Event>>))
  /\ windowOpen' = TRUE /\ timer' = TRUE
  /\ UNCHANGED <<config, buffer, droppedEvents, updates, trouble>>

\* The window is open and startWindow is not reached.
SendFirstThrows ==
  /\ Offer /\ ~windowOpen
  /\ Loses(1)
  /\ windowOpen' = TRUE
  /\ UNCHANGED <<config, buffer, timer, droppedEvents, sent, updates>>

\* Mutant: the bound is checked after the event was added.
LooseFull == windowOpen /\ Len(buffer) > config.maxBufferedEvents

Full == windowOpen /\ Len(buffer) >= config.maxBufferedEvents

\* Mutant: a drop is not counted.
SendDroppedUncounted ==
  /\ Offer /\ Full /\ config.overflowStrategy = "drop"
  /\ UNCHANGED <<config, buffer, windowOpen, timer, droppedEvents, sent, updates, trouble>>

SendDropped ==
  /\ Offer /\ Full /\ config.overflowStrategy = "drop"
  /\ droppedEvents' = droppedEvents + 1
  /\ UNCHANGED <<config, buffer, windowOpen, timer, sent, updates, trouble>>

\* Mutant: the event overtakes the buffered ones.
SendOverflowFirst ==
  /\ Offer /\ Full /\ config.overflowStrategy = "flush"
  /\ sent' = Append(sent, Batch(<<Event>>))
  /\ UNCHANGED <<config, buffer, windowOpen, timer, droppedEvents, updates, trouble>>

\* The oldest batch goes out and the event is buffered.
SendOverflow ==
  /\ Offer /\ Full /\ config.overflowStrategy = "flush"
  /\ sent' = sent \o SubSeq(Batches(buffer, config.maxBatchSize), 1,
                            AtMost(1, Len(buffer)))
  /\ buffer' = Append(After(buffer, config.maxBatchSize, 1), Event)
  /\ UNCHANGED <<config, windowOpen, timer, droppedEvents, updates, trouble>>

\* The oldest batch is taken and lost, and the new event with it.
SendOverflowThrows ==
  /\ Offer /\ Full /\ config.overflowStrategy = "flush"
  /\ buffer # <<>>
  /\ Loses(BatchSize(buffer, config.maxBatchSize, 0) + 1)
  /\ buffer' = After(buffer, config.maxBatchSize, 1)
  /\ UNCHANGED <<config, windowOpen, timer, droppedEvents, sent, updates>>

SendBuffered ==
  /\ Offer /\ windowOpen /\ ~Full
  /\ \/ /\ Len(buffer) + 1 < config.maxBatchSize
        /\ buffer' = Append(buffer, Event)
        /\ UNCHANGED <<windowOpen, timer, droppedEvents, sent, trouble>>
     \/ /\ Len(buffer) + 1 >= config.maxBatchSize
        /\ \/ FlushAll(Append(buffer, Event))
           \/ FlushThrows(Append(buffer, Event)) /\ UNCHANGED timer
  /\ UNCHANGED <<config, updates>>

Send ==
  \/ SendFirst \/ SendFirstThrows \/ SendDropped
  \/ SendOverflow \/ SendOverflowThrows \/ SendBuffered

\* The window's timer fires, once: when the flush throws, the window stays
\* open and has no timer any more.
Timer ==
  /\ timer
  /\ \/ FlushAll(buffer)
     \/ FlushThrows(buffer) /\ timer' = FALSE
  /\ UNCHANGED <<config, offered, updates>>

\* flush(), and close() before it closes the transport.
Flush ==
  /\ \/ FlushAll(buffer)
     \/ FlushThrows(buffer) /\ UNCHANGED timer
  /\ UNCHANGED <<config, offered, updates>>

\* The rounds of overflow handling a new bound needs.
Excess(c) == IF Len(buffer) > c.maxBufferedEvents THEN Len(buffer) - c.maxBufferedEvents ELSE 0
Rounds(c) == BatchCount(Excess(c), c.maxBatchSize)

\* updateConfig sets the timer anew, also where it was missing.
Update(c) ==
  /\ updates < MaxUpdates
  /\ updates' = updates + 1
  /\ config' = c
  /\ timer' = windowOpen

UpdateConfig(c) ==
  /\ Update(c)
  /\ \/ /\ c.overflowStrategy = "drop"
        /\ buffer' = SubSeq(buffer, 1, Len(buffer) - Excess(c))
        /\ droppedEvents' = droppedEvents + Excess(c)
        /\ UNCHANGED sent
     \/ /\ c.overflowStrategy = "flush"
        /\ sent' = sent \o SubSeq(Batches(buffer, c.maxBatchSize), 1, Rounds(c))
        /\ buffer' = After(buffer, c.maxBatchSize, Rounds(c))
        /\ UNCHANGED droppedEvents
  /\ UNCHANGED <<windowOpen, offered, trouble>>

\* A round of overflow handling throws after n others: the settings are in
\* force and the buffer may be longer than they allow.
UpdateConfigThrows(c) ==
  /\ Update(c)
  /\ c.overflowStrategy = "flush"
  /\ \E n \in 0..Len(buffer) :
       /\ n < Rounds(c)
       /\ Loses(BatchSize(buffer, c.maxBatchSize, n))
       /\ sent' = sent \o SubSeq(Batches(buffer, c.maxBatchSize), 1, n)
       /\ buffer' = After(buffer, c.maxBatchSize, n + 1)
  /\ UNCHANGED <<windowOpen, droppedEvents, offered>>

Next ==
  \/ Send \/ Timer \/ Flush
  \/ \E c \in Configs : UpdateConfig(c) \/ UpdateConfigThrows(c)

\* A timer that is set fires; updateConfig, which sets it anew, is called a
\* bounded number of times.
Spec == Init /\ [][Next]_vars /\ WF_vars(Timer)

-----------------------------------------------------------------------------
(* Properties *)

(***************************************************************************)
(* The consumer sees the events in the order they were offered, none       *)
(* twice, across immediate sends, full batches, overflow batches, timers   *)
(* and changes of the settings; what is still buffered is younger than     *)
(* all that was sent.                                                      *)
(***************************************************************************)
Ascending(s) == \A i, j \in DOMAIN s : i < j => s[i] < s[j]
Below(s, t) == \A i \in DOMAIN s, j \in DOMAIN t : s[i] < t[j]

EventsKeepOrder ==
  /\ Ascending(buffer) /\ Below(buffer, <<offered + 1>>)
  /\ \A i \in DOMAIN sent :
       /\ Ascending(sent[i].events)
       /\ Below(sent[i].events, buffer) /\ Below(sent[i].events, <<offered + 1>>)
       /\ \A j \in DOMAIN sent : i < j => Below(sent[i].events, sent[j].events)

(***************************************************************************)
(* No event disappears unnoticed: under settings that do not change, the   *)
(* events neither sent nor buffered are as many as the notices report,     *)
(* those not yet reported and those of messages that threw, which nothing  *)
(* in the program counts (websocket-trace-connection.ts:108, 149).  A      *)
(* notice needs a buffered event to refer to, or the count is reset (163): *)
(* that happens with a bound of zero, and when updateConfig, turning from  *)
(* "drop" to "flush", empties the buffer while drops are unreported.       *)
(* Never do the notices report more than was lost.                         *)
(***************************************************************************)
EventsOf(s) == {s[i] : i \in DOMAIN s}
Delivered == UNION {EventsOf(sent[i].events) : i \in DOMAIN sent}
Lost == (1..offered) \ (Delivered \cup EventsOf(buffer))

Reported[n \in 0..Len(sent)] == IF n = 0 THEN 0 ELSE Reported[n - 1] + sent[n].dropped

Accounted == Reported[Len(sent)] + droppedEvents

DropsAreReported ==
  /\ Accounted + failed <= Cardinality(Lost)
  /\ updates = 0 /\ config.maxBufferedEvents > 0 => Accounted + failed = Cardinality(Lost)

(***************************************************************************)
(* Memory stays bounded by maxBufferedEvents, also right after the         *)
(* settings were tightened; a bound of zero still holds one event.  Only   *)
(* when a message throws while updateConfig makes room does the buffer     *)
(* stay longer, up to a bound that was in force before.                    *)
(***************************************************************************)
Within(c) == Len(buffer) <= AtLeastOne(c.maxBufferedEvents)

BufferIsBounded ==
  \/ Within(config)
  \/ thrown > 0 /\ updates > 0 /\ \E c \in Configs : Within(c)

(***************************************************************************)
(* No event waits for ever: it is sent or (by a tightened bound) dropped.  *)
(* As long as no message threw every window has its timer.  A message that *)
(* throws may leave a window open that has none, until updateConfig sets   *)
(* one or a full buffer or flush() closes the window; whenever the timer   *)
(* is set, what is buffered leaves, unless a message throws again.         *)
(***************************************************************************)
BufferedEventsLeave ==
  \A e \in 1..MaxEvents, n \in 0..MaxThrows :
    e \in EventsOf(buffer) /\ thrown = n /\ (timer \/ n = 0)
      ~> e \notin EventsOf(buffer) \/ thrown > n

(***************************************************************************)
(* "Applies new batching settings without dropping already buffered        *)
(* events." (src/src/observability/websocket-trace-connection.ts:81)       *)
(***************************************************************************)
UpdateKeepsBuffered ==
  [][updates' > updates => EventsOf(buffer) \subseteq Delivered' \cup EventsOf(buffer')]_vars
=============================================================================
