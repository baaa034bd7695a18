----------------------------- MODULE Resilience -----------------------------
(***************************************************************************)
(* The calls of resilientExecute one step executor makes (src/src/         *)
(* resilience/resilient-execute.ts) and the circuit breaker they share     *)
(* (circuit-breaker.ts): attempts with a timeout, retries after a pause,   *)
(* and, per tool name, a breaker that opens after repeated failures.       *)
(*                                                                         *)
(* A timed-out attempt goes on and its result is dropped, so an attempt    *)
(* may overlap the next one.  Calls interleave wherever one awaits: steps  *)
(* run parallel tools, and all runs of a runtime share the executor.       *)
(***************************************************************************)
EXTENDS Naturals, Sequences, FiniteSets

CONSTANTS
  Calls,             \* the calls of resilientExecute
  Tools,             \* the tool names, keys of the breaker
  KeyOf,             \* the tool each call executes
  ReadOnly,          \* the tools with riskLevel read-only
  MaxAttempts,       \* maxAttempts of a read-only tool
  FailureThreshold,
  CoolDown           \* coolDownMs, in ticks of the clock

ASSUME CallsAssumption == KeyOf \in [Calls -> Tools] /\ ReadOnly \subseteq Tools
ASSUME LimitsAssumption ==
  MaxAttempts \in Nat \ {0} /\ FailureThreshold \in Nat \ {0} /\ CoolDown \in Nat \ {0}

VARIABLES
  entries,    \* the breaker's entry of each tool; never executed is closed, 0
  pc,         \* where each call stands
  attempt,    \* the attempt it is at, 0 before the first
  begun,      \* the executions begun: <<call, attempt>>
  live,       \* those that have not ended
  streak      \* the failures of each tool since its last success, counted to the threshold

vars == <<entries, pc, attempt, begun, live, streak>>

\* age: the time since openedAt, no longer counted once the tool has cooled down.
Entry == [state : {"closed", "open"}, failures : Nat, age : 0..CoolDown]
Fresh == [state |-> "closed", failures |-> 0, age |-> 0]

Ended == {"succeeded", "failed", "refused"}

\* The policy of a tool: only a read-only one is retried and has a breaker.
AttemptsOf(t) == IF t \in ReadOnly THEN MaxAttempts ELSE 1
UsesBreaker(t) == t \in ReadOnly

Init ==
  /\ entries = [t \in Tools |-> Fresh]
  /\ pc = [c \in Calls |-> "idle"]
  /\ attempt = [c \in Calls |-> 0]
  /\ begun = {} /\ live = {}
  /\ streak = [t \in Tools |-> 0]

-----------------------------------------------------------------------------
Opened(t) == UsesBreaker(t) /\ entries[t].state = "open"

\* Mutant: an open entry never cools down.
StaysOpen(t) == Opened(t)

CoolingDown(t) == Opened(t) /\ entries[t].age < CoolDown

\* execute() is called: the attempt begins.
BeginAttempt(c) ==
  /\ attempt' = [attempt EXCEPT ![c] = @ + 1]
  /\ begun' = begun \cup {<<c, attempt[c] + 1>>}
  /\ live' = live \cup {<<c, attempt[c] + 1>>}
  /\ pc' = [pc EXCEPT ![c] = "trying"]

\* canExecute is false: the call throws and executes nothing.
Refuse(c) ==
  /\ pc[c] = "idle" /\ CoolingDown(KeyOf[c])
  /\ pc' = [pc EXCEPT ![c] = "refused"]
  /\ UNCHANGED <<entries, attempt, begun, live, streak>>

\* canExecute is true; it closes the entry of a tool that has cooled down.
Begin(c) ==
  /\ pc[c] = "idle" /\ ~CoolingDown(KeyOf[c])
  /\ entries' = IF Opened(KeyOf[c]) THEN [entries EXCEPT ![KeyOf[c]] = Fresh] ELSE entries
  /\ BeginAttempt(c)
  /\ UNCHANGED streak

Awaits(c) == pc[c] = "trying"
Attempt(c) == <<c, attempt[c]>>
Extended(n) == IF n < FailureThreshold THEN n + 1 ELSE n

\* Mutant: a success leaves the count of failures as it was.
SucceedKeepingFailures(c) ==
  /\ Awaits(c) /\ Attempt(c) \in live
  /\ live' = live \ {Attempt(c)}
  /\ pc' = [pc EXCEPT ![c] = "succeeded"]
  /\ streak' = [streak EXCEPT ![KeyOf[c]] = 0]
  /\ UNCHANGED <<entries, attempt, begun>>

Succeed(c) ==
  /\ Awaits(c) /\ Attempt(c) \in live
  /\ live' = live \ {Attempt(c)}
  /\ entries' = IF UsesBreaker(KeyOf[c]) THEN [entries EXCEPT ![KeyOf[c]] = Fresh] ELSE entries
  /\ pc' = [pc EXCEPT ![c] = "succeeded"]
  /\ streak' = [streak EXCEPT ![KeyOf[c]] = 0]
  /\ UNCHANGED <<attempt, begun>>

\* onFailure: each failure from the threshold on opens the entry anew.
CountFailure(t) ==
  LET failures == entries[t].failures + 1
  IN  [entries EXCEPT ![t] =
         IF failures >= FailureThreshold
         THEN [state |-> "open", failures |-> failures, age |-> 0]
         ELSE [state |-> "closed", failures |-> failures, age |-> 0]]

\* Mutant: one attempt too many.
MayRetryOnceMore(c) == attempt[c] <= AttemptsOf(KeyOf[c])

MayRetry(c) == attempt[c] < AttemptsOf(KeyOf[c])

\* The attempt rejects, or times out (which is retryable) and goes on.
Fail(c) ==
  /\ Awaits(c)
  /\ \E timedOut, retryable \in BOOLEAN :
       /\ timedOut => retryable
       /\ live' = IF timedOut THEN live ELSE live \ {Attempt(c)}
       /\ pc' = [pc EXCEPT ![c] = IF MayRetry(c) /\ retryable THEN "sleeping" ELSE "failed"]
  /\ entries' = IF UsesBreaker(KeyOf[c]) THEN CountFailure(KeyOf[c]) ELSE entries
  /\ streak' = [streak EXCEPT ![KeyOf[c]] = Extended(@)]
  /\ UNCHANGED <<attempt, begun>>

\* Mutant: a retry waits until the breaker's state is closed.
RetryWhenClosed(c) ==
  /\ pc[c] = "sleeping" /\ ~Opened(KeyOf[c])
  /\ BeginAttempt(c)
  /\ UNCHANGED <<entries, streak>>

\* The back-off is over: the next attempt begins, whatever the breaker says.
Retry(c) ==
  /\ pc[c] = "sleeping"
  /\ BeginAttempt(c)
  /\ UNCHANGED <<entries, streak>>

\* A timed-out attempt ends: nobody awaits it.
EndLate(e) ==
  /\ ~(pc[e[1]] = "trying" /\ attempt[e[1]] = e[2])
  /\ live' = live \ {e}
  /\ UNCHANGED <<entries, pc, attempt, begun, streak>>

\* Time passes.
Aging(t) == entries[t].state = "open" /\ entries[t].age < CoolDown

Tick ==
  /\ \E t \in Tools : Aging(t)
  /\ entries' = [t \in Tools |->
       IF Aging(t) THEN [entries[t] EXCEPT !.age = @ + 1] ELSE entries[t]]
  /\ UNCHANGED <<pc, attempt, begun, live, streak>>

Progress(c) == Succeed(c) \/ Fail(c) \/ Retry(c)

Next ==
  \/ \E c \in Calls : Refuse(c) \/ Begin(c) \/ Progress(c)
  \/ \E e \in live : EndLate(e)
  \/ Tick

\* An attempt settles or times out, a pause ends, time passes.  Nobody must
\* make a call and a timed-out attempt may never end.
Spec ==
  /\ Init /\ [][Next]_vars
  /\ \A c \in Calls : WF_vars(Progress(c))
  /\ WF_vars(Tick)

-----------------------------------------------------------------------------
(* Properties *)

TypeOK ==
  /\ entries \in [Tools -> Entry]
  /\ \A t \in Tools : (entries[t].state = "open") = (entries[t].failures >= FailureThreshold)
  /\ pc \in [Calls -> {"idle", "trying", "sleeping"} \cup Ended]
  /\ attempt \in [Calls -> 0..MaxAttempts]
  /\ live \subseteq begun /\ begun \subseteq Calls \X (1..MaxAttempts)
  /\ streak \in [Tools -> 0..FailureThreshold]

(***************************************************************************)
(* The breaker refuses a call only after FailureThreshold failures of its  *)
(* own tool in a row, however the attempts of concurrent calls interleave: *)
(* neither failures of another tool nor failures older than a success add  *)
(* up to a refusal.                                                        *)
(***************************************************************************)
RefusalsHaveCause ==
  [][\A c \in Calls : pc[c] = "idle" /\ pc'[c] = "refused" =>
       streak[KeyOf[c]] = FailureThreshold]_vars

(***************************************************************************)
(* What is executed: a tool with side effects at most once per call, also  *)
(* when the execution timed out and its fate is unknown; a refused call    *)
(* nothing; a read-only tool no more often than its policy allows.         *)
(***************************************************************************)
ExecutionsOf(c) == {e \in begun : e[1] = c}

ExecutesWithinPolicy ==
  /\ \A c \in Calls : Cardinality(ExecutionsOf(c)) <= AttemptsOf(KeyOf[c])
  /\ \A c \in Calls : pc[c] = "refused" => ExecutionsOf(c) = {}

\* Every call that was begun settles, whichever of its attempts fail or hang.
CallsSettle == \A c \in Calls : pc[c] # "idle" ~> pc[c] \in Ended

(***************************************************************************)
(* A tool is not cut off for ever: after each failure the breaker lets     *)
(* calls through again, although retries under way open it anew.           *)
(***************************************************************************)
RefusalsEnd == \A t \in Tools : CoolingDown(t) ~> ~CoolingDown(t)
=============================================================================
