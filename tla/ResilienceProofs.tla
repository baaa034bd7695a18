-------------------------- MODULE ResilienceProofs --------------------------
(***************************************************************************)
(* Theorems about module Resilience: for any number of concurrent calls    *)
(* and tools, any threshold, cool-down time and number of attempts.        *)
(***************************************************************************)
EXTENDS Resilience, FiniteSetTheorems, TLAPS

(***************************************************************************)
(* The inductive invariant: what the place of a call says about its        *)
(* attempts, and that the breaker never counts more failures in a row than *)
(* there were.                                                             *)
(***************************************************************************)
AttemptsCounted ==
  /\ \A c \in Calls : attempt[c] <= AttemptsOf(KeyOf[c])
  /\ \A c \in Calls : pc[c] \in {"idle", "refused"} => attempt[c] = 0
  /\ \A c \in Calls : pc[c] = "sleeping" => attempt[c] < AttemptsOf(KeyOf[c])
  /\ \A e \in begun : e[2] <= attempt[e[1]]

FailuresInARow ==
  \A t \in Tools :
    /\ streak[t] = FailureThreshold \/ entries[t].failures <= streak[t]
    /\ ~UsesBreaker(t) => entries[t].failures = 0

ResilienceInv == TypeOK /\ AttemptsCounted /\ FailuresInARow

LEMMA AttemptsOfType ==
  \A t \in Tools : AttemptsOf(t) \in 1..MaxAttempts
  BY LimitsAssumption DEF AttemptsOf

LEMMA InitResilience == Init => ResilienceInv
  BY CallsAssumption, LimitsAssumption, AttemptsOfType
  DEF Init, ResilienceInv, TypeOK, AttemptsCounted, FailuresInARow, UsesBreaker, Entry, Fresh, Ended

LEMMA CountFailureType ==
  ASSUME ResilienceInv, NEW t \in Tools
  PROVE  /\ CountFailure(t) \in [Tools -> Entry]
         /\ \A u \in Tools \ {t} : CountFailure(t)[u] = entries[u]
         /\ CountFailure(t)[t].failures = entries[t].failures + 1
         /\ (CountFailure(t)[t].state = "open")
              = (CountFailure(t)[t].failures >= FailureThreshold)
<1> DEFINE failures == entries[t].failures + 1
           entry == IF failures >= FailureThreshold
                    THEN [state |-> "open", failures |-> failures, age |-> 0]
                    ELSE [state |-> "closed", failures |-> failures, age |-> 0]
<1>1. entries[t] \in Entry /\ failures \in Nat
  BY DEF ResilienceInv, TypeOK, Entry
<1>2. entry \in Entry
  BY <1>1, LimitsAssumption DEF Entry
<1>3. CountFailure(t) = [entries EXCEPT ![t] = entry]
  BY DEF CountFailure
<1>4. entry.failures = failures /\ (entry.state = "open") = (failures >= FailureThreshold)
  OBVIOUS
<1> HIDE DEF entry
<1> QED
  BY <1>1, <1>2, <1>3, <1>4 DEF ResilienceInv, TypeOK

LEMMA BeginAttemptStep ==
  ASSUME ResilienceInv, NEW c \in Calls, BeginAttempt(c),
         attempt[c] < AttemptsOf(KeyOf[c])
  PROVE  /\ attempt' \in [Calls -> 0..MaxAttempts]
         /\ live' \subseteq begun' /\ begun' \subseteq Calls \X (1..MaxAttempts)
         /\ pc' \in [Calls -> {"idle", "trying", "sleeping"} \cup Ended]
         /\ AttemptsCounted'
<1>1. KeyOf[c] \in Tools /\ AttemptsOf(KeyOf[c]) \in 1..MaxAttempts
  BY CallsAssumption, AttemptsOfType
<1>2. attempt[c] + 1 \in 1..MaxAttempts /\ attempt[c] + 1 <= AttemptsOf(KeyOf[c])
  BY <1>1, LimitsAssumption DEF ResilienceInv, TypeOK
<1>3. /\ attempt' = [attempt EXCEPT ![c] = attempt[c] + 1]
      /\ begun' = begun \cup {<<c, attempt[c] + 1>>}
      /\ live' = live \cup {<<c, attempt[c] + 1>>}
      /\ pc' = [pc EXCEPT ![c] = "trying"]
  BY DEF BeginAttempt
<1>4. attempt' \in [Calls -> 0..MaxAttempts]
  BY <1>2, <1>3 DEF ResilienceInv, TypeOK
<1>5. live' \subseteq begun' /\ begun' \subseteq Calls \X (1..MaxAttempts)
  BY <1>2, <1>3 DEF ResilienceInv, TypeOK
<1>6. pc' \in [Calls -> {"idle", "trying", "sleeping"} \cup Ended]
  BY <1>3 DEF ResilienceInv, TypeOK
<1>7. \A e \in begun' : e[2] <= attempt'[e[1]]
  <2> SUFFICES ASSUME NEW e \in begun' PROVE e[2] <= attempt'[e[1]]
    OBVIOUS
  <2>1. CASE e = <<c, attempt[c] + 1>>
    BY <2>1, <1>2, <1>3 DEF ResilienceInv, TypeOK
  <2>2. CASE e \in begun
    BY <2>2, <1>2, <1>3 DEF ResilienceInv, TypeOK, AttemptsCounted
  <2> QED
    BY <2>1, <2>2, <1>3
<1>8. AttemptsCounted'
  BY <1>2, <1>3, <1>7 DEF ResilienceInv, TypeOK, AttemptsCounted, AttemptsOf
<1> QED
  BY <1>4, <1>5, <1>6, <1>8

LEMMA FreshEntry ==
  ASSUME ResilienceInv, NEW t \in Tools, UNCHANGED streak,
         entries' \in {entries, [entries EXCEPT ![t] = Fresh]}
  PROVE  /\ entries' \in [Tools -> Entry]
         /\ \A u \in Tools :
              (entries'[u].state = "open") = (entries'[u].failures >= FailureThreshold)
         /\ FailuresInARow'
<1>1. Fresh \in Entry /\ Fresh.failures = 0 /\ Fresh.state = "closed"
  BY LimitsAssumption DEF Fresh, Entry
<1> QED
  BY <1>1, LimitsAssumption DEF ResilienceInv, TypeOK, FailuresInARow, UsesBreaker

LEMMA StepRefuse ==
  ASSUME ResilienceInv, NEW c \in Calls, Refuse(c)
  PROVE  ResilienceInv'
  BY DEF Refuse, ResilienceInv, TypeOK, AttemptsCounted, FailuresInARow, Ended, AttemptsOf, UsesBreaker

LEMMA StepBegin ==
  ASSUME ResilienceInv, NEW c \in Calls, Begin(c)
  PROVE  ResilienceInv'
<1>1. KeyOf[c] \in Tools /\ attempt[c] < AttemptsOf(KeyOf[c])
  BY CallsAssumption, AttemptsOfType, LimitsAssumption
  DEF Begin, ResilienceInv, TypeOK, AttemptsCounted
<1>2. entries' \in {entries, [entries EXCEPT ![KeyOf[c]] = Fresh]} /\ UNCHANGED streak
  BY DEF Begin
<1>3. BeginAttempt(c)
  BY DEF Begin
<1> QED
  BY <1>1, <1>2, <1>3, FreshEntry, BeginAttemptStep DEF ResilienceInv, TypeOK

LEMMA StepRetry ==
  ASSUME ResilienceInv, NEW c \in Calls, Retry(c)
  PROVE  ResilienceInv'
<1>1. KeyOf[c] \in Tools /\ attempt[c] < AttemptsOf(KeyOf[c])
  BY CallsAssumption DEF Retry, ResilienceInv, AttemptsCounted
<1>2. BeginAttempt(c) /\ UNCHANGED <<entries, streak>>
  BY DEF Retry
<1> QED
  BY <1>1, <1>2, BeginAttemptStep DEF ResilienceInv, TypeOK, FailuresInARow, UsesBreaker

LEMMA StepSucceed ==
  ASSUME ResilienceInv, NEW c \in Calls, Succeed(c)
  PROVE  ResilienceInv'
<1>1. KeyOf[c] \in Tools
  BY CallsAssumption
<1>2. Fresh \in Entry /\ Fresh.failures = 0 /\ Fresh.state = "closed"
  BY LimitsAssumption DEF Fresh, Entry
<1>3. AttemptsCounted' /\ pc' \in [Calls -> {"idle", "trying", "sleeping"} \cup Ended]
  BY DEF Succeed, ResilienceInv, TypeOK, AttemptsCounted, AttemptsOf, Ended
<1>4. streak' = [streak EXCEPT ![KeyOf[c]] = 0] /\ streak' \in [Tools -> 0..FailureThreshold]
  BY LimitsAssumption, <1>1 DEF Succeed, ResilienceInv, TypeOK
<1>5. /\ entries' \in [Tools -> Entry]
      /\ \A u \in Tools :
           (entries'[u].state = "open") = (entries'[u].failures >= FailureThreshold)
  BY <1>1, <1>2, LimitsAssumption DEF Succeed, ResilienceInv, TypeOK
<1>6. UsesBreaker(KeyOf[c]) => entries'[KeyOf[c]].failures = 0
  BY <1>1, <1>2 DEF Succeed, ResilienceInv, TypeOK
<1>7. ~UsesBreaker(KeyOf[c]) => entries'[KeyOf[c]].failures = 0
  BY <1>1 DEF Succeed, ResilienceInv, FailuresInARow
<1>8. \A t \in Tools \ {KeyOf[c]} : entries'[t] = entries[t] /\ streak'[t] = streak[t]
  BY <1>1, <1>4 DEF Succeed, ResilienceInv, TypeOK
<1>9. FailuresInARow'
  BY <1>1, <1>4, <1>6, <1>7, <1>8 DEF ResilienceInv, TypeOK, FailuresInARow, UsesBreaker
<1>10. live' \subseteq begun' /\ UNCHANGED <<attempt, begun>>
  BY DEF Succeed, ResilienceInv, TypeOK
<1> QED
  BY <1>3, <1>4, <1>5, <1>9, <1>10 DEF ResilienceInv, TypeOK

LEMMA StepFail ==
  ASSUME ResilienceInv, NEW c \in Calls, Fail(c)
  PROVE  ResilienceInv'
<1>1. KeyOf[c] \in Tools
  BY CallsAssumption
<1>2. PICK timedOut, retryable \in BOOLEAN :
        /\ live' = IF timedOut THEN live ELSE live \ {Attempt(c)}
        /\ pc' = [pc EXCEPT ![c] =
                    IF MayRetry(c) /\ retryable THEN "sleeping" ELSE "failed"]
  BY DEF Fail
<1>3. /\ live' \subseteq begun' /\ UNCHANGED <<attempt, begun>>
      /\ pc' \in [Calls -> {"idle", "trying", "sleeping"} \cup Ended]
  BY <1>2 DEF Fail, ResilienceInv, TypeOK, Ended
<1>4. AttemptsCounted'
  BY <1>2, <1>3 DEF ResilienceInv, TypeOK, AttemptsCounted, AttemptsOf, MayRetry
<1>5. streak' = [streak EXCEPT ![KeyOf[c]] = Extended(streak[KeyOf[c]])]
  BY DEF Fail
<1>6. streak[KeyOf[c]] \in 0..FailureThreshold
  BY <1>1 DEF ResilienceInv, TypeOK
<1>7. /\ Extended(streak[KeyOf[c]]) \in 0..FailureThreshold
      /\ Extended(streak[KeyOf[c]]) \in {FailureThreshold, streak[KeyOf[c]] + 1}
  BY <1>6, LimitsAssumption DEF Extended
<1>8. streak' \in [Tools -> 0..FailureThreshold]
  BY <1>1, <1>5, <1>7 DEF ResilienceInv, TypeOK
<1>9. entries' = entries \/ entries' = CountFailure(KeyOf[c])
  BY DEF Fail
<1>10. /\ entries' \in [Tools -> Entry]
       /\ \A u \in Tools :
            (entries'[u].state = "open") = (entries'[u].failures >= FailureThreshold)
  BY <1>1, <1>9, CountFailureType DEF ResilienceInv, TypeOK
<1>11. ASSUME NEW t \in Tools
       PROVE  /\ streak'[t] = FailureThreshold \/ entries'[t].failures <= streak'[t]
              /\ ~UsesBreaker(t) => entries'[t].failures = 0
  <2>1. streak[t] \in 0..FailureThreshold /\ entries[t].failures \in Nat /\ entries[t] \in Entry
    BY DEF ResilienceInv, TypeOK, Entry
  <2>2. /\ streak[t] = FailureThreshold \/ entries[t].failures <= streak[t]
        /\ ~UsesBreaker(t) => entries[t].failures = 0
    BY DEF ResilienceInv, FailuresInARow
  <2>3. CASE t # KeyOf[c]
    BY <2>2, <2>3, <1>1, <1>5, <1>9, CountFailureType DEF ResilienceInv, TypeOK
  <2>4. CASE t = KeyOf[c]
    <3>1. streak'[t] = Extended(streak[t])
      BY <2>4, <1>5 DEF ResilienceInv, TypeOK
    <3>2. entries'[t].failures \in {entries[t].failures, entries[t].failures + 1}
      BY <2>4, <1>9, CountFailureType
    <3>3. streak'[t] = FailureThreshold \/ entries'[t].failures <= streak'[t]
      BY <2>1, <2>2, <3>1, <3>2, LimitsAssumption DEF Extended
    <3>4. ~UsesBreaker(t) => entries' = entries
      BY <2>4 DEF Fail
    <3> QED
      BY <2>2, <3>3, <3>4
  <2> QED
    BY <2>3, <2>4
<1> QED
  BY <1>3, <1>4, <1>8, <1>10, <1>11 DEF ResilienceInv, TypeOK, FailuresInARow, UsesBreaker

LEMMA StepEndLate ==
  ASSUME ResilienceInv, NEW e \in live, EndLate(e)
  PROVE  ResilienceInv'
  BY DEF EndLate, ResilienceInv, TypeOK, AttemptsCounted, FailuresInARow, AttemptsOf, UsesBreaker

LEMMA StepTick ==
  ASSUME ResilienceInv, Tick
  PROVE  ResilienceInv'
<1>1. \A t \in Tools :
        /\ entries'[t] \in Entry
        /\ entries'[t].state = entries[t].state /\ entries'[t].failures = entries[t].failures
  <2> SUFFICES ASSUME NEW t \in Tools
               PROVE  /\ entries'[t] \in Entry
                      /\ entries'[t].state = entries[t].state
                      /\ entries'[t].failures = entries[t].failures
    OBVIOUS
  <2>1. entries[t] \in Entry
    BY DEF ResilienceInv, TypeOK
  <2>2. entries'[t] = IF Aging(t) THEN [entries[t] EXCEPT !.age = entries[t].age + 1]
                      ELSE entries[t]
    BY DEF Tick
  <2> QED
    BY <2>1, <2>2, LimitsAssumption DEF Aging, Entry
<1>2. entries' \in [Tools -> Entry]
  BY <1>1 DEF Tick
<1> QED
  BY <1>1, <1>2 DEF Tick, ResilienceInv, TypeOK, AttemptsCounted, FailuresInARow, AttemptsOf, UsesBreaker

LEMMA NextResilience == ResilienceInv /\ [Next]_vars => ResilienceInv'
<1> SUFFICES ASSUME ResilienceInv, [Next]_vars PROVE ResilienceInv'
  OBVIOUS
<1>1. CASE \E c \in Calls : Refuse(c) \/ Begin(c) \/ Progress(c)
  BY <1>1, StepRefuse, StepBegin, StepSucceed, StepFail, StepRetry DEF Progress
<1>2. CASE \E e \in live : EndLate(e)
  BY <1>2, StepEndLate
<1>3. CASE Tick
  BY <1>3, StepTick
<1>4. CASE UNCHANGED vars
  BY <1>4 DEF vars, ResilienceInv, TypeOK, AttemptsCounted, FailuresInARow, AttemptsOf, UsesBreaker
<1> QED
  BY <1>1, <1>2, <1>3, <1>4 DEF Next

\* The invariant holds in every reachable state.
THEOREM ResilienceInvariant == Spec => []ResilienceInv
<1> QED
  BY InitResilience, NextResilience, PTL DEF Spec

\* The entries of the breaker and the bookkeeping of calls keep their types,
\* and an entry is open exactly when it counts the threshold of failures.
THEOREM ResilienceTypeCorrect == Spec => []TypeOK
<1>1. ResilienceInv => TypeOK
  BY DEF ResilienceInv
<1> QED
  BY <1>1, ResilienceInvariant, PTL

(***************************************************************************)
(* The breaker of resilientExecute (resilient-execute.ts:20) refuses only  *)
(* after the threshold of failures of the same tool in a row.              *)
(***************************************************************************)
THEOREM RefusalsAlwaysHaveCause == Spec => RefusalsHaveCause
<1>1. ASSUME ResilienceInv, [Next]_vars, NEW c \in Calls, pc[c] = "idle", pc'[c] = "refused"
      PROVE  streak[KeyOf[c]] = FailureThreshold
  <2>1. Refuse(c)
    <3>1. \A d \in Calls : Refuse(d) => pc' = [pc EXCEPT ![d] = "refused"]
      BY DEF Refuse
    <3>2. \A d \in Calls : Begin(d) \/ Progress(d) =>
            \E label \in {"trying", "succeeded", "failed", "sleeping"} :
              pc' = [pc EXCEPT ![d] = label]
      <4> SUFFICES ASSUME NEW d \in Calls, Begin(d) \/ Progress(d)
                   PROVE  \E label \in {"trying", "succeeded", "failed", "sleeping"} :
                            pc' = [pc EXCEPT ![d] = label]
        OBVIOUS
      <4>1. CASE Begin(d) \/ Retry(d)
        BY <4>1 DEF Begin, Retry, BeginAttempt
      <4>2. CASE Succeed(d)
        BY <4>2 DEF Succeed
      <4>3. CASE Fail(d)
        BY <4>3 DEF Fail
      <4> QED
        BY <4>1, <4>2, <4>3 DEF Progress
    <3>3. (\E e \in live : EndLate(e)) \/ Tick \/ UNCHANGED vars => pc' = pc
      BY DEF EndLate, Tick, vars
    <3>4. pc \in [Calls -> {"idle", "trying", "sleeping"} \cup Ended]
      BY <1>1 DEF ResilienceInv, TypeOK
    <3>5. PICK d \in Calls : Refuse(d) \/ Begin(d) \/ Progress(d)
      BY <1>1, <3>3 DEF Next
    <3> QED
      BY <1>1, <3>1, <3>2, <3>4, <3>5
  <2>2. KeyOf[c] \in Tools /\ entries[KeyOf[c]].state = "open"
    BY <2>1, CallsAssumption DEF Refuse, CoolingDown, Opened
  <2>3. /\ entries[KeyOf[c]].failures >= FailureThreshold /\ entries[KeyOf[c]] \in Entry
        /\ streak[KeyOf[c]] \in 0..FailureThreshold
    BY <1>1, <2>2 DEF ResilienceInv, TypeOK
  <2>4. streak[KeyOf[c]] = FailureThreshold \/ entries[KeyOf[c]].failures <= streak[KeyOf[c]]
    BY <1>1, <2>2 DEF ResilienceInv, FailuresInARow
  <2>5. entries[KeyOf[c]].failures \in Nat
    BY <2>3 DEF Entry
  <2> QED
    BY <2>3, <2>4, <2>5, LimitsAssumption
<1>2. ResilienceInv /\ [Next]_vars =>
        [\A c \in Calls : pc[c] = "idle" /\ pc'[c] = "refused" =>
           streak[KeyOf[c]] = FailureThreshold]_vars
  BY <1>1
<1> QED
  BY <1>2, ResilienceInvariant, PTL DEF Spec, RefusalsHaveCause

(***************************************************************************)
(* A call executes its tool no more often than the tool's policy says      *)
(* (tool-policy.ts): once when it has side effects, never when refused.    *)
(***************************************************************************)
THEOREM AlwaysExecutesWithinPolicy == Spec => []ExecutesWithinPolicy
<1>1. ASSUME ResilienceInv, NEW c \in Calls
      PROVE  /\ Cardinality(ExecutionsOf(c)) <= AttemptsOf(KeyOf[c])
             /\ pc[c] = "refused" => ExecutionsOf(c) = {}
  <2> DEFINE n == AttemptsOf(KeyOf[c])
             f == [e \in ExecutionsOf(c) |-> e[2]]
  <2>1. n \in Nat
    BY CallsAssumption, AttemptsOfType, LimitsAssumption
  <2>2. \A e \in ExecutionsOf(c) : e = <<c, e[2]>> /\ e[2] \in 1..attempt[c]
    BY <1>1 DEF ResilienceInv, TypeOK, AttemptsCounted, ExecutionsOf
  <2>3. attempt[c] \in Nat /\ attempt[c] <= n
    BY <1>1 DEF ResilienceInv, TypeOK, AttemptsCounted
  <2>4. f \in Injection(ExecutionsOf(c), 1..n)
    BY <2>1, <2>2, <2>3 DEF Injection, IsInjective
  <2>5. IsFiniteSet(1..n) /\ Cardinality(1..n) = n
    BY <2>1, FS_Interval
  <2>6. Cardinality(ExecutionsOf(c)) <= n
    BY <2>4, <2>5, FS_Injection
  <2>7. pc[c] = "refused" => ExecutionsOf(c) = {}
    BY <1>1, <2>2 DEF ResilienceInv, TypeOK, AttemptsCounted
  <2> QED
    BY <2>6, <2>7
<1>2. ResilienceInv => ExecutesWithinPolicy
  BY <1>1 DEF ExecutesWithinPolicy
<1> QED
  BY <1>2, ResilienceInvariant, PTL
=============================================================================
