------------------------- MODULE AgentRuntimeProofs -------------------------
(***************************************************************************)
(* Theorems about the runs of module AgentRuntime, for every plan, every   *)
(* number of resume() calls and every interleaving: what they do and leave *)
(* undone, what the log says when the calls overlap, what a completed run  *)
(* consists of, and that the runtime, resumed by one call at a time,       *)
(* implements RunLifecycle.  Then about the plans themselves: what         *)
(* createPlan makes of any reply of a model.                               *)
(***************************************************************************)
EXTENDS AgentRuntime, CreatedPlans, FiniteSetTheorems, Recursion

(***************************************************************************)
(* Type correctness of both specifications, with overlapping and with      *)
(* serial resume() calls.                                                  *)
(***************************************************************************)
LEMMA TypeInit == Init => TypeOK
  BY NoneAssumption DEF Init, TypeOK, Callers, PCs, Settled, Step

\* The step a call stands at has a mode and calls.
LEMMA CurrentStepType ==
  ASSUME TypeOK, NEW c \in Callers, at[c] < Len(plan)
  PROVE  /\ CurrentStep(c) \in Step
         /\ CurrentStep(c).calls \in Seq(ToolCall)
         /\ DOMAIN CurrentStep(c).calls \subseteq Nat
<1>1. at[c] + 1 \in 1..Len(plan)
  BY DEF TypeOK
<1>2. CurrentStep(c) \in Step
  BY <1>1 DEF TypeOK, CurrentStep
<1>3. CurrentStep(c).calls \in Seq(ToolCall)
  BY <1>2 DEF Step
<1> QED
  BY <1>2, <1>3

LEMMA RecordType ==
  ASSUME TypeOK, NEW c \in Callers, NEW executed \in BOOLEAN, Record(c, executed)
  PROVE  stepResults' \in Seq(Result)
<1>1. [step |-> at[c], executed |-> executed] \in Result
  BY DEF TypeOK, Result
<1> QED
  BY <1>1 DEF TypeOK, Record

LEMMA StartToolsType ==
  ASSUME TypeOK, NEW c \in Callers, NEW K \in SUBSET Nat,
         UNCHANGED <<started, live>> \/ StartTools(c, K)
  PROVE  started' \subseteq Callers \X Nat \X Nat /\ live' \subseteq started'
<1>1. \A k \in K : Exec(c, k) \in Callers \X Nat \X Nat
  BY DEF TypeOK, Exec
<1>2. CASE UNCHANGED <<started, live>>
  BY <1>2 DEF TypeOK
<1>3. CASE StartTools(c, K)
  BY <1>1, <1>3 DEF TypeOK, StartTools
<1> QED
  BY <1>2, <1>3

LEMMA TypeStart == TypeOK /\ Start => TypeOK'
  BY PlansAssumption
  DEF TypeOK, Start, PlanningThrows, SaveRun, Goto, PCs, Settled, store, tools, Callers

LEMMA TypeResume ==
  ASSUME TypeOK, NEW c \in Resumers, Resume(c)
  PROVE  TypeOK'
<1> c \in Callers
  BY DEF Callers
<1>1. CASE ResumeRefused(c)
  BY <1>1 DEF TypeOK, ResumeRefused, Goto, PCs, Settled, store, tools
<1>2. CASE ResumeReject(c)
  BY <1>2 DEF TypeOK, ResumeReject, AwaitsApproval, Goto, PCs, store, tools
<1>3. CASE ResumeApprove(c)
  BY <1>3 DEF TypeOK, ResumeApprove, AwaitsApproval, Goto, PCs, store
<1>4. CASE ResumeUntold(c)
  BY <1>4 DEF TypeOK, ResumeUntold, Goto, PCs, Settled, store, tools
<1> QED
  BY <1>1, <1>2, <1>3, <1>4 DEF Resume

LEMMA TypeContinue ==
  ASSUME TypeOK, NEW c \in Callers, Continue(c)
  PROVE  TypeOK'
<1> USE DEF TypeOK, Goto, PCs, Settled, store, tools, Ends
<1>1. CASE RejectRecorded(c)
  BY <1>1, RecordType DEF RejectRecorded
<1>2. CASE ApprovedToolSucceeds(c)
  BY <1>2, RecordType DEF ApprovedToolSucceeds
<1>3. CASE ApprovedToolFails(c)
  BY <1>3 DEF ApprovedToolFails
<1>4. CASE ResumeAdvance(c)
  BY <1>4 DEF ResumeAdvance
<1>5. CASE EnterLoop(c)
  BY <1>5 DEF EnterLoop
<1>6. CASE StepWithoutTools(c)
  BY <1>6, RecordType DEF StepWithoutTools
<1>7. CASE SingleTool(c)
  <2>1. UNCHANGED <<started, live>> \/ StartTools(c, {1})
    BY <1>7 DEF SingleTool
  <2>2. started' \subseteq Callers \X Nat \X Nat /\ live' \subseteq started'
    BY <2>1, StartToolsType
  <2> QED
    BY <1>7, <2>2 DEF SingleTool
<1>8. CASE ParallelTools(c)
  <2>1. PICK K \in SUBSET DOMAIN CurrentStep(c).calls :
          UNCHANGED <<started, live>> \/ StartTools(c, K)
    BY <1>8 DEF ParallelTools
  <2>2. K \subseteq Nat
    BY <1>8, <2>1, CurrentStepType DEF ParallelTools, AtStep
  <2>3. started' \subseteq Callers \X Nat \X Nat /\ live' \subseteq started'
    BY <2>1, <2>2, StartToolsType
  <2> QED
    BY <1>8, <2>3 DEF ParallelTools
<1>9. CASE ToolSettles(c)
  <2>1. PICK k \in DOMAIN CurrentStep(c).calls : ToolSucceeds(c, k) \/ ToolFails(c, k)
    BY <1>9 DEF ToolSettles
  <2>2. CASE ToolSucceeds(c, k)
    <3>1. UNCHANGED <<stepResults, pc>> \/ (Record(c, TRUE) /\ Goto(c, "advance"))
      BY <2>2 DEF ToolSucceeds
    <3>2. stepResults' \in Seq(Result)
      BY <3>1, RecordType
    <3>3. pc' \in [Callers -> PCs]
      BY <3>1
    <3> QED
      BY <2>2, <3>2, <3>3 DEF ToolSucceeds
  <2>3. CASE ToolFails(c, k)
    BY <2>3 DEF ToolFails
  <2> QED
    BY <2>1, <2>2, <2>3
<1>10. CASE Advance(c)
  BY <1>10 DEF Advance
<1>11. CASE Pause(c)
  BY <1>11 DEF Pause
<1>12. CASE FailRun(c)
  BY <1>12 DEF FailRun
<1>13. CASE CompleteRun(c)
  BY <1>13 DEF CompleteRun
<1>14. CASE FinalizingThrows(c)
  BY <1>14 DEF FinalizingThrows
<1>15. CASE ConnectingThrows(c) \/ FailureUntold(c)
  BY <1>15 DEF ConnectingThrows, FailureUntold
<1>16. CASE StepUntold(c)
  <2>1. PICK K \in SUBSET DOMAIN CurrentStep(c).calls :
          UNCHANGED <<started, live>> \/ StartTools(c, K)
    BY <1>16 DEF StepUntold
  <2>2. K \subseteq Nat
    BY <1>16, <2>1, CurrentStepType DEF StepUntold, AtStep
  <2>3. started' \subseteq Callers \X Nat \X Nat /\ live' \subseteq started'
    BY <2>1, <2>2, StartToolsType
  <2> QED
    BY <1>16, <2>3 DEF StepUntold
<1> QED
  BY <1>1, <1>2, <1>3, <1>4, <1>5, <1>6, <1>7, <1>8, <1>9, <1>10, <1>11, <1>12,
     <1>13, <1>14, <1>15, <1>16
  DEF Continue

LEMMA TypeStep == TypeOK /\ [Next]_vars => TypeOK'
<1> SUFFICES ASSUME TypeOK, [Next]_vars PROVE TypeOK'
  OBVIOUS
<1>1. CASE \E e \in live : DetachedToolEnds(e)
  BY <1>1 DEF TypeOK, DetachedToolEnds, store
<1>2. CASE UNCHANGED vars
  BY <1>2 DEF TypeOK, vars, store, tools
<1> QED
  BY <1>1, <1>2, TypeStart, TypeResume, TypeContinue DEF Next

\* Every state has the declared types, however the resume() calls overlap.
THEOREM TypeCorrect == Spec => []TypeOK
  BY TypeInit, TypeStep, PTL DEF Spec

LEMMA SerialIsNext == [SerialNext]_vars => [Next]_vars
  BY DEF SerialNext, Next

\* The same with one resume() at a time.
THEOREM TypeCorrectSerial == SerialSpec => []TypeOK
  BY TypeInit, TypeStep, SerialIsNext, PTL DEF SerialSpec

-----------------------------------------------------------------------------
(***************************************************************************)
(* The inductive invariant of the serial specification.  The properties    *)
(* that runs check relate the log, the index and the status when calls     *)
(* stand anywhere; what makes them inductive is that one call is active at *)
(* a time, that its snapshot is the stored index, and which executions and *)
(* references go with each place a call can stand at.                      *)
(***************************************************************************)
Working == {"step", "tool", "advance", "pause", "fail"}
Deciding == {"rejecting", "approved", "resumeAdvance"}

OneActiveCall == \A c, d \in Callers : Active(c) /\ Active(d) => c = d

\* The active call and the stored run agree.
CallAgreesWithStore ==
  \A c \in Callers :
    /\ pc[c] \in Working \cup Deciding => at[c] = currentStepIndex
    /\ pc[c] \in Working \cup {"enter"} => status = "running"
    /\ pc[c] \in Deciding => status = "waiting_for_approval"
    /\ pc[c] \in Working \ {"step"} => currentStepIndex < Len(plan)
    /\ pc[c] = "pause" => Gated(plan[currentStepIndex + 1])
    /\ pc[c] = "planning" => c = Starter /\ status = "none"

StoredRun ==
  /\ currentStepIndex <= Len(plan)
  /\ status = "none" =>
       /\ plan = <<>> /\ currentStepIndex = 0
       /\ stepResults = <<>> /\ started = {}
  /\ status = "waiting_for_approval" =>
       /\ pendingApproval = currentStepIndex
       /\ currentStepIndex < Len(plan)
       /\ Gated(plan[currentStepIndex + 1])
  /\ status # "waiting_for_approval" => pendingApproval = None
  /\ status = "completed" => currentStepIndex = Len(plan)
  /\ status \in {"completed", "failed"} => Quiet
  /\ Quiet /\ status = "running" => currentStepIndex = Len(plan) \/ CutShort
  /\ CutShort => Quiet /\ status = "running"

LogFollowsPlan ==
  /\ \A i \in 1..Len(stepResults) : stepResults[i].step = i - 1
  /\ Len(stepResults) =
       IF Advancing = {} THEN currentStepIndex ELSE currentStepIndex + 1

\* Which executions of the current step there may be.
ExecutionsOfCurrentStep ==
  \A e \in started :
    /\ e[2] <= currentStepIndex /\ e[2] < Len(plan)
    /\ plan[e[2] + 1].mode = "single-tool" => e[3] = 1
    /\ e[2] = currentStepIndex =>
         \/ status = "failed"
         \/ status = "waiting_for_approval" /\ e[1] \in Resumers
         \/ pc[e[1]] \in {"tool", "advance", "fail", "cut"}

\* Only a gated step was executed by more than one call.
RepeatsAreApprovals ==
  \A e, f \in started :
    e[2] = f[2] /\ e[1] # f[1] =>
      Gated(plan[e[2] + 1]) /\ {e[1], f[1]} \subseteq Resumers

SerialInv ==
  /\ TypeOK
  /\ OneActiveCall
  /\ CallAgreesWithStore
  /\ StoredRun
  /\ LogFollowsPlan
  /\ ExecutionsOfCurrentStep
  /\ RepeatsAreApprovals

LEMMA SerialInit == Init => SerialInv
<1> SUFFICES ASSUME Init PROVE SerialInv
  OBVIOUS
<1>1. TypeOK
  BY TypeInit
<1>2. OneActiveCall /\ CallAgreesWithStore
  BY DEF Init, OneActiveCall, CallAgreesWithStore, Active, Settled, Working, Deciding
<1>3. StoredRun
  BY DEF Init, StoredRun, CutShort
<1>4. LogFollowsPlan
  BY DEF Init, LogFollowsPlan, Advancing
<1> QED
  BY <1>1, <1>2, <1>3, <1>4
  DEF Init, SerialInv, ExecutionsOfCurrentStep, RepeatsAreApprovals

\* While a call is active every other call has settled or was never made.
LEMMA OthersRest ==
  ASSUME SerialInv, NEW c \in Callers, Active(c)
  PROVE  /\ \A d \in Callers \ {c} : pc[d] \in Settled \cup {"idle"}
         /\ ~Quiet /\ ~CutShort
  BY DEF SerialInv, OneActiveCall, Active, Quiet, StoredRun

LEMMA SerialStart == SerialInv /\ Start => SerialInv'
<1> SUFFICES ASSUME SerialInv, Start PROVE SerialInv'
  OBVIOUS
<1> USE DEF SerialInv
<1>1. Starter \in Callers /\ pc[Starter] = "planning" /\ Active(Starter)
  BY DEF Callers, Start, PlanningThrows, SaveRun, Active, Settled
<1>2. /\ \A d \in Callers \ {Starter} : pc[d] \in Settled \cup {"idle"}
      /\ status = "none" /\ plan = <<>> /\ currentStepIndex = 0
      /\ stepResults = <<>> /\ started = {} /\ pendingApproval = None
      /\ ~CutShort
  BY <1>1, OthersRest DEF CallAgreesWithStore, StoredRun
<1>3. TypeOK'
  BY TypeStart
<1>4. PICK label \in {"enter", "thrown"} :
        /\ Goto(Starter, label)
        /\ label = "enter" => status' = "running" /\ plan' \in Plans
        /\ label = "thrown" => UNCHANGED <<status, plan>>
        /\ UNCHANGED <<currentStepIndex, pendingApproval, stepResults, at, tools>>
  BY DEF Start, PlanningThrows, SaveRun, store
<1>5. OneActiveCall'
  BY <1>1, <1>2, <1>4 DEF TypeOK, OneActiveCall, Active, Goto
<1>6. CallAgreesWithStore'
  BY <1>1, <1>2, <1>4
  DEF TypeOK, CallAgreesWithStore, Working, Deciding, Settled, Goto
<1>7. StoredRun'
  <2>1. Len(plan') \in Nat /\ ~CutShort'
    BY <1>1, <1>2, <1>3, <1>4 DEF TypeOK, CutShort, Goto
  <2>2. CASE status' = "running"
    <3>1. ~Quiet'
      BY <1>1, <1>2, <1>4, <2>2 DEF TypeOK, Quiet, Active, Settled, Goto
    <3> QED
      BY <1>2, <1>4, <2>1, <2>2, <3>1 DEF StoredRun
  <2>3. CASE status' = "none"
    BY <1>2, <1>4, <2>1, <2>3, PlansAssumption DEF StoredRun, tools
  <2> QED
    BY <1>2, <1>4, <2>2, <2>3
<1>8. LogFollowsPlan'
  BY <1>1, <1>2, <1>4 DEF TypeOK, LogFollowsPlan, Advancing, Settled, Goto
<1>9. ExecutionsOfCurrentStep' /\ RepeatsAreApprovals'
  BY <1>2, <1>4 DEF ExecutionsOfCurrentStep, RepeatsAreApprovals, tools
<1> QED
  BY <1>3, <1>5, <1>6, <1>7, <1>8, <1>9

\* A resume() call is made while every other call rests.
LEMMA SerialResume ==
  ASSUME SerialInv, Quiet, NEW c \in Resumers, Resume(c)
  PROVE  SerialInv'
<1> USE DEF SerialInv
<1>1. c \in Callers /\ pc[c] = "idle"
  BY DEF Callers, Resume, ResumeRefused, ResumeUntold, ResumeReject, ResumeApprove
<1>2. \A d \in Callers : pc[d] \in Settled \cup {"idle"}
  BY DEF Quiet, Active
<1>3. TypeOK'
  BY TypeResume
<1>4. CASE ResumeRefused(c) \/ ResumeUntold(c)
  <2>1. Quiet' /\ (CutShort' <=> CutShort)
    BY <1>1, <1>2, <1>4
    DEF TypeOK, ResumeRefused, ResumeUntold, Quiet, CutShort, Active, Settled, Goto
  <2>2. OneActiveCall' /\ CallAgreesWithStore'
    BY <1>1, <1>2, <1>4, <2>1
    DEF TypeOK, ResumeRefused, ResumeUntold, OneActiveCall, CallAgreesWithStore, Working, Deciding,
        Quiet, Active, Settled, Goto
  <2>3. StoredRun'
    BY <1>4, <2>1 DEF ResumeRefused, ResumeUntold, StoredRun, store, tools
  <2>4. Advancing' = Advancing
    BY <1>1, <1>4 DEF TypeOK, ResumeRefused, ResumeUntold, Advancing, Goto
  <2>5. LogFollowsPlan' /\ RepeatsAreApprovals'
    BY <1>4, <2>4 DEF ResumeRefused, ResumeUntold, LogFollowsPlan, RepeatsAreApprovals, store, tools
  <2>6. ExecutionsOfCurrentStep'
    BY <1>1, <1>4 DEF TypeOK, ResumeRefused, ResumeUntold, ExecutionsOfCurrentStep, Goto, store, tools
  <2> QED
    BY <1>3, <2>2, <2>3, <2>5, <2>6
<1>5. CASE ResumeReject(c) \/ ResumeApprove(c)
  <2>1. PICK label \in {"rejecting", "approved"} : Goto(c, label)
    BY <1>5 DEF ResumeReject, ResumeApprove
  <2>2. /\ AwaitsApproval /\ UNCHANGED store
        /\ at' = [at EXCEPT ![c] = pendingApproval]
        /\ pendingApproval = currentStepIndex
        /\ currentStepIndex < Len(plan)
        /\ Gated(plan[currentStepIndex + 1])
    BY <1>5 DEF ResumeReject, ResumeApprove, AwaitsApproval, StoredRun
  <2>3. started' \subseteq started \cup {<<c, currentStepIndex, 1>>}
    BY <1>5, <2>2 DEF ResumeReject, ResumeApprove, tools
  <2>12. ~CutShort
    BY <2>2 DEF StoredRun, AwaitsApproval
  <2>4. OneActiveCall' /\ ~Quiet' /\ ~CutShort'
    BY <1>1, <1>2, <2>1, <2>12
    DEF TypeOK, OneActiveCall, Quiet, CutShort, Active, Settled, Goto
  <2>5. CallAgreesWithStore'
    BY <1>1, <1>2, <2>1, <2>2
    DEF TypeOK, CallAgreesWithStore, AwaitsApproval, Working, Deciding, Settled, Goto, store
  <2>6. StoredRun'
    BY <2>2, <2>4 DEF StoredRun, AwaitsApproval, store
  <2>7. Advancing' = Advancing
    BY <1>1, <2>1 DEF TypeOK, Advancing, Goto
  <2>8. LogFollowsPlan'
    BY <2>2, <2>7 DEF LogFollowsPlan, store
  <2>10. ExecutionsOfCurrentStep'
    BY <1>1, <1>2, <2>1, <2>2, <2>3
    DEF TypeOK, ExecutionsOfCurrentStep, AwaitsApproval, Settled, Goto, store
  <2>11. RepeatsAreApprovals'
    <3>1. \A e \in started : e[2] = currentStepIndex => e[1] \in Resumers
      BY <1>2, <2>2, <2>12 DEF TypeOK, ExecutionsOfCurrentStep, AwaitsApproval, CutShort, Settled
    <3> QED
      BY <2>2, <2>3, <3>1 DEF RepeatsAreApprovals, store
  <2> QED
    BY <1>3, <2>4, <2>5, <2>6, <2>8, <2>10, <2>11
<1> QED
  BY <1>4, <1>5 DEF Resume

\* What the move of the active call does to the parts that count calls.
LEMMA CallMoves ==
  ASSUME SerialInv, NEW c \in Callers, Active(c), NEW label \in PCs, Goto(c, label)
  PROVE  /\ pc'[c] = label
         /\ \A d \in Callers \ {c} : pc'[d] \in Settled \cup {"idle"}
         /\ OneActiveCall'
         /\ Quiet' <=> label \in Settled \cup {"idle"}
         /\ CutShort' <=> label = "cut"
         /\ Advancing = {} <=> pc[c] \notin {"advance", "resumeAdvance"}
         /\ Advancing' = {} <=> label \notin {"advance", "resumeAdvance"}
<1>1. pc'[c] = label /\ \A d \in Callers \ {c} : pc'[d] = pc[d]
  BY DEF SerialInv, TypeOK, Goto
<1>2. ~CutShort /\ \A d \in Callers \ {c} : pc[d] \in Settled \cup {"idle"}
  BY OthersRest
<1> QED
  BY <1>1, <1>2 DEF OneActiveCall, Quiet, Active, Advancing, Settled, CutShort

\* The active call stores the result of the current step.
LEMMA SerialRecord ==
  ASSUME SerialInv, NEW c \in Callers, NEW executed \in BOOLEAN,
         Record(c, executed), NEW label \in {"advance", "resumeAdvance"}, Goto(c, label),
         UNCHANGED <<plan, currentStepIndex>>,
         pc[c] \in (Working \cup Deciding) \ {"advance", "resumeAdvance"}
  PROVE  LogFollowsPlan'
<1> USE DEF SerialInv
<1>1. Active(c) /\ label \in PCs /\ at[c] = currentStepIndex
  BY DEF Active, Settled, PCs, CallAgreesWithStore, Working, Deciding
<1>2. Advancing = {} /\ Advancing' # {}
  BY <1>1, CallMoves DEF Working, Deciding
<1>3. Len(stepResults) = currentStepIndex
  BY <1>2 DEF LogFollowsPlan
<1>4. /\ Len(stepResults') = currentStepIndex + 1
      /\ stepResults'[currentStepIndex + 1].step = currentStepIndex
      /\ \A i \in 1..currentStepIndex : stepResults'[i] = stepResults[i]
  BY <1>1, <1>3 DEF TypeOK, Record
<1>5. \A i \in 1..Len(stepResults') : stepResults'[i].step = i - 1
  <2> SUFFICES ASSUME NEW i \in 1..(currentStepIndex + 1) PROVE stepResults'[i].step = i - 1
    BY <1>4
  <2>1. CASE i = currentStepIndex + 1
    BY <1>4, <2>1 DEF TypeOK
  <2>2. CASE i \in 1..currentStepIndex
    BY <1>3, <1>4, <2>2 DEF TypeOK, LogFollowsPlan
  <2> QED
    BY <2>1, <2>2 DEF TypeOK
<1> QED
  BY <1>2, <1>4, <1>5 DEF LogFollowsPlan

\* A resume() call that decided goes on: it stores its result, gives up, or
\* clears the approval and moves past the step.
LEMMA SerialDecision ==
  ASSUME SerialInv, NEW c \in Callers,
         \/ RejectRecorded(c) \/ ApprovedToolSucceeds(c) \/ ApprovedToolFails(c)
         \/ ResumeAdvance(c)
  PROVE  SerialInv'
<1> USE DEF SerialInv
<1>1. /\ pc[c] \in Deciding /\ Active(c) /\ at[c] = currentStepIndex
      /\ status = "waiting_for_approval" /\ pendingApproval = currentStepIndex
      /\ currentStepIndex < Len(plan)
  BY DEF RejectRecorded, ApprovedToolSucceeds, ApprovedToolFails, ResumeAdvance,
         Deciding, Active, Settled, CallAgreesWithStore, StoredRun
<1>2. TypeOK'
  BY TypeContinue DEF Continue
<1>3. CASE RejectRecorded(c) \/ ApprovedToolSucceeds(c)
  <2>1. /\ Goto(c, "resumeAdvance") /\ pc[c] \in {"rejecting", "approved"}
        /\ UNCHANGED <<status, plan, currentStepIndex, pendingApproval, at, started>>
        /\ Record(c, FALSE) \/ Record(c, TRUE)
    BY <1>3 DEF RejectRecorded, ApprovedToolSucceeds, tools
  <2>2. /\ pc'[c] = "resumeAdvance" /\ ~Quiet' /\ ~CutShort' /\ OneActiveCall'
        /\ \A d \in Callers \ {c} : pc'[d] \in Settled \cup {"idle"}
    BY <1>1, <2>1, CallMoves DEF PCs, Settled
  <2>3. LogFollowsPlan'
    BY <2>1, SerialRecord DEF Working, Deciding
  <2>4. CallAgreesWithStore'
    BY <1>1, <2>1, <2>2 DEF CallAgreesWithStore, Working, Deciding, Settled
  <2>5. StoredRun'
    BY <1>1, <2>1, <2>2 DEF StoredRun
  <2>6. ExecutionsOfCurrentStep' /\ RepeatsAreApprovals'
    BY <1>1, <2>1, <2>2 DEF ExecutionsOfCurrentStep, RepeatsAreApprovals, TypeOK, Goto
  <2> QED
    BY <1>2, <2>2, <2>3, <2>4, <2>5, <2>6
<1>4. CASE ApprovedToolFails(c)
  <2>1. /\ Goto(c, "thrown") /\ pc[c] = "approved"
        /\ UNCHANGED <<status, plan, currentStepIndex, pendingApproval, stepResults, at,
                       started>>
    BY <1>4 DEF ApprovedToolFails, store
  <2>2. /\ pc'[c] = "thrown" /\ ~CutShort' /\ OneActiveCall'
        /\ Advancing = {} /\ Advancing' = {}
        /\ \A d \in Callers \ {c} : pc'[d] \in Settled \cup {"idle"}
    BY <1>1, <2>1, CallMoves DEF PCs, Settled
  <2>3. LogFollowsPlan'
    BY <2>1, <2>2 DEF LogFollowsPlan
  <2>4. CallAgreesWithStore'
    BY <1>1, <2>1, <2>2 DEF CallAgreesWithStore, Working, Deciding, Settled
  <2>5. StoredRun'
    BY <1>1, <2>1, <2>2 DEF StoredRun
  <2>6. ExecutionsOfCurrentStep' /\ RepeatsAreApprovals'
    BY <1>1, <2>1, <2>2 DEF ExecutionsOfCurrentStep, RepeatsAreApprovals, TypeOK, Goto
  <2> QED
    BY <1>2, <2>2, <2>3, <2>4, <2>5, <2>6
<1>5. CASE ResumeAdvance(c)
  <2>1. /\ Goto(c, "enter") /\ pc[c] = "resumeAdvance"
        /\ status' = "running" /\ currentStepIndex' = currentStepIndex + 1
        /\ pendingApproval' = None
        /\ UNCHANGED <<plan, stepResults, at, started>>
    BY <1>5 DEF ResumeAdvance, tools
  <2>2. /\ pc'[c] = "enter" /\ ~Quiet' /\ ~CutShort' /\ OneActiveCall'
        /\ Advancing # {} /\ Advancing' = {}
        /\ \A d \in Callers \ {c} : pc'[d] \in Settled \cup {"idle"}
    BY <1>1, <2>1, CallMoves DEF PCs, Settled
  <2>3. LogFollowsPlan'
    BY <2>1, <2>2 DEF LogFollowsPlan
  <2>4. CallAgreesWithStore'
    BY <1>1, <2>1, <2>2 DEF CallAgreesWithStore, Working, Deciding, Settled
  <2>5. StoredRun'
    BY <1>1, <2>1, <2>2 DEF TypeOK, StoredRun
  <2>6. ExecutionsOfCurrentStep' /\ RepeatsAreApprovals'
    BY <1>1, <2>1, <2>2 DEF ExecutionsOfCurrentStep, RepeatsAreApprovals, TypeOK
  <2> QED
    BY <1>2, <2>2, <2>3, <2>4, <2>5, <2>6
<1> QED
  BY <1>3, <1>4, <1>5

\* The active call enters the loop or starts the current step's tools.
LEMMA SerialBeginStep ==
  ASSUME SerialInv, NEW c \in Callers,
         EnterLoop(c) \/ SingleTool(c) \/ ParallelTools(c) \/ StepUntold(c)
  PROVE  SerialInv'
<1> USE DEF SerialInv
<1>1. Active(c) /\ status = "running" /\ UNCHANGED store
  BY DEF EnterLoop, SingleTool, ParallelTools, StepUntold, AtStep, Active, Settled,
         CallAgreesWithStore, Working
<1>2. TypeOK'
  BY TypeContinue DEF Continue
<1>3. PICK label \in {"step", "tool", "pause", "fail"} : Goto(c, label)
  BY DEF EnterLoop, SingleTool, ParallelTools, StepUntold
<1>4. /\ pc'[c] = label /\ ~Quiet' /\ ~CutShort' /\ OneActiveCall'
      /\ Advancing' = {}
      /\ \A d \in Callers \ {c} : pc'[d] \in Settled \cup {"idle"}
  BY <1>1, <1>3, CallMoves DEF PCs, Settled
<1>5. Advancing = {}
  BY <1>1, <1>3, CallMoves DEF PCs, EnterLoop, SingleTool, ParallelTools, StepUntold, AtStep
<1>6. LogFollowsPlan' /\ StoredRun'
  <2>1. LogFollowsPlan'
    BY <1>1, <1>4, <1>5 DEF LogFollowsPlan, store
  <2>2. status # "none"
    BY <1>1
  <2> QED
    BY <1>1, <1>4, <2>1, <2>2 DEF StoredRun, store
<1>7. CASE EnterLoop(c)
  <2>1. /\ label = "step" /\ at'[c] = currentStepIndex /\ UNCHANGED tools
        /\ \A d \in Callers \ {c} : at'[d] = at[d]
    BY <1>3, <1>7 DEF EnterLoop, Goto, TypeOK
  <2>2. CallAgreesWithStore'
    BY <1>1, <1>4, <2>1 DEF CallAgreesWithStore, Working, Deciding, Settled, store
  <2>3. pc[c] = "enter"
    BY <1>7 DEF EnterLoop
  <2>4. ExecutionsOfCurrentStep' /\ RepeatsAreApprovals'
    BY <1>1, <1>3, <2>1, <2>3
    DEF ExecutionsOfCurrentStep, RepeatsAreApprovals, TypeOK, Goto, store, tools
  <2> QED
    BY <1>2, <1>4, <1>6, <2>2, <2>4
<1>8. CASE SingleTool(c) \/ ParallelTools(c) \/ StepUntold(c)
  <2>1. /\ pc[c] = "step" /\ at[c] = currentStepIndex /\ currentStepIndex < Len(plan)
        /\ label \in {"tool", "pause", "fail"} /\ UNCHANGED at
        /\ CurrentStep(c) = plan[currentStepIndex + 1]
    BY <1>3, <1>8
    DEF SingleTool, ParallelTools, StepUntold, AtStep, CallAgreesWithStore, Working, TypeOK, Goto,
        CurrentStep
  <2>2. label = "pause" => Gated(CurrentStep(c)) /\ UNCHANGED tools
    BY <1>3, <1>8, <2>1 DEF SingleTool, ParallelTools, StepUntold, Gated, TypeOK, Goto
  <2>3. CallAgreesWithStore'
    BY <1>1, <1>4, <2>1, <2>2 DEF CallAgreesWithStore, Working, Deciding, Settled, store
  <2>4. \/ UNCHANGED started
        \/ StartTools(c, {1})
        \/ /\ CurrentStep(c).mode # "single-tool"
           /\ \E K \in SUBSET DOMAIN CurrentStep(c).calls : StartTools(c, K)
    BY <1>8 DEF SingleTool, ParallelTools, StepUntold, tools
  <2>5. \A e \in started' \ started :
          /\ e[1] = c /\ e[2] = currentStepIndex
          /\ plan[currentStepIndex + 1].mode = "single-tool" => e[3] = 1
          /\ label \in {"tool", "fail"}
    BY <2>1, <2>2, <2>4 DEF StartTools, Exec, tools
  <2>6. \A e \in started : e[2] # currentStepIndex
    <3> SUFFICES ASSUME NEW e \in started, e[2] = currentStepIndex PROVE FALSE
      OBVIOUS
    <3>1. pc[e[1]] \in {"tool", "advance", "fail", "cut"} /\ e[1] \in Callers
      BY <1>1 DEF ExecutionsOfCurrentStep, TypeOK
    <3>2. e[1] # c /\ Active(e[1])
      BY <1>1, <2>1, <3>1, OthersRest DEF Active, Settled, CutShort
    <3> QED
      BY <1>1, <3>1, <3>2, OthersRest DEF Active
  <2>7. ExecutionsOfCurrentStep'
    BY <1>1, <1>4, <2>1, <2>5, <2>6 DEF ExecutionsOfCurrentStep, TypeOK, store
  <2>8. RepeatsAreApprovals'
    BY <1>1, <2>5, <2>6 DEF RepeatsAreApprovals, store
  <2> QED
    BY <1>2, <1>4, <1>6, <2>3, <2>7, <2>8
<1> QED
  BY <1>7, <1>8

\* The active call's tools settle, or a step without tools is recorded.
LEMMA SerialEndStep ==
  ASSUME SerialInv, NEW c \in Callers, StepWithoutTools(c) \/ ToolSettles(c)
  PROVE  SerialInv'
<1> USE DEF SerialInv
<1>1. /\ pc[c] \in {"step", "tool"} /\ Active(c) /\ status = "running"
      /\ at[c] = currentStepIndex /\ currentStepIndex < Len(plan)
  BY DEF StepWithoutTools, ToolSettles, AtStep, Active, Settled, CallAgreesWithStore,
         Working
<1>2. TypeOK'
  BY TypeContinue DEF Continue
<1>3. /\ UNCHANGED <<status, plan, currentStepIndex, pendingApproval, at, started>>
      /\ \/ Record(c, TRUE) /\ Goto(c, "advance")
         \/ UNCHANGED stepResults /\ Goto(c, "fail") /\ pc[c] = "tool"
         \/ UNCHANGED <<stepResults, pc>>
  BY DEF StepWithoutTools, ToolSettles, ToolSucceeds, ToolFails, store, tools
<1>4. CASE UNCHANGED <<stepResults, pc>>
  <2>1. Advancing' = Advancing /\ Quiet' = Quiet /\ CutShort' = CutShort
    BY <1>4 DEF Advancing, Quiet, Active, CutShort
  <2>2. OneActiveCall' /\ CallAgreesWithStore'
    BY <1>3, <1>4 DEF OneActiveCall, Active, CallAgreesWithStore
  <2>3. StoredRun' /\ LogFollowsPlan' /\ ExecutionsOfCurrentStep' /\ RepeatsAreApprovals'
    BY <1>3, <1>4, <2>1
    DEF StoredRun, LogFollowsPlan, ExecutionsOfCurrentStep, RepeatsAreApprovals
  <2> QED
    BY <1>2, <2>2, <2>3
<1>5. ASSUME NEW label \in {"advance", "fail"}, Goto(c, label),
             \/ label = "advance" /\ Record(c, TRUE)
             \/ label = "fail" /\ UNCHANGED stepResults /\ pc[c] = "tool"
      PROVE  SerialInv'
  <2>1. /\ pc'[c] = label /\ ~Quiet' /\ ~CutShort' /\ OneActiveCall'
        /\ Advancing = {}
        /\ label = "fail" => Advancing' = {}
        /\ \A d \in Callers \ {c} : pc'[d] \in Settled \cup {"idle"}
    BY <1>1, <1>5, CallMoves DEF PCs, Settled
  <2>2. LogFollowsPlan'
    <3>1. CASE label = "advance"
      BY <1>1, <1>3, <1>5, <3>1, SerialRecord DEF Working
    <3>2. CASE label = "fail"
      BY <1>3, <1>5, <2>1, <3>2 DEF LogFollowsPlan
    <3> QED
      BY <3>1, <3>2
  <2>3. CallAgreesWithStore'
    BY <1>1, <1>3, <2>1 DEF CallAgreesWithStore, Working, Deciding, Settled
  <2>4. StoredRun'
    BY <1>1, <1>3, <2>1 DEF StoredRun
  <2>5. ExecutionsOfCurrentStep'
    BY <1>1, <1>3, <1>5, <2>1 DEF ExecutionsOfCurrentStep, TypeOK, Goto
  <2>6. RepeatsAreApprovals'
    BY <1>3 DEF RepeatsAreApprovals
  <2> QED
    BY <1>2, <2>1, <2>2, <2>3, <2>4, <2>5, <2>6
<1> QED
  BY <1>3, <1>4, <1>5

\* The active call moves past a step, pauses, fails or ends the run.
LEMMA SerialEndOfStepOrRun ==
  ASSUME SerialInv, NEW c \in Callers,
         Advance(c) \/ Pause(c) \/ FailRun(c) \/ CompleteRun(c) \/ FinalizingThrows(c)
  PROVE  SerialInv'
<1> USE DEF SerialInv
<1>1. /\ pc[c] \in Working /\ Active(c) /\ status = "running"
      /\ at[c] = currentStepIndex /\ pendingApproval = None
      /\ UNCHANGED <<plan, stepResults, started>>
  BY DEF Advance, Pause, FailRun, CompleteRun, FinalizingThrows, PastLastStep, Active,
         Settled, CallAgreesWithStore, Working, StoredRun, store, tools
<1>2. TypeOK'
  BY TypeContinue DEF Continue
<1>3. CASE Advance(c)
  <2>1. /\ Goto(c, "step") /\ pc[c] = "advance" /\ at'[c] = currentStepIndex + 1
        /\ currentStepIndex' = currentStepIndex + 1 /\ currentStepIndex < Len(plan)
        /\ UNCHANGED <<status, pendingApproval>>
        /\ \A d \in Callers \ {c} : at'[d] = at[d]
    BY <1>3 DEF Advance, TypeOK, CallAgreesWithStore, Working
  <2>2. /\ pc'[c] = "step" /\ ~Quiet' /\ ~CutShort' /\ OneActiveCall'
        /\ Advancing # {} /\ Advancing' = {}
        /\ \A d \in Callers \ {c} : pc'[d] \in Settled \cup {"idle"}
    BY <1>1, <2>1, CallMoves DEF PCs, Settled
  <2>3. LogFollowsPlan'
    BY <1>1, <2>1, <2>2 DEF LogFollowsPlan
  <2>4. CallAgreesWithStore'
    BY <1>1, <2>1, <2>2 DEF CallAgreesWithStore, Working, Deciding, Settled
  <2>5. StoredRun'
    BY <1>1, <2>1, <2>2 DEF StoredRun, TypeOK
  <2>6. ExecutionsOfCurrentStep' /\ RepeatsAreApprovals'
    BY <1>1, <2>1 DEF ExecutionsOfCurrentStep, RepeatsAreApprovals, TypeOK
  <2> QED
    BY <1>2, <2>2, <2>3, <2>4, <2>5, <2>6
<1>4. CASE ~Advance(c)
  <2>1. /\ UNCHANGED <<currentStepIndex, at>> /\ pc[c] # "advance"
        /\ Goto(c, "returned") \/ Goto(c, "thrown")
        /\ Pause(c) \/ FailRun(c) \/ CompleteRun(c) \/ FinalizingThrows(c)
    BY <1>1, <1>4
    DEF Pause, FailRun, CompleteRun, FinalizingThrows, PastLastStep, Ends, store
  <2>2. /\ pc'[c] \in Settled /\ Quiet' /\ ~CutShort' /\ OneActiveCall'
        /\ Advancing = {} /\ Advancing' = {}
        /\ \A d \in Callers \ {c} : pc'[d] \in Settled \cup {"idle"}
    BY <1>1, <2>1, CallMoves DEF PCs, Settled, Working
  <2>3. LogFollowsPlan'
    BY <1>1, <2>1, <2>2 DEF LogFollowsPlan
  <2>4. CallAgreesWithStore'
    BY <2>2 DEF CallAgreesWithStore, Working, Deciding, Settled
  <2>5. \/ status' = "waiting_for_approval" /\ pendingApproval' = currentStepIndex
           /\ currentStepIndex < Len(plan) /\ Gated(plan[currentStepIndex + 1])
        \/ status' = "failed" /\ UNCHANGED pendingApproval
        \/ status' \in {"completed", "running"} /\ UNCHANGED pendingApproval
           /\ currentStepIndex = Len(plan)
    <3>1. CASE Pause(c)
      BY <1>1, <3>1 DEF Pause, CallAgreesWithStore, Working
    <3>2. CASE FailRun(c)
      BY <3>2 DEF FailRun
    <3>3. CASE CompleteRun(c) \/ FinalizingThrows(c)
      BY <1>1, <3>3 DEF CompleteRun, FinalizingThrows, PastLastStep, StoredRun, TypeOK, store
    <3> QED
      BY <2>1, <3>1, <3>2, <3>3
  <2>6. StoredRun'
    BY <1>1, <2>1, <2>2, <2>5 DEF StoredRun
  <2>7. ExecutionsOfCurrentStep'
    <3> SUFFICES ASSUME NEW e \in started, e[2] = currentStepIndex
                 PROVE  status' = "failed"
      BY <1>1, <2>1 DEF ExecutionsOfCurrentStep
    <3>1. pc[e[1]] \in {"tool", "advance", "fail", "cut"} /\ e[1] \in Callers
      BY <1>1 DEF ExecutionsOfCurrentStep, TypeOK
    <3>2. e[1] = c /\ pc[c] # "cut"
      BY <1>1, <3>1, OthersRest DEF Settled, CutShort
    <3> QED
      BY <2>1, <3>1, <3>2 DEF Pause, FailRun, CompleteRun, FinalizingThrows, PastLastStep
  <2>8. RepeatsAreApprovals'
    BY <1>1 DEF RepeatsAreApprovals
  <2> QED
    BY <1>2, <2>2, <2>3, <2>4, <2>6, <2>7, <2>8
<1> QED
  BY <1>3, <1>4

\* A connection throws where no try guards it: the call is over, the run stays.
LEMMA SerialCut ==
  ASSUME SerialInv, NEW c \in Callers, ConnectingThrows(c) \/ FailureUntold(c)
  PROVE  SerialInv'
<1> USE DEF SerialInv
<1>1. /\ pc[c] \in {"enter", "fail"} /\ Active(c) /\ status = "running"
      /\ Goto(c, "cut") /\ UNCHANGED <<store, at, started>>
  BY DEF ConnectingThrows, FailureUntold, Active, Settled, CallAgreesWithStore, Working,
         tools
<1>2. TypeOK'
  BY TypeContinue DEF Continue
<1>3. /\ pc'[c] = "cut" /\ Quiet' /\ CutShort' /\ OneActiveCall'
      /\ Advancing = {} /\ Advancing' = {}
      /\ \A d \in Callers \ {c} : pc'[d] \in Settled \cup {"idle"}
  BY <1>1, CallMoves DEF PCs, Settled
<1>4. CallAgreesWithStore'
  BY <1>3 DEF CallAgreesWithStore, Working, Deciding, Settled
<1>5. StoredRun' /\ LogFollowsPlan'
  BY <1>1, <1>3 DEF StoredRun, LogFollowsPlan, store
<1>6. ExecutionsOfCurrentStep'
  BY <1>1, <1>3 DEF ExecutionsOfCurrentStep, TypeOK, Goto, store
<1>7. RepeatsAreApprovals'
  BY <1>1 DEF RepeatsAreApprovals, store
<1> QED
  BY <1>2, <1>3, <1>4, <1>5, <1>6, <1>7

LEMMA SerialStep == SerialInv /\ [SerialNext]_vars => SerialInv'
<1> SUFFICES ASSUME SerialInv, [SerialNext]_vars PROVE SerialInv'
  OBVIOUS
<1>1. CASE \E e \in live : DetachedToolEnds(e)
  <2>1. TypeOK'
    BY <1>1, TypeStep, SerialIsNext DEF SerialInv
  <2>2. UNCHANGED <<store, pc, at, started>>
    BY <1>1 DEF DetachedToolEnds
  <2> QED
    BY <2>1, <2>2
    DEF SerialInv, OneActiveCall, CallAgreesWithStore, StoredRun, LogFollowsPlan,
        ExecutionsOfCurrentStep, RepeatsAreApprovals, Active, Quiet, CutShort, Advancing,
        store
<1>2. CASE UNCHANGED vars
  <2>1. TypeOK'
    BY <1>2, TypeStep, SerialIsNext DEF SerialInv
  <2> QED
    BY <1>2, <2>1
    DEF SerialInv, OneActiveCall, CallAgreesWithStore, StoredRun, LogFollowsPlan,
        ExecutionsOfCurrentStep, RepeatsAreApprovals, Active, Quiet, CutShort, Advancing,
        store, tools, vars
<1>3. ASSUME NEW c \in Callers, Continue(c) PROVE SerialInv'
  BY <1>3, SerialDecision, SerialBeginStep, SerialEndStep, SerialEndOfStepOrRun, SerialCut
  DEF Continue
<1> QED
  BY <1>1, <1>2, <1>3, SerialStart, SerialResume DEF SerialNext

\* The invariant of the serial specification that the theorems below rest on.
THEOREM SerialInvariant == SerialSpec => []SerialInv
  BY SerialInit, SerialStep, PTL DEF SerialSpec

-----------------------------------------------------------------------------
(* What follows from it, for calls of resume() made one after the other. *)

LEMMA ResultsInStepOrderHolds == SerialInv => ResultsInStepOrder
<1> SUFFICES ASSUME SerialInv PROVE ResultsInStepOrder
  OBVIOUS
<1>1. Quiet => Advancing = {}
  BY DEF Quiet, Advancing, Active, Settled
<1> QED
  BY <1>1 DEF SerialInv, LogFollowsPlan, ResultsInStepOrder

\* The result records are the plan's steps in order, each once, although the
\* append and the move of currentStepIndex are two writes.
THEOREM ResultsStayInStepOrder == SerialSpec => []ResultsInStepOrder
  BY SerialInvariant, ResultsInStepOrderHolds, PTL

LEMMA EffectsRunOnceHolds == SerialInv => EffectsRunOnce
<1> SUFFICES ASSUME SerialInv, NEW e \in started, NEW f \in started,
                    e[2] = f[2], e[3] = f[3], e # f
             PROVE  Call(e).confirm /\ {e[1], f[1]} \subseteq Resumers
  BY DEF EffectsRunOnce
<1>1. e \in Callers \X Nat \X Nat /\ f \in Callers \X Nat \X Nat
  BY DEF SerialInv, TypeOK
<1>2. e[1] # f[1]
  BY <1>1
<1>3. Gated(plan[e[2] + 1]) /\ {e[1], f[1]} \subseteq Resumers
  BY <1>2 DEF SerialInv, RepeatsAreApprovals
<1>4. e[3] = 1
  BY <1>3 DEF SerialInv, ExecutionsOfCurrentStep, Gated
<1> QED
  BY <1>3, <1>4 DEF Gated, Call

\* A side effect runs once, or once for each operator's approval of it.
THEOREM EffectsRunAtMostOnce == SerialSpec => []EffectsRunOnce
  BY SerialInvariant, EffectsRunOnceHolds, PTL

LEMMA QuietRunHolds == SerialInv => QuietRunIsResumableOrAtItsEnd
  BY DEF SerialInv, StoredRun, QuietRunIsResumableOrAtItsEnd

\* A run that no call drives waits at its current step, has ended, or is stuck
\* in "running": behind its last step, or where a connection threw at one of the
\* two places between the steps that no try guards (runtime.ts:243-263, 331).
THEOREM QuietRunsAreResumable == SerialSpec => []QuietRunIsResumableOrAtItsEnd
  BY SerialInvariant, QuietRunHolds, PTL

\* Tools begin only for the current step, while no result of it is stored.
LEMMA SettledStepsDoNotRunStep ==
  ASSUME SerialInv, [SerialNext]_vars, NEW e \in started' \ started,
         NEW i \in 1..Len(stepResults)
  PROVE  stepResults[i].step # e[2]
<1> USE DEF SerialInv
<1>1. e[2] = currentStepIndex /\ Advancing = {}
  <2>1. CASE \E c \in Resumers : Quiet /\ Resume(c)
    <3>1. PICK c \in Resumers : Quiet /\ Resume(c)
      BY <2>1
    <3>2. ResumeApprove(c)
      BY <3>1 DEF Resume, ResumeRefused, ResumeUntold, ResumeReject, tools
    <3>3. e[2] = pendingApproval /\ AwaitsApproval
      BY <3>2 DEF ResumeApprove
    <3>4. Advancing = {}
      BY <3>1 DEF Quiet, Advancing, Active, Settled
    <3> QED
      BY <3>3, <3>4 DEF StoredRun, AwaitsApproval
  <2>2. CASE \E c \in Callers : Continue(c)
    <3>1. PICK c \in Callers : Continue(c)
      BY <2>2
    <3>2. SingleTool(c) \/ ParallelTools(c) \/ StepUntold(c)
      BY <3>1
      DEF Continue, ConnectingThrows, FailureUntold, RejectRecorded, ApprovedToolSucceeds, ApprovedToolFails, ResumeAdvance,
          EnterLoop, StepWithoutTools, ToolSettles, ToolSucceeds, ToolFails, Advance,
          Pause, FailRun, CompleteRun, FinalizingThrows, tools
    <3>3. pc[c] = "step" /\ at[c] = currentStepIndex
      BY <3>2 DEF SingleTool, ParallelTools, StepUntold, AtStep, CallAgreesWithStore, Working
    <3>4. e[2] = at[c]
      BY <3>2 DEF SingleTool, ParallelTools, StepUntold, StartTools, Exec, tools
    <3>5. Advancing = {}
      BY <3>3, OthersRest DEF Advancing, Active, Settled
    <3> QED
      BY <3>3, <3>4, <3>5
  <2>3. CASE Start \/ (\E f \in live : DetachedToolEnds(f)) \/ UNCHANGED vars
    BY <2>3 DEF Start, PlanningThrows, SaveRun, DetachedToolEnds, vars, tools
  <2> QED
    BY <2>1, <2>2, <2>3 DEF SerialNext
<1>2. i \in 1..currentStepIndex /\ stepResults[i].step = i - 1
  BY <1>1 DEF LogFollowsPlan
<1> QED
  BY <1>1, <1>2 DEF TypeOK

\* No tool of a step begins once the step has a result.
THEOREM SettledStepsRest == SerialSpec => SettledStepsDoNotRun
<1>1. SerialInv /\ [SerialNext]_vars =>
        [\A e \in started' \ started :
           \A i \in 1..Len(stepResults) : stepResults[i].step # e[2]]_vars
  BY SettledStepsDoNotRunStep
<1> QED
  BY <1>1, SerialInvariant, PTL DEF SerialSpec, SettledStepsDoNotRun

-----------------------------------------------------------------------------
(***************************************************************************)
(* Overlapping calls.  The log and the index are written in two awaits, so *)
(* what is inductive counts the calls that are between the two.            *)
(***************************************************************************)
ProgressInv == TypeOK /\ IsFiniteSet(Advancing) /\ ProgressIsRecorded

LEMMA ProgressInit == Init => ProgressInv
<1> SUFFICES ASSUME Init PROVE ProgressInv
  OBVIOUS
<1>1. TypeOK
  BY TypeInit
<1>2. Advancing = {}
  BY DEF Init, Advancing
<1>3. Len(stepResults) = 0 /\ currentStepIndex = 0
  BY DEF Init
<1> QED
  BY <1>1, <1>2, <1>3, FS_EmptySet DEF ProgressInv, ProgressIsRecorded

\* A call stores a result: one more call is between the two writes.
LEMMA ProgressRecord ==
  ASSUME ProgressInv, NEW c \in Callers, NEW executed \in BOOLEAN,
         Record(c, executed), NEW label \in {"advance", "resumeAdvance"}, Goto(c, label),
         pc[c] \notin {"advance", "resumeAdvance"}, UNCHANGED currentStepIndex
  PROVE  IsFiniteSet(Advancing') /\ ProgressIsRecorded'
<1>1. Advancing' = Advancing \cup {c} /\ c \notin Advancing
  BY DEF ProgressInv, TypeOK, Advancing, Goto
<1>2. Len(stepResults') = Len(stepResults) + 1 /\ Len(stepResults) \in Nat
  BY DEF ProgressInv, TypeOK, Record
<1>3. /\ IsFiniteSet(Advancing \cup {c})
      /\ Cardinality(Advancing \cup {c}) = Cardinality(Advancing) + 1
      /\ Cardinality(Advancing) \in Nat
  BY <1>1, FS_AddElement, FS_CardinalityType DEF ProgressInv
<1> QED
  BY <1>1, <1>2, <1>3 DEF ProgressInv, ProgressIsRecorded, TypeOK

\* A call moves the index on: one call less is between the two writes.
LEMMA ProgressAdvance ==
  ASSUME ProgressInv, NEW c \in Callers, pc[c] \in {"advance", "resumeAdvance"},
         NEW label \in {"step", "enter"}, Goto(c, label),
         currentStepIndex' = currentStepIndex + 1, UNCHANGED stepResults
  PROVE  IsFiniteSet(Advancing') /\ ProgressIsRecorded'
<1>1. Advancing' = Advancing \ {c} /\ c \in Advancing
  BY DEF ProgressInv, TypeOK, Advancing, Goto
<1>2. /\ IsFiniteSet(Advancing \ {c})
      /\ Cardinality(Advancing \ {c}) = Cardinality(Advancing) - 1
      /\ Cardinality(Advancing) \in Nat
  BY <1>1, FS_RemoveElement, FS_CardinalityType DEF ProgressInv
<1> QED
  BY <1>1, <1>2 DEF ProgressInv, ProgressIsRecorded, TypeOK

\* Every other step of a call leaves the log, the index and those calls alone.
LEMMA ProgressStays ==
  ASSUME ProgressInv, UNCHANGED <<stepResults, currentStepIndex>>, Advancing' = Advancing
  PROVE  IsFiniteSet(Advancing') /\ ProgressIsRecorded'
BY DEF ProgressInv, ProgressIsRecorded

LEMMA ElsewhereStays ==
  ASSUME TypeOK, NEW c \in Callers, pc[c] \notin {"advance", "resumeAdvance"},
         NEW label \in PCs \ {"advance", "resumeAdvance"}, Goto(c, label)
  PROVE  Advancing' = Advancing
BY DEF TypeOK, Advancing, Goto

LEMMA ProgressContinue ==
  ASSUME ProgressInv, NEW c \in Callers, Continue(c)
  PROVE  IsFiniteSet(Advancing') /\ ProgressIsRecorded'
<1> TypeOK
  BY DEF ProgressInv
<1>1. CASE RejectRecorded(c) \/ ApprovedToolSucceeds(c) \/ StepWithoutTools(c)
  BY <1>1, ProgressRecord DEF RejectRecorded, ApprovedToolSucceeds, StepWithoutTools, AtStep
<1>2. CASE ResumeAdvance(c) \/ Advance(c)
  BY <1>2, ProgressAdvance DEF ResumeAdvance, Advance
<1>3. CASE \/ ApprovedToolFails(c) \/ EnterLoop(c) \/ SingleTool(c) \/ ParallelTools(c)
           \/ StepUntold(c)
  <2>1. /\ pc[c] \in {"approved", "enter", "step"}
        /\ \E label \in {"thrown", "step", "fail", "pause", "tool"} : Goto(c, label)
        /\ UNCHANGED <<stepResults, currentStepIndex>>
    BY <1>3
    DEF ApprovedToolFails, EnterLoop, SingleTool, ParallelTools, StepUntold, AtStep, store
  <2> QED
    BY <2>1, ElsewhereStays, ProgressStays DEF PCs, Settled
<1>4. CASE ToolSettles(c)
  <2>1. PICK k \in DOMAIN CurrentStep(c).calls : ToolSucceeds(c, k) \/ ToolFails(c, k)
    BY <1>4 DEF ToolSettles
  <2>2. /\ pc[c] = "tool" /\ UNCHANGED currentStepIndex
        /\ \/ Record(c, TRUE) /\ Goto(c, "advance")
           \/ UNCHANGED <<stepResults, pc>>
           \/ UNCHANGED stepResults /\ Goto(c, "fail")
    BY <2>1 DEF ToolSucceeds, ToolFails, Awaited, store
  <2>3. UNCHANGED pc => Advancing' = Advancing
    BY DEF Advancing
  <2> QED
    BY <2>2, <2>3, ProgressRecord, ProgressStays, ElsewhereStays DEF PCs, Settled
<1>5. CASE \/ Pause(c) \/ FailRun(c) \/ CompleteRun(c) \/ FinalizingThrows(c)
           \/ ConnectingThrows(c) \/ FailureUntold(c)
  <2>1. /\ pc[c] \in {"pause", "fail", "step", "enter"}
        /\ \E label \in {"returned", "thrown", "cut"} : Goto(c, label)
        /\ UNCHANGED <<stepResults, currentStepIndex>>
    BY <1>5 DEF Pause, FailRun, CompleteRun, FinalizingThrows, PastLastStep, Ends,
       ConnectingThrows, FailureUntold, store
  <2> QED
    BY <2>1, ElsewhereStays, ProgressStays DEF PCs, Settled
<1> QED
  BY <1>1, <1>2, <1>3, <1>4, <1>5 DEF Continue

LEMMA ProgressStep == ProgressInv /\ [Next]_vars => ProgressInv'
<1> SUFFICES ASSUME ProgressInv, [Next]_vars PROVE ProgressInv'
  OBVIOUS
<1>1. TypeOK /\ TypeOK'
  BY TypeStep DEF ProgressInv
<1>2. CASE Start
  <2>1. /\ Starter \in Callers /\ pc[Starter] = "planning"
        /\ \E label \in {"enter", "thrown"} : Goto(Starter, label)
        /\ UNCHANGED <<stepResults, currentStepIndex>>
    BY <1>2 DEF Start, PlanningThrows, SaveRun, Callers, store
  <2> QED
    BY <1>1, <2>1, ElsewhereStays, ProgressStays DEF PCs, Settled, ProgressInv
<1>3. ASSUME NEW c \in Resumers, Resume(c) PROVE ProgressInv'
  <2>1. /\ c \in Callers /\ pc[c] = "idle"
        /\ \E label \in {"thrown", "rejecting", "approved"} : Goto(c, label)
        /\ UNCHANGED <<stepResults, currentStepIndex>>
    BY <1>3 DEF Resume, ResumeRefused, ResumeUntold, ResumeReject, ResumeApprove, Callers, store
  <2> QED
    BY <1>1, <2>1, ElsewhereStays, ProgressStays DEF PCs, Settled, ProgressInv
<1>4. CASE (\E e \in live : DetachedToolEnds(e)) \/ UNCHANGED vars
  <2>1. UNCHANGED <<stepResults, currentStepIndex, pc>>
    BY <1>4 DEF DetachedToolEnds, vars, store
  <2>2. Advancing' = Advancing
    BY <2>1 DEF Advancing
  <2> QED
    BY <1>1, <2>1, <2>2, ProgressStays DEF ProgressInv
<1> QED
  BY <1>1, <1>2, <1>3, <1>4, ProgressContinue DEF Next, ProgressInv

\* However resume() calls overlap, the log accounts for every advance of the
\* index: it is ahead by the calls that stored a result and did not yet move on.
THEOREM ProgressStaysRecorded == Spec => []ProgressIsRecorded
<1>1. ProgressInv => ProgressIsRecorded
  BY DEF ProgressInv
<1> QED
  BY <1>1, ProgressInit, ProgressStep, PTL DEF Spec

-----------------------------------------------------------------------------
(***************************************************************************)
(* Calls of resume() one after the other.  SerialInv says how many results *)
(* there are; what a completed run consists of needs to know, too, what    *)
(* was checked on the way to the current step's result: its references,    *)
(* before its tools ran or the run paused, and that it needs no approval   *)
(* when the loop itself executes it.                                       *)
(***************************************************************************)
ResultsRest ==
  \A i \in 1..Len(stepResults) : stepResults[i].executed => ReferencesExecuted(i)

\* The step currentStepIndex names.
Current == plan[currentStepIndex + 1]

CurrentResolves ==
  \A k \in DOMAIN Current.calls : UsesCall(Current, k) => Resolves(Current.calls[k])

CheckedBeforeTools ==
  /\ \A c \in Callers : pc[c] \in {"tool", "pause"} => CurrentResolves
  /\ status = "waiting_for_approval" => Advancing # {} \/ CurrentResolves

LoopLeavesGates ==
  \A c \in Callers :
    /\ pc[c] \in {"tool", "advance"} => ~Gated(Current)
    /\ pc[c] = "advance" => stepResults[currentStepIndex + 1].executed

OutcomeInv == SerialInv /\ ResultsRest /\ CheckedBeforeTools /\ LoopLeavesGates

LEMMA OutcomeInit == Init => OutcomeInv
<1> SUFFICES ASSUME Init PROVE OutcomeInv
  OBVIOUS
<1>1. SerialInv
  BY SerialInit
<1>2. Len(stepResults) = 0
  BY DEF Init
<1> QED
  BY <1>1, <1>2 DEF Init, OutcomeInv, ResultsRest, CheckedBeforeTools, LoopLeavesGates

\* References of the current step that resolve name earlier, executed steps.
LEMMA ResolvedAreExecuted ==
  ASSUME SerialInv, Advancing = {}, CurrentResolves, currentStepIndex < Len(plan)
  PROVE  ReferencesExecuted(currentStepIndex + 1)
<1>1. Len(stepResults) = currentStepIndex /\ currentStepIndex \in Nat
  BY DEF SerialInv, TypeOK, LogFollowsPlan
<1> SUFFICES ASSUME NEW k \in DOMAIN Current.calls, UsesCall(Current, k),
                    NEW r \in Current.calls[k].refs
             PROVE  r < currentStepIndex /\ stepResults[r + 1].executed
  BY <1>1 DEF ReferencesExecuted, Current
<1>2. PICK i \in 1..Len(stepResults) : stepResults[i].step = r /\ stepResults[i].executed
  BY DEF CurrentResolves, Resolves
<1>3. r = i - 1
  BY <1>2 DEF SerialInv, LogFollowsPlan
<1> QED
  BY <1>1, <1>2, <1>3

\* References that are executed stay so when a result is appended.
LEMMA RecordKeepsReferences ==
  ASSUME SerialInv, NEW c \in Callers, NEW executed \in BOOLEAN, Record(c, executed),
         UNCHANGED plan, ResultsRest
  PROVE  /\ Len(stepResults') = Len(stepResults) + 1
         /\ stepResults'[Len(stepResults) + 1].executed = executed
         /\ \A i \in 1..Len(stepResults) : stepResults'[i] = stepResults[i]
         /\ \A i \in 1..Len(stepResults) :
              stepResults'[i].executed => ReferencesExecuted(i)'
<1>1. stepResults \in Seq(Result)
  BY DEF SerialInv, TypeOK
<1>2. /\ Len(stepResults') = Len(stepResults) + 1
      /\ stepResults'[Len(stepResults) + 1].executed = executed
      /\ \A i \in 1..Len(stepResults) : stepResults'[i] = stepResults[i]
  BY <1>1 DEF Record
<1>3. ASSUME NEW i \in 1..Len(stepResults), ReferencesExecuted(i)
      PROVE  ReferencesExecuted(i)'
  <2> SUFFICES ASSUME NEW k \in DOMAIN plan[i].calls, UsesCall(plan[i], k),
                      NEW r \in plan[i].calls[k].refs
               PROVE  r < i - 1 /\ stepResults'[r + 1].executed
    BY DEF ReferencesExecuted, UsesCall
  <2>1. r < i - 1 /\ stepResults[r + 1].executed
    BY <1>3 DEF ReferencesExecuted
  <2>2. Len(plan) \in Nat /\ Len(stepResults) <= Len(plan)
    <3>1. Advancing # {} => currentStepIndex < Len(plan)
      BY DEF SerialInv, Advancing, CallAgreesWithStore, StoredRun, Working, Deciding
    <3> QED
      BY <3>1 DEF SerialInv, TypeOK, LogFollowsPlan, StoredRun
  <2>3. plan[i] \in Step
    BY <2>2, <1>1 DEF SerialInv, TypeOK
  <2>4. k \in DOMAIN plan[i].calls /\ plan[i].calls[k] \in ToolCall
    BY <2>3 DEF Step
  <2>5. r \in Nat
    BY <2>4 DEF ToolCall
  <2>6. r + 1 \in 1..Len(stepResults)
    BY <1>1, <2>1, <2>5
  <2> QED
    BY <1>2, <2>1, <2>6
<1> QED
  BY <1>2, <1>3 DEF ResultsRest

\* The active call appends the result of the current step.
LEMMA OutcomeRecord ==
  ASSUME OutcomeInv, NEW c \in Callers, NEW executed \in BOOLEAN, Record(c, executed),
         NEW label \in {"advance", "resumeAdvance"}, Goto(c, label),
         UNCHANGED <<status, plan, currentStepIndex>>,
         pc[c] \in (Working \cup Deciding) \ {"advance", "resumeAdvance"},
         currentStepIndex < Len(plan),
         executed => ReferencesExecuted(currentStepIndex + 1),
         label = "advance" => executed /\ ~Gated(Current)
  PROVE  ResultsRest' /\ CheckedBeforeTools' /\ LoopLeavesGates'
<1> USE DEF OutcomeInv
<1>1. Active(c) /\ label \in PCs
  BY DEF Active, Settled, PCs, Working, Deciding
<1>2. /\ pc'[c] = label /\ Advancing = {} /\ Advancing' # {}
      /\ \A d \in Callers \ {c} : pc'[d] \in Settled \cup {"idle"}
  BY <1>1, CallMoves DEF Working, Deciding
<1>3. Len(stepResults) = currentStepIndex /\ currentStepIndex \in Nat
  BY <1>2 DEF SerialInv, TypeOK, LogFollowsPlan
<1>4. /\ Len(stepResults') = currentStepIndex + 1
      /\ stepResults'[currentStepIndex + 1].executed = executed
      /\ \A i \in 1..currentStepIndex : stepResults'[i] = stepResults[i]
      /\ \A i \in 1..currentStepIndex :
           stepResults'[i].executed => ReferencesExecuted(i)'
  BY <1>3, RecordKeepsReferences
<1>5. executed => ReferencesExecuted(currentStepIndex + 1)'
  <2> SUFFICES ASSUME ReferencesExecuted(currentStepIndex + 1),
                      NEW k \in DOMAIN Current.calls, UsesCall(Current, k),
                      NEW r \in Current.calls[k].refs
               PROVE  r < currentStepIndex /\ stepResults'[r + 1].executed
    BY <1>3 DEF ReferencesExecuted, UsesCall, Current
  <2>1. r < currentStepIndex /\ stepResults[r + 1].executed
    BY <1>3 DEF ReferencesExecuted, Current
  <2>2. Current \in Step
    BY <1>3 DEF SerialInv, TypeOK, Current
  <2>3. Current.calls[k] \in ToolCall
    BY <2>2 DEF Step
  <2>4. r + 1 \in 1..currentStepIndex
    BY <1>3, <2>1, <2>3 DEF ToolCall
  <2> QED
    BY <1>4, <2>1, <2>4
<1>6. ResultsRest'
  BY <1>3, <1>4, <1>5 DEF ResultsRest
<1>7. CheckedBeforeTools'
  BY <1>2 DEF CheckedBeforeTools, Settled
<1>8. LoopLeavesGates'
  BY <1>2, <1>4 DEF LoopLeavesGates, Current, Settled
<1> QED
  BY <1>6, <1>7, <1>8

\* The log stays, and no tool of the loop is awaited.
LEMMA OutcomeWithoutLog ==
  ASSUME OutcomeInv, UNCHANGED <<plan, stepResults>>,
         \A c \in Callers : pc'[c] \notin {"tool", "pause", "advance"},
         status' = "waiting_for_approval" =>
            Advancing' # {} \/ (CurrentResolves /\ UNCHANGED currentStepIndex)
  PROVE  ResultsRest' /\ CheckedBeforeTools' /\ LoopLeavesGates'
<1>1. ResultsRest'
  BY DEF OutcomeInv, ResultsRest, ReferencesExecuted, UsesCall
<1>2. CheckedBeforeTools'
  BY DEF CheckedBeforeTools, CurrentResolves, Current, Resolves, UsesCall
<1>3. LoopLeavesGates'
  BY DEF LoopLeavesGates
<1> QED
  BY <1>1, <1>2, <1>3

LEMMA OutcomeStart == OutcomeInv /\ Start => OutcomeInv'
<1> SUFFICES ASSUME OutcomeInv, Start PROVE OutcomeInv'
  OBVIOUS
<1> USE DEF OutcomeInv
<1>1. SerialInv'
  BY SerialStart
<1>2. /\ Starter \in Callers /\ pc[Starter] = "planning" /\ Active(Starter)
      /\ \E label \in {"enter", "thrown"} : Goto(Starter, label)
      /\ UNCHANGED stepResults
  BY DEF Start, PlanningThrows, SaveRun, Callers, Active, Settled, store
<1>3. \A c \in Callers : pc'[c] \notin {"tool", "pause", "advance"}
  BY <1>2, CallMoves DEF PCs, Settled
<1>4. Len(stepResults) = 0 /\ status' # "waiting_for_approval"
  BY <1>2 DEF SerialInv, CallAgreesWithStore, StoredRun, Start, PlanningThrows, SaveRun, store
<1> QED
  BY <1>1, <1>2, <1>3, <1>4 DEF ResultsRest, CheckedBeforeTools, LoopLeavesGates

LEMMA OutcomeResume ==
  ASSUME OutcomeInv, Quiet, NEW c \in Resumers, Resume(c)
  PROVE  OutcomeInv'
<1> USE DEF OutcomeInv
<1>1. SerialInv'
  BY SerialResume
<1>2. /\ c \in Callers /\ UNCHANGED store
      /\ \E label \in {"thrown", "rejecting", "approved"} : Goto(c, label)
  BY DEF Resume, ResumeRefused, ResumeUntold, ResumeReject, ResumeApprove, Callers
<1>3. \A d \in Callers : pc'[d] \notin {"tool", "pause", "advance"}
  BY <1>2 DEF SerialInv, TypeOK, Quiet, Active, Settled, Goto
<1>4. Advancing = {}
  BY DEF Quiet, Advancing, Active, Settled
<1>5. status = "waiting_for_approval" => CurrentResolves
  BY <1>4 DEF CheckedBeforeTools
<1> QED
  BY <1>1, <1>2, <1>3, <1>5, OutcomeWithoutLog DEF store

LEMMA OutcomeDecision ==
  ASSUME OutcomeInv, NEW c \in Callers,
         \/ RejectRecorded(c) \/ ApprovedToolSucceeds(c) \/ ApprovedToolFails(c)
         \/ ResumeAdvance(c)
  PROVE  OutcomeInv'
<1> USE DEF OutcomeInv
<1>1. SerialInv'
  BY SerialDecision
<1>2. /\ pc[c] \in Deciding /\ Active(c) /\ status = "waiting_for_approval"
      /\ currentStepIndex < Len(plan)
  BY DEF RejectRecorded, ApprovedToolSucceeds, ApprovedToolFails, ResumeAdvance,
         Deciding, Active, Settled, SerialInv, CallAgreesWithStore, StoredRun
<1>3. pc[c] # "resumeAdvance" =>
        /\ Advancing = {} /\ CurrentResolves
        /\ ReferencesExecuted(currentStepIndex + 1)
  <2> SUFFICES ASSUME pc[c] # "resumeAdvance"
               PROVE  /\ Advancing = {} /\ CurrentResolves
                      /\ ReferencesExecuted(currentStepIndex + 1)
    OBVIOUS
  <2>1. Advancing = {}
    BY <1>2, OthersRest DEF Advancing, Deciding, Settled
  <2>2. CurrentResolves
    BY <1>2, <2>1 DEF CheckedBeforeTools
  <2> QED
    BY <1>2, <2>1, <2>2, ResolvedAreExecuted
<1>4. CASE RejectRecorded(c) \/ ApprovedToolSucceeds(c)
  BY <1>1, <1>2, <1>3, <1>4, OutcomeRecord
  DEF RejectRecorded, ApprovedToolSucceeds, Deciding
<1>5. CASE ApprovedToolFails(c) \/ ResumeAdvance(c)
  <2>1. /\ UNCHANGED <<plan, stepResults>>
        /\ \E label \in {"thrown", "enter"} : Goto(c, label)
        /\ \/ status' = "running"
           \/ UNCHANGED currentStepIndex /\ CurrentResolves
    BY <1>3, <1>5 DEF ApprovedToolFails, ResumeAdvance, store
  <2>2. \A d \in Callers : pc'[d] \notin {"tool", "pause", "advance"}
    BY <1>2, <2>1, CallMoves DEF PCs, Settled
  <2> QED
    BY <1>1, <2>1, <2>2, OutcomeWithoutLog
<1> QED
  BY <1>4, <1>5

\* The checks before a step's tools: its references and its approval.
LEMMA ChecksBeforeTools ==
  ASSUME OutcomeInv, NEW c \in Callers, SingleTool(c) \/ ParallelTools(c) \/ StepUntold(c)
  PROVE  \E label \in {"tool", "pause", "fail"} :
           /\ Goto(c, label)
           /\ label \in {"tool", "pause"} => CurrentResolves
           /\ label = "tool" => ~Gated(Current)
<1> USE DEF OutcomeInv
<1>1. CurrentStep(c) = Current /\ Current.calls \in Seq(ToolCall)
  <2>1. pc[c] = "step" /\ at[c] < Len(plan)
    BY DEF SingleTool, ParallelTools, StepUntold, AtStep
  <2>2. at[c] = currentStepIndex
    BY <2>1 DEF SerialInv, CallAgreesWithStore, Working
  <2> QED
    BY <2>1, <2>2, CurrentStepType DEF SerialInv, CurrentStep, Current
<1>2. CASE SingleTool(c)
  <2>1. Current.mode = "single-tool"
    BY <1>1, <1>2 DEF SingleTool
  <2>2. /\ Current.calls # <<>> /\ Executable(Current.calls[1]) => CurrentResolves
    BY <2>1 DEF CurrentResolves, UsesCall, Executable
  <2> QED
    BY <1>1, <1>2, <2>1, <2>2 DEF SingleTool, Gated
<1>3. CASE ParallelTools(c)
  <2>1. Current.mode = "parallel-tools"
    BY <1>1, <1>3 DEF ParallelTools
  <2>2. (\A k \in DOMAIN Current.calls : Executable(Current.calls[k])) => CurrentResolves
    BY DEF CurrentResolves, Executable
  <2>3. ~Gated(Current)
    BY <2>1 DEF Gated
  <2>4. \/ Goto(c, "fail")
        \/ Goto(c, "tool") /\ \A k \in DOMAIN Current.calls : Executable(Current.calls[k])
    BY <1>1, <1>3 DEF ParallelTools
  <2> QED
    BY <2>2, <2>3, <2>4
<1>4. CASE StepUntold(c)
  BY <1>4 DEF StepUntold
<1> QED
  BY <1>2, <1>3, <1>4

LEMMA OutcomeBeginStep ==
  ASSUME OutcomeInv, NEW c \in Callers,
         EnterLoop(c) \/ SingleTool(c) \/ ParallelTools(c) \/ StepUntold(c)
  PROVE  OutcomeInv'
<1> USE DEF OutcomeInv
<1>1. SerialInv'
  BY SerialBeginStep
<1>2. Active(c) /\ status = "running" /\ UNCHANGED store
  BY DEF EnterLoop, SingleTool, ParallelTools, StepUntold, AtStep, Active, Settled, SerialInv,
         CallAgreesWithStore, Working
<1>3. CASE EnterLoop(c)
  <2>1. Goto(c, "step")
    BY <1>3 DEF EnterLoop
  <2>2. \A d \in Callers : pc'[d] \notin {"tool", "pause", "advance"}
    BY <1>2, <2>1, CallMoves DEF PCs, Settled
  <2> QED
    BY <1>1, <1>2, <2>2, OutcomeWithoutLog DEF store
<1>4. CASE SingleTool(c) \/ ParallelTools(c) \/ StepUntold(c)
  <2>1. PICK label \in {"tool", "pause", "fail"} :
          /\ Goto(c, label)
          /\ label \in {"tool", "pause"} => CurrentResolves
          /\ label = "tool" => ~Gated(Current)
    BY <1>4, ChecksBeforeTools
  <2>2. pc'[c] = label /\ \A d \in Callers \ {c} : pc'[d] \in Settled \cup {"idle"}
    BY <1>2, <2>1, CallMoves DEF PCs
  <2>3. CurrentResolves' <=> CurrentResolves
    BY <1>2 DEF CurrentResolves, Current, Resolves, UsesCall, store
  <2>4. ResultsRest'
    BY <1>2 DEF ResultsRest, ReferencesExecuted, UsesCall, store
  <2>5. CheckedBeforeTools'
    BY <1>2, <2>1, <2>2, <2>3 DEF CheckedBeforeTools, Settled, store
  <2>6. LoopLeavesGates'
    BY <1>2, <2>1, <2>2 DEF LoopLeavesGates, Current, Settled, Gated, store
  <2> QED
    BY <1>1, <2>4, <2>5, <2>6
<1> QED
  BY <1>3, <1>4

LEMMA OutcomeEndStep ==
  ASSUME OutcomeInv, NEW c \in Callers, StepWithoutTools(c) \/ ToolSettles(c)
  PROVE  OutcomeInv'
<1> USE DEF OutcomeInv
<1>1. SerialInv'
  BY SerialEndStep
<1>2. /\ pc[c] \in {"step", "tool"} /\ Active(c) /\ status = "running"
      /\ at[c] = currentStepIndex /\ currentStepIndex < Len(plan)
      /\ Advancing = {}
  <2>1. /\ pc[c] \in {"step", "tool"} /\ Active(c)
        /\ at[c] = currentStepIndex /\ currentStepIndex < Len(plan)
        /\ status = "running"
    BY DEF StepWithoutTools, ToolSettles, AtStep, Active, Settled, SerialInv,
           CallAgreesWithStore, Working
  <2> QED
    BY <2>1, OthersRest DEF Advancing, Settled
<1>3. CASE StepWithoutTools(c)
  <2>1. /\ \/ Current.mode \in {"reasoning", "finalize"}
           \/ Current.mode = "parallel-tools" /\ Current.calls = <<>>
        /\ Record(c, TRUE) /\ Goto(c, "advance")
        /\ UNCHANGED <<status, plan, currentStepIndex>>
    BY <1>2, <1>3 DEF StepWithoutTools, CurrentStep, Current
  <2>2. ASSUME NEW k \in DOMAIN Current.calls PROVE ~UsesCall(Current, k)
    <3>1. Current.calls # <<>>
      BY <2>2
    <3> QED
      BY <2>1, <3>1 DEF UsesCall
  <2>3. ReferencesExecuted(currentStepIndex + 1)
    BY <2>2 DEF ReferencesExecuted, Current
  <2>4. ~Gated(Current)
    BY <2>1 DEF Gated
  <2> QED
    BY <1>1, <1>2, <2>1, <2>3, <2>4, OutcomeRecord DEF Working
<1>4. CASE ToolSettles(c)
  <2>1. /\ pc[c] = "tool"
        /\ UNCHANGED <<status, plan, currentStepIndex>>
        /\ \/ Record(c, TRUE) /\ Goto(c, "advance")
           \/ UNCHANGED <<stepResults, pc>>
           \/ UNCHANGED stepResults /\ Goto(c, "fail")
    BY <1>4 DEF ToolSettles, ToolSucceeds, ToolFails, store
  <2>2. CASE Record(c, TRUE) /\ Goto(c, "advance")
    <3>1. CurrentResolves /\ ~Gated(Current)
      BY <2>1 DEF CheckedBeforeTools, LoopLeavesGates
    <3>2. ReferencesExecuted(currentStepIndex + 1)
      BY <1>2, <3>1, ResolvedAreExecuted
    <3> QED
      BY <1>1, <1>2, <2>1, <2>2, <3>1, <3>2, OutcomeRecord DEF Working
  <2>3. CASE UNCHANGED <<stepResults, pc>>
    <3>1. Advancing' = Advancing
      BY <2>3 DEF Advancing
    <3> QED
      BY <1>1, <2>1, <2>3, <3>1
      DEF ResultsRest, CheckedBeforeTools, LoopLeavesGates, ReferencesExecuted,
          CurrentResolves, Resolves, Current, UsesCall, Gated
  <2>4. CASE UNCHANGED stepResults /\ Goto(c, "fail")
    <3>1. \A d \in Callers : pc'[d] \notin {"tool", "pause", "advance"}
      BY <1>2, <2>4, CallMoves DEF PCs, Settled
    <3> QED
      BY <1>1, <1>2, <2>1, <2>4, <3>1, OutcomeWithoutLog
  <2> QED
    BY <2>1, <2>2, <2>3, <2>4
<1> QED
  BY <1>3, <1>4

LEMMA OutcomeEndOfStepOrRun ==
  ASSUME OutcomeInv, NEW c \in Callers,
         \/ Advance(c) \/ Pause(c) \/ FailRun(c) \/ CompleteRun(c) \/ FinalizingThrows(c)
         \/ ConnectingThrows(c) \/ FailureUntold(c)
  PROVE  OutcomeInv'
<1> USE DEF OutcomeInv
<1>1. SerialInv'
  BY SerialEndOfStepOrRun, SerialCut
<1>2. /\ Active(c) /\ status = "running" /\ UNCHANGED <<plan, stepResults>>
      /\ \E label \in {"step", "returned", "thrown", "cut"} : Goto(c, label)
  BY DEF Advance, Pause, FailRun, CompleteRun, FinalizingThrows, PastLastStep, Ends,
         ConnectingThrows, FailureUntold, Active, Settled, SerialInv, CallAgreesWithStore, Working, store, tools
<1>3. \A d \in Callers : pc'[d] \notin {"tool", "pause", "advance"}
  BY <1>2, CallMoves DEF PCs, Settled
<1>4. status' = "waiting_for_approval" => CurrentResolves /\ UNCHANGED currentStepIndex
  BY <1>2 DEF Advance, Pause, FailRun, CompleteRun, FinalizingThrows, ConnectingThrows,
     FailureUntold, CheckedBeforeTools, store
<1> QED
  BY <1>1, <1>2, <1>3, <1>4, OutcomeWithoutLog

LEMMA OutcomeStep == OutcomeInv /\ [SerialNext]_vars => OutcomeInv'
<1> SUFFICES ASSUME OutcomeInv, [SerialNext]_vars PROVE OutcomeInv'
  OBVIOUS
<1>1. CASE (\E e \in live : DetachedToolEnds(e)) \/ UNCHANGED vars
  <2>1. SerialInv'
    BY SerialStep DEF OutcomeInv
  <2>2. UNCHANGED <<store, pc>>
    BY <1>1 DEF DetachedToolEnds, vars
  <2>3. Advancing' = Advancing
    BY <2>2 DEF Advancing
  <2> QED
    BY <2>1, <2>2, <2>3
    DEF OutcomeInv, ResultsRest, CheckedBeforeTools, LoopLeavesGates, ReferencesExecuted,
        CurrentResolves, Resolves, Current, UsesCall, Gated, store
<1>2. ASSUME NEW c \in Callers, Continue(c) PROVE OutcomeInv'
  BY <1>2, OutcomeDecision, OutcomeBeginStep, OutcomeEndStep, OutcomeEndOfStepOrRun
  DEF Continue
<1> QED
  BY <1>1, <1>2, OutcomeStart, OutcomeResume DEF SerialNext

LEMMA CompletedRunIsWholeHolds == OutcomeInv => CompletedRunIsWhole
<1> SUFFICES ASSUME OutcomeInv, status = "completed"
             PROVE  /\ Len(stepResults) = Len(plan)
                    /\ \A i \in 1..Len(plan) :
                         stepResults[i].executed => ReferencesExecuted(i)
  BY DEF CompletedRunIsWhole
<1>1. Quiet /\ currentStepIndex = Len(plan)
  BY DEF OutcomeInv, SerialInv, StoredRun
<1>2. Advancing = {}
  BY <1>1 DEF Quiet, Advancing, Active, Settled
<1>3. Len(stepResults) = Len(plan)
  BY <1>1, <1>2 DEF OutcomeInv, SerialInv, LogFollowsPlan
<1> QED
  BY <1>3 DEF OutcomeInv, ResultsRest

\* A completed run has a result for every step, and an executed step refers to
\* earlier, executed steps only: a rejected step that is needed fails the run.
THEOREM CompletedRunsAreWhole == SerialSpec => []CompletedRunIsWhole
  BY OutcomeInit, OutcomeStep, CompletedRunIsWholeHolds, PTL DEF SerialSpec

-----------------------------------------------------------------------------
(***************************************************************************)
(* The runtime implements RunLifecycle: a step is settled when the index   *)
(* moves past its result, by the loop or by the resume() call that decided *)
(* it; everything between those moves is a stutter.                        *)
(***************************************************************************)
\* The settled part of the log.
SettledLog == [i \in 1..currentStepIndex |-> stepResults[i].executed]

LEMMA SettledLogStays ==
  ASSUME SerialInv, UNCHANGED currentStepIndex, UNCHANGED stepResults \/
           \E c \in Callers : \E executed \in BOOLEAN : Record(c, executed)
  PROVE  SettledLog' = SettledLog
<1>1. /\ stepResults \in Seq(Result) /\ currentStepIndex \in Nat
      /\ currentStepIndex <= Len(stepResults)
  BY DEF SerialInv, TypeOK, LogFollowsPlan
<1>2. CASE UNCHANGED stepResults
  BY <1>2 DEF SettledLog
<1>3. ASSUME NEW c \in Callers, NEW executed \in BOOLEAN, Record(c, executed)
      PROVE  SettledLog' = SettledLog
  <2>1. [step |-> at[c], executed |-> executed] \in Result
    BY DEF SerialInv, TypeOK, Result
  <2>2. \A i \in 1..currentStepIndex : stepResults'[i] = stepResults[i]
    BY <1>1, <1>3, <2>1 DEF Record
  <2> QED
    BY <2>2 DEF SettledLog
<1> QED
  BY <1>2, <1>3

\* Moving the index past a stored result appends it to the settled part.
LEMMA SettledLogGrows ==
  ASSUME SerialInv, Advancing # {}, currentStepIndex < Len(plan),
         currentStepIndex' = currentStepIndex + 1, UNCHANGED stepResults
  PROVE  /\ SettledLog' = Append(SettledLog, stepResults[currentStepIndex + 1].executed)
         /\ stepResults[currentStepIndex + 1].executed \in BOOLEAN
<1>1. /\ stepResults \in Seq(Result) /\ currentStepIndex \in Nat
      /\ Len(stepResults) = currentStepIndex + 1
  BY DEF SerialInv, TypeOK, LogFollowsPlan
<1>2. \A i \in 1..Len(stepResults) : stepResults[i].executed \in BOOLEAN
  <2>1. \A i \in 1..Len(stepResults) : stepResults[i] \in Result
    BY <1>1
  <2> QED
    BY <2>1 DEF Result
<1>3. SettledLog \in Seq(BOOLEAN) /\ Len(SettledLog) = currentStepIndex
  BY <1>1, <1>2 DEF SettledLog
<1> QED
  BY <1>1, <1>2, <1>3 DEF SettledLog

LEMMA SettledLogLength ==
  ASSUME SerialInv
  PROVE  /\ Len(SettledLog) = currentStepIndex
         /\ Len(GatesOf(plan)) = Len(plan)
         /\ \A i \in 1..Len(plan) : GatesOf(plan)[i] = Gated(plan[i])
<1>1. currentStepIndex \in Nat /\ Len(plan) \in Nat
  BY DEF SerialInv, TypeOK
<1> QED
  BY <1>1 DEF SettledLog, GatesOf

LEMMA LifecycleInit == Init => Lifecycle!Init
<1> SUFFICES ASSUME Init PROVE Lifecycle!Init
  OBVIOUS
<1>1. status = "none" /\ plan = <<>> /\ currentStepIndex = 0
  BY DEF Init
<1>2. GatesOf(plan) = <<>>
  BY <1>1 DEF GatesOf
<1>3. SettledLog = <<>>
  BY <1>1 DEF SettledLog
<1> QED
  BY <1>1, <1>2, <1>3 DEF Lifecycle!Init, SettledLog

\* A step that leaves the status, the plan and the settled log is a stutter.
LEMMA LifecycleStutters ==
  ASSUME UNCHANGED <<status, plan>>, SettledLog' = SettledLog
  PROVE  UNCHANGED Lifecycle!lifecycle
BY DEF Lifecycle!lifecycle, SettledLog, GatesOf

\* The planner's plan begins the lifecycle.
LEMMA LifecycleStart ==
  ASSUME OutcomeInv, Start
  PROVE  [Lifecycle!Next]_(Lifecycle!lifecycle)
<1> USE DEF OutcomeInv
<1>1. UNCHANGED <<currentStepIndex, stepResults>> /\ SettledLog' = SettledLog
  BY SettledLogStays DEF Start, PlanningThrows, SaveRun, store
<1>2. CASE PlanningThrows
  BY <1>1, <1>2, LifecycleStutters DEF PlanningThrows, store
<1>3. ASSUME NEW p \in Plans, SaveRun(p) PROVE Lifecycle!Begin(GatesOf(p))
  <2>1. pc[Starter] = "planning" /\ Starter \in Callers
    BY <1>3 DEF SaveRun, Callers
  <2>2. status = "none" /\ status' = "running" /\ plan' = p
    BY <1>3, <2>1 DEF SaveRun, SerialInv, CallAgreesWithStore
  <2> QED
    BY <1>1, <2>2 DEF Lifecycle!Begin, SettledLog, GatesOf
<1> QED
  BY <1>2, <1>3 DEF Start, Lifecycle!Next

\* A resume() call that moves past the step settles it as the operator decided.
LEMMA LifecycleDecides ==
  ASSUME OutcomeInv, NEW c \in Callers, ResumeAdvance(c)
  PROVE  \E executed \in BOOLEAN : Lifecycle!Decide(executed)
<1> USE DEF OutcomeInv
<1>1. /\ pc[c] = "resumeAdvance" /\ c \in Advancing
      /\ status = "waiting_for_approval" /\ status' = "running"
      /\ currentStepIndex' = currentStepIndex + 1 /\ UNCHANGED <<plan, stepResults>>
      /\ currentStepIndex < Len(plan) /\ Gated(Current)
  BY DEF ResumeAdvance, Advancing, SerialInv, CallAgreesWithStore, StoredRun, Deciding, Current
<1>2. /\ SettledLog' = Append(SettledLog, stepResults[currentStepIndex + 1].executed)
      /\ stepResults[currentStepIndex + 1].executed \in BOOLEAN
  BY <1>1, SettledLogGrows
<1>3. Lifecycle!NextStep(TRUE)
  <2>1. currentStepIndex + 1 \in 1..Len(plan)
    BY <1>1 DEF SerialInv, TypeOK
  <2> QED
    BY <1>1, <2>1, SettledLogLength DEF Lifecycle!NextStep, SettledLog, Current
<1> QED
  BY <1>1, <1>2, <1>3 DEF Lifecycle!Decide, SettledLog, GatesOf

\* The loop settles an ungated step, which it executed.
LEMMA LifecycleSettles ==
  ASSUME OutcomeInv, NEW c \in Callers, Advance(c)
  PROVE  Lifecycle!Settle
<1> USE DEF OutcomeInv
<1>1. /\ pc[c] = "advance" /\ c \in Advancing
      /\ status = "running" /\ UNCHANGED status
      /\ currentStepIndex' = currentStepIndex + 1 /\ UNCHANGED <<plan, stepResults>>
      /\ currentStepIndex < Len(plan) /\ ~Gated(Current)
      /\ stepResults[currentStepIndex + 1].executed
  BY DEF Advance, Advancing, SerialInv, CallAgreesWithStore, Working, LoopLeavesGates
<1>2. SettledLog' = Append(SettledLog, TRUE)
  BY <1>1, SettledLogGrows
<1>3. Lifecycle!NextStep(FALSE)
  <2>1. currentStepIndex + 1 \in 1..Len(plan)
    BY <1>1 DEF SerialInv, TypeOK
  <2> QED
    BY <1>1, <2>1, SettledLogLength DEF Lifecycle!NextStep, SettledLog, Current, Gated
<1> QED
  BY <1>1, <1>2, <1>3 DEF Lifecycle!Settle, SettledLog, GatesOf

\* A pause waits at a gated step; a run fails before its last step is settled
\* and completes after it.
LEMMA LifecycleEnds ==
  ASSUME OutcomeInv, NEW c \in Callers, Pause(c) \/ FailRun(c) \/ CompleteRun(c)
  PROVE  Lifecycle!Wait \/ Lifecycle!Fail \/ Lifecycle!Complete
<1> USE DEF OutcomeInv
<1>1. /\ status = "running" /\ UNCHANGED <<plan, stepResults, currentStepIndex>>
      /\ at[c] = currentStepIndex
  BY DEF Pause, FailRun, CompleteRun, PastLastStep, SerialInv, CallAgreesWithStore, Working
<1>2. SettledLog' = SettledLog
  BY <1>1, SettledLogStays
<1>3. CASE Pause(c)
  <2>1. status' = "waiting_for_approval" /\ currentStepIndex < Len(plan) /\ Gated(Current)
    BY <1>3 DEF Pause, SerialInv, CallAgreesWithStore, Working, Current
  <2>2. currentStepIndex + 1 \in 1..Len(plan)
    BY <2>1 DEF SerialInv, TypeOK
  <2>3. Lifecycle!NextStep(TRUE)
    BY <2>1, <2>2, SettledLogLength DEF Lifecycle!NextStep, SettledLog, Current
  <2> QED
    BY <1>1, <1>2, <2>1, <2>3 DEF Lifecycle!Wait, SettledLog, GatesOf
<1>4. CASE FailRun(c)
  <2>1. status' = "failed" /\ currentStepIndex < Len(plan)
    BY <1>4 DEF FailRun, SerialInv, CallAgreesWithStore, Working
  <2> QED
    BY <1>1, <1>2, <2>1, SettledLogLength DEF Lifecycle!Fail, SettledLog, GatesOf
<1>5. CASE CompleteRun(c)
  <2>1. status' = "completed" /\ currentStepIndex = Len(plan)
    BY <1>1, <1>5 DEF CompleteRun, PastLastStep, SerialInv, StoredRun, TypeOK
  <2> QED
    BY <1>1, <1>2, <2>1, SettledLogLength DEF Lifecycle!Complete, SettledLog, GatesOf
<1> QED
  BY <1>3, <1>4, <1>5

\* Everything else a call does is a stutter of the lifecycle.
LEMMA LifecycleRests ==
  ASSUME OutcomeInv, NEW c \in Callers,
         \/ Resume(c) \/ RejectRecorded(c) \/ ApprovedToolSucceeds(c) \/ ApprovedToolFails(c)
         \/ EnterLoop(c) \/ StepWithoutTools(c) \/ SingleTool(c) \/ ParallelTools(c)
         \/ StepUntold(c) \/ ToolSettles(c) \/ FinalizingThrows(c)
         \/ ConnectingThrows(c) \/ FailureUntold(c)
  PROVE  UNCHANGED Lifecycle!lifecycle
<1>1. /\ UNCHANGED <<status, plan, currentStepIndex>>
      /\ UNCHANGED stepResults \/ \E executed \in BOOLEAN : Record(c, executed)
  BY DEF Resume, ResumeRefused, ResumeUntold, ResumeReject, ResumeApprove, RejectRecorded,
         ApprovedToolSucceeds, ApprovedToolFails, EnterLoop, StepWithoutTools, SingleTool,
         ParallelTools, StepUntold, ToolSettles, ToolSucceeds, ToolFails, FinalizingThrows,
         ConnectingThrows, FailureUntold, store
<1>2. SettledLog' = SettledLog
  BY <1>1, SettledLogStays DEF OutcomeInv
<1> QED
  BY <1>1, <1>2, LifecycleStutters

LEMMA LifecycleStep ==
  OutcomeInv /\ [SerialNext]_vars => [Lifecycle!Next]_(Lifecycle!lifecycle)
<1> SUFFICES ASSUME OutcomeInv, [SerialNext]_vars
             PROVE  [Lifecycle!Next]_(Lifecycle!lifecycle)
  OBVIOUS
<1>1. CASE Start
  BY <1>1, LifecycleStart
<1>2. ASSUME NEW c \in Resumers, Resume(c) PROVE UNCHANGED Lifecycle!lifecycle
  BY <1>2, LifecycleRests DEF Callers
<1>3. ASSUME NEW c \in Callers, Continue(c)
      PROVE  Lifecycle!Next \/ UNCHANGED Lifecycle!lifecycle
  <2>1. CASE ResumeAdvance(c) \/ Advance(c) \/ Pause(c) \/ FailRun(c) \/ CompleteRun(c)
    BY <2>1, LifecycleDecides, LifecycleSettles, LifecycleEnds DEF Lifecycle!Next
  <2>2. CASE ~(ResumeAdvance(c) \/ Advance(c) \/ Pause(c) \/ FailRun(c) \/ CompleteRun(c))
    BY <1>3, <2>2, LifecycleRests DEF Continue
  <2> QED
    BY <2>1, <2>2
<1>4. CASE (\E e \in live : DetachedToolEnds(e)) \/ UNCHANGED vars
  <2>1. UNCHANGED <<status, plan, currentStepIndex, stepResults>>
    BY <1>4 DEF DetachedToolEnds, vars, store
  <2>2. SettledLog' = SettledLog
    BY <2>1 DEF SettledLog
  <2> QED
    BY <2>1, <2>2, LifecycleStutters
<1> QED
  BY <1>1, <1>2, <1>3, <1>4 DEF SerialNext

\* With one call at a time the runtime does what RunLifecycle promises: steps
\* settle in order, gated ones by a decision, and an ended run never changes.
THEOREM LifecycleIsKept == SerialSpec => KeepsLifecycle
  BY OutcomeInit, OutcomeStep, LifecycleInit, LifecycleStep, PTL
  DEF SerialSpec, KeepsLifecycle, Lifecycle!Spec

-----------------------------------------------------------------------------
(* The plans that createPlan makes *)

\* What validation makes of a plan.
Repaired(steps) ==
  [i \in DOMAIN steps |->
     [id |-> steps[i].id,
      calls |-> [k \in DOMAIN steps[i].calls |->
        [tool |-> steps[i].calls[k].tool, args |-> P!RepairedArgs(steps, i, steps[i].calls[k])]]]]

LEMMA VerdictIsNoName ==
  ASSUME NEW steps, NEW i, NEW k, NEW schemas
  PROVE  P!Verdict(steps, i, k, schemas) # "none"
  BY DEF P!Verdict

LEMMA GoodVerdict ==
  ASSUME NEW steps, NEW i, NEW k, NEW schemas, P!Verdict(steps, i, k, schemas) = "ok"
  PROVE  /\ steps[i].calls[k].tool \in DOMAIN schemas
         /\ \/ P!Inline(steps[i].calls[k]) = {}
            \/ P!Repairable(steps, i, steps[i].calls[k])
  BY DEF P!Verdict

LEMMA ValidPlan ==
  ASSUME NEW steps, NEW schemas, P!Validated(steps, schemas).error = "none"
  PROVE  /\ P!Validated(steps, schemas).steps = Repaired(steps)
         /\ \A p \in P!Places(steps) : P!Verdict(steps, p[1], p[2], schemas) = "ok"
<1> DEFINE failing == {p \in P!Places(steps) : P!Verdict(steps, p[1], p[2], schemas) # "ok"}
           first == CHOOSE p \in failing : \A q \in failing : p = q \/ P!Before(p, q)
<1>1. P!Validated(steps, schemas) =
        IF steps = <<>> THEN [error |-> "EMPTY_PLAN", steps |-> <<>>]
        ELSE IF failing # {}
          THEN [error |-> P!Verdict(steps, first[1], first[2], schemas), steps |-> <<>>]
          ELSE [error |-> "none", steps |-> Repaired(steps)]
  BY DEF P!Validated, Repaired
<1>2. P!Verdict(steps, first[1], first[2], schemas) # "none"
  BY VerdictIsNoName
<1> HIDE DEF first
<1>3. steps # <<>> /\ failing = {}
  <2> HIDE DEF failing
  <2> QED
    BY <1>1, <1>2
<1>4. P!Validated(steps, schemas).steps = Repaired(steps)
  <2> HIDE DEF failing
  <2> QED
    BY <1>1, <1>3
<1> QED
  BY <1>3, <1>4

LEMMA PlacesOf ==
  ASSUME NEW steps
  PROVE  /\ \A p \in P!Places(steps) : /\ p = <<p[1], p[2]>>
                                       /\ p[1] \in DOMAIN steps /\ p[2] \in DOMAIN steps[p[1]].calls
         /\ P!Places(Repaired(steps)) = P!Places(steps)
<1>1. \A p \in P!Places(steps) : /\ p = <<p[1], p[2]>>
                                 /\ p[1] \in DOMAIN steps /\ p[2] \in DOMAIN steps[p[1]].calls
  BY DEF P!Places
<1>2. DOMAIN Repaired(steps) = DOMAIN steps
  BY DEF Repaired
<1>3. \A i \in DOMAIN steps : DOMAIN Repaired(steps)[i].calls = DOMAIN steps[i].calls
  BY DEF Repaired
<1>4. P!Places(Repaired(steps)) = P!Places(steps)
  BY <1>2, <1>3 DEF P!Places
<1> QED
  BY <1>1, <1>4

LEMMA RepairedCall ==
  ASSUME NEW steps, NEW i \in DOMAIN steps, NEW k \in DOMAIN steps[i].calls
  PROVE  LET call == steps[i].calls[k]
             repaired == Repaired(steps)[i].calls[k]
         IN  /\ Repaired(steps)[i].id = steps[i].id
             /\ repaired.tool = call.tool
             /\ DOMAIN repaired.args = DOMAIN call.args
             /\ \A arg \in DOMAIN call.args :
                  repaired.args[arg] = IF arg \in P!Inline(call)
                                       THEN P!PreviousReference(steps, i, call.tool)
                                       ELSE call.args[arg]
  BY DEF Repaired, P!RepairedArgs

\* The candidates for a repair have a last one.
LEMMA LastCandidate ==
  ASSUME NEW S \in SUBSET Nat, S # {}, NEW i \in Nat, \A j \in S : j <= i
  PROVE  P!MaxOf(S) \in S /\ \A j \in S : j <= P!MaxOf(S)
<1> DEFINE Left == {n \in Nat : i - n \in S}
<1>1. PICK j \in S : TRUE
  OBVIOUS
<1>2. i - j \in Nat /\ i - (i - j) = j
  BY <1>1
<1>3. Left \in SUBSET Nat /\ Left # {}
  BY <1>1, <1>2
<1>4. PICK n \in Left : \A m \in Left : n <= m
  <2> HIDE DEF Left
  <2> QED
    BY <1>3, LeastOf
<1>5. i - n \in S
  BY <1>4
<1>6. ASSUME NEW m \in S PROVE m <= i - n
  <2>1. i - m \in Nat /\ i - (i - m) = m
    BY <1>6
  <2>2. i - m \in Left
    BY <2>1, <1>6
  <2>3. n <= i - m
    BY <1>4, <2>2
  <2> QED
    BY <2>1, <2>3, <1>4, <1>6
<1>7. \E n0 \in S : \A m \in S : m <= n0
  BY <1>5, <1>6
<1> QED
  BY <1>7 DEF P!MaxOf

LEMMA OnlyMember ==
  ASSUME NEW j \in Nat
  PROVE  P!MinOf({j}) = j
  BY DEF P!MinOf

LEMMA PlanParts ==
  ASSUME NEW steps, IsPlan(steps)
  PROVE  /\ Len(steps) \in Nat /\ DOMAIN steps = 1..Len(steps)
         /\ \A i \in DOMAIN steps :
              /\ steps[i].id \in Nat \ {0}
              /\ Len(steps[i].calls) \in Nat /\ DOMAIN steps[i].calls = 1..Len(steps[i].calls)
<1>1. steps \in Seq(ToSet(steps))
  BY DEF IsPlan
<1>2. Len(steps) \in Nat /\ DOMAIN steps = 1..Len(steps)
  BY <1>1
<1>3. ASSUME NEW i \in DOMAIN steps
      PROVE  /\ steps[i].id \in Nat \ {0}
             /\ Len(steps[i].calls) \in Nat /\ DOMAIN steps[i].calls = 1..Len(steps[i].calls)
  <2>1. steps[i] \in ToSet(steps)
    BY DEF ToSet
  <2>2. steps[i].id \in Nat \ {0} /\ steps[i].calls \in Seq(ToSet(steps[i].calls))
    BY <2>1 DEF IsPlan
  <2> QED
    BY <2>2
<1> QED
  BY <1>2, <1>3

\* Where a repair is made, the call takes one kind of argument from the tools
\* that give it, and no other tools do.
LEMMA KindsOfRepairs ==
  ASSUME NEW tool, tool \in DOMAIN P!ReferenceOnly, NEW arg \in P!ReferenceOnly[tool]
  PROVE  LET giving == P!Producers[tool]
         IN  /\ tool \in DOMAIN P!Producers
             /\ \A t \in giving.tools : P!Gives(t, giving.path) = arg
             /\ \A t : P!Gives(t, giving.path) = arg =>
                  \/ t \in giving.tools
                  \/ tool = "designFlowNodeConfigurations" /\ arg = "flow" /\ t # "designFlowDraft"
<1>1. tool \in {"designFlowDraft", "validateFlowDraft", "runFlowSample",
                "designFlowNodeConfigurations", "validateFlowNodeConfigurations"}
  BY DEF P!ReferenceOnly
<1>2. CASE tool = "designFlowDraft"
  BY <1>2 DEF P!ReferenceOnly, P!Producers, P!Gives
<1>3. CASE tool = "validateFlowDraft"
  BY <1>3 DEF P!ReferenceOnly, P!Producers, P!Gives
<1>4. CASE tool = "runFlowSample"
  BY <1>4 DEF P!ReferenceOnly, P!Producers, P!Gives
<1>5. CASE tool = "designFlowNodeConfigurations"
  BY <1>5 DEF P!ReferenceOnly, P!Producers, P!Gives
<1>6. CASE tool = "validateFlowNodeConfigurations"
  BY <1>6 DEF P!ReferenceOnly, P!Producers, P!Gives
<1> QED
  BY <1>1, <1>2, <1>3, <1>4, <1>5, <1>6

LEMMA CandidatesPrecede ==
  ASSUME NEW steps, NEW i \in Nat, NEW producers
  PROVE  \A j : j \in P!Candidates(steps, i, producers) <=>
                  j \in 1..(i - 1) /\ P!Calls(steps[j], producers) # {}
  BY DEF P!Candidates

\* A repaired reference leads to the result of the last call that gives one.
LEMMA RepairFindsLatest ==
  ASSUME NEW steps, IsPlan(steps), NEW schemas, NEW i \in DOMAIN steps,
         NEW k \in DOMAIN steps[i].calls, NEW arg \in P!Inline(steps[i].calls[k]),
         P!Repairable(steps, i, steps[i].calls[k]), P!WellNumbered(Repaired(steps))
  PROVE  FindsLatest(Repaired(steps), <<i, k>>, arg, schemas)
<1> DEFINE call == steps[i].calls[k]
           tool == call.tool
           giving == P!Producers[tool]
           able == P!Candidates(steps, i, giving.tools)
           j == P!MaxOf(able)
           made == Repaired(steps)
           reference == P!PreviousReference(steps, i, tool)
<1>1. tool \in DOMAIN P!ReferenceOnly /\ arg \in P!ReferenceOnly[tool] /\ arg \in DOMAIN call.args
  BY DEF P!Inline
<1>2. tool \in DOMAIN P!Producers /\ \A t \in giving.tools : P!Gives(t, giving.path) = arg
  BY <1>1, KindsOfRepairs
<1>3. \A t : P!Gives(t, giving.path) = arg =>
               \/ t \in giving.tools
               \/ tool = "designFlowNodeConfigurations" /\ arg = "flow" /\ t # "designFlowDraft"
  BY <1>1, KindsOfRepairs
<1>4. i \in Nat /\ DOMAIN steps = 1..Len(steps) /\ Len(steps) \in Nat
  BY PlanParts
<1>5. able \in SUBSET Nat /\ able # {} /\ \A m \in able : m <= i
  <2>1. able # {}
    BY DEF P!Repairable
  <2>2. \A m : m \in able <=> m \in 1..(i - 1) /\ P!Calls(steps[m], giving.tools) # {}
    BY <1>4, CandidatesPrecede
  <2> HIDE DEF able
  <2> QED
    BY <1>4, <2>1, <2>2
<1>6. j \in able /\ \A m \in able : m <= j
  <2> HIDE DEF able
  <2> QED
    BY <1>4, <1>5, LastCandidate
<1>7. j \in 1..(i - 1) /\ j \in DOMAIN steps /\ P!Calls(steps[j], giving.tools) # {}
  <2>1. \A m : m \in able <=> m \in 1..(i - 1) /\ P!Calls(steps[m], giving.tools) # {}
    BY <1>4, CandidatesPrecede
  <2> HIDE DEF able, giving, j
  <2> QED
    BY <1>4, <1>6, <2>1
<1>8. reference = [from |-> steps[j].id, path |-> giving.path]
  BY DEF P!PreviousReference, P!To
<1>9. made[i].calls[k].tool = tool /\ made[i].calls[k].args[arg] = reference
  BY <1>1, RepairedCall
<1>10. \A m \in DOMAIN steps : /\ made[m].id = steps[m].id
                               /\ DOMAIN made[m].calls = DOMAIN steps[m].calls
                               /\ \A n \in DOMAIN steps[m].calls :
                                    made[m].calls[n].tool = steps[m].calls[n].tool
  BY DEF Repaired
<1>11. DOMAIN made = DOMAIN steps
  BY DEF Repaired
<1>12. \A m \in DOMAIN steps : steps[m].id = steps[j].id => m = j
  BY <1>7, <1>10, <1>11 DEF P!WellNumbered
<1>13. \A m \in DOMAIN steps : \A n \in DOMAIN steps[m].calls :
         n > 1 => \A t \in DOMAIN P!Producers : steps[m].calls[n].tool \notin P!Producers[t].tools
  BY <1>10, <1>11 DEF P!WellNumbered
<1> HIDE DEF reference, able, j, giving, tool
\* What the reference leads to is of the kind wanted.
<1>20. P!Resolved(made, i, reference) = arg
  <2>1. {m \in 1..(i - 1) : made[m].id = reference.from} = {j}
    BY <1>4, <1>7, <1>8, <1>10, <1>12
  <2>2. P!MinOf({j}) = j
    BY <1>4, <1>7, OnlyMember
  <2>3. PICK n \in DOMAIN steps[j].calls : steps[j].calls[n].tool \in giving.tools
    BY <1>7 DEF P!Calls
  <2>4. n \in 1..Len(steps[j].calls) /\ Len(steps[j].calls) \in Nat
    BY <1>7, <2>3, PlanParts
  <2>5. n = 1
    BY <1>2, <1>7, <1>13, <2>3, <2>4 DEF giving
  <2>6. 1 \in DOMAIN made[j].calls /\ made[j].calls[1].tool \in giving.tools
    BY <1>7, <1>10, <2>3, <2>5
  <2>7. made[j].calls # <<>>
    BY <2>6
  <2>8. P!Gives(made[j].calls[1].tool, reference.path) = arg
    BY <1>2, <1>8, <2>6
  <2> HIDE DEF made
  <2> QED
    BY <2>1, <2>2, <2>7, <2>8 DEF P!Resolved
\* No later one is.
<1>30. ASSUME NEW from \in 1..(i - 1), NEW m \in 1..(i - 1), made[from].id = reference.from, from < m,
              NEW producers, NEW n \in P!Calls(made[m], producers),
              P!Gives(made[m].calls[n].tool, reference.path) = arg,
              tool = "designFlowNodeConfigurations" /\ arg = "flow" => producers = {"designFlowDraft"}
       PROVE  FALSE
  <2>1. from = j
    BY <1>4, <1>8, <1>10, <1>12, <1>30
  <2>2. m \in DOMAIN steps /\ n \in DOMAIN steps[m].calls /\ made[m].calls[n].tool \in producers
    BY <1>4, <1>10, <1>30 DEF P!Calls
  <2>3. made[m].calls[n].tool \in giving.tools
    BY <1>3, <1>8, <1>30, <2>2
  <2>4. n \in P!Calls(steps[m], giving.tools)
    BY <1>10, <2>2, <2>3 DEF P!Calls
  <2>5. m \in able
    <3>1. \A m0 : m0 \in able <=> m0 \in 1..(i - 1) /\ P!Calls(steps[m0], giving.tools) # {}
      BY <1>4, CandidatesPrecede DEF able
    <3> QED
      BY <1>30, <2>4, <3>1
  <2> QED
    BY <1>4, <1>6, <1>7, <1>30, <2>1, <2>5
<1> DEFINE producers == IF tool = "designFlowNodeConfigurations" /\ arg = "flow"
                        THEN {"designFlowDraft"} ELSE DOMAIN schemas
<1>40. P!Latest(made, i, arg, reference, producers)
  <2> HIDE DEF made
  <2> QED
    BY <1>30 DEF P!Latest
<1> HIDE DEF made
<1> QED
  BY <1>9, <1>20, <1>40 DEF FindsLatest, made, tool

LEMMA RepairedHasNoInline ==
  ASSUME NEW steps, IsPlan(steps), NEW i \in DOMAIN steps, NEW k \in DOMAIN steps[i].calls,
         P!Inline(steps[i].calls[k]) = {} \/ P!Repairable(steps, i, steps[i].calls[k])
  PROVE  P!Inline(Repaired(steps)[i].calls[k]) = {}
<1> DEFINE call == steps[i].calls[k]
           able == P!Candidates(steps, i, P!Producers[call.tool].tools)
<1>1. i \in Nat /\ DOMAIN steps = 1..Len(steps) /\ Len(steps) \in Nat
  BY PlanParts
<1>2. CASE P!Inline(call) = {}
  <2>1. \A arg \in DOMAIN call.args : Repaired(steps)[i].calls[k].args[arg] = call.args[arg]
    BY <1>2, RepairedCall
  <2> QED
    BY <1>2, <2>1, RepairedCall DEF P!Inline
<1>3. CASE P!Repairable(steps, i, call)
  <2>1. able \in SUBSET Nat /\ able # {} /\ \A m \in able : m <= i
    <3>1. able # {}
      BY <1>3 DEF P!Repairable
    <3>2. \A m : m \in able <=> m \in 1..(i - 1) /\ P!Calls(steps[m], P!Producers[call.tool].tools) # {}
      BY <1>1, CandidatesPrecede
    <3> HIDE DEF able
    <3> QED
      BY <1>1, <3>1, <3>2
  <2>2. P!MaxOf(able) \in able
    <3> HIDE DEF able
    <3> QED
      BY <1>1, <2>1, LastCandidate
  <2>3. P!MaxOf(able) \in DOMAIN steps
    <3>1. \A m : m \in able <=> m \in 1..(i - 1) /\ P!Calls(steps[m], P!Producers[call.tool].tools) # {}
      BY <1>1, CandidatesPrecede
    <3> HIDE DEF able
    <3> QED
      BY <1>1, <2>2, <3>1
  <2>4. steps[P!MaxOf(able)].id # 0
    BY <2>3, PlanParts
  <2>5. P!IsReference(P!PreviousReference(steps, i, call.tool))
    BY <2>4 DEF P!IsReference, P!PreviousReference, P!To
  <2>6. \A arg \in P!Inline(call) : P!IsReference(Repaired(steps)[i].calls[k].args[arg])
    <3>1. \A arg \in P!Inline(call) : arg \in DOMAIN call.args
      BY DEF P!Inline
    <3> QED
      BY <2>5, <3>1, RepairedCall
  <2>7. \A arg \in DOMAIN call.args \ P!Inline(call) :
          Repaired(steps)[i].calls[k].args[arg] = call.args[arg]
    BY RepairedCall
  <2> QED
    BY <2>6, <2>7, RepairedCall DEF P!Inline
<1> QED
  BY <1>2, <1>3

\* Validation leaves a plan whose references lead somewhere, where it put them.
LEMMA RepairedPlansResolve ==
  ASSUME NEW steps, IsPlan(steps), NEW schemas, P!Validated(steps, schemas).error = "none"
  PROVE  ReferencesResolve(Repaired(steps), steps, schemas)
<1> SUFFICES ASSUME NEW p \in P!Places(Repaired(steps))
             PROVE  LET call == Repaired(steps)[p[1]].calls[p[2]]
                    IN  /\ call.tool \in DOMAIN schemas
                        /\ P!Inline(call) = {}
                        /\ \A arg \in References(call) :
                             \/ /\ Len(steps) = Len(Repaired(steps))
                                /\ steps[p[1]].calls[p[2]].args[arg] = call.args[arg]
                             \/ ~P!WellNumbered(Repaired(steps))
                             \/ FindsLatest(Repaired(steps), p, arg, schemas)
  BY DEF ReferencesResolve
<1>1. p \in P!Places(steps) /\ p = <<p[1], p[2]>>
      /\ p[1] \in DOMAIN steps /\ p[2] \in DOMAIN steps[p[1]].calls
  BY PlacesOf
<1>2. P!Verdict(steps, p[1], p[2], schemas) = "ok"
  BY <1>1, ValidPlan
<1> DEFINE call == steps[p[1]].calls[p[2]]
           repaired == Repaired(steps)[p[1]].calls[p[2]]
<1>3. call.tool \in DOMAIN schemas /\ (P!Inline(call) = {} \/ P!Repairable(steps, p[1], call))
  BY <1>2, GoodVerdict
<1>4. repaired.tool \in DOMAIN schemas
  BY <1>1, <1>3, RepairedCall
<1>5. P!Inline(repaired) = {}
  BY <1>1, <1>3, RepairedHasNoInline
<1>6. Len(steps) = Len(Repaired(steps))
  <2>1. DOMAIN Repaired(steps) = 1..Len(steps) /\ Len(steps) \in Nat
    BY PlanParts DEF Repaired
  <2> QED
    BY <2>1
<1>7. ASSUME NEW arg \in References(repaired), P!WellNumbered(Repaired(steps)),
             call.args[arg] # repaired.args[arg]
      PROVE  FindsLatest(Repaired(steps), p, arg, schemas)
  <2>1. arg \in DOMAIN call.args
    BY <1>1, RepairedCall DEF References
  <2>2. arg \in P!Inline(call)
    BY <1>1, <1>7, <2>1, RepairedCall
  <2>3. FindsLatest(Repaired(steps), <<p[1], p[2]>>, arg, schemas)
    BY <1>1, <1>3, <1>7, <2>2, RepairFindsLatest
  <2> QED
    BY <1>1, <2>3
<1> QED
  BY <1>4, <1>5, <1>6, <1>7

-----------------------------------------------------------------------------
\* A reply with the plan and the place it is made in.
Made(error, steps, surroundings) ==
  [answer |-> [error |-> error, steps |-> steps],
   fallback |-> surroundings.fallback, tools |-> surroundings.tools]

RepliesTyped ==
  \A reply \in replies : \E error, steps : \E surroundings \in Surroundings :
    IsPlan(steps) /\ reply = Made(error, steps, surroundings)

\* A plan of a reply stays one.
LEMMA LongerPlan ==
  ASSUME NEW steps, IsPlan(steps), NEW id \in 1..MaxSteps, NEW calls \in CallLists
  PROVE  IsPlan(Append(steps, [id |-> id, calls |-> calls]))
<1> DEFINE step == [id |-> id, calls |-> calls]
           longer == Append(steps, step)
<1>1. steps \in Seq(ToSet(steps))
  BY DEF IsPlan
<1>2. /\ Len(steps) \in Nat /\ DOMAIN longer = 1..(Len(steps) + 1)
      /\ longer[Len(steps) + 1] = step
      /\ \A i \in 1..Len(steps) : longer[i] = steps[i] /\ steps[i] \in ToSet(steps)
  BY <1>1 DEF ToSet
<1>3. \A x \in ToSet(longer) : x = step \/ x \in ToSet(steps)
  <2> SUFFICES ASSUME NEW i \in DOMAIN longer PROVE longer[i] = step \/ longer[i] \in ToSet(steps)
    BY DEF ToSet
  <2> HIDE DEF longer, step
  <2>1. i \in 1..Len(steps) \/ i = Len(steps) + 1
    BY <1>2
  <2>2. \A j \in 1..Len(steps) : longer[j] \in ToSet(steps)
    BY <1>2
  <2>3. CASE i \in 1..Len(steps)
    BY <2>2, <2>3, Zenon
  <2>4. CASE i = Len(steps) + 1
    BY <1>2, <2>4, Zenon
  <2> QED
    BY <2>1, <2>3, <2>4
<1>4. step.id \in Nat \ {0} /\ step.calls \in Seq(ToSet(step.calls))
  BY CallListsAssumption
<1>5. longer \in Seq(ToSet(longer))
  <2>1. longer = [i \in 1..(Len(steps) + 1) |-> longer[i]]
    BY <1>1
  <2>2. \A i \in 1..(Len(steps) + 1) : longer[i] \in ToSet(longer)
    BY <1>2 DEF ToSet
  <2>3. Len(steps) + 1 \in Nat
    BY <1>2
  <2> HIDE DEF longer
  <2> QED
    BY <2>1, <2>2, <2>3
<1> QED
  BY <1>3, <1>4, <1>5 DEF IsPlan

LEMMA RepliesAreTyped == PlanSpec => []RepliesTyped
<1>1. PlanInit => RepliesTyped
  BY DEF PlanInit, RepliesTyped
<1>2. ASSUME RepliesTyped, [PlanNext]_replies
      PROVE  RepliesTyped'
  <2>1. ASSUME NEW error \in ReplyErrors, NEW surroundings \in Surroundings, Reply(error, surroundings)
        PROVE  RepliesTyped'
    <3>1. IsPlan(<<>>)
      BY DEF IsPlan, ToSet
    <3>2. replies' = {Made(error, <<>>, surroundings)}
      BY <2>1 DEF Reply, Made
    <3> QED
      BY <3>1, <3>2 DEF RepliesTyped
  <2>2. ASSUME NEW id \in 1..MaxSteps, NEW calls \in CallLists, AddStep(id, calls)
        PROVE  RepliesTyped'
    <3>1. PICK reply \in replies :
            replies' = {[reply EXCEPT !.answer.steps = Append(@, [id |-> id, calls |-> calls])]}
      BY <2>2 DEF AddStep
    <3>2. PICK error, steps : \E surroundings \in Surroundings :
            IsPlan(steps) /\ reply = Made(error, steps, surroundings)
      BY <1>2, <3>1 DEF RepliesTyped
    <3>3. PICK surroundings \in Surroundings : reply = Made(error, steps, surroundings)
      BY <3>2
    <3> DEFINE longer == Append(steps, [id |-> id, calls |-> calls])
    <3>4. replies' = {Made(error, longer, surroundings)}
      BY <3>1, <3>3 DEF Made
    <3>5. IsPlan(longer)
      BY <3>2, LongerPlan
    <3> HIDE DEF longer
    <3> QED
      BY <3>4, <3>5 DEF RepliesTyped
  <2>3. CASE UNCHANGED replies
    BY <1>2, <2>3 DEF RepliesTyped
  <2> QED
    BY <1>2, <2>1, <2>2, <2>3 DEF PlanNext
<1> QED
  BY <1>1, <1>2, PTL DEF PlanSpec

(***************************************************************************)
(* For replies with any steps and calls, fallback plans that are valid and *)
(* resolve by themselves, and any tools: what createPlan repairs leads to  *)
(* the latest result of its kind (planner.ts:71-120).                      *)
(***************************************************************************)
THEOREM CreatedPlansAlwaysResolve == PlanSpec => []CreatedPlansResolve
<1>1. ASSUME RepliesTyped, NEW reply \in replies
      PROVE  LET created == P!Created(reply.answer, reply.fallback, reply.tools)
             IN  /\ created.error = "none" =>
                      ReferencesResolve(created.steps, reply.answer.steps, reply.tools)
                 /\ /\ reply.answer.error \in P!Mendable
                    /\ reply.fallback # <<>> /\ P!ToolsOf(reply.fallback) \subseteq DOMAIN reply.tools
                    => created.error = "none"
  <2>0. PICK error, steps : \E surroundings \in Surroundings :
          IsPlan(steps) /\ reply = Made(error, steps, surroundings)
    BY <1>1 DEF RepliesTyped
  <2>1. PICK surroundings \in Surroundings : IsPlan(steps) /\ reply = Made(error, steps, surroundings)
    BY <2>0
  <2> DEFINE answer == [error |-> error, steps |-> steps]
             fallback == surroundings.fallback
             schemas == surroundings.tools
             mended == P!Validated(fallback, schemas)
             checked == P!Validated(steps, schemas)
             can == fallback # <<>> /\ P!ToolsOf(fallback) \subseteq DOMAIN schemas
             created == P!Created(answer, fallback, schemas)
  <2>2. reply.answer = answer /\ reply.fallback = fallback /\ reply.tools = schemas
        /\ answer.error = error /\ answer.steps = steps
    BY <2>1 DEF Made
  \* The fallback plan resolves wherever it can be made.
  <2>3. ASSUME can PROVE mended.error = "none" /\ ReferencesResolve(mended.steps, steps, schemas)
    <3>1. /\ IsPlan(fallback) /\ mended.error = "none"
          /\ \A place \in P!Places(mended.steps) :
               \A arg \in References(mended.steps[place[1]].calls[place[2]]) :
                 FindsLatest(mended.steps, place, arg, schemas)
      BY <2>3, SurroundingsAssumption
    <3>2. mended.steps = Repaired(fallback)
      BY <3>1, ValidPlan
    <3>3. ReferencesResolve(mended.steps, fallback, schemas)
      BY <3>1, <3>2, RepairedPlansResolve
    <3> HIDE DEF mended
    <3> QED
      BY <3>1, <3>3 DEF ReferencesResolve
  <2>4. ASSUME checked.error = "none" PROVE ReferencesResolve(checked.steps, steps, schemas)
    <3>1. checked.steps = Repaired(steps)
      BY <2>4, ValidPlan
    <3> QED
      BY <2>1, <2>4, <3>1, RepairedPlansResolve
  <2>5. CASE error = "none"
    <3>1. created = IF checked.error \in P!Mendable /\ can THEN mended ELSE checked
      BY <2>5 DEF P!Created, P!OrFallback, P!HasFallback
    <3>2. error \notin P!Mendable
      BY <2>5 DEF P!Mendable
    <3> HIDE DEF created, mended, checked, can
    <3> QED
      BY <2>2, <2>3, <2>4, <3>1, <3>2 DEF created
  <2>6. CASE error # "none"
    <3>1. created = IF error \in P!Mendable /\ can THEN mended ELSE answer
      BY <2>6 DEF P!Created, P!OrFallback, P!HasFallback
    <3>2. error \in P!Mendable => (can => created.error = "none")
      BY <2>3, <3>1
    <3> HIDE DEF mended
    <3>3. created.error = "none" => ReferencesResolve(created.steps, steps, schemas)
      <4> HIDE DEF created, can
      <4> QED
        BY <2>2, <2>3, <2>6, <3>1
    <3> HIDE DEF created
    <3> QED
      BY <2>2, <3>2, <3>3 DEF created
  <2> QED
    BY <2>5, <2>6
<1>2. RepliesTyped => CreatedPlansResolve
  BY <1>1 DEF CreatedPlansResolve
<1> QED
  BY <1>2, RepliesAreTyped, PTL
=============================================================================
