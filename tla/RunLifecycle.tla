---------------------------- MODULE RunLifecycle ----------------------------
(***************************************************************************)
(* What the agent runtime promises about one run, whoever drives it and    *)
(* whatever its tools do: the steps of the plan are settled one after the  *)
(* other, each once; a gated step is settled by an operator's decision,    *)
(* taken while the run waits at that very step; a run completes only when  *)
(* every step is settled, and a completed or failed run never changes.     *)
(***************************************************************************)
EXTENDS Naturals, Sequences

CONSTANT Gatings   \* the sequences that say which steps of a plan are gated

VARIABLES
  phase,   \* "none", "running", "waiting", "completed" or "failed"
  gates,   \* gates[i]: step i of the run's plan needs an approval
  log      \* how each settled step was settled: TRUE when it was executed

lifecycle == <<phase, gates, log>>

Init == phase = "none" /\ gates = <<>> /\ log = <<>>

Begin(g) ==
  /\ phase = "none"
  /\ phase' = "running" /\ gates' = g /\ UNCHANGED log

\* The next step to settle is there, and whether it is gated is g.
NextStep(g) == Len(log) < Len(gates) /\ gates[Len(log) + 1] = g

Settle ==
  /\ phase = "running" /\ NextStep(FALSE)
  /\ log' = Append(log, TRUE) /\ UNCHANGED <<phase, gates>>

Wait ==
  /\ phase = "running" /\ NextStep(TRUE)
  /\ phase' = "waiting" /\ UNCHANGED <<gates, log>>

Decide(executed) ==
  /\ phase = "waiting" /\ NextStep(TRUE)
  /\ phase' = "running" /\ log' = Append(log, executed) /\ UNCHANGED gates

Fail ==
  /\ phase = "running" /\ Len(log) < Len(gates)
  /\ phase' = "failed" /\ UNCHANGED <<gates, log>>

Complete ==
  /\ phase = "running" /\ Len(log) = Len(gates)
  /\ phase' = "completed" /\ UNCHANGED <<gates, log>>

Next ==
  \/ \E g \in Gatings : Begin(g)
  \/ Settle \/ Wait \/ Fail \/ Complete
  \/ \E executed \in BOOLEAN : Decide(executed)

Spec == Init /\ [][Next]_lifecycle
=============================================================================
