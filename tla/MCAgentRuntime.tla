--------------------------- MODULE MCAgentRuntime ---------------------------
(***************************************************************************)
(* Plans small enough to enumerate, one for each path through the step     *)
(* executor: plain and gated side effects, references to an executed and   *)
(* to a rejected step, parallel reads, and the calls the executor refuses. *)
(***************************************************************************)
EXTENDS AgentRuntime

Base == [effect |-> FALSE, confirm |-> FALSE, parallelSafe |-> TRUE,
         allowed |-> TRUE, registered |-> TRUE, refs |-> {}]

Read      == Base
ReadOf(r) == [Base EXCEPT !.refs = {r}]
Effect    == [Base EXCEPT !.effect = TRUE, !.parallelSafe = FALSE]
Approval  == [Effect EXCEPT !.confirm = TRUE]
Unlisted  == [Base EXCEPT !.allowed = FALSE]
Missing   == [Base EXCEPT !.registered = FALSE]
GatedRead == [Base EXCEPT !.confirm = TRUE]

Single(call)    == [mode |-> "single-tool", calls |-> <<call>>]
Parallel(calls) == [mode |-> "parallel-tools", calls |-> calls]
Reasoning       == [mode |-> "reasoning", calls |-> <<>>]
Finalize        == [mode |-> "finalize", calls |-> <<>>]

MCPlans == {
  <<Single(Approval), Single(ReadOf(0)), Finalize>>,
  <<Single(Effect), Single(Approval), Single(Approval)>>,
  <<Parallel(<<Read, Read>>), Single(Approval), Single(Effect)>>,
  <<Single(Approval), Parallel(<<Read, ReadOf(0)>>)>>,
  <<Single(Approval), Reasoning, Single(Approval), Finalize>>,
  <<Parallel(<<Read, Unlisted>>)>>,
  <<Parallel(<<Read, GatedRead>>)>>,
  <<Parallel(<<Read, Effect>>), Finalize>>,
  <<Parallel(<<>>), Single(Missing)>>,
  <<Reasoning, Single(ReadOf(2)), Finalize>>,
  <<[mode |-> "single-tool", calls |-> <<>>]>> }
=============================================================================
