---------------------------- MODULE MCPromptLab ----------------------------
(***************************************************************************)
(* Two calls on one output root: runs or evaluations in one process or in  *)
(* two, or two command lines.                                              *)
(***************************************************************************)
EXTENDS PromptLab, TLC

CONSTANTS run1, run2, eval1, eval2, cli, note

MCCalls == {run1, run2, eval1, eval2, cli, note}
MCGroups == {{run1, run2}, {eval1, eval2}, {cli, note}}
MCHome == run1 :> 1 @@ run2 :> 1 @@ eval1 :> 1 @@ eval2 :> 2 @@ cli :> 2 @@ note :> 3
MCKind == run1 :> "run" @@ run2 :> "run" @@ eval1 :> "eval" @@ eval2 :> "eval"
          @@ cli :> "cli" @@ note :> "note"

\* The command line repeats what is in the history already.
MCRequirement == run1 :> 1 @@ run2 :> 2 @@ cli :> 1 @@ note :> 2 @@ eval1 :> 3 @@ eval2 :> 3
MCBefore == <<8, 1>>
=============================================================================
