---------------------------- MODULE MCResilience ----------------------------
(***************************************************************************)
(* Three calls of one read-only tool, so that a success, a failure and a   *)
(* refusal meet, and one call of a tool with side effects.                 *)
(***************************************************************************)
EXTENDS Resilience, TLC

CONSTANTS c1, c2, c3, c4, read, write

MCKeyOf == (c1 :> read) @@ (c2 :> read) @@ (c3 :> read) @@ (c4 :> write)
=============================================================================
