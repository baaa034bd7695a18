-------------------------- MODULE MCTraceConnection --------------------------
(***************************************************************************)
(* Settings that make every branch happen within a few events: a batch     *)
(* smaller than the buffer bound and a larger one, both strategies, with   *)
(* and without notices.                                                    *)
(***************************************************************************)
EXTENDS TraceConnection

Settings(size, max, strategy, notice) ==
  [maxBatchSize |-> size, maxBufferedEvents |-> max,
   overflowStrategy |-> strategy, emitDropNotice |-> notice]

MCConfigs == {
  Settings(4, 2, "flush", TRUE),
  Settings(2, 1, "flush", TRUE),
  Settings(3, 3, "drop", TRUE),
  Settings(5, 4, "drop", FALSE),
  Settings(4, 1, "drop", TRUE),
  Settings(4, 0, "flush", TRUE) }
=============================================================================
