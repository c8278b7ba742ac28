---------------------------- MODULE MCHarnessRun ----------------------------
(* Small instances of HarnessRun for TLC. *)
EXTENDS HarnessRun, TLC

CONSTANTS r1, r2
=============================================================================
