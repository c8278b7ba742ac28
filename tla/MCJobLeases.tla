---------------------------- MODULE MCJobLeases ----------------------------
(* Small instances of JobLeases for TLC. *)
EXTENDS JobLeases

CONSTANTS w1, w2, j1
=============================================================================
