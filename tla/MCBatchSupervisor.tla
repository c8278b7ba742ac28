------------------------- MODULE MCBatchSupervisor -------------------------
(* Small instances of BatchSupervisor for TLC. *)
EXTENDS BatchSupervisor, TLC

CONSTANTS c1, c2

CandidateSymmetry == Permutations({c1, c2})
=============================================================================
