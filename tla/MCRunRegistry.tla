--------------------------- MODULE MCRunRegistry ---------------------------
(* Two runs of one session; each is an agent or a multi-agent run, r1 with reviews. *)
EXTENDS RunRegistry

CONSTANTS r1, r2
MCRuns == {r1, r2}
MCReviewed == {r1}
=============================================================================
