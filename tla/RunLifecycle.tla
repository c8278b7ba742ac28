--------------------------- MODULE RunLifecycle ---------------------------
(***************************************************************************)
(* What a supervisor run promises its caller, whatever graph drives it:    *)
(* the planner is called a bounded number of times; the outcome is decided *)
(* once, and published once, as the run's one terminal state, unless the   *)
(* engine that drives the graph abandons the run first.  A cancel is not   *)
(* felt by the piece of work that is going on: it may still decide any     *)
(* outcome, "completed" included.  But no work is begun after a cancel,    *)
(* and a run left without an outcome then is decided "cancelled".          *)
(***************************************************************************)
EXTENDS RunStatus

CONSTANTS
  MaxPasses,  \* planning passes one run may use
  MayAbandon  \* the engine's limit may be too small for them

VARIABLES
  passes,     \* planning passes begun
  busy,       \* a piece of work is going on
  cancelled,  \* the user asked for cancellation
  outcome,    \* "none" until decided
  published,  \* the terminal status the caller was given, or "none"
  abandoned   \* the caller was given an exception instead

av == <<passes, busy, cancelled, outcome, published, abandoned>>

Init ==
  /\ passes = 0
  /\ busy = FALSE
  /\ cancelled \in BOOLEAN
  /\ outcome = "none"
  /\ published = "none"
  /\ abandoned = FALSE

RequestCancel ==
  /\ ~cancelled
  /\ cancelled' = TRUE
  /\ UNCHANGED <<passes, busy, outcome, published, abandoned>>

Idle == ~abandoned /\ ~busy /\ outcome = "none"

\* A piece of work, a planning pass or another, begins.
Begin ==
  /\ Idle
  /\ ~cancelled
  /\ busy' = TRUE
  /\ \/ passes' = passes
     \/ passes < MaxPasses /\ passes' = passes + 1
  /\ UNCHANGED <<cancelled, outcome, published, abandoned>>

\* It ends, and may decide the outcome.
Finish ==
  /\ busy
  /\ busy' = FALSE
  /\ outcome' \in TerminalStatuses \cup {"none"}
  /\ UNCHANGED <<passes, cancelled, published, abandoned>>

\* The run notices the cancel.
Stop ==
  /\ Idle
  /\ cancelled
  /\ outcome' = "cancelled"
  /\ UNCHANGED <<passes, busy, cancelled, published, abandoned>>

Publish ==
  /\ ~abandoned
  /\ outcome # "none"
  /\ published = "none"
  /\ published' = outcome
  /\ UNCHANGED <<passes, busy, cancelled, outcome, abandoned>>

Abandon ==
  /\ MayAbandon
  /\ ~abandoned
  /\ ~busy
  /\ published = "none"
  /\ abandoned' = TRUE
  /\ UNCHANGED <<passes, busy, cancelled, outcome, published>>

Next == RequestCancel \/ Begin \/ Finish \/ Stop \/ Publish \/ Abandon

Safety == Init /\ [][Next]_av

\* Every run comes to its end.
Spec == Safety /\ <>(published # "none" \/ abandoned)
=============================================================================
