----------------------------- MODULE RunStatus -----------------------------
(***************************************************************************)
(* The vocabulary both supervisor graphs share: the statuses a run may end *)
(* with, the node that failed as an error tag, and the terminal record.    *)
(***************************************************************************)
EXTENDS Naturals

\* TERMINAL_STATUSES of supervisor_graph.py.
TerminalStatuses ==
  {"completed", "stopped", "budget_exceeded", "error", "invalid_plan", "cancelled"}

\* What the state's "status" field may hold between two nodes.
Statuses == TerminalStatuses \cup {"running", "replanning", "next_round"}

\* The "error" field: who set it last.  The text itself is not modelled.
Errors == {"none", "cancelled", "worker", "invalid", "rejected", "budget"}

NoTerminal == [status |-> "none", error |-> "none", hasReport |-> FALSE]

TerminalRecords ==
  [status : TerminalStatuses, error : Errors, hasReport : BOOLEAN]

\* terminal_node: a status outside TERMINAL_STATUSES is published as "error".
Published(status, error, report) ==
  [ status    |-> IF status \in TerminalStatuses THEN status ELSE "error",
    error     |-> error,
    hasReport |-> report ]
=============================================================================
