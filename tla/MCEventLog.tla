----------------------------- MODULE MCEventLog -----------------------------
(* Small instances of EventLog for TLC. *)
EXTENDS EventLog

CONSTANTS t1, t2, t3, i1

\* Every thread records through the same instance.
OneInstance == [t \in {t1, t2, t3} |-> i1]
=============================================================================
