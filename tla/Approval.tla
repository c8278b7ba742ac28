------------------------------ MODULE Approval ------------------------------
(***************************************************************************)
(* ApprovalController in review mode: the graph's thread registers one     *)
(* review after another and waits for each, with a timeout; HTTP handlers  *)
(* decide.  The waiting thread is outside the lock between the end of its  *)
(* wait and the removal of the record, and a decision may still arrive     *)
(* then, or overwrite an earlier one.                                      *)
(***************************************************************************)
EXTENDS Integers

CONSTANTS
  Runs,     \* runs of one session, each with a controller and a graph's thread
  Reviews   \* number of reviews of a run

ASSUME ApprovalAssumption == Reviews \in Nat

VARIABLES
  phase,    \* phase[a]: where the graph's thread is in review a
  pending,  \* the ids in the controllers' self._pending
  decision, \* record["decision"]
  signal,   \* record["signal"].is_set()
  result,   \* what review returned
  acked     \* the decisions decide() has returned to a caller (history)

approvalVars == <<phase, pending, decision, signal, result, acked>>

\* uuid4: no two reviews share an id, whatever their controllers.
Ids == Runs \X (1..Reviews)
Decisions == {"approved", "rejected"}
Phases == {"unborn", "waiting", "woken", "read", "timed_out", "returned"}

\* The thread runs one review at a time.
Register(a) ==
  /\ phase[a] = "unborn"
  /\ \A n \in 1..(a[2] - 1) : phase[<<a[1], n>>] = "returned"
  /\ phase' = [phase EXCEPT ![a] = "waiting"]
  /\ pending' = pending \cup {a}
  /\ UNCHANGED <<decision, signal, result, acked>>

\* signal.wait returns True.
Wake(a) ==
  /\ phase[a] = "waiting"
  /\ signal[a]
  /\ phase' = [phase EXCEPT ![a] = "woken"]
  /\ UNCHANGED <<pending, decision, signal, result, acked>>

\* decision = record["decision"], without the lock.
ReadDecision(a) ==
  /\ phase[a] = "woken"
  /\ phase' = [phase EXCEPT ![a] = "read"]
  /\ result' = [result EXCEPT ![a] = decision[a]]
  /\ UNCHANGED <<pending, decision, signal, acked>>

\* Mutants: a timeout approves, returns a verdict of its own, or never comes.
TimeOutApproves(a) ==
  /\ phase[a] = "waiting"
  /\ ~signal[a]
  /\ phase' = [phase EXCEPT ![a] = "timed_out"]
  /\ result' = [result EXCEPT ![a] = "approved"]
  /\ UNCHANGED <<pending, decision, signal, acked>>

TimeOutVerdict(a) ==
  /\ phase[a] = "waiting"
  /\ ~signal[a]
  /\ phase' = [phase EXCEPT ![a] = "timed_out"]
  /\ result' = [result EXCEPT ![a] = "timeout"]
  /\ UNCHANGED <<pending, decision, signal, acked>>

TimeOutNever(a) == FALSE

\* signal.wait returns False.
TimeOut(a) ==
  /\ phase[a] = "waiting"
  /\ ~signal[a]
  /\ phase' = [phase EXCEPT ![a] = "timed_out"]
  /\ result' = [result EXCEPT ![a] = "rejected"]
  /\ UNCHANGED <<pending, decision, signal, acked>>

\* Mutant: the record is not removed.
ReturnKeepsRecord(a) ==
  /\ phase[a] \in {"read", "timed_out"}
  /\ phase' = [phase EXCEPT ![a] = "returned"]
  /\ UNCHANGED <<pending, decision, signal, result, acked>>

\* Under the lock: pop the record; review returns.
Return(a) ==
  /\ phase[a] \in {"read", "timed_out"}
  /\ phase' = [phase EXCEPT ![a] = "returned"]
  /\ pending' = pending \ {a}
  /\ UNCHANGED <<decision, signal, result, acked>>

\* decide: KeyError (nothing changes) unless the record is pending.
Decide(a, d) ==
  /\ a \in pending
  /\ decision' = [decision EXCEPT ![a] = d]
  /\ signal' = [signal EXCEPT ![a] = TRUE]
  /\ acked' = [acked EXCEPT ![a] = @ \cup {d}]
  /\ UNCHANGED <<phase, pending, result>>

-----------------------------------------------------------------------------
ApprovalInit ==
  /\ phase = [a \in Ids |-> "unborn"]
  /\ pending = {}
  /\ decision = [a \in Ids |-> "none"]
  /\ signal = [a \in Ids |-> FALSE]
  /\ result = [a \in Ids |-> "none"]
  /\ acked = [a \in Ids |-> {}]

\* The steps of review() after its registration, but for the last.
Reviewing(a) == Wake(a) \/ ReadDecision(a) \/ TimeOut(a)

-----------------------------------------------------------------------------
ApprovalTypeOK ==
  /\ phase \in [Ids -> Phases]
  /\ pending \subseteq Ids
  /\ decision \in [Ids -> Decisions \cup {"none"}]
  /\ signal \in [Ids -> BOOLEAN]
  /\ result \in [Ids -> Decisions \cup {"none"}]
  /\ acked \in [Ids -> SUBSET Decisions]

\* The run goes on past a review only with a decision a human was told was
\* taken: a thread that wakes always finds one, and nobody's silence approves.
ApprovalIsHuman ==
  \A a \in Ids : phase[a] \in {"read", "returned"} =>
    /\ result[a] # "none"
    /\ result[a] = "approved" => "approved" \in acked[a]

\* If every decision taken on a review says the same and the review did not time
\* out first, that is what the review returns: no race with the thread can turn
\* a rejection into an approval.
RejectionStands ==
  \A a \in Ids : (phase[a] = "returned" /\ acked[a] = {"rejected"})
                   => result[a] = "rejected"

\* A review that has returned is not offered to anybody, and of each run only
\* the review its graph waits in is.
OnlyCurrentPending ==
  \A a \in pending :
    /\ phase[a] \notin {"unborn", "returned"}
    /\ \A b \in Ids : (b[1] = a[1] /\ phase[b] \notin {"unborn", "returned"}) => b = a
=============================================================================
