------------------------------ MODULE EventLog ------------------------------
(***************************************************************************)
(* The events table of RuntimeControlPlane for one session: record_event   *)
(* selects the next sequence number and then inserts the row, both inside  *)
(* the lock of ITS instance; get_events_since reads past a cursor.  Every  *)
(* request opens an instance of its own on the same database file, so the  *)
(* lock orders only the threads that share an instance; what the sequence  *)
(* numbers promise, they promise to those.                                 *)
(***************************************************************************)
EXTENDS Integers, Sequences

CONSTANTS
  Threads,     \* callers of record_event
  Instances,   \* RuntimeControlPlane objects open on the database file
  InstanceOf,  \* the instance a thread records through
  NoThread,    \* a lock nobody holds
  MaxEvents    \* bound on the rows a run of the model inserts

ASSUME EventLogAssumption ==
  /\ InstanceOf \in [Threads -> Instances]
  /\ NoThread \notin Threads
  /\ MaxEvents \in Nat

VARIABLES
  rows,     \* the sequence column, in the order of the AUTOINCREMENT event_id
  lock,     \* lock[i]: the thread inside instance i's lock
  selected, \* selected[t]: the sequence number t's SELECT returned
  cursor,   \* the largest sequence number the reader has been given
  seen      \* the rows the reader has been given, by event_id

logvars == <<rows, lock, selected, cursor, seen>>

Idle == -1

\* SELECT COALESCE(MAX(sequence), -1) + 1.
IsNextSequence(n) ==
  \/ rows = <<>> /\ n = 0
  \/ /\ \E i \in DOMAIN rows : rows[i] + 1 = n
     /\ \A i \in DOMAIN rows : rows[i] < n

\* Mutant: the SELECT is outside the lock.
SelectUnlocked(t) ==
  /\ Len(rows) < MaxEvents
  /\ selected[t] = Idle
  /\ \E n \in 0..Len(rows) : IsNextSequence(n) /\ selected' = [selected EXCEPT ![t] = n]
  /\ UNCHANGED <<rows, lock, cursor, seen>>

\* record_event up to its SELECT.
Select(t) ==
  /\ Len(rows) < MaxEvents
  /\ lock[InstanceOf[t]] = NoThread
  /\ lock' = [lock EXCEPT ![InstanceOf[t]] = t]
  /\ \E n \in 0..Len(rows) : IsNextSequence(n) /\ selected' = [selected EXCEPT ![t] = n]
  /\ UNCHANGED <<rows, cursor, seen>>

Release(t) ==
  /\ lock' = [lock EXCEPT ![InstanceOf[t]] = NoThread]
  /\ selected' = [selected EXCEPT ![t] = Idle]

\* Mutant: the number stored is the largest one, not the next.
InsertMaximum(t) ==
  /\ selected[t] # Idle
  /\ rows' = Append(rows, selected[t] - 1)
  /\ Release(t)
  /\ UNCHANGED <<cursor, seen>>

\* The INSERT and its commit.
Insert(t) ==
  /\ selected[t] # Idle
  /\ rows' = Append(rows, selected[t])
  /\ Release(t)
  /\ UNCHANGED <<cursor, seen>>

\* The INSERT raises (SQLITE_BUSY after busy_timeout) or its process dies.
InsertFails(t) ==
  /\ selected[t] # Idle
  /\ Release(t)
  /\ UNCHANGED <<rows, cursor, seen>>

\* Mutant: the reader resumes after the next number instead of the last one.
GetEventsSinceSkips(i) ==
  /\ lock[i] = NoThread
  /\ LET new == {k \in DOMAIN rows : rows[k] > cursor}
     IN  /\ new # {}
         /\ seen' = seen \cup new
         /\ cursor' = Len(rows)
  /\ UNCHANGED <<rows, lock, selected>>

\* get_events_since(cursor) through instance i, by a reader that resumes from
\* the last id it was given.
GetEventsSince(i) ==
  /\ lock[i] = NoThread
  /\ LET new == {k \in DOMAIN rows : rows[k] > cursor}
     IN  /\ new # {}
         /\ seen' = seen \cup new
         /\ \E k \in new : /\ \A m \in new : rows[m] <= rows[k]
                           /\ cursor' = rows[k]
  /\ UNCHANGED <<rows, lock, selected>>

-----------------------------------------------------------------------------
LogInit ==
  /\ rows = <<>>
  /\ lock = [i \in Instances |-> NoThread]
  /\ selected = [t \in Threads |-> Idle]
  /\ cursor = -1
  /\ seen = {}

LogNext ==
  \/ \E t \in Threads : Select(t) \/ Insert(t) \/ InsertFails(t)
  \/ \E i \in Instances : GetEventsSince(i)

LogSafety == LogInit /\ [][LogNext]_logvars

-----------------------------------------------------------------------------
LogTypeOK ==
  /\ rows \in Seq(Nat)
  /\ lock \in [Instances -> Threads \cup {NoThread}]
  /\ selected \in [Threads -> Nat \cup {Idle}]
  /\ cursor \in Nat \cup {-1}
  /\ seen \subseteq Nat

\* The sequence numbers of a session count its rows without gap or repetition,
\* in commit order, whichever inserts fail half-way.
GaplessLog == \A k \in DOMAIN rows : rows[k] = k - 1

\* A reader that always resumes from the last id it was given has been given
\* every row up to that id: nothing is committed behind a cursor.
ResumeComplete == seen = {k \in DOMAIN rows : rows[k] <= cursor}

(* The rows of a session are numbered without gap or repetition, in the order *)
(* they were committed (append_event).                                        *)
LogSound == LogTypeOK /\ GaplessLog

=============================================================================
