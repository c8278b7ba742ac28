------------------------- MODULE ControlPlaneProofs -------------------------
(***************************************************************************)
(* Proofs about the control plane.  The jobs table, for any number of      *)
(* workers and jobs, any lease and any bound on attempts: the lease        *)
(* excludes, the attempts are bounded, a settled job is never handed out   *)
(* again, and only a job that was handed out again has its end             *)
(* overwritten.  The events table, for any number of threads and rows, on  *)
(* the condition under which the lock orders them: every thread records    *)
(* through the same RuntimeControlPlane.  The SSE stream that replays the   *)
(* events table, for any number of events, executions and restarts of the  *)
(* server: what its ids promise, and what a broken connection may cost.    *)
(* The session file, for any number of runs, steps and retries: it claims  *)
(* only what the trace records, loses nothing a consumer was shown while   *)
(* runs do not overlap, and succeeds only when complete.  The registries   *)
(* of the server, for any number of runs of a session, of reviews of a run *)
(* and of events of a stream: what a review returns and a stream tells.    *)
(***************************************************************************)
EXTENDS JobLeases, EventLog, EventStream, HarnessRun, RunRegistry, FiniteSetTheorems, SequenceTheorems, TLAPS

\* What makes the lease exclude: a claim's clock value is never ahead of time,
\* a lease a worker still believes in is the one in the table, and a job that
\* was never enqueued is leased to nobody.
LeaseInv ==
  /\ \A w \in Workers : call[w] # NoCall => call[w].now <= clock
  /\ \A w \in Workers, j \in Jobs :
       Holds(w, j) => jobs[j].owner = w /\ jobs[j].expires = lease[w][j]
  /\ \A w \in Workers, j \in Jobs :
       jobs[j].status = "absent" => lease[w][j] = NoLease

-----------------------------------------------------------------------------
\* Every variable keeps its type.
THEOREM TypeCorrect == Safety => []TypeOK
<1> USE DEF Times, NoLease, JobStatus, JobRecords
<1>1. Init => TypeOK
  BY DEF Init, TypeOK
<1>2. TypeOK /\ [Next]_vars => TypeOK'
  <2> SUFFICES ASSUME TypeOK, [Next]_vars PROVE TypeOK'
    OBVIOUS
  <2> USE DEF TypeOK
  <2>1. CASE Tick
    BY <2>1 DEF Tick
  <2>2. ASSUME NEW w \in Workers, Claim(w) PROVE TypeOK'
    <3>1. call[w] \in Calls
      BY <2>2 DEF Claim
    <3>2. CASE Claimable(jobs[call[w].job], call[w].now)
      <4>1. call[w].job \in Jobs /\ call[w].now + Lease \in Nat
        BY <3>1, LeaseAssumption DEF Calls
      <4>2. jobs' \in [Jobs -> JobRecords]
        <5>1. jobs' = [jobs EXCEPT ![call[w].job].owner = w,
                                   ![call[w].job].expires = call[w].now + Lease,
                                   ![call[w].job].attempts = @ + 1]
          BY <2>2, <3>2 DEF Claim
        <5>2. QED
          BY <4>1, <5>1
      <4>3. lease' \in [Workers -> [Jobs -> Times]]
        <5>1. lease' = [lease EXCEPT ![w][call[w].job] = call[w].now + Lease]
          BY <2>2, <3>2 DEF Claim
        <5>2. QED
          BY <4>1, <5>1
      <4>4. QED
        BY <2>2, <4>2, <4>3 DEF Claim
    <3>3. CASE ~Claimable(jobs[call[w].job], call[w].now)
      BY <2>2, <3>3 DEF Claim
    <3>4. QED
      BY <3>2, <3>3
  <2>3. ASSUME NEW w \in Workers, Crash(w) PROVE TypeOK'
    BY <2>3 DEF Crash
  <2>4. ASSUME NEW j \in Jobs, Enqueue(j) PROVE TypeOK'
    BY <2>4 DEF Enqueue
  <2>5. ASSUME NEW j \in Jobs, FailIfMaxAttempts(j) PROVE TypeOK'
    BY <2>5, SMTT(60) DEF FailIfMaxAttempts
  <2>6. ASSUME NEW w \in Workers, NEW j \in Jobs, ReadClock(w, j) PROVE TypeOK'
    BY <2>6 DEF ReadClock, Calls
  <2>7. ASSUME NEW w \in Workers, NEW j \in Jobs, CompleteJob(w, j) PROVE TypeOK'
    BY <2>7, ZenonT(60) DEF CompleteJob, Report
  <2>8. ASSUME NEW w \in Workers, NEW j \in Jobs, FailJob(w, j) PROVE TypeOK'
    BY <2>8 DEF FailJob, Report
  <2>9. CASE UNCHANGED vars
    BY <2>9 DEF vars
  <2>10. QED
    BY <2>1, <2>2, <2>3, <2>4, <2>5, <2>6, <2>7, <2>8, <2>9 DEF Next
<1>3. QED
  BY <1>1, <1>2, PTL DEF Safety

\* LeaseInv is inductive.
LEMMA LeaseKnown == Safety => []LeaseInv
<1> USE DEF LeaseInv, Holds, NoLease
<1>1. Init => LeaseInv
  BY DEF Init
<1>2. TypeOK /\ LeaseInv /\ [Next]_vars => LeaseInv'
  <2> SUFFICES ASSUME TypeOK, LeaseInv, [Next]_vars PROVE LeaseInv'
    OBVIOUS
  <2> USE DEF TypeOK, Times, JobRecords
  <2>1. CASE Tick
    <3>1. \A w \in Workers : call[w] # NoCall => call[w].now \in Nat
      BY DEF Calls
    <3>2. \A w \in Workers, j \in Jobs : Holds(w, j)' => Holds(w, j)
      BY <2>1 DEF Tick
    <3>3. QED
      BY <2>1, <3>1, <3>2 DEF Tick
  <2>2. ASSUME NEW w \in Workers, Claim(w) PROVE LeaseInv'
    <3> DEFINE job == call[w].job
               now == call[w].now
    <3>1. call[w] \in Calls /\ job \in Jobs /\ now \in Nat /\ now <= clock
      BY <2>2 DEF Claim, Calls
    <3>2. CASE Claimable(jobs[job], now)
      <4>1. /\ jobs' = [jobs EXCEPT ![job].owner = w, ![job].expires = now + Lease,
                                    ![job].attempts = @ + 1]
            /\ lease' = [lease EXCEPT ![w][job] = now + Lease]
            /\ call' = [call EXCEPT ![w] = NoCall]
            /\ clock' = clock
        BY <2>2, <3>2 DEF Claim
      <4>2. \A x \in Workers : ~Holds(x, job)
        BY <3>1, <3>2, LeaseAssumption DEF Claimable
      <4>3. jobs[job].status # "absent"
        BY <3>2 DEF Claimable
      <4>4. QED
        BY <3>1, <4>1, <4>2, <4>3, LeaseAssumption
    <3>3. CASE ~Claimable(jobs[job], now)
      BY <2>2, <3>3 DEF Claim
    <3>4. QED
      BY <3>2, <3>3
  <2>3. ASSUME NEW w \in Workers, Crash(w) PROVE LeaseInv'
    BY <2>3 DEF Crash
  <2>4. ASSUME NEW j \in Jobs, Enqueue(j) PROVE LeaseInv'
    BY <2>4 DEF Enqueue
  <2>5. ASSUME NEW j \in Jobs, FailIfMaxAttempts(j) PROVE LeaseInv'
    BY <2>5 DEF FailIfMaxAttempts
  <2>6. ASSUME NEW w \in Workers, NEW j \in Jobs, ReadClock(w, j) PROVE LeaseInv'
    BY <2>6 DEF ReadClock
  <2>7. ASSUME NEW w \in Workers, NEW j \in Jobs, NEW s \in Settled, Report(w, j, s)
        PROVE  LeaseInv'
    BY <2>7 DEF Report, Settled
  <2>8. CASE UNCHANGED vars
    BY <2>8 DEF vars
  <2>9. QED
    BY <2>1, <2>2, <2>3, <2>4, <2>5, <2>6, <2>7, <2>8
       DEF Next, CompleteJob, FailJob, Settled
<1>3. QED
  BY <1>1, <1>2, TypeCorrect, PTL DEF Safety

\* Two workers never hold the same job at the same time.
THEOREM LeasesExclude == Safety => []LeaseExclusive
<1>1. LeaseInv => LeaseExclusive
  BY DEF LeaseInv, LeaseExclusive
<1>2. QED
  BY <1>1, LeaseKnown, PTL

\* A job is never granted more often than its attempts allow.
THEOREM AttemptsAreBounded == Safety => []AttemptsBounded
<1> USE DEF AttemptsBounded
<1>1. Init => AttemptsBounded
  BY LeaseAssumption DEF Init
<1>2. TypeOK /\ AttemptsBounded /\ [Next]_vars => AttemptsBounded'
  <2> SUFFICES ASSUME TypeOK, AttemptsBounded, [Next]_vars PROVE AttemptsBounded'
    OBVIOUS
  <2> USE LeaseAssumption DEF TypeOK, JobRecords
  <2>1. ASSUME NEW w \in Workers, Claim(w) PROVE AttemptsBounded'
    <3>1. call[w].job \in Jobs
      BY <2>1 DEF Claim, Calls
    <3>2. QED
      BY <2>1, <3>1 DEF Claim, Claimable
  <2>2. ASSUME NEW j \in Jobs, Enqueue(j) PROVE AttemptsBounded'
    BY <2>2 DEF Enqueue
  <2>3. ASSUME NEW j \in Jobs, FailIfMaxAttempts(j) PROVE AttemptsBounded'
    BY <2>3 DEF FailIfMaxAttempts
  <2>4. ASSUME NEW w \in Workers, NEW j \in Jobs, CompleteJob(w, j) \/ FailJob(w, j)
        PROVE  AttemptsBounded'
    BY <2>4, ZenonT(60) DEF CompleteJob, FailJob, Report
  <2>5. CASE \/ Tick
             \/ \E w \in Workers : Crash(w)
             \/ \E w \in Workers, j \in Jobs : ReadClock(w, j)
             \/ UNCHANGED vars
    BY <2>5 DEF Tick, Crash, ReadClock, vars
  <2>6. QED
    BY <2>1, <2>2, <2>3, <2>4, <2>5 DEF Next
<1>3. QED
  BY <1>1, <1>2, TypeCorrect, PTL DEF Safety

\* A settled job keeps its owner, its lease and its attempts, and stays settled.
THEOREM SettledStays == Safety => NeverReclaimed
<1> DEFINE Kept(i) == /\ jobs'[i].status \in Settled
                      /\ jobs'[i].owner = jobs[i].owner
                      /\ jobs'[i].expires = jobs[i].expires
                      /\ jobs'[i].attempts = jobs[i].attempts
<1>1. TypeOK /\ [Next]_vars
        => [\A j \in Jobs :
              jobs[j].status \in Settled =>
                /\ jobs'[j].status \in Settled
                /\ jobs'[j].owner = jobs[j].owner
                /\ jobs'[j].expires = jobs[j].expires
                /\ jobs'[j].attempts = jobs[j].attempts]_vars
  <2> SUFFICES ASSUME TypeOK, [Next]_vars, NEW i \in Jobs, jobs[i].status \in Settled
               PROVE  Kept(i)
    OBVIOUS
  <2> USE DEF TypeOK, JobRecords, Settled
  <2>1. ASSUME NEW w \in Workers, Claim(w) PROVE Kept(i)
    <3>1. call[w].job \in Jobs
      BY <2>1 DEF Claim, Calls
    <3>2. QED
      BY <2>1, <3>1 DEF Claim, Claimable
  <2>2. ASSUME NEW j \in Jobs, Enqueue(j) PROVE Kept(i)
    BY <2>2 DEF Enqueue
  <2>3. ASSUME NEW j \in Jobs, FailIfMaxAttempts(j) PROVE Kept(i)
    BY <2>3 DEF FailIfMaxAttempts
  <2>4. ASSUME NEW w \in Workers, NEW j \in Jobs, CompleteJob(w, j) \/ FailJob(w, j)
        PROVE  Kept(i)
    BY <2>4 DEF CompleteJob, FailJob, Report
  <2>5. CASE \/ Tick
             \/ \E w \in Workers : Crash(w)
             \/ \E w \in Workers, j \in Jobs : ReadClock(w, j)
             \/ UNCHANGED vars
    BY <2>5 DEF Tick, Crash, ReadClock, vars
  <2>6. QED
    BY <2>1, <2>2, <2>3, <2>4, <2>5 DEF Next
<1>2. QED
  BY <1>1, TypeCorrect, PTL DEF Safety, NeverReclaimed

-----------------------------------------------------------------------------
\* What a late report can do: a job handed out once has one holder at most, and
\* when that one has reported nobody is left to report on it again.
GrantInv ==
  \A j \in Jobs :
    LET Held(w) == lease[w][j] # NoLease
    IN  /\ jobs[j].attempts = 0 => \A w \in Workers : ~Held(w)
        /\ jobs[j].attempts < 2 =>
             /\ \A w, x \in Workers : Held(w) /\ Held(x) => w = x
             /\ (jobs[j].status \in Settled /\ jobs[j].attempts < MaxAttempts) =>
                  \A w \in Workers : ~Held(w)

\* GrantInv is inductive.
LEMMA GrantsKnown == Safety => []GrantInv
<1> USE DEF GrantInv, NoLease, Settled
<1>1. Init => GrantInv
  BY DEF Init
<1>2. TypeOK /\ LeaseInv /\ GrantInv /\ [Next]_vars => GrantInv'
  <2> SUFFICES ASSUME TypeOK, LeaseInv, GrantInv, [Next]_vars PROVE GrantInv'
    OBVIOUS
  <2> USE DEF TypeOK, Times, JobRecords
  <2>1. ASSUME NEW w \in Workers, Claim(w) PROVE GrantInv'
    <3> DEFINE job == call[w].job
               now == call[w].now
    <3>1. call[w] \in Calls /\ job \in Jobs /\ now \in Nat
      BY <2>1 DEF Claim, Calls
    <3>2. CASE Claimable(jobs[job], now)
      <4>1. /\ jobs' = [jobs EXCEPT ![job].owner = w, ![job].expires = now + Lease,
                                    ![job].attempts = @ + 1]
            /\ lease' = [lease EXCEPT ![w][job] = now + Lease]
        BY <2>1, <3>2 DEF Claim
      <4>2. jobs[job].status = "queued"
        BY <3>2 DEF Claimable
      <4>3. QED
        BY <3>1, <4>1, <4>2, LeaseAssumption
    <3>3. CASE ~Claimable(jobs[job], now)
      BY <2>1, <3>3 DEF Claim
    <3>4. QED
      BY <3>2, <3>3
  <2>2. ASSUME NEW w \in Workers, Crash(w) PROVE GrantInv'
    BY <2>2 DEF Crash
  <2>3. ASSUME NEW i \in Jobs, Enqueue(i) PROVE GrantInv'
    BY <2>3 DEF Enqueue, LeaseInv
  <2>4. ASSUME NEW i \in Jobs, FailIfMaxAttempts(i) PROVE GrantInv'
    BY <2>4, LeaseAssumption DEF FailIfMaxAttempts
  <2>5. ASSUME NEW w \in Workers, NEW i \in Jobs, NEW t \in Settled, Report(w, i, t)
        PROVE  GrantInv'
    <3>1. /\ jobs' = [jobs EXCEPT ![i].status = t]
          /\ lease' = [lease EXCEPT ![w][i] = NoLease]
          /\ lease[w][i] # NoLease
      BY <2>5 DEF Report
    <3>2. QED
      BY <3>1
  <2>6. CASE Tick \/ (\E w \in Workers, i \in Jobs : ReadClock(w, i)) \/ UNCHANGED vars
    BY <2>6 DEF Tick, ReadClock, vars
  <2>7. QED
    BY <2>1, <2>2, <2>3, <2>4, <2>5, <2>6 DEF Next, CompleteJob, FailJob
<1>3. QED
  BY <1>1, <1>2, TypeCorrect, LeaseKnown, PTL DEF Safety

\* A terminal status is overwritten only after a second or a last hand-out.
THEOREM OverwritesAreExplained == Safety => OverwriteExplained
<1> DEFINE Explained(i) == jobs[i].attempts >= 2 \/ jobs[i].attempts >= MaxAttempts
<1>1. TypeOK /\ GrantInv /\ [Next]_vars
        => [\A j \in Jobs :
              (jobs[j].status \in Settled /\ jobs'[j].status # jobs[j].status) =>
                jobs[j].attempts >= 2 \/ jobs[j].attempts >= MaxAttempts]_vars
  <2> SUFFICES ASSUME TypeOK, GrantInv, [Next]_vars, NEW i \in Jobs,
                      jobs[i].status \in Settled, jobs'[i].status # jobs[i].status
               PROVE  Explained(i)
    OBVIOUS
  <2> USE LeaseAssumption DEF TypeOK, JobRecords, Settled
  <2>1. ASSUME NEW w \in Workers, Claim(w) PROVE Explained(i)
    <3>1. call[w].job \in Jobs
      BY <2>1 DEF Claim, Calls
    <3>2. QED
      BY <2>1, <3>1 DEF Claim, Claimable
  <2>2. ASSUME NEW j \in Jobs, Enqueue(j) PROVE Explained(i)
    BY <2>2 DEF Enqueue
  <2>3. ASSUME NEW j \in Jobs, FailIfMaxAttempts(j) PROVE Explained(i)
    BY <2>3 DEF FailIfMaxAttempts
  <2>4. ASSUME NEW w \in Workers, NEW j \in Jobs, CompleteJob(w, j) \/ FailJob(w, j)
        PROVE  Explained(i)
    <3>1. i = j /\ lease[w][i] # NoLease
      BY <2>4 DEF CompleteJob, FailJob, Report
    <3>2. QED
      BY <3>1 DEF GrantInv
  <2>5. CASE \/ Tick
             \/ \E w \in Workers : Crash(w)
             \/ \E w \in Workers, j \in Jobs : ReadClock(w, j)
             \/ UNCHANGED vars
    BY <2>5 DEF Tick, Crash, ReadClock, vars
  <2>6. QED
    BY <2>1, <2>2, <2>3, <2>4, <2>5 DEF Next
<1>2. QED
  BY <1>1, TypeCorrect, GrantsKnown, PTL DEF Safety, OverwriteExplained

-----------------------------------------------------------------------------
\* The lease promises of claim_job, together: LeasesSound as the runs check it.
THEOREM LeasesAreSound == Safety => []LeasesSound
BY TypeCorrect, LeasesExclude, AttemptsAreBounded, PTL DEF LeasesSound

\* What remains of a job once it is settled: SettledSound as the runs check it.
THEOREM SettledIsSound == Safety => SettledSound
BY SettledStays, OverwritesAreExplained, PTL DEF SettledSound

-----------------------------------------------------------------------------
(* The events table *)

\* All threads record through one instance.
Shared == \A t, u \in Threads : InstanceOf[t] = InstanceOf[u]

\* A thread between its SELECT and its INSERT is in its instance's lock, holds
\* the next free number, and the reader's cursor is behind the rows.
LogInv ==
  /\ \A t \in Threads : selected[t] # Idle => lock[InstanceOf[t]] = t
  /\ \A t \in Threads : selected[t] # Idle => selected[t] = Len(rows)
  /\ GaplessLog
  /\ cursor < Len(rows)
  /\ ResumeComplete

-----------------------------------------------------------------------------
\* Every variable keeps its type.
THEOREM LogTypeCorrect == LogSafety => []LogTypeOK
<1> USE EventLogAssumption DEF Idle
<1>1. LogInit => LogTypeOK
  BY DEF LogInit, LogTypeOK
<1>2. LogTypeOK /\ [LogNext]_logvars => LogTypeOK'
  <2> SUFFICES ASSUME LogTypeOK, [LogNext]_logvars PROVE LogTypeOK'
    OBVIOUS
  <2> USE DEF LogTypeOK
  <2>1. ASSUME NEW t \in Threads, Select(t) PROVE LogTypeOK'
    BY <2>1 DEF Select
  <2>2. ASSUME NEW t \in Threads, Insert(t) PROVE LogTypeOK'
    BY <2>2 DEF Insert, Release
  <2>3. ASSUME NEW t \in Threads, InsertFails(t) PROVE LogTypeOK'
    BY <2>3 DEF InsertFails, Release
  <2>4. ASSUME NEW i \in Instances, GetEventsSince(i) PROVE LogTypeOK'
    <3>1. seen' \subseteq Nat
      <4>1. DOMAIN rows \subseteq Nat
        OBVIOUS
      <4>2. QED
        BY <2>4, <4>1 DEF GetEventsSince
    <3>2. cursor' \in Nat
      BY <2>4 DEF GetEventsSince
    <3>3. QED
      BY <2>4, <3>1, <3>2 DEF GetEventsSince
  <2>5. CASE UNCHANGED logvars
    BY <2>5 DEF logvars
  <2>6. QED
    BY <2>1, <2>2, <2>3, <2>4, <2>5 DEF LogNext
<1>3. QED
  BY <1>1, <1>2, PTL DEF LogSafety

\* In a log without gaps the next sequence number is the number of rows.
LEMMA NextIsLength ==
  ASSUME LogTypeOK, GaplessLog, NEW n \in Nat, IsNextSequence(n)
  PROVE  n = Len(rows)
<1>1. CASE rows = <<>>
  BY <1>1 DEF IsNextSequence
<1>2. CASE rows # <<>>
  <2>1. Len(rows) \in DOMAIN rows /\ rows[Len(rows)] = Len(rows) - 1
    BY <1>2 DEF LogTypeOK, GaplessLog
  <2>2. QED
    BY <1>2, <2>1 DEF LogTypeOK, GaplessLog, IsNextSequence
<1>3. QED
  BY <1>1, <1>2

\* LogInv is inductive when the threads share an instance.
LEMMA LogKnown == ASSUME Shared PROVE LogSafety => []LogInv
<1> USE EventLogAssumption DEF LogInv, Idle
<1>1. LogInit => LogInv
  BY DEF LogInit, GaplessLog, ResumeComplete
<1>2. LogTypeOK /\ LogInv /\ [LogNext]_logvars => LogInv'
  <2> SUFFICES ASSUME LogTypeOK, LogInv, [LogNext]_logvars PROVE LogInv'
    OBVIOUS
  <2> USE DEF LogTypeOK
  <2>1. ASSUME NEW t \in Threads, Select(t) PROVE LogInv'
    <3>1. \A u \in Threads : selected[u] = Idle
      BY <2>1 DEF Select, Shared
    <3>2. PICK n \in 0..Len(rows) :
            IsNextSequence(n) /\ selected' = [selected EXCEPT ![t] = n]
      BY <2>1 DEF Select
    <3>3. n = Len(rows)
      BY <3>2, NextIsLength
    <3>4. QED
      BY <2>1, <3>1, <3>2, <3>3 DEF Select, GaplessLog, ResumeComplete
  <2>2. ASSUME NEW t \in Threads, Insert(t) PROVE LogInv'
    <3>1. rows' = Append(rows, Len(rows)) /\ UNCHANGED <<cursor, seen>>
      BY <2>2 DEF Insert
    <3>2. \A u \in Threads : selected'[u] = Idle
      BY <2>2 DEF Insert, Release, Shared
    <3>3. GaplessLog' /\ cursor' < Len(rows')
      BY <3>1 DEF GaplessLog
    <3>4. ResumeComplete'
      BY <3>1 DEF ResumeComplete
    <3>5. QED
      BY <3>2, <3>3, <3>4
  <2>3. ASSUME NEW t \in Threads, InsertFails(t) PROVE LogInv'
    <3>1. \A u \in Threads : selected'[u] = Idle
      BY <2>3 DEF InsertFails, Release, Shared
    <3>2. QED
      BY <2>3, <3>1 DEF InsertFails, GaplessLog, ResumeComplete
  <2>4. ASSUME NEW i \in Instances, GetEventsSince(i) PROVE LogInv'
    <3> DEFINE new == {k \in DOMAIN rows : rows[k] > cursor}
    <3>1. PICK k \in new : (\A m \in new : rows[m] <= rows[k]) /\ cursor' = rows[k]
      BY <2>4 DEF GetEventsSince
    <3>2. \A m \in DOMAIN rows : rows[m] <= cursor'
      BY <3>1
    <3>3. cursor' < Len(rows)
      BY <3>1 DEF GaplessLog
    <3>4. rows' = rows /\ lock' = lock /\ selected' = selected
      BY <2>4 DEF GetEventsSince
    <3>5. seen' = DOMAIN rows
      <4>1. seen' = seen \cup new
        BY <2>4 DEF GetEventsSince
      <4>2. seen \cup new = DOMAIN rows
        <5>1. \A m \in DOMAIN rows : rows[m] <= cursor \/ rows[m] > cursor
          OBVIOUS
        <5>2. seen = {m \in DOMAIN rows : rows[m] <= cursor}
          BY DEF ResumeComplete
        <5>3. QED
          BY ONLY <5>1, <5>2
      <4>3. QED
        BY <4>1, <4>2
    <3>6. GaplessLog'
      BY <3>4 DEF GaplessLog
    <3>7. ResumeComplete'
      BY <3>2, <3>4, <3>5 DEF ResumeComplete
    <3>8. QED
      BY <3>3, <3>4, <3>6, <3>7
  <2>5. CASE UNCHANGED logvars
    BY <2>5 DEF logvars, GaplessLog, ResumeComplete
  <2>6. QED
    BY <2>1, <2>2, <2>3, <2>4, <2>5 DEF LogNext
<1>3. QED
  BY <1>1, <1>2, LogTypeCorrect, PTL DEF LogSafety

\* With one instance the sequence numbers count the rows.
THEOREM SharedLogIsGapless == ASSUME Shared PROVE LogSafety => []GaplessLog
<1>1. LogInv => GaplessLog
  BY DEF LogInv
<1>2. QED
  BY <1>1, LogKnown, PTL

\* With one instance a reader that resumes from its last id misses no row.
THEOREM SharedResumeIsComplete == ASSUME Shared PROVE LogSafety => []ResumeComplete
<1>1. LogInv => ResumeComplete
  BY DEF LogInv
<1>2. QED
  BY <1>1, LogKnown, PTL

\* The log of threads that share an instance is sound, for any number of threads.
THEOREM SharedLogIsSound == ASSUME Shared PROVE LogSafety => []LogSound
BY LogTypeCorrect, SharedLogIsGapless, PTL DEF LogSound

-----------------------------------------------------------------------------
(* The SSE stream *)

\* The events, counted from the first persisted one, that the connection is past.
Read == Len(log) - Len(toReplay) - Len(transit)

\* StreamTypeOK but for the range of toReplay, which Window gives.
Types ==
  /\ log \in Seq(Events)
  /\ run \in 0..MaxRuns
  /\ emitted \in 0..EventsPerRun
  /\ stream \in {"none", "replaying", "live"}
  /\ toReplay \in Seq(Int)
  /\ replayed \in Nat \cup {None}
  /\ transit \in Seq(Messages)
  /\ counter \in Nat
  /\ restarts \in 0..MaxRestarts
  /\ got \subseteq Events
  /\ lastId \in Nat \cup {None}
  /\ since \in 0..MaxRuns

\* What is in transit and then what is to be replayed are the log from Read on,
\* each message under an id that does not run ahead of its place.
Window ==
  /\ Read >= 0
  /\ \A k \in 1..Len(toReplay) : toReplay[k] = Len(log) - Len(toReplay) + k
  /\ \A m \in 1..Len(transit) : transit[m].event = log[Read + m] /\ transit[m].id <= Read + m

\* Which parts of the window there are in which stage, and where the client is.
StreamStages ==
  /\ stream = "none" => toReplay = <<>> /\ transit = <<>>
  /\ stream = "live" => toReplay = <<>>
  /\ stream # "none" => since > 0 /\ lastId <= Read
  /\ stream = "replaying" =>
       /\ lastId < Read \/ Read = Len(log)
       /\ \A m \in 1..Len(transit) : transit[m].id = Read + m - 1
  /\ since <= run
  /\ \A j \in 1..Len(log) : log[j].run <= run

\* The counter follows the log; after a restart it lags behind.
Counters ==
  /\ counter <= Len(log) /\ replayed < Len(log) /\ lastId <= Len(log)
  /\ restarts = 0 => counter = Len(log)

StreamInv == Types /\ Window /\ StreamStages /\ Counters /\ IdsIncrease

-----------------------------------------------------------------------------
LEMMA MessageTypes ==
  ASSUME NEW id \in Nat, NEW e \in Events
  PROVE  [id |-> id, event |-> e] \in Messages
BY DEF Messages

LEMMA StreamStarts == StreamInit => StreamInv
BY EventStreamAssumption
   DEF StreamInit, StreamInv, Types, Read, Window, StreamStages, Counters, IdsIncrease, None

\* The client reads a message.
LEMMA ReceiveStep == ASSUME StreamInv, Receive PROVE StreamInv'
<1> USE DEF StreamInv, None
<1>1. /\ transit \in Seq(Messages) /\ transit # <<>> /\ Len(transit) \in Nat \ {0}
      /\ transit[1] = Head(transit) /\ Head(transit) \in Messages
      /\ transit' = Tail(transit) /\ transit' \in Seq(Messages)
      /\ Len(transit') = Len(transit) - 1
      /\ \A m \in 1..Len(transit') : transit'[m] = transit[m + 1]
  BY DEF Receive, Types
<1>2. /\ UNCHANGED <<log, run, emitted, stream, toReplay, replayed, counter, restarts, since>>
      /\ got' = got \cup {Head(transit).event} /\ lastId' = Larger(lastId, Head(transit).id)
  BY DEF Receive, execution, server
<1>3. /\ Head(transit).id \in Nat /\ Head(transit).event \in Events
      /\ \A m \in 1..Len(transit) : transit[m].id \in Nat
  <2>1. \A m \in 1..Len(transit) : transit[m] \in Messages
    BY <1>1
  <2> QED
    BY <1>1, <2>1 DEF Messages
<1>4. Read' = Read + 1 /\ Read \in Int /\ Len(log) \in Nat /\ Len(toReplay) \in Nat
  BY <1>1, <1>2 DEF Read, Types
<1>5. lastId' \in Nat /\ lastId' <= Read' /\ lastId' >= lastId /\ lastId' >= Head(transit).id
      /\ (lastId' = lastId \/ lastId' = Head(transit).id)
  <2>1. lastId' = IF lastId > Head(transit).id THEN lastId ELSE Head(transit).id
    BY <1>2 DEF Larger
  <2>2. lastId \in Int /\ Head(transit).id \in Nat /\ lastId <= Read
    BY <1>1, <1>3 DEF Types, StreamStages
  <2>3. 1 \in 1..Len(transit) /\ transit[1].id <= Read + 1
    BY <1>1 DEF Window
  <2> QED
    BY <1>1, <1>4, <2>1, <2>2, <2>3
<1>6. Types'
  BY <1>1, <1>2, <1>3, <1>5 DEF Types
<1>7. Window'
  <2>1. Read >= 0
    BY DEF Window
  <2>2. \A k \in 1..Len(toReplay') : toReplay'[k] = Len(log') - Len(toReplay') + k
    BY <1>2 DEF Window
  <2>3. ASSUME NEW m \in 1..Len(transit')
        PROVE  transit'[m].event = log'[Read' + m] /\ transit'[m].id <= Read' + m
    <3>1. m + 1 \in 1..Len(transit) /\ transit'[m] = transit[m + 1]
      BY <1>1
    <3>2. /\ transit[m + 1].event = log[Read + (m + 1)]
          /\ transit[m + 1].id <= Read + (m + 1)
      BY <3>1 DEF Window
    <3>3. Read' + m = Read + (m + 1)
      BY <1>1, <1>4
    <3> QED
      BY <1>2, <3>1, <3>2, <3>3
  <2>4. Read' >= 0
    BY <1>4, <2>1
  <2> QED
    BY <2>2, <2>3, <2>4 DEF Window
<1>8. StreamStages'
  BY <1>1, <1>2, <1>3, <1>4, <1>5, SMTT(60) DEF StreamStages, Types, Window
<1>9. Counters'
  BY <1>1, <1>2, <1>4, <1>5 DEF Counters, Types, Window, Read
<1>10. IdsIncrease'
  <2> SUFFICES ASSUME restarts = 0, NEW m \in 1..Len(transit')
               PROVE  /\ transit'[m].id > lastId'
                      /\ \A n \in 1..Len(transit') : n < m => transit'[n].id < transit'[m].id
    BY <1>1, <1>2 DEF IdsIncrease
  <2>1. /\ transit[m + 1].id > lastId
        /\ \A n \in 1..Len(transit) : n < m + 1 => transit[n].id < transit[m + 1].id
    BY <1>1 DEF IdsIncrease
  <2> QED
    BY <1>1, <1>3, <1>5, <2>1
<1> QED
  BY <1>6, <1>7, <1>8, <1>9, <1>10

\* A client connects, for the first time or again.
LEMMA ConnectStep == ASSUME StreamInv, Connect PROVE StreamInv'
<1> USE DEF StreamInv, None
<1>1. /\ UNCHANGED <<log, toReplay, replayed, transit, counter, restarts>>
      /\ run < MaxRuns /\ run' = run + 1 /\ emitted' = 0 /\ stream' = "live"
      /\ got' = {} /\ lastId' = -1 /\ since' = run + 1 /\ toReplay = <<>> /\ transit = <<>>
  BY DEF Connect, StartExecution, server, StreamStages
<1>2. Read' = Len(log) /\ Len(log) \in Nat /\ run \in Nat
  BY <1>1, EventStreamAssumption DEF Read, Types
<1>3. Types'
  BY <1>1, EventStreamAssumption DEF Types
<1>4. Window' /\ Counters' /\ IdsIncrease'
  BY <1>1, <1>2 DEF Window, Counters, IdsIncrease
<1>5. \A j \in 1..Len(log) : log[j].run <= run + 1
  <2>1. \A j \in 1..Len(log) : log[j] \in Events /\ log[j].run <= run
    BY DEF Types, StreamStages
  <2> QED
    BY <1>2, <2>1, EventStreamAssumption DEF Events
<1>6. StreamStages'
  BY <1>1, <1>2, <1>5 DEF StreamStages
<1> QED
  BY <1>3, <1>4, <1>6

LEMMA ReconnectStep == ASSUME StreamInv, Reconnect PROVE StreamInv'
<1> USE DEF StreamInv, None
<1> DEFINE n == Len(log) - 1 - lastId
<1>1. /\ UNCHANGED <<log, run, emitted, replayed, transit, counter, restarts, got, since>>
      /\ stream = "none" /\ stream' = "replaying" /\ since > 0 /\ transit = <<>>
      /\ toReplay' = EventsSince(lastId) /\ lastId' \in {lastId, None} /\ lastId' <= lastId
  BY DEF Reconnect, execution, server, Types, StreamStages
<1>2. Len(log) \in Nat /\ lastId \in Int /\ lastId >= -1 /\ n \in Int
  BY DEF Types
<1>3. CASE n <= 0
  <2>1. toReplay' = <<>> /\ Len(log) <= lastId + 1
    BY <1>1, <1>2, <1>3 DEF EventsSince
  <2> QED
    BY <1>1, <1>2, <2>1
       DEF Types, Window, StreamStages, Counters, IdsIncrease, Read
<1>4. CASE n > 0
  <2>1. toReplay' = [k \in 1..n |-> lastId + 1 + k]
    BY <1>1 DEF EventsSince
  <2>2. /\ toReplay' \in Seq(Int) /\ Len(toReplay') = n
        /\ \A k \in 1..n : toReplay'[k] = lastId + 1 + k
    BY <1>2, <1>4, <2>1
  <2>3. Read' = lastId + 1 /\ Len(transit') = 0
    BY <1>1, <1>2, <2>2 DEF Read
  <2>4. Types' /\ Counters' /\ IdsIncrease'
    BY <1>1, <1>2, <2>2, <2>3 DEF Types, Counters, IdsIncrease
  <2>5. Window' /\ StreamStages'
    BY <1>1, <1>2, <2>2, <2>3 DEF Window, StreamStages
  <2> QED
    BY <2>4, <2>5
<1> QED
  BY <1>2, <1>3, <1>4

-----------------------------------------------------------------------------
\* A turn of the replay loop.
LEMMA ReplayStep == ASSUME StreamInv, Replay PROVE StreamInv'
<1> USE DEF StreamInv, None
<1> DEFINE i == Head(toReplay)
           msg == [id |-> i - 1, event |-> log[i]]
<1>1. /\ UNCHANGED <<log, run, emitted, stream, restarts, got, lastId, since>>
      /\ stream = "replaying" /\ toReplay # <<>>
      /\ transit' = Append(transit, msg) /\ replayed' = i - 1
      /\ counter' = Larger(counter, replayed) /\ toReplay' = Tail(toReplay)
  BY DEF Replay, execution, client
<1>2. /\ Len(log) \in Nat /\ Len(transit) \in Nat /\ Len(toReplay) \in Nat \ {0}
      /\ Len(toReplay') = Len(toReplay) - 1 /\ toReplay' \in Seq(Int)
      /\ \A k \in 1..Len(toReplay') : toReplay'[k] = toReplay[k + 1]
      /\ i = toReplay[1]
  BY <1>1, SMTT(60) DEF Types
<1>3. /\ Read \in Nat /\ i = Len(log) - Len(toReplay) + 1 /\ i = Read + Len(transit) + 1
      /\ i \in 1..Len(log)
  BY <1>2 DEF Read, Window
<1>4. msg \in Messages /\ msg.id = i - 1 /\ msg.event = log[i]
  BY <1>2, <1>3, SMTT(60) DEF Types, Messages
<1>5. /\ transit' \in Seq(Messages) /\ Len(transit') = Len(transit) + 1
      /\ \A m \in 1..Len(transit) : transit'[m] = transit[m]
      /\ transit'[Len(transit) + 1] = msg
  BY <1>1, <1>4 DEF Types
<1>6. Read' = Read
  BY <1>1, <1>2, <1>5 DEF Read
<1>7. /\ counter' \in Nat /\ counter' <= Len(log) /\ counter' >= counter
      /\ counter = Len(log) => counter' = counter
  BY <1>1, <1>2 DEF Larger, Types, Counters
<1>8. Types'
  <2>1. replayed' \in Nat
    BY <1>1, <1>2, <1>3
  <2>2. toReplay' \in Seq(Int) /\ transit' \in Seq(Messages) /\ counter' \in Nat
    BY <1>2, <1>5, <1>7
  <2> QED
    BY <1>1, <2>1, <2>2 DEF Types
<1>9. Window'
  <2>1. \A k \in 1..Len(toReplay') : toReplay'[k] = Len(log) - Len(toReplay') + k
    BY <1>2 DEF Window
  <2>2. ASSUME NEW m \in 1..Len(transit')
        PROVE  transit'[m].event = log[Read + m] /\ transit'[m].id <= Read + m
    <3>1. CASE m = Len(transit) + 1
      BY <1>2, <1>3, <1>4, <1>5, <3>1
    <3>2. CASE m # Len(transit) + 1
      <4>1. m \in 1..Len(transit) /\ transit'[m] = transit[m]
        BY <1>2, <1>5, <3>2
      <4> QED
        BY <4>1 DEF Window
    <3> QED
      BY <3>1, <3>2
  <2> QED
    BY <1>1, <1>3, <1>6, <2>1, <2>2 DEF Window
<1>10. StreamStages'
  <2>1. ASSUME NEW m \in 1..Len(transit') PROVE transit'[m].id = Read + m - 1
    <3>1. CASE m = Len(transit) + 1
      BY <1>2, <1>3, <1>4, <1>5, <3>1
    <3>2. CASE m # Len(transit) + 1
      <4>1. m \in 1..Len(transit) /\ transit'[m] = transit[m]
        BY <1>2, <1>5, <3>2
      <4> QED
        BY <1>1, <4>1 DEF StreamStages
    <3> QED
      BY <3>1, <3>2
  <2> QED
    BY <1>1, <1>6, <2>1 DEF StreamStages
<1>11. Counters'
  BY <1>1, <1>2, <1>3, <1>7 DEF Counters
<1>12. IdsIncrease'
  <2>1. lastId < Read /\ lastId \in Int
    <3>1. lastId < Read \/ Read = Len(log)
      BY <1>1 DEF StreamStages
    <3>2. Read # Len(log)
      BY <1>2, <1>3
    <3> QED
      BY <3>1, <3>2 DEF Types
  <2>2. \A m \in 1..Len(transit') : transit'[m].id = Read + m - 1
    BY <1>1, <1>6, <1>10 DEF StreamStages
  <2>3. DOMAIN transit' = 1..Len(transit')
    BY <1>5
  <2> QED
    <3>1. ASSUME NEW m \in DOMAIN transit'
          PROVE  /\ transit'[m].id > lastId'
                 /\ \A n \in DOMAIN transit' : n < m => transit'[n].id < transit'[m].id
      <4>1. m \in 1..Len(transit') /\ Len(transit') \in Nat /\ transit'[m].id = Read + m - 1
        BY <1>2, <1>5, <2>2, <2>3, <3>1
      <4>2. transit'[m].id > lastId'
        BY <1>1, <1>3, <2>1, <4>1, SMTT(60)
      <4>3. ASSUME NEW n \in DOMAIN transit', n < m PROVE transit'[n].id < transit'[m].id
        <5>1. n \in 1..Len(transit') /\ transit'[n].id = Read + n - 1
          BY <2>2, <2>3
        <5> QED
          BY <1>3, <4>1, <4>3, <5>1
      <4> QED
        BY <4>2, <4>3
    <3> QED
      BY <3>1 DEF IdsIncrease
<1> QED
  BY <1>8, <1>9, <1>10, <1>11, <1>12

\* The request is executed again.
LEMMA RunAfterReplayStep == ASSUME StreamInv, RunAfterReplay PROVE StreamInv'
<1> USE DEF StreamInv, None
<1>1. /\ UNCHANGED <<log, toReplay, transit, restarts, got, lastId, since>>
      /\ stream = "replaying" /\ toReplay = <<>> /\ stream' = "live"
      /\ run < MaxRuns /\ run' = run + 1 /\ emitted' = 0
      /\ counter' = Larger(counter, replayed) /\ replayed' = -1
  BY DEF RunAfterReplay, StartExecution, client
<1>2. Read' = Read /\ Len(log) \in Nat /\ run \in Nat /\ since \in Nat
  BY <1>1, EventStreamAssumption DEF Read, Types
<1>3. /\ counter' \in Nat /\ counter' <= Len(log) /\ counter' >= counter
      /\ counter = Len(log) => counter' = counter
  BY <1>1, <1>2 DEF Larger, Types, Counters
<1>4. Types'
  BY <1>1, <1>3, EventStreamAssumption DEF Types
<1>5. Window' /\ Counters' /\ IdsIncrease'
  BY <1>1, <1>2, <1>3 DEF Window, Counters, IdsIncrease
<1>6. \A j \in 1..Len(log) : log[j].run <= run + 1
  <2>1. \A j \in 1..Len(log) : log[j] \in Events /\ log[j].run <= run
    BY DEF Types, StreamStages
  <2> QED
    BY <1>2, <2>1, EventStreamAssumption DEF Events
<1>7. StreamStages'
  BY <1>1, <1>2, <1>6 DEF StreamStages
<1> QED
  BY <1>4, <1>5, <1>7

\* An event is recorded, numbered and sent.
LEMMA EmitStep == ASSUME StreamInv, Emit PROVE StreamInv'
<1> USE DEF StreamInv, None
<1> DEFINE e == [run |-> run, k |-> emitted + 1]
           msg == [id |-> counter', event |-> log'[Len(log')]]
<1>1. /\ UNCHANGED <<run, stream, toReplay, replayed, restarts, got, lastId, since>>
      /\ stream = "live" /\ toReplay = <<>> /\ emitted < EventsPerRun /\ emitted' = emitted + 1
      /\ log' = Append(log, e) /\ counter' = counter + 1 /\ transit' = Append(transit, msg)
  BY DEF Emit, client, StreamStages
<1>2. run \in 1..MaxRuns /\ emitted + 1 \in 1..EventsPerRun /\ e \in Events /\ e.run = run
  BY <1>1, EventStreamAssumption DEF Types, StreamStages, Events
<1>3. /\ Len(log) \in Nat /\ Len(log') = Len(log) + 1 /\ log' \in Seq(Events)
      /\ \A j \in 1..Len(log) : log'[j] = log[j]
      /\ log'[Len(log) + 1] = e
  BY <1>1, <1>2 DEF Types
<1>4. msg \in Messages /\ msg.id = counter + 1 /\ msg.event = e
  BY <1>1, <1>2, <1>3 DEF Types, Messages
<1>5. /\ Len(transit) \in Nat /\ Len(transit') = Len(transit) + 1 /\ transit' \in Seq(Messages)
      /\ \A m \in 1..Len(transit) : transit'[m] = transit[m]
      /\ transit'[Len(transit) + 1] = msg
  BY <1>1, <1>4 DEF Types
<1>6. Read' = Read /\ Read = Len(log) - Len(transit) /\ Read \in Nat
  BY <1>1, <1>3, <1>5 DEF Read, Window
<1>7. Types'
  BY <1>1, <1>2, <1>3, <1>5, EventStreamAssumption DEF Types
<1>8. Window'
  <2>1. ASSUME NEW m \in 1..Len(transit')
        PROVE  transit'[m].event = log'[Read + m] /\ transit'[m].id <= Read + m
    <3>1. CASE m = Len(transit) + 1
      <4>1. transit'[m] = msg /\ Read + m = Len(log) + 1
        BY <1>3, <1>5, <1>6, <3>1
      <4>2. counter \in Nat /\ counter <= Len(log)
        BY DEF Counters, Types
      <4> QED
        BY <1>3, <1>4, <4>1, <4>2
    <3>2. CASE m # Len(transit) + 1
      <4>1. m \in 1..Len(transit) /\ transit'[m] = transit[m]
        BY <1>5, <3>2
      <4>2. transit[m].event = log[Read + m] /\ transit[m].id <= Read + m
        BY <4>1 DEF Window
      <4>3. log'[Read + m] = log[Read + m]
        <5>1. Read + m \in 1..Len(log)
          BY <1>3, <1>5, <1>6, <4>1
        <5> QED
          BY <1>3, <5>1
      <4> QED
        BY <4>1, <4>2, <4>3
    <3> QED
      BY <3>1, <3>2
  <2> QED
    <3>1. Len(toReplay') = 0
      BY <1>1
    <3>2. \A k \in 1..Len(toReplay') : toReplay'[k] = Len(log') - Len(toReplay') + k
      BY <3>1
    <3>3. Read' >= 0 /\ \A m \in 1..Len(transit') :
            transit'[m].event = log'[Read' + m] /\ transit'[m].id <= Read' + m
      BY <1>6, <2>1
    <3> QED
      BY <3>2, <3>3 DEF Window
<1>9. StreamStages'
  BY <1>1, <1>2, <1>3, <1>6 DEF StreamStages
<1>10. Counters'
  BY <1>1, <1>3 DEF Counters, Types
<1>11. IdsIncrease'
  <2> SUFFICES ASSUME restarts = 0 PROVE IdsIncrease'
    BY <1>1 DEF IdsIncrease
  <2>1. counter = Len(log) /\ lastId <= Len(log) /\ lastId \in Int
    BY DEF Counters, Types
  <2>2. ASSUME NEW m \in 1..Len(transit)
        PROVE  transit[m].id \in Nat /\ transit[m].id <= Len(log)
    <3>1. transit[m] \in Messages
      BY DEF Types
    <3>2. transit[m].id \in Nat
      BY <3>1 DEF Messages
    <3>3. transit[m].id <= Read + m
      BY DEF Window
    <3> QED
      BY <1>3, <1>5, <1>6, <3>2, <3>3
  <2>3. DOMAIN transit' = 1..(Len(transit) + 1) /\ DOMAIN transit = 1..Len(transit)
    BY <1>5
  <2>4. transit'[Len(transit) + 1].id = Len(log) + 1
    BY <1>4, <1>5, <2>1
  <2>5. ASSUME NEW m \in 1..(Len(transit) + 1)
        PROVE  /\ transit'[m].id > lastId
               /\ \A n \in 1..(Len(transit) + 1) : n < m => transit'[n].id < transit'[m].id
    <3>1. CASE m = Len(transit) + 1
      <4>1. transit'[m].id = Len(log) + 1 /\ transit'[m].id > lastId
        BY <1>3, <2>1, <2>4, <3>1
      <4>2. ASSUME NEW n \in 1..(Len(transit) + 1), n < m PROVE transit'[n].id <= Len(log)
        <5>1. n \in 1..Len(transit) /\ transit'[n] = transit[n]
          BY <1>5, <3>1, <4>2
        <5> QED
          BY <2>2, <5>1
      <4>3. ASSUME NEW n \in 1..(Len(transit) + 1), n < m PROVE transit'[n].id \in Nat
        <5>1. n \in 1..Len(transit) /\ transit'[n] = transit[n]
          BY <1>5, <3>1, <4>3
        <5> QED
          BY <2>2, <5>1
      <4> QED
        BY <1>3, <4>1, <4>2, <4>3
    <3>2. CASE m # Len(transit) + 1
      <4>1. m \in 1..Len(transit) /\ \A n \in 1..m : transit'[n] = transit[n]
        BY <1>5, <3>2
      <4>2. /\ transit[m].id > lastId
            /\ \A n \in 1..Len(transit) : n < m => transit[n].id < transit[m].id
        BY <2>3, <4>1 DEF IdsIncrease
      <4> QED
        BY <1>5, <4>1, <4>2
    <3> QED
      BY <3>1, <3>2
  <2> QED
    BY <1>1, <2>3, <2>5 DEF IdsIncrease
<1> QED
  BY <1>7, <1>8, <1>9, <1>10, <1>11

\* A connection ends, with the process or without.
LEMMA CloseStep == ASSUME StreamInv, Finish \/ Disconnect \/ Restart PROVE StreamInv'
<1> USE DEF StreamInv, None
<1>1. /\ UNCHANGED <<log, run, emitted, got, lastId, since>>
      /\ stream' = "none" /\ toReplay' = <<>> /\ replayed' = -1 /\ transit' = <<>>
  BY DEF Finish, Disconnect, Restart, Close, execution, client
<1>2. \/ restarts' = restarts /\ counter' = counter
      \/ restarts < MaxRestarts /\ restarts' = restarts + 1 /\ counter' = 0
  BY DEF Finish, Disconnect, Restart, server
<1>3. Read' = Len(log) /\ Len(log) \in Nat /\ restarts \in Nat
  BY <1>1, EventStreamAssumption DEF Read, Types
<1>4. Types'
  BY <1>1, <1>2, EventStreamAssumption DEF Types
<1>5. Window' /\ StreamStages' /\ Counters' /\ IdsIncrease'
  BY <1>1, <1>2, <1>3 DEF Window, StreamStages, Counters, IdsIncrease
<1> QED
  BY <1>4, <1>5

LEMMA StreamStep == StreamInv /\ [StreamNext]_streamVars => StreamInv'
<1> SUFFICES ASSUME StreamInv, [StreamNext]_streamVars PROVE StreamInv'
  OBVIOUS
<1>1. CASE UNCHANGED streamVars
  BY <1>1 DEF streamVars, execution, connection, server, client, StreamInv, Types, Read, Window,
     StreamStages, Counters, IdsIncrease
<1> QED
  BY <1>1, ReceiveStep, ConnectStep, ReconnectStep, ReplayStep, RunAfterReplayStep, EmitStep,
     CloseStep DEF StreamNext

LEMMA StreamAlways == StreamSafety => []StreamInv
BY StreamStarts, StreamStep, PTL DEF StreamSafety

-----------------------------------------------------------------------------
\* The ids a client is sent increase until the process restarts, and no id it
\* resumes from is ahead of the log, for any number of events and connections.
THEOREM IdsAreSound == StreamSafety => []IdsSound
<1>1. StreamInv => StreamTypeOK
  <2> SUFFICES ASSUME StreamInv PROVE toReplay \in Seq(DOMAIN log)
    BY DEF StreamInv, Types, StreamTypeOK
  <2>1. Len(log) \in Nat /\ DOMAIN log = 1..Len(log) /\ Len(toReplay) \in Nat /\ Len(transit) \in Nat
    BY DEF StreamInv, Types
  <2>2. ASSUME NEW k \in 1..Len(toReplay) PROVE toReplay[k] \in DOMAIN log
    BY <2>1, <2>2 DEF StreamInv, Window, Read
  <2>3. toReplay \in [1..Len(toReplay) -> DOMAIN log]
    BY <2>2 DEF StreamInv, Types
  <2> QED
    BY <2>1, <2>3, SeqDef
<1>2. StreamInv => IdsIncrease /\ LastIdPersisted
  BY DEF StreamInv, Counters, LastIdPersisted
<1> QED
  BY <1>1, <1>2, StreamAlways, PTL DEF IdsSound

-----------------------------------------------------------------------------
(* What broken connections cost. *)

\* No event is recorded twice.
Distinct ==
  /\ \A j \in 1..Len(log) : log[j].run = run => log[j].k <= emitted
  /\ \A i, j \in 1..Len(log) : log[i] = log[j] => i = j

LostAt(j) ==
  /\ log[j].run >= since
  /\ log[j] \notin got
  /\ \A k \in DOMAIN transit : transit[k].event # log[j]
  /\ \A k \in DOMAIN toReplay : toReplay[k] # j
  /\ ~(stream = "none" /\ j - 1 > lastId)

LossInv == IsFiniteSet(Lost) /\ (since > 0 => Cardinality(Lost) <= Ended)

LEMMA DistinctStep == StreamInv /\ Distinct /\ [StreamNext]_streamVars => Distinct'
<1> SUFFICES ASSUME StreamInv, Distinct, [StreamNext]_streamVars PROVE Distinct'
  OBVIOUS
<1>1. /\ Len(log) \in Nat /\ run \in Nat /\ emitted \in Nat
      /\ \A j \in 1..Len(log) : log[j] \in Events /\ log[j].run <= run
  BY EventStreamAssumption DEF StreamInv, Types, StreamStages
<1>2. CASE StartExecution
  <2>1. \A j \in 1..Len(log) : log[j].run # run + 1
    BY <1>1 DEF Events
  <2> QED
    BY <1>2, <2>1 DEF StartExecution, Distinct
<1>3. CASE Emit
  <2> DEFINE e == [run |-> run, k |-> emitted + 1]
  <2>1. run' = run /\ emitted' = emitted + 1 /\ log' = Append(log, e)
    BY <1>3 DEF Emit
  <2>2. /\ Len(log') = Len(log) + 1 /\ log'[Len(log) + 1] = e
        /\ \A j \in 1..Len(log) : log'[j] = log[j]
    BY <2>1 DEF StreamInv, Types
  <2>3. \A j \in 1..Len(log) : log[j] # e
    BY <1>1 DEF Distinct
  <2>4. ASSUME NEW j \in 1..Len(log'), log'[j].run = run PROVE log'[j].k <= emitted + 1
    <3>1. CASE j = Len(log) + 1
      BY <1>1, <2>2, <3>1
    <3>2. CASE j # Len(log) + 1
      <4>1. j \in 1..Len(log) /\ log'[j] = log[j]
        BY <1>1, <2>2, <3>2
      <4>2. log[j].k <= emitted /\ log[j].k \in Int
        BY <1>1, <2>4, <4>1 DEF Distinct, Events
      <4> QED
        BY <1>1, <4>1, <4>2
    <3> QED
      BY <3>1, <3>2
  <2>5. ASSUME NEW i \in 1..Len(log'), NEW j \in 1..Len(log'), log'[i] = log'[j] PROVE i = j
    BY <1>1, <2>2, <2>3, <2>5 DEF Distinct
  <2> QED
    BY <2>1, <2>4, <2>5 DEF Distinct
<1>4. CASE UNCHANGED execution
  BY <1>4 DEF execution, Distinct
<1> QED
  BY <1>2, <1>3, <1>4
     DEF StreamNext, Connect, Reconnect, Receive, Replay, RunAfterReplay, Finish, Disconnect, Restart,
         Close, streamVars

\* While the client is connected, and when it connects again, nothing is lost.
LEMMA NothingLostOnTheWay ==
  ASSUME StreamInv, Receive \/ Reconnect \/ Replay \/ RunAfterReplay \/ Emit,
         NEW j \in DOMAIN log', LostAt(j)'
  PROVE  j \in DOMAIN log /\ log'[j] = log[j] /\ LostAt(j)
<1>1. /\ Len(log) \in Nat /\ DOMAIN log = 1..Len(log)
      /\ Len(transit) \in Nat /\ DOMAIN transit = 1..Len(transit)
      /\ Len(toReplay) \in Nat /\ DOMAIN toReplay = 1..Len(toReplay)
  BY DEF StreamInv, Types
<1>2. CASE Receive
  <2>1. /\ log' = log /\ since' = since /\ toReplay' = toReplay /\ stream # "none"
        /\ got' = got \cup {Head(transit).event} /\ transit' = Tail(transit)
        /\ transit # <<>> /\ Head(transit) = transit[1]
    BY <1>2 DEF Receive, execution, StreamInv, Types, StreamStages
  <2>2. DOMAIN transit' = 1..(Len(transit) - 1)
        /\ \A k \in 1..(Len(transit) - 1) : transit'[k] = transit[k + 1]
    BY <1>1, <2>1 DEF StreamInv, Types
  <2>3. ASSUME NEW k \in DOMAIN transit PROVE transit[k].event # log[j]
    <3>1. CASE k = 1
      BY <2>1, <3>1 DEF LostAt
    <3>2. CASE k # 1
      <4>1. k - 1 \in DOMAIN transit' /\ transit'[k - 1] = transit[k]
        BY <1>1, <2>2, <3>2
      <4> QED
        BY <2>1, <4>1 DEF LostAt
    <3> QED
      BY <3>1, <3>2
  <2> QED
    BY <2>1, <2>3 DEF LostAt
<1>3. CASE Reconnect
  <2>1. /\ log' = log /\ since' = since /\ got' = got /\ transit' = transit /\ toReplay = <<>>
        /\ toReplay' = EventsSince(lastId) /\ lastId \in Int
    BY <1>3 DEF Reconnect, execution, StreamInv, StreamStages, Types, None
  <2>2. ~(j - 1 > lastId)
    <3> SUFFICES ASSUME j - 1 > lastId PROVE FALSE
      OBVIOUS
    <3>1. j - 1 - lastId \in 1..(Len(log) - 1 - lastId)
      BY <1>1, <2>1
    <3>2. j - 1 - lastId \in DOMAIN toReplay' /\ toReplay'[j - 1 - lastId] = j
      BY <1>1, <2>1, <3>1 DEF EventsSince
    <3> QED
      BY <3>2 DEF LostAt
  <2> QED
    BY <2>1, <2>2 DEF LostAt
<1>4. CASE Replay
  <2>1. /\ log' = log /\ since' = since /\ got' = got /\ stream = "replaying"
        /\ toReplay # <<>> /\ toReplay' = Tail(toReplay) /\ Head(toReplay) = toReplay[1]
        /\ transit' = Append(transit, [id |-> toReplay[1] - 1, event |-> log[toReplay[1]]])
    BY <1>4 DEF Replay, execution, client, StreamInv, Types
  <2>2. /\ \A k \in DOMAIN transit : k \in DOMAIN transit' /\ transit'[k] = transit[k]
        /\ Len(transit) + 1 \in DOMAIN transit'
        /\ transit'[Len(transit) + 1].event = log[toReplay[1]]
    BY <1>1, <2>1
  <2>3. DOMAIN toReplay' = 1..(Len(toReplay) - 1)
        /\ \A k \in 1..(Len(toReplay) - 1) : toReplay'[k] = toReplay[k + 1]
    BY <1>1, <2>1 DEF StreamInv, Types
  <2>4. ASSUME NEW k \in DOMAIN toReplay PROVE toReplay[k] # j
    <3>1. CASE k = 1
      BY <2>1, <2>2, <3>1 DEF LostAt
    <3>2. CASE k # 1
      <4>1. k - 1 \in DOMAIN toReplay' /\ toReplay'[k - 1] = toReplay[k]
        BY <1>1, <2>3, <3>2
      <4> QED
        BY <4>1 DEF LostAt
    <3> QED
      BY <3>1, <3>2
  <2> QED
    BY <2>1, <2>2, <2>4 DEF LostAt
<1>5. CASE RunAfterReplay
  BY <1>5 DEF RunAfterReplay, StartExecution, client, LostAt
<1>6. CASE Emit
  <2>1. /\ since' = since /\ got' = got /\ stream = "live" /\ toReplay' = toReplay
        /\ log' = Append(log, [run |-> run, k |-> emitted + 1])
        /\ transit' = Append(transit, [id |-> counter', event |-> log'[Len(log')]])
    BY <1>6 DEF Emit, client
  <2>2. /\ Len(log') = Len(log) + 1 /\ DOMAIN log' = 1..(Len(log) + 1)
        /\ \A i \in 1..Len(log) : log'[i] = log[i]
    BY <1>1, <2>1
  <2>3. /\ \A k \in DOMAIN transit : k \in DOMAIN transit' /\ transit'[k] = transit[k]
        /\ Len(transit) + 1 \in DOMAIN transit'
        /\ transit'[Len(transit) + 1].event = log'[Len(log')]
    BY <1>1, <2>1
  <2>4. j # Len(log')
    BY <2>3 DEF LostAt
  <2>5. j \in 1..Len(log) /\ log'[j] = log[j]
    BY <1>1, <2>2, <2>4
  <2> QED
    BY <1>1, <2>1, <2>3, <2>5 DEF LostAt
<1> QED
  BY <1>2, <1>3, <1>4, <1>5, <1>6

\* A connection that ends takes at most the event behind the last one read, and
\* only if it was live.
LEMMA CloseLosesOne ==
  ASSUME StreamInv, Distinct, Close, NEW j \in DOMAIN log', LostAt(j)'
  PROVE  /\ j \in DOMAIN log /\ log'[j] = log[j]
         /\ LostAt(j) \/ (stream = "live" /\ j = Read + 1)
<1>1. /\ log' = log /\ since' = since /\ got' = got /\ lastId' = lastId /\ stream' = "none"
      /\ lastId \in Int /\ Len(log) \in Nat /\ DOMAIN log = 1..Len(log)
      /\ Len(transit) \in Nat /\ DOMAIN transit = 1..Len(transit)
      /\ Len(toReplay) \in Nat /\ DOMAIN toReplay = 1..Len(toReplay)
      /\ Read = Len(log) - Len(toReplay) - Len(transit) /\ Read \in Nat
  BY DEF Close, execution, client, StreamInv, Types, None, Window, Read
<1>2. j \in 1..Len(log) /\ log[j].run >= since /\ log[j] \notin got /\ j - 1 <= lastId
  <2>1. j \in 1..Len(log)
    BY <1>1
  <2> QED
    BY <1>1, <2>1 DEF LostAt
<1>3. CASE stream = "none"
  BY <1>1, <1>2, <1>3 DEF LostAt, StreamInv, StreamStages
<1>4. CASE stream # "none" /\ j <= Read
  <2>1. ASSUME NEW k \in DOMAIN transit PROVE transit[k].event # log[j]
    <3>1. Read + k \in 1..Len(log) /\ Read + k # j
      BY <1>1, <1>2, <1>4, <2>1
    <3>2. transit[k].event = log[Read + k]
      BY <1>1 DEF StreamInv, Window
    <3> QED
      BY <1>2, <3>1, <3>2 DEF Distinct
  <2>2. ASSUME NEW k \in DOMAIN toReplay PROVE toReplay[k] # j
    BY <1>1, <1>4 DEF StreamInv, Window
  <2> QED
    BY <1>1, <1>2, <1>4, <2>1, <2>2 DEF LostAt
<1>5. CASE stream # "none" /\ ~(j <= Read)
  <2>1. lastId <= Read
    BY <1>5 DEF StreamInv, StreamStages
  <2>2. j = Read + 1
    BY <1>1, <1>2, <1>5, <2>1
  <2>3. ASSUME stream = "replaying" PROVE FALSE
    <3>1. lastId < Read \/ Read = Len(log)
      BY <2>3 DEF StreamInv, StreamStages
    <3>2. lastId \in Int /\ Read \in Nat /\ Len(log) \in Nat /\ Read <= lastId /\ Read + 1 <= Len(log)
      BY <1>1, <1>2, <2>2
    <3>3. ~(lastId < Read) /\ Read # Len(log)
      BY <3>2
    <3> QED
      BY <3>1, <3>3
  <2> QED
    BY <1>1, <1>5, <2>2, <2>3 DEF StreamInv, Types
<1> QED
  BY <1>3, <1>4, <1>5

LEMMA LossStep == StreamInv /\ Distinct /\ LossInv /\ [StreamNext]_streamVars => LossInv'
<1> SUFFICES ASSUME StreamInv, Distinct, LossInv, [StreamNext]_streamVars PROVE LossInv'
  OBVIOUS
<1>1. IsFiniteSet(Lost) /\ Cardinality(Lost) \in Nat /\ (since > 0 => Cardinality(Lost) <= Ended)
  BY FS_CardinalityType DEF LossInv
<1>2. /\ Lost = {log[j] : j \in {i \in DOMAIN log : LostAt(i)}}
      /\ Lost' = {log'[j] : j \in {i \in DOMAIN log' : LostAt(i)'}}
  BY DEF Lost, LostAt
<1>3. run \in Nat /\ since \in Nat /\ since <= run /\ Ended \in Int
  BY EventStreamAssumption DEF StreamInv, Types, StreamStages, Ended
<1>4. CASE Receive \/ Reconnect \/ Replay \/ RunAfterReplay \/ Emit
  <2>1. Lost' \subseteq Lost
    BY <1>2, <1>4, NothingLostOnTheWay
  <2>2. IsFiniteSet(Lost') /\ Cardinality(Lost') <= Cardinality(Lost)
    BY <1>1, <2>1, FS_Subset
  <2>3. since' = since /\ Ended' = Ended
    BY <1>3, <1>4
       DEF Receive, Reconnect, Replay, RunAfterReplay, StartExecution, Emit, execution, client, Ended
  <2> QED
    BY <1>1, <1>3, <2>2, <2>3, FS_CardinalityType DEF LossInv
<1>5. CASE Connect
  <2>1. /\ log' = log /\ since' = run + 1 /\ run' = run + 1 /\ stream' = "live"
        /\ DOMAIN log = 1..Len(log)
    BY <1>5 DEF Connect, StartExecution, StreamInv, Types
  <2>2. ASSUME NEW j \in DOMAIN log' PROVE ~LostAt(j)'
    <3>1. log[j].run <= run /\ log[j] \in Events
      BY <2>1 DEF StreamInv, StreamStages, Types
    <3>2. log[j].run \in Int
      BY <3>1, EventStreamAssumption DEF Events
    <3> QED
      BY <1>3, <2>1, <3>1, <3>2 DEF LostAt
  <2>3. Lost' = {}
    BY <1>2, <2>2
  <2>4. IsFiniteSet(Lost') /\ Cardinality(Lost') = 0
    BY <2>3, FS_EmptySet
  <2>5. Ended' = 0
    BY <1>3, <2>1 DEF Ended
  <2> QED
    BY <2>4, <2>5 DEF LossInv
<1>6. CASE Finish \/ Disconnect \/ Restart
  <2>1. Close /\ stream' = "none" /\ run' = run /\ since' = since
    BY <1>6 DEF Finish, Disconnect, Restart, Close, execution, client
  <2>2. CASE stream = "live"
    <3> DEFINE more == Lost \cup {log[Read + 1]}
    <3>1. Lost' \subseteq more
      BY <1>2, <2>1, CloseLosesOne
    <3>2. IsFiniteSet(more) /\ Cardinality(more) <= Cardinality(Lost) + 1
      <4>1. /\ IsFiniteSet(more)
            /\ Cardinality(more) = Cardinality(Lost) \/ Cardinality(more) = Cardinality(Lost) + 1
        BY <1>1, FS_AddElement, ZenonT(30)
      <4> QED
        BY <1>1, <4>1
    <3>3. IsFiniteSet(Lost') /\ Cardinality(Lost') <= Cardinality(more)
      BY <3>1, <3>2, FS_Subset
    <3>4. Cardinality(Lost') \in Nat /\ Cardinality(more) \in Nat
      BY <3>2, <3>3, FS_CardinalityType
    <3>5. Ended' = Ended + 1
      BY <1>3, <2>1, <2>2 DEF Ended
    <3> QED
      BY <1>1, <1>3, <2>1, <3>2, <3>3, <3>4, <3>5 DEF LossInv
  <2>3. CASE stream # "live"
    <3>1. Lost' \subseteq Lost
      BY <1>2, <2>1, <2>3, CloseLosesOne
    <3>2. IsFiniteSet(Lost') /\ Cardinality(Lost') <= Cardinality(Lost)
      BY <1>1, <3>1, FS_Subset
    <3>3. Cardinality(Lost') \in Nat /\ Ended' = Ended
      BY <1>3, <2>1, <2>3, <3>2, FS_CardinalityType DEF Ended
    <3> QED
      BY <1>1, <1>3, <2>1, <3>2, <3>3 DEF LossInv
  <2> QED
    BY <2>2, <2>3
<1>7. CASE UNCHANGED streamVars
  <2>1. Lost' = Lost /\ Ended' = Ended /\ since' = since
    BY <1>7 DEF streamVars, execution, connection, server, client, Lost, Ended
  <2> QED
    BY <1>1, <2>1 DEF LossInv
<1> QED
  BY <1>4, <1>5, <1>6, <1>7 DEF StreamNext

\* A connection that breaks costs the client at most one event, whatever was in
\* transit, however often the server restarted, for any number of connections.
THEOREM AtMostOneIsLost == StreamSafety => []AtMostOneLostPerConnection
<1>1. StreamInit => Distinct /\ LossInv
  <2> SUFFICES ASSUME StreamInit PROVE Distinct /\ LossInv
    OBVIOUS
  <2>1. log = <<>> /\ since = 0
    BY DEF StreamInit
  <2>2. Lost = {}
    BY <2>1 DEF Lost
  <2> QED
    BY <2>1, <2>2, FS_EmptySet DEF Distinct, LossInv
<1>2. LossInv => AtMostOneLostPerConnection
  BY DEF LossInv, AtMostOneLostPerConnection
<1> QED
  BY <1>1, <1>2, StreamAlways, DistinctStep, LossStep, PTL DEF StreamSafety

-----------------------------------------------------------------------------
(* The runs of a session: types *)

\* A run in a tool has started a step.
InTool == \A r \in HarnessRuns : pc[r] = "tool" => step[r] \in StepIds

TInv == HarnessTypeOK /\ InTool

LEMMA TypeInit == HarnessInit => TInv
  <1> SUFFICES ASSUME HarnessInit PROVE TInv
    OBVIOUS
  <1>1. Created \in Sessions
    BY DEF Created, Sessions, Status
  <1>2. HarnessTypeOK
    <2>1. 1 \in 1..Steps + 1 /\ 0 \in 0..Steps /\ 0 \in 0..Retries + 1
      BY HarnessAssumption
    <2>2. session \in [HarnessRuns -> Sessions] /\ file \in Sessions
      BY <1>1 DEF HarnessInit
    <2> QED BY <2>1, <2>2 DEF HarnessInit, HarnessTypeOK, ResumePoints
  <1>3. InTool
    BY DEF HarnessInit, InTool
  <1> QED BY <1>2, <1>3 DEF TInv

\* Proceeding keeps the types.
LEMMA TypeProceed ==
  ASSUME TInv, NEW r \in HarnessRuns, Proceed(r)
  PROVE  TInv'
  <1> USE HarnessAssumption DEF TInv, HarnessTypeOK, InTool, Sessions, Status, StepIds
  <1>1. CASE StartTool(r)
    BY <1>1 DEF StartTool, Remaining
  <1>2. CASE ToolSucceeds(r)
    BY <1>2 DEF ToolSucceeds, Save
  <1>3. CASE EndCancelled(r)
    BY <1>3 DEF EndCancelled, End, Save
  <1>4. CASE Complete(r)
    BY <1>4 DEF Complete, End, Save
  <1>5. ASSUME NEW e \in ErrorTypes, ToolFails(r, e)
        PROVE  TInv'
    <2>1. CASE MayRetry(r, e) /\ attempt' = [attempt EXCEPT ![r] = @ + 1]
                 /\ UNCHANGED <<file, session, pc>>
      BY <1>5, <2>1 DEF ToolFails, MayRetry
    <2>2. CASE End(r, "failed") /\ UNCHANGED attempt
      BY <1>5, <2>2 DEF ToolFails, End, Save
    <2> QED BY <1>5, <2>1, <2>2 DEF ToolFails
  <1> QED BY <1>1, <1>2, <1>3, <1>4, <1>5 DEF Proceed

LEMMA TypeStep == TInv /\ [HarnessNext]_harnessVars => TInv'
  <1> USE HarnessAssumption DEF TInv, HarnessTypeOK, InTool, Sessions, Status, StepIds
  <1> SUFFICES ASSUME TInv, [HarnessNext]_harnessVars PROVE TInv'
    OBVIOUS
  <1>1. ASSUME NEW r \in HarnessRuns, Start(r) PROVE TInv'
    BY <1>1 DEF Start, ResumePoints, Torn, Active
  <1>2. ASSUME NEW r \in HarnessRuns, StartFails(r) PROVE TInv'
    BY <1>2 DEF StartFails
  <1>3. ASSUME NEW r \in HarnessRuns, Proceed(r) PROVE TInv'
    BY <1>3, TypeProceed
  <1>4. ASSUME NEW r \in HarnessRuns, Cancel(r) PROVE TInv'
    BY <1>4 DEF Cancel
  <1>5. ASSUME NEW r \in HarnessRuns, Drop(r) PROVE TInv'
    BY <1>5 DEF Drop, LastTraces
  <1>6. CASE CrashRun
    BY <1>6 DEF CrashRun, LastTraces
  <1>7. CASE UNCHANGED harnessVars
    BY <1>7 DEF harnessVars, local
  <1> QED BY <1>1, <1>2, <1>3, <1>4, <1>5, <1>6, <1>7 DEF HarnessNext

\* Every variable keeps its type.
THEOREM HarnessTypeCorrect == HarnessSafety => []HarnessTypeOK
  <1>1. TInv => HarnessTypeOK
    BY DEF TInv
  <1> QED BY TypeInit, TypeStep, <1>1, PTL DEF HarnessSafety

LEMMA TInvAlways == HarnessSafety => []TInv
  BY TypeInit, TypeStep, PTL DEF HarnessSafety

-----------------------------------------------------------------------------
(* The session file and the trace *)

Traced(s) == \A i \in s.completed : \E r \in HarnessRuns : <<r, i>> \in trace

\* What a run has in memory is traced too, so whatever it saves is.
TracedInv == Traced(file) /\ \A r \in HarnessRuns : Traced(session[r])

LEMMA TracedStep == TInv /\ TracedInv /\ [HarnessNext]_harnessVars => TracedInv'
  <1> SUFFICES ASSUME TInv, TracedInv, [HarnessNext]_harnessVars PROVE TracedInv'
    OBVIOUS
  <1> USE DEF TracedInv, Traced
  <1>0. session \in [HarnessRuns -> Sessions]
    BY DEF TInv, HarnessTypeOK
  <1>1. ASSUME NEW r \in HarnessRuns, Start(r) PROVE TracedInv'
    <2>1. session' = [session EXCEPT ![r] = [file EXCEPT !.status = "running"]]
      BY <1>1 DEF Start
    <2>2. file \in Sessions
      BY <1>1 DEF Start, TInv, HarnessTypeOK
    <2>3. \A q \in HarnessRuns : session'[q].completed \in {session[q].completed, file.completed}
      BY <1>0, <2>1, <2>2 DEF Sessions
    <2> QED BY <1>1, <2>3 DEF Start
  <1>2. ASSUME NEW r \in HarnessRuns, StartFails(r) PROVE TracedInv'
    BY <1>2 DEF StartFails
  <1>3. ASSUME NEW r \in HarnessRuns, StartTool(r) PROVE TracedInv'
    BY <1>3 DEF StartTool
  <1>4. ASSUME NEW r \in HarnessRuns, ToolSucceeds(r) PROVE TracedInv'
    <2>1. \A q \in HarnessRuns : session'[q].completed \subseteq
             session[q].completed \cup (IF q = r THEN {step[r]} ELSE {})
      BY <1>0, <1>4 DEF ToolSucceeds, Sessions
    <2>2. trace' = trace \cup {<<r, step[r]>>} /\ file' = session'[r]
      BY <1>4 DEF ToolSucceeds, Save
    <2> QED BY <2>1, <2>2
  <1>5. ASSUME NEW r \in HarnessRuns, NEW s \in Status, End(r, s), UNCHANGED trace
        PROVE  TracedInv'
    <2>1. \A q \in HarnessRuns : session'[q].completed = session[q].completed
      BY <1>0, <1>5 DEF End, Sessions
    <2>2. file' = session'[r]
      BY <1>5 DEF End, Save
    <2> QED BY <1>5, <2>1, <2>2
  <1>6. ASSUME NEW r \in HarnessRuns, NEW e \in ErrorTypes, ToolFails(r, e) PROVE TracedInv'
    BY <1>5, <1>6 DEF ToolFails, Status
  <1>7. ASSUME NEW r \in HarnessRuns, EndCancelled(r) \/ Complete(r) PROVE TracedInv'
    BY <1>5, <1>7 DEF EndCancelled, Complete, Status
  <1>8. ASSUME NEW r \in HarnessRuns, Cancel(r) PROVE TracedInv'
    BY <1>8 DEF Cancel
  <1>9. ASSUME NEW r \in HarnessRuns, Drop(r) PROVE TracedInv'
    BY <1>9 DEF Drop, LastTraces
  <1>10. CASE CrashRun
    <2>1. trace \subseteq trace' /\ UNCHANGED session
      BY <1>10 DEF CrashRun, LastTraces
    <2>2. CASE file' = file
      BY <2>1, <2>2
    <2>3. CASE file' = Torn
      BY <2>1, <2>3 DEF Torn
    <2> QED BY <1>10, <2>2, <2>3 DEF CrashRun
  <1>11. CASE UNCHANGED harnessVars
    BY <1>11 DEF harnessVars, local
  <1> QED
    BY <1>1, <1>2, <1>3, <1>4, <1>6, <1>7, <1>8, <1>9, <1>10, <1>11 DEF HarnessNext, Proceed

\* The session file claims no step the trace does not record, however the runs
\* of the session overlap, fail and crash.
THEOREM ClaimsAreTraced == HarnessSafety => []SavedIsTraced
  <1>1. HarnessInit => TracedInv
    BY DEF HarnessInit, TracedInv, Traced, Created
  <1>2. TracedInv => SavedIsTraced
    BY DEF TracedInv, Traced, SavedIsTraced
  <1> QED BY TInvAlways, TracedStep, <1>1, <1>2, PTL DEF HarnessSafety

-----------------------------------------------------------------------------
(* Success *)

\* The steps run r has left behind: done in this run or before it resumed.
Behind(r) ==
  {i \in StepIds : i < from[r] \/ i < step[r] \/ (pc[r] = "between" /\ i = step[r])}

\* A run has no step, or is running with everything behind it completed, but for
\* what a caller asked to skip.
RunInv ==
  \A r \in HarnessRuns :
    /\ pc[r] = "idle" => step[r] = 0
    /\ Active(r) => /\ session[r].status = "running"
                  /\ Behind(r) \subseteq session[r].completed \cup skipped

SuccessInv == RunInv /\ SucceededIsComplete

LEMMA SuccessStep == TInv /\ SuccessInv /\ [HarnessNext]_harnessVars => SuccessInv'
  <1> SUFFICES ASSUME TInv, SuccessInv, [HarnessNext]_harnessVars PROVE SuccessInv'
    OBVIOUS
  <1> USE HarnessAssumption DEF SuccessInv, RunInv, SucceededIsComplete, Active
  <1>0. /\ session \in [HarnessRuns -> Sessions]
        /\ pc \in [HarnessRuns -> {"idle", "between", "tool", "ended"}]
        /\ from \in [HarnessRuns -> 1..Steps + 1]
        /\ step \in [HarnessRuns -> 0..Steps]
        /\ \A r \in HarnessRuns : pc[r] = "tool" => step[r] \in StepIds
    BY DEF TInv, HarnessTypeOK, InTool, ResumePoints
  <1>1. ASSUME NEW r \in HarnessRuns, Start(r) PROVE SuccessInv'
    <2>1. PICK i \in ResumePoints : /\ from' = [from EXCEPT ![r] = i]
                                    /\ skipped' = skipped \cup (1..(i - 1) \ file.completed)
      BY <1>1 DEF Start
    <2>2. /\ session' = [session EXCEPT ![r] = [file EXCEPT !.status = "running"]]
          /\ file \in Sessions
      BY <1>1 DEF Start, TInv, HarnessTypeOK
    <2>3. session'[r].status = "running" /\ session'[r].completed = file.completed
      BY <1>0, <2>2 DEF Sessions
    <2>4. i \in 1..Steps + 1 /\ 1..(i - 1) \subseteq file.completed \cup skipped'
      BY <2>1 DEF ResumePoints
    <2>5. from'[r] = i /\ step'[r] = 0 /\ pc'[r] = "between"
      BY <1>0, <1>1, <2>1 DEF Start
    <2>6. Behind(r)' \subseteq session'[r].completed \cup skipped'
      BY <2>3, <2>4, <2>5 DEF Behind, StepIds
    <2>7. ASSUME NEW q \in HarnessRuns, q # r
          PROVE  /\ session'[q] = session[q] /\ from'[q] = from[q]
                 /\ step'[q] = step[q] /\ pc'[q] = pc[q]
      BY <1>0, <1>1, <2>1, <2>2, <2>7 DEF Start
    <2>8. skipped \subseteq skipped'
      BY <2>1
    <2>9. RunInv'
      BY <2>3, <2>5, <2>6, <2>7, <2>8 DEF Behind
    <2> QED BY <1>1, <2>8, <2>9 DEF Start
  <1>2. ASSUME NEW r \in HarnessRuns, StartFails(r) PROVE SuccessInv'
    BY <1>0, <1>2 DEF StartFails, Behind
  <1>3. ASSUME NEW r \in HarnessRuns, StartTool(r) PROVE SuccessInv'
    <2>1. PICK i \in Remaining(r) : /\ \A j \in Remaining(r) : i <= j
                                    /\ step' = [step EXCEPT ![r] = i]
      BY <1>3 DEF StartTool
    <2>2. step'[r] = i /\ pc'[r] = "tool" /\ pc[r] = "between" /\ from' = from
            /\ session' = session /\ skipped' = skipped
      BY <1>0, <1>3, <2>1 DEF StartTool
    <2>3. Behind(r)' \subseteq Behind(r)
      <3>1. ASSUME NEW j \in StepIds, j < from[r] \/ j < i
            PROVE  j < from[r] \/ j < step[r] \/ j = step[r]
        <4>1. j \in Int /\ from[r] \in Int /\ step[r] \in Int /\ i \in Int
          BY <1>0, <2>1, HarnessAssumption DEF Remaining, StepIds
        <4>2. j \notin Remaining(r) => j < from[r] \/ ~(j > step[r])
          BY <4>1 DEF Remaining
        <4>3. j \in Remaining(r) => ~(j < i)
          BY <2>1, <4>1
        <4> QED BY <3>1, <4>1, <4>2, <4>3
      <3> QED BY <2>2, <3>1 DEF Behind
    <2>4. ASSUME NEW q \in HarnessRuns, q # r
          PROVE  step'[q] = step[q] /\ pc'[q] = pc[q]
      BY <1>0, <1>3, <2>1, <2>4 DEF StartTool
    <2>5. RunInv'
      BY <2>2, <2>3, <2>4 DEF Behind
    <2> QED BY <1>3, <2>5 DEF StartTool
  <1>4. ASSUME NEW r \in HarnessRuns, ToolSucceeds(r) PROVE SuccessInv'
    <2>1. /\ session'[r].completed = session[r].completed \cup {step[r]}
          /\ session'[r].status = session[r].status
          /\ pc'[r] = "between" /\ pc[r] = "tool" /\ step' = step /\ from' = from
          /\ skipped' = skipped
      BY <1>0, <1>4 DEF ToolSucceeds, Sessions
    <2>2. ASSUME NEW q \in HarnessRuns, q # r
          PROVE  session'[q] = session[q] /\ pc'[q] = pc[q]
      BY <1>0, <1>4, <2>2 DEF ToolSucceeds
    <2>3. Behind(r)' \subseteq session'[r].completed \cup skipped
      BY <1>0, <2>1 DEF Behind, StepIds
    <2>4. RunInv'
      BY <2>1, <2>2, <2>3 DEF Behind
    <2>5. file'.status = "running"
      BY <1>4, <2>1 DEF ToolSucceeds, Save
    <2> QED BY <2>4, <2>5
  <1>5. ASSUME NEW r \in HarnessRuns, NEW s \in Status, End(r, s), UNCHANGED <<from, step, skipped>>,
               s = "succeeded" => StepIds \subseteq session[r].completed \cup skipped
        PROVE  SuccessInv'
    <2>1. /\ session'[r].completed = session[r].completed /\ session'[r].status = s
          /\ pc'[r] = "ended" /\ file' = session'[r]
      BY <1>0, <1>5 DEF End, Save, Sessions
    <2>2. ASSUME NEW q \in HarnessRuns, q # r
          PROVE  session'[q] = session[q] /\ pc'[q] = pc[q]
      BY <1>0, <1>5, <2>2 DEF End
    <2>3. RunInv'
      BY <1>5, <2>1, <2>2 DEF Behind
    <2> QED BY <1>5, <2>1, <2>3
  <1>6. ASSUME NEW r \in HarnessRuns, NEW e \in ErrorTypes, ToolFails(r, e) PROVE SuccessInv'
    <2>1. CASE UNCHANGED <<file, session, pc>>
      BY <1>6, <2>1 DEF ToolFails, Behind
    <2>2. CASE End(r, "failed")
      BY <1>5, <1>6, <2>2 DEF ToolFails, Status
    <2> QED BY <1>6, <2>1, <2>2 DEF ToolFails
  <1>7. ASSUME NEW r \in HarnessRuns, EndCancelled(r) PROVE SuccessInv'
    BY <1>5, <1>7 DEF EndCancelled, Status
  <1>8. ASSUME NEW r \in HarnessRuns, Complete(r) PROVE SuccessInv'
    <2>0. pc[r] = "between" /\ Remaining(r) = {}
      BY <1>8 DEF Complete
    <2>1. ASSUME NEW i \in StepIds PROVE i \in Behind(r)
      <3>1. step[r] \in Int /\ from[r] \in Int /\ i \in Int
        BY <1>0 DEF StepIds
      <3>2. ~(i > step[r] /\ i >= from[r])
        BY <2>0 DEF Remaining
      <3> QED
        BY <2>0, <3>1, <3>2 DEF Behind
    <2>2. StepIds \subseteq session[r].completed \cup skipped
      BY <1>0, <1>8, <2>1 DEF Complete, Sessions
    <2> QED BY <1>5, <1>8, <2>2 DEF Complete, Status
  <1>9. ASSUME NEW r \in HarnessRuns, Cancel(r) PROVE SuccessInv'
    BY <1>9 DEF Cancel, Behind
  <1>10. ASSUME NEW r \in HarnessRuns, Drop(r) PROVE SuccessInv'
    BY <1>0, <1>10 DEF Drop, Behind
  <1>11. CASE CrashRun
    BY <1>0, <1>11 DEF CrashRun, Torn, Behind
  <1>12. CASE UNCHANGED harnessVars
    BY <1>12 DEF harnessVars, local, Behind
  <1> QED
    BY <1>1, <1>2, <1>3, <1>4, <1>6, <1>7, <1>8, <1>9, <1>10, <1>11, <1>12
    DEF HarnessNext, Proceed

\* A session is saved as succeeded only with every step completed that no caller
\* asked to skip, whatever runs it took and from wherever they resumed.
THEOREM SuccessIsComplete == HarnessSafety => []SucceededIsComplete
  <1>1. HarnessInit => SuccessInv
    BY DEF HarnessInit, SuccessInv, RunInv, SucceededIsComplete, Active, Created
  <1>2. SuccessInv => SucceededIsComplete
    BY DEF SuccessInv
  <1> QED BY TInvAlways, SuccessStep, <1>1, <1>2, PTL DEF HarnessSafety

-----------------------------------------------------------------------------
(* HarnessRuns that do not overlap *)

\* As long as runs have not overlapped, at most one is active, its memory agrees
\* with the file, and the file has no gap and holds what was delivered.
AloneInv ==
  ~overlapped =>
    /\ \A r, q \in HarnessRuns : Active(r) /\ Active(q) => r = q
    /\ \A r \in HarnessRuns : Active(r) => session[r].completed = file.completed
    /\ DeliveredIsSaved
    /\ NoGap

\* Nobody runs on a torn file.
TornInv == file = Torn => \A r \in HarnessRuns : ~Active(r)

LEMMA TornStep == TInv /\ TornInv /\ [HarnessNext]_harnessVars => TornInv'
  <1> SUFFICES ASSUME TInv, TornInv, [HarnessNext]_harnessVars PROVE TornInv'
    OBVIOUS
  <1> USE DEF TornInv, Active
  <1>0. /\ session \in [HarnessRuns -> Sessions]
        /\ pc \in [HarnessRuns -> {"idle", "between", "tool", "ended"}]
        /\ session' \in [HarnessRuns -> Sessions]
        /\ \A s \in Sessions : s # Torn
    BY TypeStep DEF TInv, HarnessTypeOK, Sessions, Status, Torn
  <1>1. ASSUME NEW r \in HarnessRuns, Start(r) \/ StartTool(r) \/ Cancel(r) PROVE TornInv'
    BY <1>0, <1>1 DEF Start, StartTool, Cancel
  <1>2. ASSUME NEW r \in HarnessRuns, StartFails(r) \/ Drop(r) PROVE TornInv'
    BY <1>0, <1>2 DEF StartFails, Drop
  <1>3. ASSUME NEW r \in HarnessRuns, Save(r) PROVE TornInv'
    BY <1>0, <1>3 DEF Save
  <1>4. ASSUME NEW r \in HarnessRuns, ToolSucceeds(r) \/ EndCancelled(r) \/ Complete(r)
        PROVE  TornInv'
    BY <1>3, <1>4 DEF ToolSucceeds, EndCancelled, Complete, End
  <1>5. ASSUME NEW r \in HarnessRuns, NEW e \in ErrorTypes, ToolFails(r, e) PROVE TornInv'
    BY <1>3, <1>5 DEF ToolFails, End
  <1>6. CASE CrashRun
    BY <1>0, <1>6 DEF CrashRun
  <1>7. CASE UNCHANGED harnessVars
    BY <1>7 DEF harnessVars, local
  <1> QED BY <1>1, <1>2, <1>4, <1>5, <1>6, <1>7 DEF HarnessNext, Proceed

LEMMA AloneStep ==
  TInv /\ TornInv /\ SuccessInv /\ AloneInv /\ [HarnessNext]_harnessVars => AloneInv'
  <1> SUFFICES ASSUME TInv, TornInv, SuccessInv, AloneInv, [HarnessNext]_harnessVars, ~overlapped'
               PROVE  AloneInv'
    BY DEF AloneInv
  <1> USE HarnessAssumption DEF AloneInv, DeliveredIsSaved, NoGap
  <1>0. /\ session \in [HarnessRuns -> Sessions]
        /\ pc \in [HarnessRuns -> {"idle", "between", "tool", "ended"}]
        /\ step \in [HarnessRuns -> 0..Steps]
        /\ \A r \in HarnessRuns : pc[r] = "tool" => step[r] \in StepIds
        /\ file \in Sessions \cup {Torn}
    BY DEF TInv, HarnessTypeOK, InTool
  <1>1. ASSUME NEW r \in HarnessRuns, Start(r) PROVE AloneInv'
    <2>1. /\ session' = [session EXCEPT ![r] = [file EXCEPT !.status = "running"]]
          /\ file \in Sessions /\ ~overlapped /\ \A q \in HarnessRuns : ~Active(q)
      BY <1>0, <1>1 DEF Start
    <2>2. session'[r].completed = file.completed
      BY <1>0, <2>1 DEF Sessions
    <2>3. \A q \in HarnessRuns : Active(q)' => q = r
      BY <1>0, <1>1, <2>1 DEF Start, Active
    <2>4. file' = file /\ delivered' = delivered /\ skipped \subseteq skipped'
      BY <1>1 DEF Start
    <2>5. NoGap'
      BY <2>1, <2>4
    <2> QED BY <2>1, <2>2, <2>3, <2>4, <2>5
  <1>2. ASSUME NEW r \in HarnessRuns, StartFails(r) PROVE AloneInv'
    BY <1>0, <1>2 DEF StartFails, Active
  <1>3. ASSUME NEW r \in HarnessRuns, StartTool(r) PROVE AloneInv'
    BY <1>0, <1>3 DEF StartTool, Active
  <1>4. ASSUME NEW r \in HarnessRuns, ToolSucceeds(r) PROVE AloneInv'
    <2>1. /\ session'[r].completed = session[r].completed \cup {step[r]}
          /\ file' = session'[r] /\ pc[r] = "tool" /\ ~overlapped
          /\ delivered' = delivered \cup {step[r]} /\ skipped' = skipped
      BY <1>0, <1>4 DEF ToolSucceeds, Sessions, Save
    <2>2. \A q \in HarnessRuns : Active(q)' => q = r
      BY <1>0, <1>4, <2>1 DEF ToolSucceeds, Active
    <2>3. file # Torn /\ session[r].completed = file.completed
      BY <2>1 DEF TornInv, Active
    <2>4. file'.completed = file.completed \cup {step[r]}
      BY <2>1, <2>3
    <2>5. \A j \in StepIds : j < step[r] => j \in file.completed \cup skipped
      BY <2>1, <2>3 DEF SuccessInv, RunInv, Behind, Active
    <2>6. \A i \in 1..step[r] : i \in file'.completed \cup skipped
      BY <1>0, <2>1, <2>4, <2>5 DEF StepIds
    <2>7. NoGap'
      BY <2>1, <2>4, <2>6
    <2> QED BY <1>4, <2>1, <2>2, <2>3, <2>4, <2>7 DEF ToolSucceeds
  <1>5. ASSUME NEW r \in HarnessRuns, NEW s \in Status, End(r, s), Active(r),
               UNCHANGED <<delivered, overlapped, skipped>>
        PROVE  AloneInv'
    <2>1. /\ session'[r].completed = session[r].completed
          /\ file' = session'[r]
      BY <1>0, <1>5 DEF End, Sessions, Save
    <2>2. \A q \in HarnessRuns : ~Active(q)'
      BY <1>0, <1>5 DEF End, Active
    <2>3. file # Torn /\ session[r].completed = file.completed
      BY <1>5 DEF TornInv
    <2> QED BY <1>5, <2>1, <2>2, <2>3
  <1>6. ASSUME NEW r \in HarnessRuns, NEW e \in ErrorTypes, ToolFails(r, e) PROVE AloneInv'
    <2>1. CASE UNCHANGED <<file, session, pc>>
      BY <1>6, <2>1 DEF ToolFails, Active
    <2>2. CASE End(r, "failed")
      BY <1>5, <1>6, <2>2 DEF ToolFails, Status, Active
    <2> QED BY <1>6, <2>1, <2>2 DEF ToolFails
  <1>7. ASSUME NEW r \in HarnessRuns, EndCancelled(r) \/ Complete(r) PROVE AloneInv'
    BY <1>5, <1>7 DEF EndCancelled, Complete, Status, Active
  <1>8. ASSUME NEW r \in HarnessRuns, Cancel(r) PROVE AloneInv'
    BY <1>8 DEF Cancel, Active
  <1>9. ASSUME NEW r \in HarnessRuns, Drop(r) PROVE AloneInv'
    BY <1>0, <1>9 DEF Drop, Active
  <1>10. CASE CrashRun
    <2>1. \A q \in HarnessRuns : ~Active(q)'
      BY <1>0, <1>10 DEF CrashRun, Active
    <2>2. CASE file' = file
      BY <1>10, <2>1, <2>2 DEF CrashRun
    <2>3. CASE file' = Torn
      BY <1>10, <2>1, <2>3 DEF CrashRun, Torn
    <2> QED BY <1>10, <2>2, <2>3 DEF CrashRun
  <1>11. CASE UNCHANGED harnessVars
    BY <1>11 DEF harnessVars, local, Active
  <1> QED
    BY <1>1, <1>2, <1>3, <1>4, <1>6, <1>7, <1>8, <1>9, <1>10, <1>11 DEF HarnessNext, Proceed

LEMMA AloneAlways == HarnessSafety => []AloneInv
  <1>1. HarnessInit => TornInv /\ SuccessInv /\ AloneInv
    BY DEF HarnessInit, TornInv, SuccessInv, RunInv, SucceededIsComplete, AloneInv, Active,
           Created, DeliveredIsSaved, NoGap
  <1> QED BY TInvAlways, TornStep, SuccessStep, AloneStep, <1>1, PTL DEF HarnessSafety

\* What a consumer has been shown stays in the session file, whatever crashes or
\* fails, for any number of runs one after the other.
THEOREM DeliveredStays == HarnessSafety => []DeliveredIsSaved
  <1>1. AloneInv => DeliveredIsSaved
    BY DEF AloneInv, DeliveredIsSaved
  <1> QED BY AloneAlways, <1>1, PTL

\* The completed steps are a prefix of the workflow but for the steps callers asked
\* to skip, so that resuming behind them leaves none out.
THEOREM CompletedIsPrefix == HarnessSafety => []NoGap
  <1>1. AloneInv => NoGap
    BY DEF AloneInv, NoGap
  <1> QED BY AloneAlways, <1>1, PTL

-----------------------------------------------------------------------------
\* What a session file claims, for any workflow and any number of runs at once.
THEOREM ClaimsAreSound == HarnessSafety => []ClaimsSound
BY HarnessTypeCorrect, ClaimsAreTraced, SuccessIsComplete, PTL DEF ClaimsSound

\* What runs one after the other keep, for any workflow and number of runs.
THEOREM NothingIsLost == HarnessSafety => []NothingLost
BY DeliveredStays, CompletedIsPrefix, PTL DEF NothingLost

-----------------------------------------------------------------------------
(* The registries of the server and the reviews of its runs *)

\* A run is posted once, and as one kind.
KindInv == \A r \in agents \cup graphs : stage[r] # "new"

\* What the registries and the requests have to do with each other: an entry is not that of a run whose stream has
\* ended; what a cancelled agent run sends late is the event at hand.
EntryInv ==
  /\ \A r \in Runs : cancelOf = r \/ ctrlOf = r => stage[r] \notin {"new", "closed", "gone"}
  /\ \A r \in Runs : late[r] # 0 =>
       late[r] = 1 /\ event[r] /\ stage[r] \in {"yielded", "closed", "gone"}

\* What is known of one review in each phase.
ReviewKnown(a) ==
  /\ phase[a] = "unborn" => acked[a] = {}
  /\ a \in pending <=> phase[a] \notin {"unborn", "returned"}
  /\ signal[a] <=> decision[a] # "none"
  /\ decision[a] # "none" => decision[a] \in acked[a]
  /\ phase[a] = "woken" => signal[a]
  /\ phase[a] = "read" => result[a] \in acked[a]
  /\ phase[a] = "timed_out" => result[a] = "rejected"
  /\ phase[a] = "returned" => result[a] = "rejected" \/ result[a] \in acked[a]

\* The reviews of a run follow one another.
InTurn(a) ==
  phase[a] # "unborn" => \A n \in 1..(a[2] - 1) : phase[<<a[1], n>>] = "returned"

ReviewInv == \A a \in Ids : ReviewKnown(a) /\ InTurn(a)

\* Nobody has decided a review that began after its client had gone.
OrphanInv == \A a \in orphans : acked[a] = {} /\ stage[a[1]] = "gone"

\* What a stream or a queue holds while the graph runs, what the stream holds
\* when the run is told, and the queue from the last event to the sentinel.
AllRoles(s) == \A i \in 1..Len(s) : s[i] = "role"
Told(s) ==
  /\ s # <<>> /\ s[Len(s)] \in {"terminal", "error"}
  /\ \A i \in 1..(Len(s) - 1) : s[i] = "role"
Ending(s) ==
  /\ Len(s) >= 2 /\ s[Len(s)] = "none" /\ s[Len(s) - 1] \in {"terminal", "error"}
  /\ \A i \in 1..(Len(s) - 2) : s[i] = "role"

Sentinel(s) == Len(s) = 1 /\ s[1] = "none"

\* What the graph has put is in the stream or still in the queue.
ToldInv(r) ==
  /\ stage[r] \in {"new", "response", "refused", "abandoned"} => thread[r] = "off"
  /\ stage[r] = "new" => sent[r] = <<>>
  /\ thread[r] = "off" => queue[r] = <<>>
  /\ r \in graphs =>
       /\ thread[r] = "off" => sent[r] = <<>> /\ stage[r] \notin {"streaming", "closed"}
       /\ thread[r] = "busy" => AllRoles(sent[r]) /\ AllRoles(queue[r]) /\ stage[r] # "closed"
       /\ thread[r] = "over" =>
            IF stage[r] = "closed" THEN Told(sent[r])
            ELSE \/ AllRoles(sent[r]) /\ Ending(queue[r])
                 \/ Told(sent[r]) /\ Sentinel(queue[r])

-----------------------------------------------------------------------------
\* Types, with what keeps a run from being posted twice.
LEMMA KindsAlways == ServerSafety => [](ServerTypeOK /\ KindInv)
<1> USE RegistryAssumption, ApprovalAssumption
<1>1. ServerInit => ServerTypeOK /\ KindInv
  BY DEF ServerInit, ApprovalInit, ServerTypeOK, ApprovalTypeOK, Stages, Phases, KindInv
<1>2. ServerTypeOK /\ KindInv /\ [ServerNext]_serverVars => ServerTypeOK' /\ KindInv'
  <2> SUFFICES ASSUME ServerTypeOK, KindInv, [ServerNext]_serverVars PROVE ServerTypeOK' /\ KindInv'
    OBVIOUS
  <2>1. ASSUME NEW r \in Runs, PostGraph(r) PROVE ServerTypeOK' /\ KindInv'
    <3>1. stage[r] = "new" /\ r \notin agents
      BY <2>1 DEF PostGraph, Move, KindInv
    <3>2. stage' \in [Runs -> Stages]
      BY <2>1 DEF PostGraph, Move, ServerTypeOK, Stages
    <3>3. cancelOf' \in Runs \cup {NoRun} /\ ctrlOf' \in graphs' \cup {NoRun}
      BY <2>1 DEF PostGraph, Unregister, ServerTypeOK
    <3>4. KindInv'
      BY <2>1 DEF PostGraph, Move, KindInv, ServerTypeOK
    <3> QED
      BY <2>1, <3>1, <3>2, <3>3, <3>4, SMTT(60) DEF PostGraph, ServerTypeOK, ApprovalTypeOK, approvalVars
  <2>2. ASSUME NEW r \in Runs, PostAgent(r) PROVE ServerTypeOK' /\ KindInv'
    <3>1. stage[r] = "new" /\ r \notin graphs
      BY <2>2 DEF PostAgent, Move, KindInv
    <3>2. stage' \in [Runs -> Stages]
      BY <2>2 DEF PostAgent, Move, ServerTypeOK, Stages
    <3>3. KindInv'
      BY <2>2 DEF PostAgent, Move, KindInv, ServerTypeOK
    <3> QED
      BY <2>2, <3>1, <3>2, <3>3 DEF PostAgent, ServerTypeOK, ApprovalTypeOK, approvalVars
  <2>3. ASSUME NEW r \in Runs, StartGraph(r) PROVE ServerTypeOK' /\ KindInv'
    <3>1. stage' \in [Runs -> Stages] /\ KindInv'
      BY <2>3 DEF StartGraph, Move, ServerTypeOK, Stages, KindInv, kinds
    <3>2. thread' \in [Runs -> {"off", "busy", "over"}]
      BY <2>3 DEF StartGraph, ServerTypeOK
    <3> QED
      BY <2>3, <3>1, <3>2 DEF StartGraph, ServerTypeOK, ApprovalTypeOK, approvalVars, kinds, KindInv
  <2>4. ASSUME NEW r \in Runs, PutRole(r) PROVE ServerTypeOK' /\ KindInv'
    <3>1. queue' \in [Runs -> Seq(Items)]
      BY <2>4 DEF PutRole, Put, ServerTypeOK, Items
    <3> QED
      BY <2>4, <3>1 DEF PutRole, ServerTypeOK, ApprovalTypeOK, approvalVars, kinds, KindInv
  <2>5. ASSUME NEW r \in Runs, PutLast(r) PROVE ServerTypeOK' /\ KindInv'
    <3>1. queue' \in [Runs -> Seq(Items)]
      BY <2>5 DEF PutLast, Put, ServerTypeOK, Items
    <3> QED
      BY <2>5, <3>1 DEF PutLast, ServerTypeOK, ApprovalTypeOK, approvalVars, kinds, KindInv
  <2>6. ASSUME NEW r \in Runs, NEW n \in 1..Reviews, BeginReview(<<r, n>>) PROVE ServerTypeOK' /\ KindInv'
    <3>1. ApprovalTypeOK'
      BY <2>6 DEF BeginReview, Register, ServerTypeOK, ApprovalTypeOK, Phases, Ids
    <3>2. orphans' \subseteq Ids
      BY <2>6 DEF BeginReview, ServerTypeOK, Ids
    <3> QED
      BY <2>6, <3>1, <3>2 DEF BeginReview, ServerTypeOK, KindInv, kinds
  <2>7. ASSUME NEW r \in Runs, NEW n \in 1..Reviews, GoOnReview(<<r, n>>) PROVE ServerTypeOK' /\ KindInv'
    <3>1. ApprovalTypeOK'
      <4> DEFINE a == <<r, n>>
      <4>1. a \in Ids
        BY DEF Ids
      <4>2. CASE Wake(a)
        BY <4>2 DEF Wake, ServerTypeOK, ApprovalTypeOK, Phases
      <4>3. CASE ReadDecision(a)
        BY <4>1, <4>3 DEF ReadDecision, ServerTypeOK, ApprovalTypeOK, Phases
      <4>4. CASE TimeOut(a)
        BY <4>4 DEF TimeOut, ServerTypeOK, ApprovalTypeOK, Phases, Decisions
      <4>5. CASE Return(a)
        BY <4>5 DEF Return, ServerTypeOK, ApprovalTypeOK, Phases
      <4> QED
        BY <2>7, <4>2, <4>3, <4>4, <4>5 DEF GoOnReview, Reviewing
    <3> QED
      BY <2>7, <3>1 DEF GoOnReview, registryVars, ServerTypeOK, KindInv
  <2>8. ASSUME NEW r \in Runs, Deliver(r) PROVE ServerTypeOK' /\ KindInv'
    <3>1. stage' \in [Runs -> Stages] /\ KindInv'
      BY <2>8 DEF Deliver, Move, ServerTypeOK, Stages, KindInv, kinds
    <3>2. queue' \in [Runs -> Seq(Items)] /\ sent' \in [Runs -> Seq(Items)]
      <4>1. queue[r] \in Seq(Items) /\ queue[r] # <<>> /\ sent[r] \in Seq(Items)
        BY <2>8 DEF Deliver, ServerTypeOK
      <4>2. Tail(queue[r]) \in Seq(Items) /\ Append(sent[r], Head(queue[r])) \in Seq(Items)
        BY <4>1
      <4>3. queue' = [queue EXCEPT ![r] = Tail(queue[r])]
            /\ sent' \in {sent, [sent EXCEPT ![r] = Append(sent[r], Head(queue[r]))]}
        BY <2>8 DEF Deliver
      <4> QED
        BY <4>2, <4>3, ZenonT(60) DEF ServerTypeOK
    <3>3. cancelOf' \in Runs \cup {NoRun} /\ ctrlOf' \in graphs' \cup {NoRun}
      BY <2>8 DEF Deliver, Unregister, ServerTypeOK, kinds
    <3> QED
      BY <2>8, <3>1, <3>2, <3>3 DEF Deliver, ServerTypeOK, ApprovalTypeOK, approvalVars, kinds, KindInv
  <2>9. ASSUME NEW r \in Runs, StartAgent(r) PROVE ServerTypeOK' /\ KindInv'
    <3>1. stage' \in [Runs -> Stages] /\ KindInv'
      <4>1. \E to \in Stages \ {"new"} : stage' = [stage EXCEPT ![r] = to]
        BY <2>9 DEF StartAgent, Move, Stages
      <4> QED
        BY <2>9, <4>1 DEF StartAgent, ServerTypeOK, KindInv, kinds
    <3>2. sent' \in [Runs -> Seq(Items)]
      <4>1. <<"error">> \in Seq(Items)
        BY DEF Items
      <4> QED
        BY <2>9, <4>1, ZenonT(60) DEF StartAgent, ServerTypeOK, Move
    <3>3. cancelOf' \in Runs \cup {NoRun}
      BY <2>9 DEF StartAgent, ServerTypeOK
    <3> QED
      BY <2>9, <3>1, <3>2, <3>3 DEF StartAgent, ServerTypeOK, ApprovalTypeOK, approvalVars, kinds, KindInv
  <2>10. ASSUME NEW r \in Runs, AgentYield(r) PROVE ServerTypeOK' /\ KindInv'
    <3>1. stage' \in [Runs -> Stages] /\ KindInv'
      BY <2>10 DEF AgentYield, Move, ServerTypeOK, Stages, KindInv, kinds
    <3>2. sent' \in [Runs -> Seq(Items)]
      BY <2>10 DEF AgentYield, ServerTypeOK, Items
    <3>3. cancelOf' \in Runs \cup {NoRun}
      BY <2>10 DEF AgentYield, ServerTypeOK
    <3>4. late' \in [Runs -> Nat]
      BY <2>10 DEF AgentYield, ServerTypeOK
    <3> QED
      BY <2>10, <3>1, <3>2, <3>3, <3>4 DEF AgentYield, ServerTypeOK, ApprovalTypeOK, approvalVars, kinds, KindInv
  <2>11. ASSUME NEW r \in Runs, AgentResume(r) PROVE ServerTypeOK' /\ KindInv'
    <3>1. stage' \in [Runs -> Stages] /\ KindInv'
      BY <2>11 DEF AgentResume, Move, ServerTypeOK, Stages, KindInv, kinds
    <3>2. sent' \in [Runs -> Seq(Items)]
      <4>1. sent[r] \in Seq(Items) /\ "cancelled" \in Items
        BY DEF ServerTypeOK, Items
      <4>2. Append(sent[r], "cancelled") \in Seq(Items)
        BY <4>1
      <4> QED
        BY <2>11, <4>2, ZenonT(60) DEF AgentResume, ServerTypeOK, Move
    <3>3. cancelOf' \in Runs \cup {NoRun}
      BY <2>11 DEF AgentResume, ServerTypeOK
    <3> QED
      BY <2>11, <3>1, <3>2, <3>3 DEF AgentResume, ServerTypeOK, ApprovalTypeOK, approvalVars, kinds, KindInv
  <2>12. ASSUME NEW r \in Runs, AgentEnd(r) PROVE ServerTypeOK' /\ KindInv'
    <3>1. stage' \in [Runs -> Stages] /\ KindInv'
      BY <2>12 DEF AgentEnd, Move, ServerTypeOK, Stages, KindInv, kinds
    <3>2. sent' \in [Runs -> Seq(Items)]
      <4>1. sent[r] \in Seq(Items) /\ "error" \in Items
        BY DEF ServerTypeOK, Items
      <4>2. Append(sent[r], "error") \in Seq(Items)
        BY <4>1
      <4> QED
        BY <2>12, <4>2 DEF AgentEnd, ServerTypeOK, Move
    <3>3. cancelOf' \in Runs \cup {NoRun}
      BY <2>12 DEF AgentEnd, ServerTypeOK
    <3> QED
      BY <2>12, <3>1, <3>2, <3>3 DEF AgentEnd, ServerTypeOK, ApprovalTypeOK, approvalVars, kinds, KindInv
  <2>13. ASSUME NEW r \in Runs, Leave(r) PROVE ServerTypeOK' /\ KindInv'
    <3>1. stage' \in [Runs -> Stages] /\ KindInv'
      BY <2>13, ZenonT(60) DEF Leave, Move, ServerTypeOK, Stages, KindInv, kinds
    <3>2. cancelOf' \in Runs \cup {NoRun} /\ ctrlOf' \in graphs' \cup {NoRun}
      BY <2>13 DEF Leave, Unregister, ServerTypeOK, kinds
    <3> QED
      BY <2>13, <3>1, <3>2 DEF Leave, ServerTypeOK, ApprovalTypeOK, approvalVars, kinds, KindInv
  <2>14. CASE CancelRun
    <3>1. event' \in [Runs -> BOOLEAN]
      BY <2>14 DEF CancelRun, ServerTypeOK
    <3> QED
      BY <2>14, <3>1 DEF CancelRun, ServerTypeOK, ApprovalTypeOK, approvalVars, kinds, KindInv
  <2>15. ASSUME NEW a \in Ids, NEW d \in Decisions, DecideApproval(a, d) PROVE ServerTypeOK' /\ KindInv'
    <3>1. ApprovalTypeOK'
      BY <2>15 DEF DecideApproval, Decide, ServerTypeOK, ApprovalTypeOK, Decisions
    <3> QED
      BY <2>15, <3>1 DEF DecideApproval, registryVars, ServerTypeOK, KindInv
  <2>16. CASE UNCHANGED serverVars
    BY <2>16 DEF serverVars, registryVars, ServerTypeOK, ApprovalTypeOK, approvalVars, KindInv
  <2> QED
    BY <2>1, <2>2, <2>3, <2>4, <2>5, <2>6, <2>7, <2>8, <2>9, <2>10, <2>11, <2>12,
       <2>13, <2>14, <2>15, <2>16 DEF ServerNext, Graph, Stream
<1>3. QED
  BY <1>1, <1>2, PTL DEF ServerSafety

\* The registry, the requests and the streams keep their types.
THEOREM ServerTypeCorrect == ServerSafety => []ServerTypeOK
BY KindsAlways, PTL

-----------------------------------------------------------------------------
\* A step leaves the reviews alone, or is a step of one of them.
LEMMA ReviewSteps ==
  ASSUME ServerTypeOK, [ServerNext]_serverVars
  PROVE  \/ UNCHANGED approvalVars
         \/ \E b \in Ids : \/ Register(b) \/ Wake(b) \/ ReadDecision(b) \/ TimeOut(b) \/ Return(b)
                           \/ \E d \in Decisions : Decide(b, d) /\ ctrlOf = b[1]
<1>1. ASSUME NEW r \in Runs, PostGraph(r) \/ PostAgent(r) \/ Stream(r) \/ Leave(r) \/ CancelRun
      PROVE  UNCHANGED approvalVars
  BY <1>1 DEF PostGraph, PostAgent, Stream, StartGraph, Deliver, StartAgent, AgentYield,
              AgentResume, AgentEnd, Leave, CancelRun
<1>2. ASSUME NEW r \in Runs, PutRole(r) \/ PutLast(r)
      PROVE  UNCHANGED approvalVars
  BY <1>2 DEF PutRole, PutLast
<1>3. ASSUME NEW r \in Runs, NEW n \in 1..Reviews, BeginReview(<<r, n>>)
      PROVE  Register(<<r, n>>) /\ <<r, n>> \in Ids
  BY <1>3 DEF BeginReview, Ids
<1>4. ASSUME NEW r \in Runs, NEW n \in 1..Reviews, GoOnReview(<<r, n>>)
      PROVE  /\ <<r, n>> \in Ids
             /\ Wake(<<r, n>>) \/ ReadDecision(<<r, n>>) \/ TimeOut(<<r, n>>) \/ Return(<<r, n>>)
  BY <1>4 DEF GoOnReview, Reviewing, Ids
<1>5. ASSUME NEW b \in Ids, NEW d \in Decisions, DecideApproval(b, d)
      PROVE  Decide(b, d) /\ ctrlOf = b[1]
  BY <1>5 DEF DecideApproval
<1>6. CASE CancelRun
  BY <1>6 DEF CancelRun
<1>7. CASE UNCHANGED serverVars
  BY <1>7 DEF serverVars, approvalVars
<1>8. ASSUME NEW r \in Runs, Graph(r)
      PROVE  \/ UNCHANGED approvalVars
             \/ \E b \in Ids : Register(b) \/ Wake(b) \/ ReadDecision(b) \/ TimeOut(b) \/ Return(b)
  BY <1>2, <1>3, <1>4, <1>8 DEF Graph
<1> QED
  BY <1>1, <1>5, <1>6, <1>7, <1>8 DEF ServerNext

\* A review that has returned has returned for good.
LEMMA ReturnedStays ==
  ASSUME ServerTypeOK, [ServerNext]_serverVars, NEW a \in Ids, phase[a] = "returned"
  PROVE  phase'[a] = "returned"
BY ReviewSteps DEF ServerTypeOK, ApprovalTypeOK, approvalVars, Register, Wake, ReadDecision, TimeOut,
   Return, Decide

LEMMA ReviewStep == ServerTypeOK /\ ReviewInv /\ [ServerNext]_serverVars => ReviewInv'
<1> SUFFICES ASSUME ServerTypeOK, ReviewInv, [ServerNext]_serverVars, NEW a \in Ids
             PROVE  ReviewKnown(a)' /\ InTurn(a)'
  BY DEF ReviewInv, Ids
<1>1. ReviewKnown(a) /\ InTurn(a)
  BY DEF ReviewInv
<1>2. \A n \in 1..(a[2] - 1) : <<a[1], n>> \in Ids
  BY ApprovalAssumption DEF Ids
<1>3. ASSUME phase[a] # "unborn" PROVE InTurn(a)'
  BY <1>1, <1>2, <1>3, ReturnedStays DEF InTurn
<1>4. CASE UNCHANGED approvalVars
  BY <1>1, <1>4 DEF approvalVars, ReviewKnown, InTurn
<1>5. ASSUME NEW b \in Ids, Register(b) PROVE ReviewKnown(a)' /\ InTurn(a)'
  <2>1. CASE a = b
    <3>1. \A n \in 1..(a[2] - 1) : <<a[1], n>> # b
      BY <2>1, ApprovalAssumption DEF Ids
    <3>2. InTurn(a)'
      BY <1>2, <1>5, <2>1, <3>1 DEF Register, InTurn, ServerTypeOK, ApprovalTypeOK
    <3> QED
      BY <1>1, <1>5, <2>1, <3>2 DEF Register, ReviewKnown, ServerTypeOK, ApprovalTypeOK
  <2>2. CASE a # b
    <3>1. phase'[a] = phase[a] /\ (a \in pending' <=> a \in pending)
      BY <1>5, <2>2 DEF Register, ServerTypeOK, ApprovalTypeOK
    <3> QED
      BY <1>1, <1>3, <1>5, <3>1 DEF Register, ReviewKnown, InTurn
  <2> QED
    BY <2>1, <2>2
<1>6. ASSUME NEW b \in Ids, Wake(b) \/ ReadDecision(b) \/ TimeOut(b) \/ Return(b)
      PROVE  ReviewKnown(a)' /\ InTurn(a)'
  <2>1. phase'[a] # "unborn" => phase[a] # "unborn"
    BY <1>6 DEF Wake, ReadDecision, TimeOut, Return, ServerTypeOK, ApprovalTypeOK
  <2>2. InTurn(a)'
    BY <1>3, <2>1 DEF InTurn
  <2>3. CASE a # b
    <3>1. /\ phase'[a] = phase[a] /\ decision' = decision /\ signal' = signal
          /\ result'[a] = result[a] /\ acked' = acked
          /\ a \in pending' <=> a \in pending
      BY <1>6, <2>3 DEF Wake, ReadDecision, TimeOut, Return, ServerTypeOK, ApprovalTypeOK
    <3> QED
      BY <1>1, <2>2, <3>1 DEF ReviewKnown
  <2>4. CASE a = b /\ Wake(b)
    <3>1. phase[a] = "waiting" /\ signal[a]
      BY <2>4 DEF Wake
    <3>2. /\ phase'[a] = "woken" /\ decision' = decision /\ signal' = signal /\ acked' = acked
          /\ result' = result /\ pending' = pending
      BY <2>4 DEF Wake, ServerTypeOK, ApprovalTypeOK
    <3> QED
      BY <1>1, <2>2, <3>1, <3>2 DEF ReviewKnown
  <2>5. CASE a = b /\ ReadDecision(b)
    <3>1. phase[a] = "woken"
      BY <2>5 DEF ReadDecision
    <3>2. /\ phase'[a] = "read" /\ decision' = decision /\ signal' = signal /\ acked' = acked
          /\ result'[a] = decision[a] /\ pending' = pending
      BY <2>5 DEF ReadDecision, ServerTypeOK, ApprovalTypeOK
    <3> QED
      BY <1>1, <2>2, <3>1, <3>2 DEF ReviewKnown
  <2>6. CASE a = b /\ TimeOut(b)
    <3>1. phase[a] = "waiting"
      BY <2>6 DEF TimeOut
    <3>2. /\ phase'[a] = "timed_out" /\ decision' = decision /\ signal' = signal /\ acked' = acked
          /\ result'[a] = "rejected" /\ pending' = pending
      BY <2>6 DEF TimeOut, ServerTypeOK, ApprovalTypeOK
    <3> QED
      BY <1>1, <2>2, <3>1, <3>2 DEF ReviewKnown
  <2>7. CASE a = b /\ Return(b)
    <3>1. phase[a] \in {"read", "timed_out"}
      BY <2>7 DEF Return
    <3>2. /\ phase'[a] = "returned" /\ decision' = decision /\ signal' = signal /\ acked' = acked
          /\ result' = result /\ a \notin pending'
      BY <2>7 DEF Return, ServerTypeOK, ApprovalTypeOK
    <3> QED
      BY <1>1, <2>2, <3>1, <3>2 DEF ReviewKnown
  <2> QED
    BY <1>6, <2>3, <2>4, <2>5, <2>6, <2>7
<1>7. ASSUME NEW b \in Ids, NEW d \in Decisions, Decide(b, d)
      PROVE  ReviewKnown(a)' /\ InTurn(a)'
  <2>1. phase' = phase /\ pending' = pending /\ result' = result
    BY <1>7 DEF Decide
  <2>2. InTurn(a)'
    BY <1>1, <2>1 DEF InTurn
  <2>3. CASE a = b
    <3>1. decision'[a] = d /\ signal'[a] = TRUE /\ acked'[a] = acked[a] \cup {d} /\ d # "none"
      BY <1>7, <2>3 DEF Decide, ServerTypeOK, ApprovalTypeOK, Decisions
    <3>2. phase[a] # "unborn"
      BY <1>1, <1>7, <2>3 DEF Decide, ReviewKnown
    <3> QED
      BY <1>1, <2>1, <2>2, <3>1, <3>2 DEF ReviewKnown
  <2>4. CASE a # b
    <3>1. decision'[a] = decision[a] /\ signal'[a] = signal[a] /\ acked'[a] = acked[a]
      BY <1>7, <2>4 DEF Decide, ServerTypeOK, ApprovalTypeOK
    <3> QED
      BY <1>1, <2>1, <2>2, <3>1 DEF ReviewKnown
  <2> QED
    BY <2>3, <2>4
<1> QED
  BY <1>4, <1>5, <1>6, <1>7, ReviewSteps

\* A step that changes a stage ends nothing that has not begun, and what is gone
\* stays gone.
LEMMA GoneStays ==
  ASSUME ServerTypeOK, [ServerNext]_serverVars, NEW r \in Runs, stage[r] = "gone"
  PROVE  stage'[r] = "gone"
<1>1. ASSUME NEW s \in Runs, PostGraph(s) \/ PostAgent(s) \/ Leave(s) PROVE stage'[r] = "gone"
  BY <1>1 DEF PostGraph, PostAgent, Leave, Move, ServerTypeOK
<1>2. ASSUME NEW s \in Runs, Stream(s) PROVE stage'[r] = "gone"
  BY <1>2 DEF Stream, StartGraph, Deliver, StartAgent, AgentYield, AgentResume, AgentEnd, Move,
              ServerTypeOK
<1>3. ASSUME NEW s \in Runs, Graph(s) PROVE stage' = stage
  BY <1>3 DEF Graph, PutRole, PutLast, BeginReview, GoOnReview, registryVars
<1>4. CASE CancelRun
  BY <1>4 DEF CancelRun
<1>5. ASSUME NEW b \in Ids, NEW d \in Decisions, DecideApproval(b, d) PROVE stage' = stage
  BY <1>5 DEF DecideApproval, registryVars
<1>6. CASE UNCHANGED serverVars
  BY <1>6 DEF serverVars, registryVars
<1> QED
  BY <1>1, <1>2, <1>3, <1>4, <1>5, <1>6 DEF ServerNext

\* Only a review that begins then becomes one without a client.
LEMMA OrphanSteps ==
  ASSUME ServerTypeOK, [ServerNext]_serverVars, NEW a \in orphans', a \notin orphans
  PROVE  a \in Ids /\ phase[a] = "unborn" /\ stage[a[1]] = "gone" /\ acked' = acked
<1>1. ASSUME NEW r \in Runs, PostGraph(r) \/ PostAgent(r) \/ Stream(r) \/ Leave(r)
      PROVE  orphans' = orphans
  BY <1>1 DEF PostGraph, PostAgent, Stream, StartGraph, Deliver, StartAgent, AgentYield,
              AgentResume, AgentEnd, Leave
<1>2. ASSUME NEW r \in Runs, PutRole(r) \/ PutLast(r) PROVE orphans' = orphans
  BY <1>2 DEF PutRole, PutLast
<1>3. ASSUME NEW r \in Runs, NEW n \in 1..Reviews, BeginReview(<<r, n>>)
      PROVE  a \in Ids /\ phase[a] = "unborn" /\ stage[a[1]] = "gone" /\ acked' = acked
  BY <1>3 DEF BeginReview, Register, Ids
<1>4. ASSUME NEW r \in Runs, NEW n \in 1..Reviews, GoOnReview(<<r, n>>) PROVE orphans' = orphans
  BY <1>4 DEF GoOnReview, registryVars
<1>5. CancelRun => orphans' = orphans
  BY DEF CancelRun
<1>6. ASSUME NEW b \in Ids, NEW d \in Decisions, DecideApproval(b, d) PROVE orphans' = orphans
  BY <1>6 DEF DecideApproval, registryVars
<1>7. UNCHANGED serverVars => orphans' = orphans
  BY DEF serverVars, registryVars
<1> QED
  BY <1>1, <1>2, <1>3, <1>4, <1>5, <1>6, <1>7 DEF ServerNext, Graph

LEMMA OrphanStep ==
  ServerTypeOK /\ ServerTypeOK' /\ EntryInv /\ ReviewInv /\ OrphanInv /\ [ServerNext]_serverVars => OrphanInv'
<1> SUFFICES ASSUME ServerTypeOK, ServerTypeOK', EntryInv, ReviewInv, OrphanInv, [ServerNext]_serverVars,
                    NEW a \in orphans'
             PROVE  acked'[a] = {} /\ stage'[a[1]] = "gone"
  BY DEF OrphanInv
<1>1. a \in Ids /\ a[1] \in Runs
  BY DEF ServerTypeOK, Ids
<1>2. CASE a \notin orphans
  BY <1>1, <1>2, OrphanSteps, GoneStays DEF ReviewInv, ReviewKnown
<1>3. CASE a \in orphans
  <2>1. acked[a] = {} /\ stage[a[1]] = "gone" /\ ctrlOf # a[1]
    BY <1>1, <1>3 DEF OrphanInv, EntryInv
  <2>2. stage'[a[1]] = "gone"
    BY <1>1, <2>1, GoneStays
  <2>3. CASE UNCHANGED approvalVars
    BY <2>1, <2>2, <2>3 DEF approvalVars
  <2>4. ASSUME NEW b \in Ids,
               Register(b) \/ Wake(b) \/ ReadDecision(b) \/ TimeOut(b) \/ Return(b)
        PROVE  acked' = acked
    BY <2>4 DEF Register, Wake, ReadDecision, TimeOut, Return
  <2>5. ASSUME NEW b \in Ids, NEW d \in Decisions, Decide(b, d), ctrlOf = b[1]
        PROVE  acked'[a] = acked[a]
    BY <1>1, <2>1, <2>5 DEF Decide, ServerTypeOK, ApprovalTypeOK
  <2> QED
    BY <2>1, <2>2, <2>3, <2>4, <2>5, ReviewSteps
<1> QED
  BY <1>2, <1>3

LEMMA EntryStep == ServerTypeOK /\ KindInv /\ EntryInv /\ [ServerNext]_serverVars => EntryInv'
<1> SUFFICES ASSUME ServerTypeOK, KindInv, EntryInv, [ServerNext]_serverVars
             PROVE  EntryInv'
  OBVIOUS
<1> DEFINE Held(r) == cancelOf = r \/ ctrlOf = r => stage[r] \notin {"new", "closed", "gone"}
           Late(r) == late[r] # 0 =>
                        late[r] = 1 /\ event[r] /\ stage[r] \in {"yielded", "closed", "gone"}
<1>0. \A r \in Runs : Held(r) /\ Late(r)
  BY DEF EntryInv
<1> SUFFICES ASSUME NEW r \in Runs PROVE Held(r)' /\ Late(r)'
  BY DEF EntryInv
<1>1. ASSUME NEW s \in Runs, PostGraph(s) PROVE Held(r)' /\ Late(r)'
  <2>1. stage[s] = "new" /\ late' = late /\ event' = event
    BY <1>1 DEF PostGraph, Move
  <2>2. stage'[r] # stage[r] => r = s
    BY <1>1 DEF PostGraph, Move, ServerTypeOK
  <2>3. Late(r)'
    BY <1>0, <2>1, <2>2
  <2>4. stage'[s] \notin {"new", "closed", "gone"}
    BY <1>1 DEF PostGraph, Move, ServerTypeOK
  <2>5. cancelOf' \in {s, NoRun} /\ ctrlOf' \in {s, NoRun, ctrlOf}
    BY <1>1 DEF PostGraph, Unregister
  <2> QED
    BY <1>0, <2>2, <2>3, <2>4, <2>5, RegistryAssumption
<1>2. ASSUME NEW s \in Runs, PostAgent(s) PROVE Held(r)' /\ Late(r)'
  BY <1>0, <1>2 DEF PostAgent, Move, ServerTypeOK
<1>3. ASSUME NEW s \in Runs, StartGraph(s) PROVE Held(r)' /\ Late(r)'
  BY <1>0, <1>3 DEF StartGraph, Move, ServerTypeOK
<1>4. ASSUME NEW s \in Runs, Graph(s) PROVE Held(r)' /\ Late(r)'
  BY <1>0, <1>4 DEF Graph, PutRole, PutLast, BeginReview, GoOnReview, registryVars
<1>5. ASSUME NEW s \in Runs, Deliver(s) PROVE Held(r)' /\ Late(r)'
  <2>1. late' = late /\ event' = event /\ stage[s] = "streaming"
    BY <1>5 DEF Deliver
  <2>2. \/ stage' = stage /\ cancelOf' = cancelOf /\ ctrlOf' = ctrlOf
        \/ stage' = [stage EXCEPT ![s] = "closed"] /\ cancelOf' = NoRun /\ ctrlOf' = NoRun
    BY <1>5 DEF Deliver, Move, Unregister
  <2> QED
    BY <1>0, <2>1, <2>2, RegistryAssumption DEF ServerTypeOK
<1>6. ASSUME NEW s \in Runs, StartAgent(s) PROVE Held(r)' /\ Late(r)'
  <2>1. late' = late /\ event' = event /\ ctrlOf' = ctrlOf /\ stage[s] = "response" /\ ctrlOf # s
    BY <1>6, RegistryAssumption DEF StartAgent, Move, kinds, ServerTypeOK
  <2>2. \/ stage' = [stage EXCEPT ![s] = "streaming"] /\ cancelOf' = s
        \/ stage' = [stage EXCEPT ![s] = "closed"] /\ cancelOf' = NoRun
    BY <1>6 DEF StartAgent, Move
  <2>3. late[s] = 0
    BY <1>0, <2>1 DEF EntryInv
  <2>4. CASE r = s
    BY <2>1, <2>2, <2>3, <2>4, RegistryAssumption DEF ServerTypeOK
  <2>5. CASE r # s
    BY <1>0, <2>1, <2>2, <2>5, RegistryAssumption DEF ServerTypeOK
  <2> QED
    BY <2>4, <2>5
<1>7. ASSUME NEW s \in Runs, AgentYield(s) PROVE Held(r)' /\ Late(r)'
  <2>1. event' = event /\ ctrlOf' = ctrlOf /\ cancelOf' = cancelOf /\ stage[s] = "streaming"
    BY <1>7 DEF AgentYield, Move
  <2>2. stage' = [stage EXCEPT ![s] = "yielded"] /\ late[s] = 0
    BY <1>0, <1>7 DEF AgentYield, Move
  <2>3. late' = [late EXCEPT ![s] = IF event[s] THEN 1 ELSE 0]
    BY <1>7, <2>2 DEF AgentYield, ServerTypeOK
  <2> QED
    BY <1>0, <2>1, <2>2, <2>3 DEF ServerTypeOK
<1>8. ASSUME NEW s \in Runs, AgentResume(s) PROVE Held(r)' /\ Late(r)'
  <2>1. late' = late /\ event' = event /\ ctrlOf' = ctrlOf /\ stage[s] = "yielded" /\ ctrlOf # s
    BY <1>8, RegistryAssumption DEF AgentResume, Move, kinds, ServerTypeOK
  <2>2. \/ event[s] /\ stage' = [stage EXCEPT ![s] = "closed"] /\ cancelOf' = NoRun
        \/ ~event[s] /\ stage' = [stage EXCEPT ![s] = "streaming"] /\ cancelOf' = cancelOf
    BY <1>8 DEF AgentResume, Move, ServerTypeOK
  <2> QED
    BY <1>0, <2>1, <2>2, RegistryAssumption DEF ServerTypeOK
<1>9. ASSUME NEW s \in Runs, AgentEnd(s) PROVE Held(r)' /\ Late(r)'
  <2>1. late' = late /\ event' = event /\ ctrlOf' = ctrlOf /\ stage[s] = "streaming" /\ ctrlOf # s
    BY <1>9, RegistryAssumption DEF AgentEnd, Move, kinds, ServerTypeOK
  <2>2. stage' = [stage EXCEPT ![s] = "closed"] /\ cancelOf' = NoRun
    BY <1>9 DEF AgentEnd, Move
  <2> QED
    BY <1>0, <2>1, <2>2, RegistryAssumption DEF ServerTypeOK
<1>10. ASSUME NEW s \in Runs, Leave(s) PROVE Held(r)' /\ Late(r)'
  <2>1. late' = late /\ event' = event
    BY <1>10 DEF Leave
  <2>2. CASE stage[s] \in {"streaming", "yielded"}
    <3>1. stage' = [stage EXCEPT ![s] = "gone"] /\ cancelOf' = NoRun
          /\ ctrlOf' \in {ctrlOf, NoRun} /\ ctrlOf' # s
      BY <1>10, <2>2, RegistryAssumption DEF Leave, Move, Unregister, ServerTypeOK
    <3> QED
      BY <1>0, <2>1, <3>1, RegistryAssumption DEF ServerTypeOK
  <2>3. CASE stage[s] = "response"
    <3>1. stage' = [stage EXCEPT ![s] = "abandoned"] /\ cancelOf' = cancelOf /\ ctrlOf' = ctrlOf
      BY <1>10, <2>3 DEF Leave, Move
    <3> QED
      BY <1>0, <2>1, <2>3, <3>1 DEF ServerTypeOK
  <2> QED
    BY <1>10, <2>2, <2>3 DEF Leave, Move
<1>11. CASE CancelRun
  BY <1>0, <1>11 DEF CancelRun, ServerTypeOK
<1>12. ASSUME NEW b \in Ids, NEW d \in Decisions, DecideApproval(b, d) PROVE Held(r)' /\ Late(r)'
  BY <1>0, <1>12 DEF DecideApproval, registryVars
<1>13. CASE UNCHANGED serverVars
  BY <1>0, <1>13 DEF serverVars, registryVars
<1> QED
  BY <1>1, <1>2, <1>3, <1>4, <1>5, <1>6, <1>7, <1>8, <1>9, <1>10, <1>11, <1>12, <1>13
     DEF ServerNext, Stream

LEMMA RegistryKnown == ServerSafety => [](EntryInv /\ ReviewInv /\ OrphanInv)
<1>1. ServerInit => EntryInv /\ ReviewInv /\ OrphanInv
  BY RegistryAssumption
     DEF ServerInit, ApprovalInit, EntryInv, ReviewInv, ReviewKnown, InTurn, OrphanInv
<1> QED
  BY <1>1, KindsAlways, EntryStep, ReviewStep, OrphanStep, PTL DEF ServerSafety

-----------------------------------------------------------------------------
\* No silence approves, no rejection is reversed, what can be decided is what a
\* graph waits for, and the reviews of a run without a client end rejected, for
\* any number of runs of the session and of reviews of each.
THEOREM ReviewsAreSound == ServerSafety => []ReviewsSound
<1>1. ServerTypeOK /\ ReviewInv => ApprovalIsHuman /\ RejectionStands
  BY DEF ReviewInv, ReviewKnown, ApprovalIsHuman, RejectionStands, ServerTypeOK, ApprovalTypeOK, Decisions
<1>2. ServerTypeOK /\ ReviewInv => OnlyCurrentPending
  <2> SUFFICES ASSUME ServerTypeOK, ReviewInv, NEW a \in pending
               PROVE  /\ phase[a] \notin {"unborn", "returned"}
                      /\ \A b \in Ids : (b[1] = a[1] /\ phase[b] \notin {"unborn", "returned"}) => b = a
    BY DEF OnlyCurrentPending
  <2>1. a \in Ids /\ phase[a] \notin {"unborn", "returned"}
    BY DEF ServerTypeOK, ApprovalTypeOK, ReviewInv, ReviewKnown
  <2> SUFFICES ASSUME NEW b \in Ids, b[1] = a[1], phase[b] \notin {"unborn", "returned"}
               PROVE  b = a
    BY <2>1
  <2>2. a = <<a[1], a[2]>> /\ b = <<a[1], b[2]>> /\ a[2] \in 1..Reviews /\ b[2] \in 1..Reviews
    BY <2>1 DEF Ids
  <2>3. ~(a[2] < b[2])
    BY <2>1, <2>2, ApprovalAssumption DEF ReviewInv, InTurn
  <2>4. ~(b[2] < a[2])
    BY <2>1, <2>2, ApprovalAssumption DEF ReviewInv, InTurn
  <2> QED
    BY <2>1, <2>2, <2>3, <2>4, ApprovalAssumption
<1>3. ServerTypeOK /\ ReviewInv /\ OrphanInv => OrphansRejected
  BY DEF ServerTypeOK, ReviewInv, ReviewKnown, OrphanInv, OrphansRejected
<1> QED
  BY <1>1, <1>2, <1>3, ServerTypeCorrect, RegistryKnown, PTL DEF ReviewsSound

-----------------------------------------------------------------------------
(* What the client of a graph is told. *)

LEMMA RolesAppend ==
  ASSUME NEW s \in Seq(Items), AllRoles(s)
  PROVE  /\ AllRoles(Append(s, "role")) /\ AllRoles(s \o <<"role">>)
         /\ \A x \in {"terminal", "error"} : Told(Append(s, x)) /\ Ending(s \o <<x, "none">>)
<1>1. Len(s) \in Nat /\ "role" \in Items
  BY DEF Items
<1>2. AllRoles(Append(s, "role"))
  BY <1>1 DEF AllRoles
<1>3. AllRoles(s \o <<"role">>)
  BY <1>1 DEF AllRoles
<1>4. ASSUME NEW x \in {"terminal", "error"} PROVE Told(Append(s, x))
  BY <1>1 DEF AllRoles, Told
<1>5. ASSUME NEW x \in {"terminal", "error"} PROVE Ending(s \o <<x, "none">>)
  <2> DEFINE q == s \o <<x, "none">>
  <2>1. Len(q) = Len(s) + 2 /\ q[Len(s) + 1] = x /\ q[Len(s) + 2] = "none"
    BY <1>1
  <2>2. \A i \in 1..Len(s) : q[i] = s[i]
    BY <1>1
  <2> QED
    BY <1>1, <2>1, <2>2 DEF AllRoles, Ending
<1> QED
  BY <1>2, <1>3, <1>4, <1>5

LEMMA RolesTail ==
  ASSUME NEW s \in Seq(Items), AllRoles(s), s # <<>>
  PROVE  Head(s) = "role" /\ AllRoles(Tail(s))
BY DEF AllRoles

LEMMA EndingTail ==
  ASSUME NEW s \in Seq(Items), Ending(s)
  PROVE  \/ Head(s) = "role" /\ Ending(Tail(s))
         \/ Head(s) \in {"terminal", "error"} /\ Sentinel(Tail(s))
<1>1. Len(s) \in Nat /\ Len(s) >= 2 /\ s # <<>>
  BY DEF Ending
<1>2. Head(s) = s[1] /\ Tail(s) \in Seq(Items) /\ Len(Tail(s)) = Len(s) - 1
  BY <1>1
<1>3. \A i \in 1..(Len(s) - 1) : Tail(s)[i] = s[i + 1]
  BY <1>1
<1>4. CASE Len(s) = 2
  <2>1. Tail(s)[1] = "none" /\ Len(Tail(s)) = 1 /\ Head(s) \in {"terminal", "error"}
    BY <1>2, <1>3, <1>4 DEF Ending
  <2> QED
    BY <2>1 DEF Sentinel
<1>5. CASE Len(s) # 2
  <2>1. Head(s) = "role"
    BY <1>1, <1>2, <1>5 DEF Ending
  <2>2. Ending(Tail(s))
    BY <1>1, <1>2, <1>3, <1>5 DEF Ending
  <2> QED
    BY <2>1, <2>2
<1> QED
  BY <1>4, <1>5

\* A stream that has delivered an item.
LEMMA DeliverStep ==
  ASSUME ServerTypeOK, NEW r \in Runs, ToldInv(r), Deliver(r)
  PROVE  ToldInv(r)'
<1>1. /\ r \in graphs /\ graphs' = graphs /\ thread' = thread /\ stage[r] = "streaming"
      /\ queue[r] \in Seq(Items) /\ queue[r] # <<>> /\ sent[r] \in Seq(Items)
      /\ queue'[r] = Tail(queue[r])
  BY DEF Deliver, kinds, ServerTypeOK
<1>2. Head(queue[r]) = "none" => stage'[r] = "closed" /\ sent'[r] = sent[r]
  BY DEF Deliver, Move, ServerTypeOK
<1>3. Head(queue[r]) # "none" =>
        stage'[r] = "streaming" /\ sent'[r] = Append(sent[r], Head(queue[r]))
  BY DEF Deliver, ServerTypeOK
<1>4. CASE thread[r] = "off"
  BY <1>1, <1>4 DEF ToldInv
<1>5. CASE thread[r] = "busy"
  <2>1. AllRoles(sent[r]) /\ Head(queue[r]) = "role" /\ AllRoles(Tail(queue[r]))
    BY <1>1, <1>5, RolesTail DEF ToldInv
  <2> QED
    BY <1>1, <1>3, <1>5, <2>1, RolesAppend DEF ToldInv
<1>6. CASE thread[r] = "over" /\ AllRoles(sent[r]) /\ Ending(queue[r])
  BY <1>1, <1>3, <1>6, EndingTail, RolesAppend DEF ToldInv
<1>7. CASE thread[r] = "over" /\ Told(sent[r]) /\ Sentinel(queue[r])
  BY <1>1, <1>2, <1>7 DEF ToldInv, Sentinel
<1> QED
  BY <1>1, <1>4, <1>5, <1>6, <1>7 DEF ToldInv, ServerTypeOK

\* A graph that has put an item.
LEMMA PutStep ==
  ASSUME ServerTypeOK, NEW r \in Runs, ToldInv(r), PutRole(r) \/ PutLast(r)
  PROVE  ToldInv(r)'
<1>1. /\ graphs' = graphs /\ stage' = stage /\ sent' = sent /\ thread[r] = "busy"
      /\ queue[r] \in Seq(Items) /\ sent[r] \in Seq(Items)
  BY DEF PutRole, PutLast, kinds, ServerTypeOK
<1>2. CASE PutRole(r)
  <2>1. thread' = thread /\ queue'[r] = queue[r] \o <<"role">>
    BY <1>2 DEF PutRole, Put, ServerTypeOK
  <2> QED
    BY <1>1, <2>1, RolesAppend DEF ToldInv
<1>3. CASE PutLast(r)
  <2>1. thread'[r] = "over"
    BY <1>3 DEF PutLast, ServerTypeOK
  <2>2. PICK x \in {"terminal", "error"} : queue'[r] = queue[r] \o <<x, "none">>
    BY <1>3 DEF PutLast, Put, ServerTypeOK
  <2>3. r \in graphs => stage[r] # "closed" /\ AllRoles(sent[r]) /\ Ending(queue'[r])
    BY <1>1, <2>2, RolesAppend DEF ToldInv
  <2> QED
    BY <1>1, <2>1, <2>3 DEF ToldInv
<1> QED
  BY <1>2, <1>3

\* Only the graph's own steps and its stream's change what it has told.
LEMMA ToldStep ==
  ASSUME ServerTypeOK, KindInv, [ServerNext]_serverVars, NEW r \in Runs, ToldInv(r)
  PROVE  ToldInv(r)'
<1>1. ASSUME NEW s \in Runs, PostGraph(s) PROVE ToldInv(r)'
  <2>1. /\ stage[s] = "new" /\ graphs' = graphs \cup {s}
        /\ thread' = thread /\ queue' = queue /\ sent' = sent
    BY <1>1 DEF PostGraph, Move
  <2>2. stage' = [stage EXCEPT ![s] = "response"] \/ stage' = [stage EXCEPT ![s] = "refused"]
    BY <1>1 DEF PostGraph, Move
  <2>3. CASE r = s
    BY <2>1, <2>2, <2>3 DEF ToldInv, ServerTypeOK
  <2>4. CASE r # s
    BY <2>1, <2>2, <2>4 DEF ToldInv, ServerTypeOK
  <2> QED
    BY <2>3, <2>4
<1>2. ASSUME NEW s \in Runs, PostAgent(s) PROVE ToldInv(r)'
  <2>1. /\ stage[s] = "new" /\ graphs' = graphs /\ s \notin graphs
        /\ thread' = thread /\ queue' = queue /\ sent' = sent
    BY <1>2 DEF PostAgent, Move, KindInv
  <2>2. stage' = [stage EXCEPT ![s] = "response"] \/ stage' = [stage EXCEPT ![s] = "refused"]
    BY <1>2 DEF PostAgent, Move
  <2> QED
    BY <2>1, <2>2 DEF ToldInv, ServerTypeOK
<1>3. ASSUME NEW s \in Runs, StartGraph(s) PROVE ToldInv(r)'
  <2>1. /\ stage[s] = "response" /\ graphs' = graphs /\ s \in graphs
        /\ queue' = queue /\ sent' = sent
        /\ stage' = [stage EXCEPT ![s] = "streaming"] /\ thread' = [thread EXCEPT ![s] = "busy"]
    BY <1>3 DEF StartGraph, Move, kinds
  <2>2. CASE r = s
    BY <2>1, <2>2 DEF ToldInv, ServerTypeOK, AllRoles
  <2>3. CASE r # s
    BY <2>1, <2>3 DEF ToldInv, ServerTypeOK
  <2> QED
    BY <2>2, <2>3
<1>4. ASSUME NEW s \in Runs, PutRole(s) \/ PutLast(s) PROVE ToldInv(r)'
  <2>1. CASE r = s
    BY <1>4, <2>1, PutStep
  <2>2. CASE r # s
    <3>1. /\ graphs' = graphs /\ stage' = stage /\ sent' = sent
          /\ thread'[r] = thread[r] /\ queue'[r] = queue[r]
      BY <1>4, <2>2 DEF PutRole, PutLast, Put, kinds, ServerTypeOK
    <3> QED
      BY <3>1 DEF ToldInv
  <2> QED
    BY <2>1, <2>2
<1>5. ASSUME NEW s \in Runs, NEW n \in 1..Reviews, BeginReview(<<s, n>>) \/ GoOnReview(<<s, n>>)
      PROVE  ToldInv(r)'
  BY <1>5 DEF BeginReview, GoOnReview, registryVars, kinds, ToldInv
<1>6. ASSUME NEW s \in Runs, Deliver(s) PROVE ToldInv(r)'
  <2>1. CASE r = s
    BY <1>6, <2>1, DeliverStep
  <2>2. CASE r # s
    <3>1. /\ graphs' = graphs /\ thread' = thread
          /\ stage'[r] = stage[r] /\ sent'[r] = sent[r] /\ queue'[r] = queue[r]
      BY <1>6, <2>2 DEF Deliver, Move, kinds, ServerTypeOK
    <3> QED
      BY <3>1 DEF ToldInv
  <2> QED
    BY <2>1, <2>2
<1>7. ASSUME NEW s \in Runs, StartAgent(s) \/ AgentYield(s) \/ AgentResume(s) \/ AgentEnd(s)
      PROVE  ToldInv(r)'
  <2>1. s \notin graphs /\ graphs' = graphs /\ thread' = thread /\ queue' = queue
    BY <1>7 DEF StartAgent, AgentYield, AgentResume, AgentEnd, kinds, ServerTypeOK
  <2>2. \E to \in {"streaming", "yielded", "closed"} : stage' = [stage EXCEPT ![s] = to]
    BY <1>7 DEF StartAgent, AgentYield, AgentResume, AgentEnd, Move
  <2>3. CASE r = s
    BY <2>1, <2>2, <2>3 DEF ToldInv, ServerTypeOK
  <2>4. CASE r # s
    <3>1. sent'[r] = sent[r]
      BY <1>7, <2>4 DEF StartAgent, AgentYield, AgentResume, AgentEnd, ServerTypeOK
    <3> QED
      BY <2>1, <2>2, <2>4, <3>1 DEF ToldInv, ServerTypeOK
  <2> QED
    BY <2>3, <2>4
<1>8. ASSUME NEW s \in Runs, Leave(s) PROVE ToldInv(r)'
  <2>1. graphs' = graphs /\ thread' = thread /\ queue' = queue /\ sent' = sent
    BY <1>8 DEF Leave, kinds
  <2>2. \/ stage[s] \in {"streaming", "yielded"} /\ stage' = [stage EXCEPT ![s] = "gone"]
        \/ stage[s] = "response" /\ stage' = [stage EXCEPT ![s] = "abandoned"]
    BY <1>8 DEF Leave, Move
  <2> QED
    BY <2>1, <2>2 DEF ToldInv, ServerTypeOK
<1>9. CASE CancelRun
  BY <1>9 DEF CancelRun, kinds, ToldInv
<1>10. ASSUME NEW b \in Ids, NEW d \in Decisions, DecideApproval(b, d) PROVE ToldInv(r)'
  BY <1>10 DEF DecideApproval, registryVars, ToldInv
<1>11. CASE UNCHANGED serverVars
  BY <1>11 DEF serverVars, registryVars, ToldInv
<1> QED
  BY <1>1, <1>2, <1>3, <1>4, <1>5, <1>6, <1>7, <1>8, <1>9, <1>10, <1>11
     DEF ServerNext, Graph, Stream

LEMMA ToldAlways == ServerSafety => [](\A r \in Runs : ToldInv(r))
<1> DEFINE Inv == \A r \in Runs : ToldInv(r)
<1>1. ServerInit => Inv
  BY DEF ServerInit, ToldInv
<1>2. ServerTypeOK /\ KindInv /\ Inv /\ [ServerNext]_serverVars => Inv'
  BY ToldStep
<1> QED
  BY <1>1, <1>2, KindsAlways, PTL DEF ServerSafety

\* A client that stays is told how its graph ended, a cancelled agent run sends
\* at most the event at hand, and an entry outlives every stream only where the
\* stream never began, for any number of runs of the session.
THEOREM StreamsAreSound == ServerSafety => []StreamsSound
<1>1. ServerTypeOK /\ (\A r \in Runs : ToldInv(r)) => ClosedIsTold
  <2> SUFFICES ASSUME ServerTypeOK, \A s \in Runs : ToldInv(s), NEW r \in graphs, stage[r] = "closed"
               PROVE  thread[r] = "over" /\ Told(sent[r])
    BY DEF ClosedIsTold, Told
  <2>1. r \in Runs /\ thread[r] \in {"off", "busy", "over"}
    BY DEF ServerTypeOK
  <2> QED
    BY <2>1 DEF ToldInv
<1>2. ServerTypeOK /\ EntryInv => CancelIsPrompt
  <2> SUFFICES ASSUME ServerTypeOK, EntryInv, NEW r \in agents PROVE late[r] <= 1
    BY DEF CancelIsPrompt
  <2>1. r \in Runs /\ late[r] \in Nat
    BY DEF ServerTypeOK
  <2>2. late[r] = 0 \/ late[r] = 1
    BY <2>1 DEF EntryInv
  <2> QED
    BY <2>2
<1>3. ServerTypeOK /\ EntryInv => LeakExplained
  <2> SUFFICES ASSUME ServerTypeOK, EntryInv, NEW r \in {cancelOf, ctrlOf} \cap Runs, ~Live(r)
               PROVE  stage[r] \in {"refused", "abandoned"}
    BY DEF LeakExplained
  <2> QED
    BY DEF ServerTypeOK, EntryInv, Live, Stages
<1> QED
  BY <1>1, <1>2, <1>3, ServerTypeCorrect, RegistryKnown, ToldAlways, PTL DEF StreamsSound

\* A connected run loses its place in the registry only by a step of another
\* request, for any number of runs of the session.
THEOREM EntriesAreLostToAnother == ServerSafety => LosesEntryToAnother
<1> DEFINE EntryLost(r) == \E e \in {<<cancelOf, cancelOf'>>, <<ctrlOf, ctrlOf'>>} : e[1] = r /\ e[2] # r
           Step == \A r \in Runs : Live(r) /\ Live(r)' /\ EntryLost(r)
                     => \E s \in Runs \ {r} : stage'[s] # stage[s]
<1>1. ServerTypeOK /\ [ServerNext]_serverVars => Step
  <2> SUFFICES ASSUME ServerTypeOK, [ServerNext]_serverVars, NEW r \in Runs, Live(r), Live(r)', EntryLost(r)
               PROVE  \E s \in Runs \ {r} : stage'[s] # stage[s]
    OBVIOUS
  <2>1. cancelOf' # cancelOf \/ ctrlOf' # ctrlOf
    OBVIOUS
  <2>2. (cancelOf = r /\ cancelOf' # r) \/ (ctrlOf = r /\ ctrlOf' # r)
    OBVIOUS
  <2>3. ASSUME NEW s \in Runs, PostGraph(s) \/ PostAgent(s)
        PROVE  s # r /\ stage'[s] # stage[s]
    BY <2>3 DEF PostGraph, PostAgent, Move, Live, ServerTypeOK
  <2>4. ASSUME NEW s \in Runs, Deliver(s) \/ AgentResume(s) \/ AgentEnd(s) \/ Leave(s)
        PROVE  s # r /\ stage'[s] # stage[s]
    BY <2>1, <2>4, RegistryAssumption
       DEF Deliver, AgentResume, AgentEnd, Leave, Move, Unregister, Live, ServerTypeOK
  <2>5. ASSUME NEW s \in Runs, StartAgent(s)
        PROVE  s # r /\ stage'[s] # stage[s]
    BY <2>2, <2>5, RegistryAssumption DEF StartAgent, Move, Live, ServerTypeOK
  <2>6. ASSUME NEW s \in Runs, Graph(s) \/ StartGraph(s) \/ AgentYield(s) PROVE FALSE
    BY <2>1, <2>6
       DEF Graph, PutRole, PutLast, BeginReview, GoOnReview, StartGraph, AgentYield, registryVars
  <2>7. CASE CancelRun
    BY <2>1, <2>7 DEF CancelRun
  <2>8. ASSUME NEW b \in Ids, NEW d \in Decisions, DecideApproval(b, d) PROVE FALSE
    BY <2>1, <2>8 DEF DecideApproval, registryVars
  <2>9. CASE UNCHANGED serverVars
    BY <2>1, <2>9 DEF serverVars, registryVars
  <2> QED
    BY <2>3, <2>4, <2>5, <2>6, <2>7, <2>8, <2>9 DEF ServerNext, Stream
<1>2. ServerTypeOK /\ [ServerNext]_serverVars => [Step]_serverVars
  BY <1>1
<1> QED
  BY <1>2, ServerTypeCorrect, PTL DEF ServerSafety, LosesEntryToAnother

=============================================================================
