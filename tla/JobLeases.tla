----------------------------- MODULE JobLeases -----------------------------
(***************************************************************************)
(* The jobs table of RuntimeControlPlane: enqueue, claim under a lease,    *)
(* complete, fail.  A claim reads the clock before it enters the instance  *)
(* lock, so the time it compares with may be old by the time the UPDATE    *)
(* runs.  Workers may be slow past their lease, or crash and come back.    *)
(* complete_job and fail_job look at neither the lease, the owner nor the  *)
(* status of the job they overwrite.                                       *)
(***************************************************************************)
EXTENDS Integers

CONSTANTS
  Workers,     \* callers of claim_job
  Jobs,        \* job_ids enqueue_job may return
  Lease,       \* lease_seconds, in clock units
  MaxAttempts, \* max_attempts
  NoWorker     \* lease_owner IS NULL

ASSUME LeaseAssumption ==
  /\ Lease \in Nat \ {0}
  /\ MaxAttempts \in Nat \ {0}
  /\ NoWorker \notin Workers

VARIABLES
  clock,  \* time.time()
  jobs,   \* the jobs table
  call,   \* call[w]: the claim_job call w is in, with the time it read
  lease   \* lease[w][j]: until when w believes it holds j, NoLease if it does not

vars == <<clock, jobs, call, lease>>

\* lease_expires_at IS NULL: earlier than any time.
NoLease == -1

Times == Nat \cup {NoLease}
JobStatus == {"absent", "queued", "completed", "failed"}
Settled == {"completed", "failed"}

JobRecords == [status : JobStatus, owner : Workers \cup {NoWorker},
               expires : Times, attempts : Nat]

Calls == [job : Jobs, now : Nat]
NoCall == [job |-> NoWorker, now |-> 0]

-----------------------------------------------------------------------------
Enqueue(j) ==
  /\ jobs[j].status = "absent"
  /\ jobs' = [jobs EXCEPT ![j] = [status |-> "queued", owner |-> NoWorker,
                                  expires |-> NoLease, attempts |-> 0]]
  /\ UNCHANGED <<clock, call, lease>>

\* claim_job, first half: now = time.time().
ReadClock(w, j) ==
  /\ jobs[j].status # "absent"
  /\ call[w] = NoCall
  /\ call' = [call EXCEPT ![w] = [job |-> j, now |-> clock]]
  /\ UNCHANGED <<clock, jobs, lease>>

\* Mutants: the WHERE clause forgets the lease, takes only jobs never leased,
\* counts the attempts off by one, or takes any job that is not running.
ClaimableLeased(job, now) == job.status = "queued" /\ job.attempts < MaxAttempts

ClaimableUnleased(job, now) ==
  /\ job.status = "queued"
  /\ job.expires = NoLease
  /\ job.attempts < MaxAttempts

ClaimableOnceMore(job, now) ==
  /\ job.status = "queued"
  /\ job.expires < now
  /\ job.attempts <= MaxAttempts

ClaimableSettled(job, now) ==
  /\ job.status \in {"queued", "failed"}
  /\ job.expires < now
  /\ job.attempts < MaxAttempts

\* The WHERE clause of the UPDATE.
Claimable(job, now) ==
  /\ job.status = "queued"
  /\ job.expires < now
  /\ job.attempts < MaxAttempts

\* Mutant: the lease is taken off the clock.
ClaimExpiresBefore(w) ==
  /\ call[w] # NoCall
  /\ LET j == call[w].job
         now == call[w].now
     IN  /\ Claimable(jobs[j], now)
         /\ jobs' = [jobs EXCEPT ![j].owner = w,
                                 ![j].expires = now - Lease,
                                 ![j].attempts = @ + 1]
         /\ lease' = [lease EXCEPT ![w][j] = now - Lease]
  /\ call' = [call EXCEPT ![w] = NoCall]
  /\ UNCHANGED clock

\* claim_job, second half: the UPDATE, atomic in SQLite.
Claim(w) ==
  /\ call[w] # NoCall
  /\ LET j == call[w].job
         now == call[w].now
     IN  \/ /\ Claimable(jobs[j], now)
            /\ jobs' = [jobs EXCEPT ![j].owner = w,
                                    ![j].expires = now + Lease,
                                    ![j].attempts = @ + 1]
            /\ lease' = [lease EXCEPT ![w][j] = now + Lease]
         \/ /\ ~Claimable(jobs[j], now)
            /\ UNCHANGED <<jobs, lease>>
  /\ call' = [call EXCEPT ![w] = NoCall]
  /\ UNCHANGED clock

\* Mutant: the worker may report again.
ReportAgain(w, j, s) ==
  /\ lease[w][j] # NoLease
  /\ jobs' = [jobs EXCEPT ![j].status = s]
  /\ UNCHANGED <<clock, call, lease>>

\* A worker that was granted the job reports its end, however late.
Report(w, j, s) ==
  /\ lease[w][j] # NoLease
  /\ jobs' = [jobs EXCEPT ![j].status = s]
  /\ lease' = [lease EXCEPT ![w][j] = NoLease]
  /\ UNCHANGED <<clock, call>>

CompleteJob(w, j) == Report(w, j, "completed")

FailJob(w, j) == Report(w, j, "failed")

\* fail_job_if_max_attempts, which anyone may call at any time and nothing in
\* the package does.
FailIfMaxAttempts(j) ==
  /\ jobs[j].status # "absent"
  /\ jobs[j].attempts >= MaxAttempts
  /\ jobs' = [jobs EXCEPT ![j].status = "failed"]
  /\ UNCHANGED <<clock, call, lease>>

\* The worker's process dies; the database keeps its lease.
Crash(w) ==
  /\ call' = [call EXCEPT ![w] = NoCall]
  /\ lease' = [lease EXCEPT ![w] = [j \in Jobs |-> NoLease]]
  /\ UNCHANGED <<clock, jobs>>

\* Time matters only while the lease of a queued job is running.
Tick ==
  /\ \E j \in Jobs : jobs[j].status = "queued" /\ jobs[j].expires >= clock
  /\ clock' = clock + 1
  /\ UNCHANGED <<jobs, call, lease>>

-----------------------------------------------------------------------------
Init ==
  /\ clock = 0
  /\ jobs = [j \in Jobs |-> [status |-> "absent", owner |-> NoWorker,
                             expires |-> NoLease, attempts |-> 0]]
  /\ call = [w \in Workers |-> NoCall]
  /\ lease = [w \in Workers |-> [j \in Jobs |-> NoLease]]

Next ==
  \/ Tick
  \/ \E w \in Workers : Claim(w) \/ Crash(w)
  \/ \E j \in Jobs : Enqueue(j) \/ FailIfMaxAttempts(j)
  \/ \E w \in Workers, j \in Jobs :
       ReadClock(w, j) \/ CompleteJob(w, j) \/ FailJob(w, j)

Safety == Init /\ [][Next]_vars

\* Time passes.  Nothing is assumed of the workers: they may stop polling, crash,
\* never report, and never call fail_job_if_max_attempts.
Fairness == WF_vars(Tick)

Spec == Safety /\ Fairness

-----------------------------------------------------------------------------
TypeOK ==
  /\ clock \in Nat
  /\ jobs \in [Jobs -> JobRecords]
  /\ call \in [Workers -> Calls \cup {NoCall}]
  /\ lease \in [Workers -> [Jobs -> Times]]

\* w was granted j and its lease has not run out.
Holds(w, j) == lease[w][j] >= clock

\* Two workers never hold the same job at the same time, although each claim
\* decides on a clock value it may have read long before: only a slow worker
\* whose lease has run out overlaps with its successor.
LeaseExclusive ==
  \A j \in Jobs : \A w, x \in Workers : Holds(w, j) /\ Holds(x, j) => w = x

\* The claims granted for a job, by whatever workers and after whatever crashes,
\* never exceed its attempts.
AttemptsBounded == \A j \in Jobs : jobs[j].attempts <= MaxAttempts

\* A completed or failed job is never handed out again (test_complete_job,
\* test_fail_job): its owner, lease and attempts no longer change.
NeverReclaimed ==
  [][\A j \in Jobs :
       jobs[j].status \in Settled =>
         /\ jobs'[j].status \in Settled
         /\ jobs'[j].owner = jobs[j].owner
         /\ jobs'[j].expires = jobs[j].expires
         /\ jobs'[j].attempts = jobs[j].attempts]_vars

Spent(j) == jobs[j].attempts >= MaxAttempts

\* Somebody's claim_job call for j comes to its end.
Polled(j) == \E w \in Workers : call[w].job = j /\ Claim(w)

\* A job that is polled again and again is not forgotten, whoever crashes with its
\* lease or never reports: it is settled, or handed out until its attempts are
\* used up.  A spent job may stay queued for ever: only a call of
\* fail_job_if_max_attempts would end it.
PolledIsHandedOut ==
  \A j \in Jobs :
    []<><<Polled(j)>>_vars =>
      (jobs[j].status = "queued" ~> jobs[j].status \in Settled \/ Spent(j))

\* A terminal status is overwritten (control_plane.py:140) only by the late report
\* of a job that was handed out more than once, or because its attempts were used up.
OverwriteExplained ==
  [][\A j \in Jobs :
       (jobs[j].status \in Settled /\ jobs'[j].status # jobs[j].status) =>
         jobs[j].attempts >= 2 \/ jobs[j].attempts >= MaxAttempts]_vars

(* claim_job hands a job to one worker at a time, and no more often than      *)
(* MaxAttempts.                                                               *)
LeasesSound ==
  /\ TypeOK
  /\ LeaseExclusive
  /\ AttemptsBounded

(* A settled job is not handed out again, and only the late report on a job   *)
(* that was handed out more than once, or for the last time, writes over a    *)
(* terminal status (claim_job, complete_job, fail_job).                       *)
SettledSound == NeverReclaimed /\ OverwriteExplained

=============================================================================
