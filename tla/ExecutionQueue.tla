--------------------------- MODULE ExecutionQueue ---------------------------
(***************************************************************************)
(* The execution queue and its agent (ExecutionQueue.run,                  *)
(* ExecutionAgent.execute): every task of a call is started at once, waits *)
(* for one of max_concurrency permits, and runs its tool in a thread.  An  *)
(* exception leaves gather at once and its other tasks go on; the caller   *)
(* may run the queue again, with new permits.                              *)
(***************************************************************************)
EXTENDS Naturals, Sequences, FiniteSets, SequencesExt

CONSTANTS
  TaskLists,      \* the task ids a call is given, in order
  Unregistered,   \* the task ids whose tool the registry does not have
  MaxConcurrency, \* max_concurrency
  MaxExecutions,  \* max_executions
  MaxCalls        \* how often the queue is run

ASSUME QueueAssumption ==
  /\ \A n \in {MaxConcurrency, MaxExecutions, MaxCalls} : n \in Nat \ {0}
  /\ \A t \in TaskLists : Len(t) \in Nat /\ DOMAIN t = 1..Len(t)

VARIABLES
  tasks,     \* the tasks, the same in each call
  calls,     \* calls made
  job,       \* job[<<c, i>>]: the state of task i of call c
  line,      \* line[c]: the tasks that wait for a permit of call c
  count,     \* _execution_count
  completed, \* _completed
  oks        \* the executions that ended well

queuevars == <<tasks, calls, job, line, count, completed, oks>>

JobsOf(c) == {c} \X DOMAIN tasks
Is(S, state) == {j \in S : job[j] = state}
TaskOf(j) == tasks[j[2]]
Going == {"running", "ready", "waiting"}
Permits(c) == MaxConcurrency - Cardinality(Is(JobsOf(c), "running"))
\* gather has raised in call c, or has all its results.
HasRaised(c) == Is(JobsOf(c), "raised") # {}
Over(c) == HasRaised(c) \/ \A j \in JobsOf(c) : job[j] \notin Going

QueueInit ==
  /\ tasks \in TaskLists
  /\ calls = 0
  /\ job = [j \in (1..MaxCalls) \X DOMAIN tasks |-> "none"]
  /\ line = [c \in 1..MaxCalls |-> <<>>]
  /\ count = 0 /\ completed = {} /\ oks = {}

Call ==
  /\ calls < MaxCalls /\ (calls > 0 => Over(calls)) /\ tasks # <<>>
  /\ calls' = calls + 1
  /\ job' = [j \in DOMAIN job |-> IF j[1] = calls' THEN "ready" ELSE job[j]]
  /\ UNCHANGED <<tasks, line, count, completed, oks>>

\* ExecutionAgent.execute up to its await.
AdmittedUncounted(j) == IF TaskOf(j) \in Unregistered THEN "raised" ELSE "running"
Admitted(j) ==
  IF count >= MaxExecutions THEN "budget_exceeded"
  ELSE IF TaskOf(j) \in Unregistered THEN "raised" ELSE "running"

\* run_one up to its first await: the tasks start in order; a completed one is skipped.
SkipsNone(j) == FALSE
Skips(j) == TaskOf(j) \in completed
Start(j) ==
  /\ job[j] = "ready" /\ \A k \in Is(JobsOf(j[1]), "ready") : j[2] <= k[2]
  /\ LET free == Permits(j[1]) > 0 /\ line[j[1]] = <<>> IN
     /\ job' = [job EXCEPT ![j] = IF Skips(j) THEN "resumed"
                                  ELSE IF free THEN Admitted(j) ELSE "waiting"]
     /\ line' = IF Skips(j) \/ free THEN line ELSE [line EXCEPT ![j[1]] = Append(@, j)]
  /\ UNCHANGED <<tasks, calls, count, completed, oks>>

\* A permit is free: the task that has waited longest takes it.
Free(c) == Permits(c) > 0
Enter(c) ==
  /\ line[c] # <<>> /\ Free(c)
  /\ job' = [job EXCEPT ![Head(line[c])] = Admitted(Head(line[c]))]
  /\ line' = [line EXCEPT ![c] = Tail(@)]
  /\ UNCHANGED <<tasks, calls, count, completed, oks>>

\* The tool's thread ends: well, with a NaN or no artifact, with an exception, or
\* with an output that cannot be read, whose exception leaves gather.
OutcomesRetried == {"completed", "nan_or_missing_artifact", "raised", "ready"}
Outcomes == {"completed", "nan_or_missing_artifact", "raised", "timeout_oom_or_error"}
CompletesAny(how) == how # "raised"
Completes(how) == how = "completed"
ToolEnds(j) ==
  /\ job[j] = "running"
  /\ \E how \in Outcomes :
       /\ job' = [job EXCEPT ![j] = how]
       /\ count' = IF how = "timeout_oom_or_error" THEN count ELSE count + 1
       /\ completed' = IF Completes(how) THEN completed \cup {TaskOf(j)} ELSE completed
       /\ oks' = IF how = "completed" THEN oks \cup {j} ELSE oks
  /\ UNCHANGED <<tasks, calls, line>>

QueueDone ==
  /\ tasks # <<>> => calls = MaxCalls
  /\ \A j \in DOMAIN job : job[j] \notin Going

QueueNext ==
  \/ Call
  \/ \E j \in DOMAIN job : Start(j) \/ ToolEnds(j)
  \/ \E c \in 1..calls : Enter(c)

QueueSpec == QueueInit /\ [][QueueNext]_queuevars

-----------------------------------------------------------------------------
\* execution_queue.py:50: a task runs well twice only if its id is listed twice, or an
\* exception let a call end while the task was still going.
RunsOnceExplained ==
  \A j, k \in oks : (j # k /\ TaskOf(j) = TaskOf(k)) =>
     \/ j[1] = k[1]
     \/ HasRaised(j[1]) /\ j[1] < k[1]
     \/ HasRaised(k[1]) /\ k[1] < j[1]

\* execution_queue.py:50: a task is reported as done before only if it once ran well.
ResumedIsDone ==
  \A j \in Is(DOMAIN job, "resumed") : \E k \in oks : TaskOf(k) = TaskOf(j)

\* The calls whose tasks can be in flight together.
Overlapping == 1 + Cardinality({c \in 1..calls - 1 : HasRaised(c)})

\* execution_agent.py:53: max_executions is exceeded by at most the executions that
\* were under way when it was reached, and only these run at a time.
OvershootExplained ==
  /\ count + Cardinality(Is(DOMAIN job, "running"))
       <= MaxExecutions - 1 + MaxConcurrency * Overlapping
  /\ Cardinality(Is(DOMAIN job, "running")) <= MaxConcurrency * Overlapping

\* execution_queue.py:60: every step brings the calls nearer to their end; no task
\* waits for a permit that nobody returns.
QueueRank(state) ==
  CASE state = "none" -> 4 [] state = "ready" -> 3 [] state = "waiting" -> 2
    [] state = "running" -> 1 [] OTHER -> 0
QueueLeft ==
  MaxCalls - calls + Cardinality(UNION {{j} \X (1..QueueRank(job[j])) : j \in DOMAIN job})
QueueEnds == [][QueueLeft' \in 0..QueueLeft - 1]_queuevars

(* A task runs well once unless it is listed twice or outlives its call, what *)
(* is reported as done was done, and the limit of executions is exceeded by   *)
(* no more than those under way.                                              *)
QueueSound ==
  /\ RunsOnceExplained
  /\ ResumedIsDone
  /\ OvershootExplained

=============================================================================
