-------------------------- MODULE ToolClientsProofs --------------------------
(***************************************************************************)
(* Proofs about the two clients of the tools, for all tasks, limits, runs  *)
(* and memories: that the execution queue runs a task well once but for    *)
(* the named cases and exceeds its limit by no more than what was under    *)
(* way, and what the history of an action loop says of its failures.       *)
(***************************************************************************)
EXTENDS ActionLoop, ExecutionQueue, TLAPS, FiniteSetTheorems, WellFoundedInduction

-----------------------------------------------------------------------------
(* Least elements *)

\* A set of natural numbers that is not empty has a least element.
LEMMA LeastExists ==
  ASSUME NEW T \in SUBSET Nat, T # {}
  PROVE  \E x \in T : \A y \in T : x <= y
<1>1. IsWellFoundedOn(OpToRel(<, Nat), Nat)
  BY NatLessThanWellFounded
<1>2. \E x \in T : \A y \in T : ~ (<<y, x>> \in OpToRel(<, Nat))
  BY <1>1, WFMin, Zenon
<1>3. PICK x \in T : \A y \in T : ~ (<<y, x>> \in OpToRel(<, Nat))
  BY <1>2
<1>4. \A y \in T : ~ (y < x)
  BY <1>3 DEF OpToRel
<1> QED
  BY <1>4

-----------------------------------------------------------------------------
(* The execution queue *)

Jobs == (1..MaxCalls) \X DOMAIN tasks
JobStates == {"none", "resumed", "budget_exceeded"} \cup Going \cup Outcomes
RunningIn(c) == Is(JobsOf(c), "running")
Running == Is(DOMAIN job, "running")

QueueTypes ==
  /\ Len(tasks) \in Nat /\ DOMAIN tasks = 1..Len(tasks)
  /\ calls \in 0..MaxCalls
  /\ job \in [Jobs -> JobStates]
  /\ line \in [1..MaxCalls -> Seq(Jobs)]
  /\ count \in Nat
  /\ oks \subseteq Jobs

\* Each job that waits is in the line of its own call, once.
LinesOK ==
  \A c \in 1..MaxCalls : \A p \in DOMAIN line[c] :
    /\ line[c][p] \in JobsOf(c) /\ job[line[c][p]] = "waiting"
    /\ \A q \in DOMAIN line[c] : line[c][q] = line[c][p] => q = p

\* A call that was followed by another is over; a call has at most the running
\* jobs it has permits for.
CallsOK ==
  /\ \A j \in Jobs : j[1] > calls => job[j] = "none"
  /\ \A c \in 1..calls - 1 : Over(c)
  /\ \A c \in 1..MaxCalls : Cardinality(RunningIn(c)) <= MaxConcurrency

\* What ran well is known as done; a job that got past the check for this knows
\* of no success of its task in an earlier call, unless that call had raised.
DoneOK ==
  /\ \A j \in oks : job[j] = "completed"
  /\ completed = {TaskOf(j) : j \in oks}
  /\ ResumedIsDone
  /\ \A j \in oks, k \in Jobs :
       (job[k] \in {"waiting", "running"} /\ j[1] < k[1] /\ TaskOf(j) = TaskOf(k)) => HasRaised(j[1])
  /\ RunsOnceExplained

QueueInv == QueueTypes /\ LinesOK /\ CallsOK /\ DoneOK
QueueInvAll == QueueInv /\ OvershootExplained

LEMMA JobSets ==
  ASSUME QueueTypes
  PROVE  /\ IsFiniteSet(Jobs)
         /\ DOMAIN job = Jobs
         /\ \A c \in 1..MaxCalls : JobsOf(c) \subseteq Jobs /\ IsFiniteSet(RunningIn(c))
         /\ \A c \in 1..MaxCalls : Cardinality(RunningIn(c)) \in Nat
         /\ IsFiniteSet(Running) /\ Cardinality(Running) \in Nat
<1>1. IsFiniteSet(1..MaxCalls) /\ IsFiniteSet(DOMAIN tasks)
  BY FS_Interval, QueueAssumption DEF QueueTypes
<1>2. IsFiniteSet(Jobs)
  BY <1>1, FS_Product DEF Jobs
<1>3. DOMAIN job = Jobs
  BY DEF QueueTypes
<1>4. ASSUME NEW c \in 1..MaxCalls PROVE JobsOf(c) \subseteq Jobs
  BY DEF JobsOf, Jobs
<1>5. Running \in SUBSET Jobs
  BY <1>3 DEF Running, Is
<1>6. \A c \in 1..MaxCalls : RunningIn(c) \in SUBSET Jobs
  BY <1>4 DEF RunningIn, Is
<1>7. \A T \in SUBSET Jobs : IsFiniteSet(T) /\ Cardinality(T) \in Nat
  BY <1>2, FS_Subset, FS_CardinalityType
<1> QED
  BY <1>2, <1>3, <1>4, <1>5, <1>6, <1>7

\* Every step but Call takes one job that is going to another state.
Moves(j, x) ==
  /\ j \in Jobs /\ job[j] \in Going /\ x \in JobStates \ {"none"}
  /\ job' = [job EXCEPT ![j] = x]
  /\ UNCHANGED <<tasks, calls>>

LEMMA MoveJobs ==
  ASSUME QueueTypes, NEW j, NEW x, Moves(j, x)
  PROVE  /\ Jobs' = Jobs /\ job' \in [Jobs -> JobStates] /\ DOMAIN job' = Jobs
         /\ job'[j] = x /\ \A k \in Jobs : k # j => job'[k] = job[k]
         /\ \A c : JobsOf(c)' = JobsOf(c)
         /\ \A k : TaskOf(k)' = TaskOf(k)
  BY DEF QueueTypes, Moves, Jobs, JobsOf, TaskOf

\* A raised job stays raised.
LEMMA RaisedStays ==
  ASSUME QueueTypes, NEW j, NEW x, Moves(j, x), NEW c \in 1..MaxCalls, HasRaised(c)
  PROVE  HasRaised(c)'
<1>1. PICK k \in JobsOf(c) : job[k] = "raised"
  BY DEF HasRaised, Is
<1>2. k \in Jobs /\ k # j
  BY <1>1 DEF JobsOf, Jobs, Moves, Going
<1>3. k \in JobsOf(c)' /\ job'[k] = "raised"
  BY <1>1, <1>2, MoveJobs
<1> QED
  BY <1>3 DEF HasRaised, Is

LEMMA MoveCalls ==
  ASSUME QueueTypes, CallsOK, NEW j, NEW x, Moves(j, x),
         (x = "running" /\ job[j] # "running") => Permits(j[1]) > 0
  PROVE  CallsOK'
<1>0. j \in Jobs /\ j[1] \in 1..MaxCalls /\ j[1] \in Nat /\ calls \in Nat /\ calls' = calls
      /\ calls <= MaxCalls /\ MaxCalls \in Nat /\ MaxConcurrency \in Nat
  BY QueueAssumption DEF Moves, Jobs, QueueTypes
<1>1. ASSUME NEW k \in Jobs', k[1] > calls' PROVE job'[k] = "none"
  <2>1. k \in Jobs /\ job[k] = "none"
    BY <1>0, <1>1, MoveJobs DEF CallsOK
  <2>2. k # j
    BY <2>1 DEF Moves, Going
  <2> QED
    BY <2>1, <2>2, MoveJobs
<1>2. ASSUME NEW c \in 1..calls' - 1 PROVE Over(c)'
  <2>1. c \in 1..MaxCalls /\ c \in 1..calls - 1
    BY <1>0
  <2>2. CASE HasRaised(c)
    BY <2>1, <2>2, RaisedStays DEF Over
  <2>3. CASE ~HasRaised(c)
    <3>1. \A k \in JobsOf(c) : job[k] \notin Going
      BY <2>1, <2>3 DEF CallsOK, Over
    <3>2. ASSUME NEW k \in JobsOf(c)' PROVE job'[k] \notin Going
      <4>1. k \in JobsOf(c) /\ k \in Jobs
        BY <2>1, <3>2, MoveJobs, JobSets
      <4>2. k # j
        BY <3>1, <4>1 DEF Moves
      <4> QED
        BY <3>1, <4>1, <4>2, MoveJobs
    <3> QED
      BY <3>2 DEF Over
  <2> QED
    BY <2>2, <2>3
<1>3. ASSUME NEW c \in 1..MaxCalls PROVE Cardinality(RunningIn(c)') <= MaxConcurrency
  <2>1. /\ RunningIn(c) \subseteq JobsOf(c) /\ JobsOf(c) \subseteq Jobs /\ IsFiniteSet(RunningIn(c))
        /\ Cardinality(RunningIn(c)) \in Nat /\ Cardinality(RunningIn(c)) <= MaxConcurrency
    BY JobSets DEF RunningIn, Is, CallsOK
  <2>2. RunningIn(c)' \subseteq RunningIn(c) \cup {j}
    BY <2>1, MoveJobs DEF RunningIn, Is
  <2>3. CASE j \notin RunningIn(c)'
    <3>1. RunningIn(c)' \in SUBSET RunningIn(c)
      BY <2>2, <2>3
    <3>2. Cardinality(RunningIn(c)') <= Cardinality(RunningIn(c)) /\ Cardinality(RunningIn(c)') \in Nat
      BY <2>1, <3>1, FS_Subset, FS_CardinalityType
    <3> QED
      BY <1>0, <2>1, <3>2
  <2>4. CASE j \in RunningIn(c)' /\ job[j] = "running"
    <3>1. j \in RunningIn(c)
      BY <2>4, MoveJobs DEF RunningIn, Is
    <3>2. RunningIn(c)' \in SUBSET RunningIn(c)
      BY <2>2, <3>1
    <3>3. Cardinality(RunningIn(c)') <= Cardinality(RunningIn(c)) /\ Cardinality(RunningIn(c)') \in Nat
      BY <2>1, <3>2, FS_Subset, FS_CardinalityType
    <3> QED
      BY <1>0, <2>1, <3>3
  <2>5. CASE j \in RunningIn(c)' /\ job[j] # "running"
    <3>1. j[1] = c /\ x = "running"
      BY <2>5, MoveJobs DEF RunningIn, Is, JobsOf
    <3>2. MaxConcurrency - Cardinality(RunningIn(c)) > 0
      BY <2>5, <3>1 DEF Permits, RunningIn
    <3>3. IsFiniteSet(RunningIn(c) \cup {j}) /\ Cardinality(RunningIn(c) \cup {j}) <= Cardinality(RunningIn(c)) + 1
      <4>1. IsFiniteSet(RunningIn(c)) /\ Cardinality(RunningIn(c)) \in Nat
        BY <2>1
      <4>2. /\ IsFiniteSet(RunningIn(c) \cup {j})
            /\ Cardinality(RunningIn(c) \cup {j}) = IF j \in RunningIn(c) THEN Cardinality(RunningIn(c))
                                                    ELSE Cardinality(RunningIn(c)) + 1
        BY <4>1, FS_AddElement
      <4> QED
        BY <4>1, <4>2
    <3>4. RunningIn(c)' \in SUBSET (RunningIn(c) \cup {j})
      BY <2>2
    <3>5. Cardinality(RunningIn(c)') <= Cardinality(RunningIn(c) \cup {j}) /\ Cardinality(RunningIn(c)') \in Nat
          /\ Cardinality(RunningIn(c) \cup {j}) \in Nat
      BY <3>3, <3>4, FS_Subset, FS_CardinalityType
    <3> QED
      BY <1>0, <2>1, <3>2, <3>3, <3>5
  <2> QED
    BY <2>3, <2>4, <2>5
<1> QED
  BY <1>0, <1>1, <1>2, <1>3, QueueAssumption DEF CallsOK

LEMMA MoveTypes ==
  ASSUME QueueTypes, NEW j, NEW x, Moves(j, x), line' \in [1..MaxCalls -> Seq(Jobs)],
         count' \in Nat, oks' \subseteq Jobs
  PROVE  QueueTypes'
  BY MoveJobs DEF QueueTypes, Moves

\* A step that completes nothing keeps what is known of successes.
LEMMA MoveDone ==
  ASSUME QueueTypes, DoneOK, NEW j, NEW x, Moves(j, x), UNCHANGED <<completed, oks>>,
         x = "resumed" => TaskOf(j) \in completed,
         (x \in {"waiting", "running"} /\ job[j] \notin {"waiting", "running"})
           => TaskOf(j) \notin completed
  PROVE  DoneOK'
<1>0. oks \subseteq Jobs /\ oks' = oks /\ completed' = completed
  BY DEF QueueTypes
<1>1. ASSUME NEW k \in oks' PROVE job'[k] = "completed"
  <2>1. k \in Jobs /\ job[k] = "completed" /\ k # j
    BY <1>0 DEF DoneOK, Moves, Going
  <2> QED
    BY <2>1, MoveJobs
<1>2. completed' = {TaskOf(k)' : k \in oks'}
  BY <1>0, MoveJobs DEF DoneOK
<1>3. ResumedIsDone'
  <2> SUFFICES ASSUME NEW k \in Jobs, job'[k] = "resumed"
               PROVE  \E m \in oks : TaskOf(m) = TaskOf(k)
    BY <1>0, MoveJobs DEF ResumedIsDone, Is
  <2>1. CASE k = j
    BY <2>1, MoveJobs DEF DoneOK
  <2>2. CASE k # j
    <3>1. job[k] = "resumed"
      BY <2>2, MoveJobs
    <3> QED
      BY <3>1, JobSets DEF DoneOK, ResumedIsDone, Is
  <2> QED
    BY <2>1, <2>2
<1>4. ASSUME NEW m \in oks', NEW k \in Jobs', job'[k] \in {"waiting", "running"}, m[1] < k[1],
             TaskOf(m)' = TaskOf(k)'
      PROVE  HasRaised(m[1])'
  <2>1. m \in oks /\ m \in Jobs /\ k \in Jobs /\ m[1] \in 1..MaxCalls /\ TaskOf(m) = TaskOf(k)
    BY <1>0, <1>4, MoveJobs DEF Jobs
  <2>2. TaskOf(m) \in completed
    BY <2>1 DEF DoneOK
  <2>3. job[k] \in {"waiting", "running"}
    BY <1>4, <2>1, <2>2, MoveJobs
  <2>4. HasRaised(m[1])
    BY <1>4, <2>1, <2>3 DEF DoneOK
  <2> QED
    BY <2>1, <2>4, RaisedStays
<1>5. RunsOnceExplained'
  <2> SUFFICES ASSUME NEW m \in oks, NEW k \in oks, m # k, TaskOf(m) = TaskOf(k)
               PROVE  \/ m[1] = k[1]
                      \/ HasRaised(m[1])' /\ m[1] < k[1]
                      \/ HasRaised(k[1])' /\ k[1] < m[1]
    BY <1>0, MoveJobs DEF RunsOnceExplained
  <2>1. m[1] \in 1..MaxCalls /\ k[1] \in 1..MaxCalls
    BY <1>0 DEF Jobs
  <2>2. \/ m[1] = k[1]
        \/ HasRaised(m[1]) /\ m[1] < k[1]
        \/ HasRaised(k[1]) /\ k[1] < m[1]
    BY DEF DoneOK, RunsOnceExplained
  <2> QED
    BY <2>1, <2>2, RaisedStays
<1> QED
  BY <1>1, <1>2, <1>3, <1>4, <1>5 DEF DoneOK

RaisedBefore(n) == {c \in 1..n : HasRaised(c)}
RunningBefore(n) == {j \in Jobs : job[j] = "running" /\ j[1] <= n}

LEMMA BeforeFinite ==
  ASSUME QueueTypes, NEW n \in Nat
  PROVE  /\ IsFiniteSet(RaisedBefore(n)) /\ Cardinality(RaisedBefore(n)) \in Nat
         /\ IsFiniteSet(RunningBefore(n)) /\ Cardinality(RunningBefore(n)) \in Nat
<1>1. IsFiniteSet(1..n) /\ IsFiniteSet(Jobs)
  BY FS_Interval, JobSets
<1>2. RaisedBefore(n) \in SUBSET (1..n) /\ RunningBefore(n) \in SUBSET Jobs
  BY DEF RaisedBefore, RunningBefore
<1> QED
  BY <1>1, <1>2, FS_Subset, FS_CardinalityType

\* The running jobs of calls that are over: the permits of those that raised.
LEMMA OverBounded ==
  ASSUME QueueTypes, CallsOK
  PROVE  \A n \in 0..calls - 1 :
           Cardinality(RunningBefore(n)) <= MaxConcurrency * Cardinality(RaisedBefore(n))
<1> DEFINE T == {n \in 0..calls - 1 : ~ (Cardinality(RunningBefore(n))
                                           <= MaxConcurrency * Cardinality(RaisedBefore(n)))}
<1>0. calls \in Nat /\ calls <= MaxCalls /\ MaxCalls \in Nat /\ MaxConcurrency \in Nat
  BY QueueAssumption DEF QueueTypes
<1>1. SUFFICES ASSUME T # {} PROVE FALSE
  OBVIOUS
<1>2. PICK n \in T : \A m \in T : n <= m
  <2>1. T \in SUBSET Nat
    BY <1>0
  <2> HIDE DEF T
  <2> QED
    BY <1>1, <2>1, LeastExists
<1>3. n \in 0..calls - 1 /\ n \in Nat
  BY <1>0, <1>2
<1>4. CASE n = 0
  <2>1. RunningBefore(n) = {} /\ RaisedBefore(n) = {}
    BY <1>4 DEF RunningBefore, RaisedBefore, Jobs
  <2>2. Cardinality(RunningBefore(n)) = 0 /\ Cardinality(RaisedBefore(n)) = 0
    BY <2>1, FS_EmptySet
  <2> QED
    BY <1>0, <1>2, <2>2
<1>5. CASE n # 0
  <2>1. n - 1 \in 0..calls - 1 /\ n - 1 \in Nat /\ n \in 1..calls - 1 /\ n \in 1..MaxCalls
    BY <1>0, <1>3, <1>5
  <2>2. Cardinality(RunningBefore(n - 1)) <= MaxConcurrency * Cardinality(RaisedBefore(n - 1))
    <3>1. n - 1 \notin T
      BY <1>2, <1>3
    <3> QED
      BY <2>1, <3>1
  <2>3. RunningBefore(n) = RunningBefore(n - 1) \cup RunningIn(n)
    BY <2>1, <1>3, JobSets DEF RunningBefore, RunningIn, Is, JobsOf, Jobs
  <2>4. CASE ~HasRaised(n)
    <3>1. RunningIn(n) = {}
      BY <2>1, <2>4 DEF CallsOK, Over, RunningIn, Is, Going
    <3>2. RaisedBefore(n) = RaisedBefore(n - 1)
      BY <1>3, <1>5, <2>4 DEF RaisedBefore
    <3>3. RunningBefore(n) = RunningBefore(n - 1)
      BY <2>3, <3>1
    <3> QED
      BY <1>2, <2>2, <3>2, <3>3
  <2>5. CASE HasRaised(n)
    <3>1. RaisedBefore(n) = RaisedBefore(n - 1) \cup {n} /\ n \notin RaisedBefore(n - 1)
      BY <1>3, <1>5, <2>5 DEF RaisedBefore
    <3> DEFINE r == Cardinality(RaisedBefore(n - 1))
               a == Cardinality(RunningBefore(n - 1))
               b == Cardinality(RunningIn(n))
               d == Cardinality(RunningBefore(n - 1) \cap RunningIn(n))
    <3>2. IsFiniteSet(RaisedBefore(n - 1)) /\ r \in Nat
      BY <2>1, BeforeFinite
    <3>3. Cardinality(RaisedBefore(n)) = r + 1
      BY <3>1, <3>2, FS_AddElement
    <3>4. IsFiniteSet(RunningBefore(n - 1)) /\ a \in Nat /\ IsFiniteSet(RunningIn(n)) /\ b \in Nat
      BY <2>1, BeforeFinite, JobSets
    <3>5. Cardinality(RunningBefore(n)) = a + b - d
      BY <2>3, <3>4, FS_Union
    <3>6. d \in Nat
      BY <3>4, FS_Intersection, FS_CardinalityType
    <3>7. b <= MaxConcurrency
      BY <2>1 DEF CallsOK
    <3>8. a <= MaxConcurrency * r
      BY <2>2
    <3>9. ~ (Cardinality(RunningBefore(n)) <= MaxConcurrency * Cardinality(RaisedBefore(n)))
      BY <1>2
    <3>10. ~ (a + b - d <= MaxConcurrency * (r + 1))
      BY <3>3, <3>5, <3>9
    <3> HIDE DEF a, b, d, r
    <3>11. MaxConcurrency * (r + 1) = MaxConcurrency * r + MaxConcurrency
      BY <1>0, <3>2
    <3>12. MaxConcurrency * r \in Nat
      BY <1>0, <3>2
    <3> QED
      BY <1>0, <3>4, <3>6, <3>7, <3>8, <3>10, <3>11, <3>12
  <2> QED
    BY <2>4, <2>5
<1> QED
  BY <1>4, <1>5

LEMMA RunningBounded ==
  ASSUME QueueTypes, CallsOK
  PROVE  Cardinality(Running) <= MaxConcurrency * Overlapping /\ Overlapping \in Nat
<1>0. calls \in Nat /\ calls <= MaxCalls /\ MaxCalls \in Nat /\ MaxConcurrency \in Nat
  BY QueueAssumption DEF QueueTypes
<1>1. CASE calls = 0
  <2>1. Running = {}
    BY <1>1, JobSets DEF CallsOK, Running, Is, Jobs
  <2>2. Cardinality(Running) = 0
    BY <2>1, FS_EmptySet
  <2>3. {c \in 1..calls - 1 : HasRaised(c)} = {}
    BY <1>1
  <2>4. Overlapping = 1
    BY <2>3, FS_EmptySet DEF Overlapping
  <2> QED
    BY <1>0, <2>2, <2>4
<1>2. CASE calls # 0
  <2>1. calls - 1 \in 0..calls - 1 /\ calls - 1 \in Nat /\ calls \in 1..MaxCalls
    BY <1>0, <1>2
  <2> DEFINE r == Cardinality(RaisedBefore(calls - 1))
             a == Cardinality(RunningBefore(calls - 1))
             b == Cardinality(RunningIn(calls))
             d == Cardinality(RunningBefore(calls - 1) \cap RunningIn(calls))
  <2>2. a <= MaxConcurrency * r
    BY <2>1, OverBounded
  <2>3. Running = RunningBefore(calls - 1) \cup RunningIn(calls)
    <3>1. \A j \in Jobs : job[j] = "running" => j[1] <= calls
      BY <1>0 DEF CallsOK, Jobs
    <3> QED
      BY <1>0, <2>1, <3>1, JobSets DEF Running, RunningBefore, RunningIn, Is, JobsOf, Jobs
  <2>4. IsFiniteSet(RunningBefore(calls - 1)) /\ a \in Nat /\ IsFiniteSet(RunningIn(calls)) /\ b \in Nat /\ r \in Nat
    BY <2>1, BeforeFinite, JobSets
  <2>5. Cardinality(Running) = a + b - d
    BY <2>3, <2>4, FS_Union
  <2>6. d \in Nat
    BY <2>4, FS_Intersection, FS_CardinalityType
  <2>7. b <= MaxConcurrency
    BY <2>1 DEF CallsOK
  <2>8. Overlapping = 1 + r
    BY DEF Overlapping, RaisedBefore
  <2> HIDE DEF a, b, d, r
  <2>9. MaxConcurrency * (1 + r) = MaxConcurrency * r + MaxConcurrency /\ MaxConcurrency * r \in Nat
    BY <1>0, <2>4
  <2>10. a + b - d <= MaxConcurrency * (1 + r)
    BY <1>0, <2>2, <2>4, <2>6, <2>7, <2>9
  <2>11. Overlapping \in Nat
    BY <2>4, <2>8
  <2> QED
    BY <2>5, <2>8, <2>10, <2>11
<1> QED
  BY <1>1, <1>2

LEMMA RunningBoundedNext ==
  QueueTypes' /\ CallsOK' => (Cardinality(Running) <= MaxConcurrency * Overlapping /\ Overlapping \in Nat)'
<1>1. QueueTypes /\ CallsOK => Cardinality(Running) <= MaxConcurrency * Overlapping /\ Overlapping \in Nat
  BY RunningBounded
<1> QED
  BY <1>1, PTL

LEMMA RunningFiniteNext ==
  QueueTypes' => (IsFiniteSet(Running) /\ Cardinality(Running) \in Nat)'
<1>1. QueueTypes => IsFiniteSet(Running) /\ Cardinality(Running) \in Nat
  BY JobSets
<1> QED
  BY <1>1, PTL

LEMMA TimesGrows ==
  ASSUME NEW k \in Nat, NEW a \in Nat, NEW b \in Nat, a <= b
  PROVE  k * a <= k * b /\ k * a \in Nat /\ k * b \in Nat
<1>1. PICK d \in Nat : b = a + d
  <2>1. b - a \in Nat /\ b = a + (b - a)
    OBVIOUS
  <2> QED
    BY <2>1
<1>2. k * (a + d) = k * a + k * d /\ k * d \in Nat /\ k * a \in Nat
  OBVIOUS
<1> QED
  BY <1>1, <1>2

\* Calls that raised stay so.
LEMMA OverlapGrows ==
  ASSUME QueueTypes, QueueTypes', calls' \in {calls, calls + 1},
         \A c \in 1..calls - 1 : HasRaised(c) => HasRaised(c)'
  PROVE  Overlapping <= Overlapping'
<1>0. calls \in Nat /\ calls' \in Nat
  BY DEF QueueTypes
<1>1. CASE calls = 0
  <2>1. {c \in 1..calls - 1 : HasRaised(c)} = {} /\ {c \in 1..calls' - 1 : HasRaised(c)'} = {}
    BY <1>0, <1>1
  <2> QED
    BY <2>1, FS_EmptySet DEF Overlapping
<1>2. CASE calls # 0
  <2>1. {c \in 1..calls - 1 : HasRaised(c)} \in SUBSET {c \in 1..calls' - 1 : HasRaised(c)'}
    BY <1>0
  <2>2. IsFiniteSet({c \in 1..calls' - 1 : HasRaised(c)'})
    <3>1. IsFiniteSet(1..calls' - 1)
      BY <1>0, FS_Interval
    <3>2. {c \in 1..calls' - 1 : HasRaised(c)'} \in SUBSET (1..calls' - 1)
      OBVIOUS
    <3> QED
      BY <3>1, <3>2, FS_Subset
  <2>3. IsFiniteSet({c \in 1..calls - 1 : HasRaised(c)})
        /\ Cardinality({c \in 1..calls - 1 : HasRaised(c)}) <= Cardinality({c \in 1..calls' - 1 : HasRaised(c)'})
    BY <2>1, <2>2, FS_Subset
  <2>4. Cardinality({c \in 1..calls - 1 : HasRaised(c)}) \in Nat
        /\ Cardinality({c \in 1..calls' - 1 : HasRaised(c)'}) \in Nat
    BY <2>2, <2>3, FS_CardinalityType
  <2> DEFINE a == Cardinality({c \in 1..calls - 1 : HasRaised(c)})
             b == Cardinality({c \in 1..calls' - 1 : HasRaised(c)'})
  <2>5. Overlapping = 1 + a /\ Overlapping' = 1 + b
    BY DEF Overlapping
  <2>6. a \in Nat /\ b \in Nat /\ a <= b
    BY <2>3, <2>4
  <2> HIDE DEF a, b
  <2> QED
    BY <2>5, <2>6
<1> QED
  BY <1>1, <1>2

LEMMA SumBound ==
  ASSUME NEW a \in Nat, NEW b \in Nat, NEW r \in Nat, NEW s \in Nat, NEW m \in Nat, NEW q \in Nat,
         NEW e \in Nat, s <= q, m <= q, a + r <= e + m, b <= e \/ b + s <= a + r
  PROVE  b + s <= e + q
  OBVIOUS

\* What a step may do to the count.
Counts(j, x) ==
  \/ x = "running" /\ count' <= MaxExecutions - 1
  \/ x # "running" /\ count' = count
  \/ x # "running" /\ job[j] = "running" /\ count' = count + 1

LEMMA MoveCount ==
  ASSUME QueueTypes, CallsOK, OvershootExplained, QueueTypes', CallsOK', NEW j, NEW x, Moves(j, x),
         Counts(j, x)
  PROVE  OvershootExplained'
<1> DEFINE r == Cardinality(Running)
           s == Cardinality(Running)'
           m == MaxConcurrency * Overlapping
           q == MaxConcurrency * Overlapping'
<1>0. count \in Nat /\ count' \in Nat /\ MaxExecutions \in Nat /\ MaxConcurrency \in Nat
      /\ MaxExecutions - 1 \in Nat
  BY QueueAssumption DEF QueueTypes
<1>1. IsFiniteSet(Running) /\ r \in Nat /\ IsFiniteSet(Running') /\ s \in Nat
  <2>1. IsFiniteSet(Running) /\ r \in Nat
    BY JobSets
  <2>2. IsFiniteSet(Running') /\ s \in Nat
    BY RunningFiniteNext
  <2> QED
    BY <2>1, <2>2
<1>2. s <= q /\ Overlapping' \in Nat /\ Overlapping \in Nat
  BY RunningBounded, RunningBoundedNext
<1>3. Overlapping <= Overlapping'
  <2>1. calls' = calls /\ \A c \in 1..calls - 1 : c \in 1..MaxCalls
    BY QueueAssumption DEF Moves, QueueTypes
  <2>2. \A c \in 1..calls - 1 : HasRaised(c) => HasRaised(c)'
    BY <2>1, RaisedStays
  <2> QED
    BY <2>1, <2>2, OverlapGrows
<1>4. m <= q /\ m \in Nat /\ q \in Nat
  BY <1>0, <1>2, <1>3, TimesGrows
<1>5. count + r <= MaxExecutions - 1 + m
  BY DEF OvershootExplained, Running
<1>6. OvershootExplained' <=> (count' + s <= MaxExecutions - 1 + q /\ s <= q)
  BY DEF OvershootExplained, Running
<1>7. x # "running" => Running' = Running \ {j}
  BY MoveJobs, JobSets DEF Running, Is, Moves
<1>8. job[j] = "running" <=> j \in Running
  BY JobSets DEF Running, Is, Moves
<1>9. x # "running" => s = IF job[j] = "running" THEN r - 1 ELSE r
  BY <1>1, <1>7, <1>8, FS_RemoveElement
<1> HIDE DEF r, s, m, q
<1>10. count' <= MaxExecutions - 1 \/ count' + s <= count + r
  <2>1. CASE x = "running" /\ count' <= MaxExecutions - 1
    BY <2>1
  <2>2. CASE x # "running" /\ count' = count
    <3>1. s = r \/ s = r - 1
      BY <1>9, <2>2
    <3> QED
      BY <1>0, <1>1, <2>2, <3>1
  <2>3. CASE x # "running" /\ job[j] = "running" /\ count' = count + 1
    <3>1. s = r - 1
      BY <1>9, <2>3
    <3> QED
      BY <1>0, <1>1, <2>3, <3>1
  <2> QED
    BY <2>1, <2>2, <2>3 DEF Counts
<1>11. count' + s <= MaxExecutions - 1 + q
  <2>1. s <= q /\ m <= q /\ m \in Nat /\ q \in Nat /\ r \in Nat /\ s \in Nat
    BY <1>1, <1>2, <1>4
  <2>2. count + r <= MaxExecutions - 1 + m
    BY <1>5
  <2> DEFINE e == MaxExecutions - 1
             n == count'
  <2>3. e \in Nat /\ n \in Nat /\ count \in Nat
    BY <1>0
  <2>4. n <= e \/ n + s <= count + r
    BY <1>10
  <2>5. count + r <= e + m
    BY <2>2
  <2> HIDE DEF e, n
  <2>6. n + s <= e + q
    BY <2>1, <2>3, <2>4, <2>5, SumBound
  <2> QED
    BY <2>6 DEF e, n
<1> QED
  BY <1>2, <1>6, <1>11

-----------------------------------------------------------------------------
(* The steps of the queue *)

LEMMA QueueInitInv ==
  ASSUME QueueInit
  PROVE  QueueInvAll
<1>0. MaxCalls \in Nat /\ MaxConcurrency \in Nat \ {0} /\ MaxExecutions \in Nat \ {0}
  BY QueueAssumption
<1>1. QueueTypes
  BY <1>0, QueueAssumption DEF QueueInit, QueueTypes, Jobs, JobStates
<1>2. LinesOK
  BY DEF QueueInit, LinesOK
<1>3. \A j \in Jobs : job[j] = "none"
  BY DEF QueueInit, Jobs
<1>4. CallsOK
  <2>1. ASSUME NEW c \in 1..MaxCalls PROVE Cardinality(RunningIn(c)) <= MaxConcurrency
    <3>1. RunningIn(c) = {}
      BY <1>1, <1>3, JobSets DEF RunningIn, Is
    <3> QED
      BY <1>0, <3>1, FS_EmptySet
  <2>2. calls = 0
    BY DEF QueueInit
  <2> QED
    BY <1>3, <2>1, <2>2 DEF CallsOK
<1>5. DoneOK
  BY <1>1, <1>3, JobSets DEF QueueInit, DoneOK, ResumedIsDone, RunsOnceExplained, Is
<1>6. OvershootExplained
  <2>1. Running = {}
    BY <1>1, <1>3, JobSets DEF Running, Is
  <2>2. Cardinality(Running) = 0 /\ count = 0
    BY <2>1, FS_EmptySet DEF QueueInit
  <2>3. Overlapping \in Nat
    BY <1>1, <1>4, RunningBounded
  <2>4. MaxConcurrency * Overlapping \in Nat
    BY <1>0, <2>3
  <2> QED
    BY <1>0, <2>2, <2>4 DEF OvershootExplained, Running
<1> QED
  BY <1>1, <1>2, <1>4, <1>5, <1>6 DEF QueueInvAll, QueueInv

LEMMA CallInv ==
  ASSUME QueueInvAll, Call
  PROVE  QueueInvAll'
<1> USE DEF QueueInvAll, QueueInv
<1>0. /\ calls \in Nat /\ calls' = calls + 1 /\ calls < MaxCalls /\ calls' \in 1..MaxCalls
      /\ MaxCalls \in Nat /\ MaxConcurrency \in Nat \ {0} /\ MaxExecutions \in Nat \ {0}
      /\ UNCHANGED <<tasks, line, count, completed, oks>>
      /\ job' = [j \in Jobs |-> IF j[1] = calls' THEN "ready" ELSE job[j]]
  BY QueueAssumption, JobSets DEF QueueTypes, Call
<1>1. /\ Jobs' = Jobs /\ job' \in [Jobs -> JobStates] /\ DOMAIN job' = Jobs
      /\ \A c : JobsOf(c)' = JobsOf(c)
      /\ \A k : TaskOf(k)' = TaskOf(k)
      /\ \A k \in Jobs : k[1] # calls' => job'[k] = job[k]
      /\ \A k \in Jobs : k[1] = calls' => job[k] = "none" /\ job'[k] = "ready"
  <2>1. \A k \in Jobs : k[1] = calls' => job[k] = "none"
    BY <1>0 DEF CallsOK
  <2> QED
    BY <1>0, <2>1 DEF QueueTypes, Jobs, JobsOf, TaskOf, JobStates, Going
<1>2. \A c \in 1..calls : HasRaised(c)' <=> HasRaised(c)
  <2> SUFFICES ASSUME NEW c \in 1..calls
               PROVE  {k \in JobsOf(c) : job'[k] = "raised"} = {k \in JobsOf(c) : job[k] = "raised"}
    BY <1>1 DEF HasRaised, Is
  <2>1. \A k \in JobsOf(c) : k \in Jobs /\ k[1] # calls'
    BY <1>0 DEF JobsOf, Jobs
  <2> QED
    BY <1>1, <2>1
<1>3. Running' = Running /\ \A c \in 1..MaxCalls : RunningIn(c)' = RunningIn(c)
  <2>1. \A k \in Jobs : job'[k] = "running" <=> job[k] = "running"
    BY <1>1
  <2>2. Running' = Running
    BY <1>1, <2>1, JobSets DEF Running, Is
  <2>3. ASSUME NEW c \in 1..MaxCalls PROVE RunningIn(c)' = RunningIn(c)
    <3>1. \A k \in JobsOf(c) : k \in Jobs
      BY JobSets
    <3> QED
      BY <1>1, <2>1, <3>1 DEF RunningIn, Is
  <2> QED
    BY <2>2, <2>3
<1>4. QueueTypes'
  BY <1>0, <1>1 DEF QueueTypes
<1>5. LinesOK'
  <2> SUFFICES ASSUME NEW c \in 1..MaxCalls, NEW p \in DOMAIN line[c]
               PROVE  /\ line[c][p] \in JobsOf(c) /\ job'[line[c][p]] = "waiting"
                      /\ \A q \in DOMAIN line[c] : line[c][q] = line[c][p] => q = p
    BY <1>0, <1>1 DEF LinesOK
  <2>1. line[c][p] \in JobsOf(c) /\ job[line[c][p]] = "waiting"
        /\ \A q \in DOMAIN line[c] : line[c][q] = line[c][p] => q = p
    BY DEF LinesOK
  <2>2. line[c][p] \in Jobs
    BY <2>1, JobSets
  <2> QED
    BY <1>1, <2>1, <2>2
<1>6. CallsOK'
  <2>1. ASSUME NEW k \in Jobs', k[1] > calls' PROVE job'[k] = "none"
    BY <1>0, <1>1, <2>1 DEF CallsOK, Jobs
  <2>2. ASSUME NEW c \in 1..calls' - 1 PROVE Over(c)'
    <3>1. c \in 1..calls /\ Over(c)
      <4>1. CASE c = calls
        BY <1>0, <4>1 DEF Call
      <4>2. CASE c # calls
        BY <1>0, <4>2 DEF CallsOK
      <4> QED
        BY <1>0, <4>1, <4>2
    <3>2. CASE HasRaised(c)
      BY <1>2, <3>1, <3>2 DEF Over
    <3>3. CASE \A k \in JobsOf(c) : job[k] \notin Going
      <4>1. \A k \in JobsOf(c) : k \in Jobs /\ k[1] # calls'
        BY <1>0, <3>1 DEF JobsOf, Jobs
      <4>2. \A k \in JobsOf(c)' : job'[k] \notin Going
        BY <1>1, <3>3, <4>1
      <4> QED
        BY <4>2 DEF Over
    <3> QED
      BY <3>1, <3>2, <3>3 DEF Over
  <2>3. \A c \in 1..MaxCalls : Cardinality(RunningIn(c)') <= MaxConcurrency
    BY <1>3 DEF CallsOK
  <2> QED
    BY <1>0, <2>1, <2>2, <2>3 DEF CallsOK
<1>7. \A m \in oks : m \in Jobs /\ m[1] \in 1..calls /\ m[1] # calls' /\ job'[m] = "completed"
  <2> SUFFICES ASSUME NEW m \in oks PROVE m \in Jobs /\ m[1] \in 1..calls /\ m[1] # calls' /\ job'[m] = "completed"
    OBVIOUS
  <2>1. m \in Jobs /\ m[1] \in 1..MaxCalls /\ job[m] = "completed"
    BY DEF QueueTypes, Jobs, DoneOK
  <2>2. ~ (m[1] > calls)
    BY <2>1 DEF CallsOK
  <2>3. m[1] \in 1..calls /\ m[1] # calls'
    BY <1>0, <2>1, <2>2
  <2> QED
    BY <1>1, <2>1, <2>3
<1>8. DoneOK'
  <2>1. completed' = {TaskOf(k)' : k \in oks'}
    BY <1>0, <1>1 DEF DoneOK
  <2>2. ResumedIsDone'
    <3> SUFFICES ASSUME NEW k \in Jobs, job'[k] = "resumed" PROVE \E m \in oks : TaskOf(m) = TaskOf(k)
      BY <1>0, <1>1 DEF ResumedIsDone, Is
    <3>1. job[k] = "resumed"
      BY <1>1
    <3> QED
      BY <3>1, JobSets DEF DoneOK, ResumedIsDone, Is
  <2>3. ASSUME NEW m \in oks', NEW k \in Jobs', job'[k] \in {"waiting", "running"}, m[1] < k[1],
               TaskOf(m)' = TaskOf(k)'
        PROVE  HasRaised(m[1])'
    <3>1. m \in oks /\ k \in Jobs /\ job[k] \in {"waiting", "running"} /\ TaskOf(m) = TaskOf(k)
      BY <1>0, <1>1, <2>3
    <3>2. HasRaised(m[1])
      BY <2>3, <3>1 DEF DoneOK
    <3> QED
      BY <1>2, <1>7, <3>1, <3>2
  <2>4. RunsOnceExplained'
    <3> SUFFICES ASSUME NEW m \in oks, NEW k \in oks, m # k, TaskOf(m) = TaskOf(k)
                 PROVE  \/ m[1] = k[1]
                        \/ HasRaised(m[1])' /\ m[1] < k[1]
                        \/ HasRaised(k[1])' /\ k[1] < m[1]
      BY <1>0, <1>1 DEF RunsOnceExplained
    <3>1. \/ m[1] = k[1]
          \/ HasRaised(m[1]) /\ m[1] < k[1]
          \/ HasRaised(k[1]) /\ k[1] < m[1]
      BY DEF DoneOK, RunsOnceExplained
    <3> QED
      BY <1>2, <1>7, <3>1
  <2>5. \A m \in oks' : job'[m] = "completed"
    BY <1>0, <1>7
  <2> QED
    BY <2>1, <2>2, <2>3, <2>4, <2>5 DEF DoneOK
<1>9. OvershootExplained'
  <2> DEFINE r == Cardinality(Running)
             m == MaxConcurrency * Overlapping
             q == MaxConcurrency * Overlapping'
  <2>1. r \in Nat /\ count \in Nat /\ MaxExecutions - 1 \in Nat
    BY <1>0, JobSets DEF QueueTypes
  <2>2. r <= m /\ Overlapping \in Nat /\ Overlapping' \in Nat
    BY <1>4, <1>6, RunningBounded, RunningBoundedNext
  <2>3. Overlapping <= Overlapping'
    <3>1. calls' \in {calls, calls + 1} /\ \A c \in 1..calls - 1 : HasRaised(c) => HasRaised(c)'
      BY <1>0, <1>2
    <3> QED
      BY <1>4, <3>1, OverlapGrows
  <2>4. m <= q /\ m \in Nat /\ q \in Nat
    BY <1>0, <2>2, <2>3, TimesGrows
  <2>5. count + r <= MaxExecutions - 1 + m
    BY DEF OvershootExplained, Running
  <2>6. OvershootExplained' <=> (count + r <= MaxExecutions - 1 + q /\ r <= q)
    BY <1>0, <1>3 DEF OvershootExplained, Running
  <2> HIDE DEF r, m, q
  <2>7. count + r <= MaxExecutions - 1 + q /\ r <= q
    BY <2>1, <2>2, <2>4, <2>5
  <2> QED
    BY <2>6, <2>7
<1> QED
  BY <1>4, <1>5, <1>6, <1>8, <1>9

\* Where a job that takes a permit goes, and what the count says then.
LEMMA AdmittedState ==
  ASSUME QueueTypes, NEW j
  PROVE  /\ Admitted(j) \in {"budget_exceeded", "raised", "running"}
         /\ Admitted(j) = "running" => count <= MaxExecutions - 1
  BY QueueAssumption DEF QueueTypes, Admitted

\* A waiting job leaves its line: what is left waits on, each in its own call.
LEMMA LinesKept ==
  ASSUME QueueTypes, LinesOK, NEW j, NEW x, Moves(j, x), job[j] # "waiting", UNCHANGED line
  PROVE  LinesOK'
<1> SUFFICES ASSUME NEW c \in 1..MaxCalls, NEW p \in DOMAIN line[c]
             PROVE  /\ line[c][p] \in JobsOf(c) /\ job'[line[c][p]] = "waiting"
                    /\ \A q \in DOMAIN line[c] : line[c][q] = line[c][p] => q = p
  BY MoveJobs DEF LinesOK
<1>1. /\ line[c][p] \in JobsOf(c) /\ job[line[c][p]] = "waiting"
      /\ \A q \in DOMAIN line[c] : line[c][q] = line[c][p] => q = p
  BY DEF LinesOK
<1>2. line[c][p] \in Jobs /\ line[c][p] # j
  BY <1>1, JobSets
<1> QED
  BY <1>1, <1>2, MoveJobs

LEMMA StartInv ==
  ASSUME QueueInvAll, NEW j \in DOMAIN job, Start(j)
  PROVE  QueueInvAll'
<1> USE DEF QueueInvAll, QueueInv
<1> DEFINE free == Permits(j[1]) > 0 /\ line[j[1]] = <<>>
           x == IF Skips(j) THEN "resumed" ELSE IF free THEN Admitted(j) ELSE "waiting"
           waits == ~Skips(j) /\ ~free
           c == j[1]
<1>0. /\ j \in Jobs /\ job[j] = "ready" /\ c \in 1..MaxCalls /\ j \in JobsOf(c)
      /\ UNCHANGED <<tasks, calls, count, completed, oks>>
      /\ job' = [job EXCEPT ![j] = x]
      /\ line' = IF waits THEN [line EXCEPT ![c] = Append(@, j)] ELSE line
  <2>1. j \in Jobs /\ c \in 1..MaxCalls /\ j \in JobsOf(c)
    BY JobSets DEF Jobs, JobsOf
  <2> QED
    BY <2>1 DEF Start
<1>1. x \in {"resumed", "waiting", "budget_exceeded", "raised", "running"}
  BY AdmittedState
<1>2. /\ x = "resumed" => Skips(j)
      /\ x \in {"waiting", "running"} => ~Skips(j)
      /\ x = "waiting" <=> waits
      /\ x = "running" => free /\ Admitted(j) = "running"
  BY AdmittedState
<1> HIDE DEF x
<1>3. Moves(j, x)
  BY <1>0, <1>1 DEF Moves, Going, JobStates, Outcomes
<1>4. line[c] \in Seq(Jobs)
  BY <1>0 DEF QueueTypes
<1>5. QueueTypes'
  <2>1. line' \in [1..MaxCalls -> Seq(Jobs)]
    BY <1>0, <1>4 DEF QueueTypes
  <2>2. count' \in Nat /\ oks' \subseteq Jobs
    BY <1>0 DEF QueueTypes
  <2> QED
    BY <1>3, <2>1, <2>2, MoveTypes
<1>6. LinesOK'
  <2>1. CASE ~waits
    BY <1>0, <1>3, <2>1, LinesKept
  <2>2. CASE waits
    <3>1. x = "waiting" /\ job'[j] = "waiting"
      BY <1>2, <1>3, <2>2, MoveJobs
    <3>2. /\ line' = [line EXCEPT ![c] = Append(line[c], j)]
          /\ DOMAIN line = 1..MaxCalls
      BY <1>0, <2>2 DEF QueueTypes
    <3> SUFFICES ASSUME NEW d \in 1..MaxCalls, NEW p \in DOMAIN line'[d]
                 PROVE  /\ line'[d][p] \in JobsOf(d) /\ job'[line'[d][p]] = "waiting"
                        /\ \A q \in DOMAIN line'[d] : line'[d][q] = line'[d][p] => q = p
      BY <1>3, MoveJobs DEF LinesOK
    <3>3. \A b \in 1..MaxCalls : \A q \in DOMAIN line[b] :
            /\ line[b][q] \in JobsOf(b) /\ job[line[b][q]] = "waiting" /\ line[b][q] # j
            /\ job'[line[b][q]] = "waiting"
      <4> TAKE b \in 1..MaxCalls
      <4> TAKE q \in DOMAIN line[b]
      <4>1. line[b][q] \in JobsOf(b) /\ job[line[b][q]] = "waiting" /\ line[b][q] \in Jobs
        BY JobSets DEF LinesOK
      <4>2. line[b][q] # j
        BY <1>0, <4>1
      <4> QED
        BY <1>3, <4>1, <4>2, MoveJobs
    <3>4. CASE d # c
      <4>1. line'[d] = line[d]
        BY <3>2, <3>4
      <4> QED
        BY <3>3, <4>1 DEF LinesOK
    <3>5. CASE d = c
      <4> DEFINE s == line[c]
      <4>1. line'[d] = Append(s, j)
        BY <1>0, <3>2, <3>5
      <4>2. /\ Len(s) \in Nat /\ DOMAIN s = 1..Len(s)
            /\ DOMAIN Append(s, j) = 1..Len(s) + 1
            /\ Append(s, j)[Len(s) + 1] = j
            /\ \A q \in DOMAIN s : Append(s, j)[q] = s[q]
        BY <1>4
      <4>3. \A q \in DOMAIN Append(s, j) : q \in DOMAIN s \/ q = Len(s) + 1
        BY <4>2
      <4>4. \A q, r \in DOMAIN s : s[q] = s[r] => q = r
        BY <1>0 DEF LinesOK
      <4>5. \A q \in DOMAIN s : s[q] # j /\ s[q] \in JobsOf(c) /\ job'[s[q]] = "waiting"
        BY <1>0, <3>3
      <4> HIDE DEF s
      <4>6. \A q, r \in DOMAIN Append(s, j) : Append(s, j)[q] = Append(s, j)[r] => q = r
        BY <4>2, <4>3, <4>4, <4>5
      <4>7. \A q \in DOMAIN Append(s, j) : Append(s, j)[q] \in JobsOf(c) /\ job'[Append(s, j)[q]] = "waiting"
        BY <1>0, <3>1, <4>2, <4>3, <4>5
      <4> QED
        BY <3>5, <4>1, <4>6, <4>7
    <3> QED
      BY <3>4, <3>5
  <2> QED
    BY <2>1, <2>2
<1>7. CallsOK'
  <2>1. x = "running" => Permits(j[1]) > 0
    BY <1>2
  <2> QED
    BY <1>3, <2>1, MoveCalls
<1>8. DoneOK'
  BY <1>0, <1>2, <1>3, MoveDone DEF Skips
<1>9. OvershootExplained'
  <2>1. x = "running" => count <= MaxExecutions - 1
    BY <1>2, AdmittedState
  <2>2. \/ x = "running" /\ count' <= MaxExecutions - 1
        \/ x # "running" /\ count' = count
    BY <1>0, <2>1
  <2> QED
    BY <1>3, <1>5, <1>7, <2>2, MoveCount DEF Counts
<1> QED
  BY <1>5, <1>6, <1>7, <1>8, <1>9

LEMMA EnterInv ==
  ASSUME QueueInvAll, NEW c \in 1..calls, Enter(c)
  PROVE  QueueInvAll'
<1> USE DEF QueueInvAll, QueueInv
<1> DEFINE s == line[c]
           j == Head(s)
           x == Admitted(j)
<1>1. /\ c \in 1..MaxCalls /\ s \in Seq(Jobs) /\ Len(s) \in Nat /\ DOMAIN s = 1..Len(s)
      /\ s # <<>> /\ Permits(c) > 0
      /\ UNCHANGED <<tasks, calls, count, completed, oks>>
      /\ job' = [job EXCEPT ![j] = x]
      /\ line' = [line EXCEPT ![c] = Tail(s)]
  <2>1. c \in 1..MaxCalls
    BY QueueAssumption DEF QueueTypes
  <2>2. s \in Seq(Jobs)
    BY <2>1 DEF QueueTypes
  <2>3. Len(s) \in Nat /\ DOMAIN s = 1..Len(s)
    BY <2>2
  <2>4. line' = [line EXCEPT ![c] = Tail(line[c])]
    BY DEF Enter
  <2> QED
    BY <2>1, <2>2, <2>3, <2>4 DEF Enter, Free
<1>2. /\ 1 \in DOMAIN s /\ j = s[1] /\ Tail(s) \in Seq(Jobs)
      /\ DOMAIN Tail(s) = 1..Len(s) - 1
      /\ \A q \in DOMAIN Tail(s) : q + 1 \in DOMAIN s /\ q + 1 # 1 /\ Tail(s)[q] = s[q + 1]
      /\ \A q \in DOMAIN Tail(s) : q \in Nat
  BY <1>1
<1>3. \A q \in DOMAIN s : /\ s[q] \in JobsOf(c) /\ s[q] \in Jobs /\ job[s[q]] = "waiting"
                          /\ \A r \in DOMAIN s : s[r] = s[q] => r = q
  <2> TAKE q \in DOMAIN s
  <2>1. s[q] \in JobsOf(c) /\ job[s[q]] = "waiting" /\ \A r \in DOMAIN s : s[r] = s[q] => r = q
    BY <1>1 DEF LinesOK
  <2> QED
    BY <1>1, <2>1, JobSets
<1>4. j \in Jobs /\ job[j] = "waiting" /\ j[1] = c
  BY <1>2, <1>3 DEF JobsOf
<1>5. /\ x \in {"budget_exceeded", "raised", "running"}
      /\ x = "running" => count <= MaxExecutions - 1
  BY AdmittedState
<1> HIDE DEF x
<1>6. Moves(j, x)
  BY <1>1, <1>4, <1>5 DEF Moves, Going, JobStates, Outcomes
<1> HIDE DEF j
<1>7. QueueTypes'
  <2>1. line' \in [1..MaxCalls -> Seq(Jobs)]
    BY <1>1, <1>2 DEF QueueTypes
  <2>2. count' \in Nat /\ oks' \subseteq Jobs
    BY <1>1 DEF QueueTypes
  <2> QED
    BY <1>6, <2>1, <2>2, MoveTypes
<1>8. LinesOK'
  <2> SUFFICES ASSUME NEW d \in 1..MaxCalls, NEW p \in DOMAIN line'[d]
               PROVE  /\ line'[d][p] \in JobsOf(d) /\ job'[line'[d][p]] = "waiting"
                      /\ \A q \in DOMAIN line'[d] : line'[d][q] = line'[d][p] => q = p
    BY <1>6, MoveJobs DEF LinesOK
  <2>0. DOMAIN line = 1..MaxCalls
    BY DEF QueueTypes
  <2>1. CASE d # c
    <3>1. line'[d] = line[d]
      BY <1>1, <2>0, <2>1
    <3>2. /\ line[d][p] \in JobsOf(d) /\ job[line[d][p]] = "waiting"
          /\ \A q \in DOMAIN line[d] : line[d][q] = line[d][p] => q = p
      BY <3>1 DEF LinesOK
    <3>3. line[d][p] # j /\ line[d][p] \in Jobs
      BY <1>4, <2>1, <3>2, JobSets DEF JobsOf
    <3> QED
      BY <1>6, <3>1, <3>2, <3>3, MoveJobs
  <2>2. CASE d = c
    <3>1. line'[d] = Tail(s)
      BY <1>1, <2>0, <2>2
    <3> DEFINE t == Tail(s)
    <3>2. p \in DOMAIN t
      BY <3>1
    <3>3. t[p] = s[p + 1] /\ p + 1 \in DOMAIN s /\ p + 1 # 1 /\ p \in Nat
      BY <1>2, <3>2
    <3>4. t[p] \in JobsOf(c) /\ t[p] \in Jobs /\ job[t[p]] = "waiting"
      BY <1>3, <3>3
    <3>5. t[p] # j
      BY <1>2, <1>3, <3>3
    <3>6. ASSUME NEW q \in DOMAIN t, t[q] = t[p] PROVE q = p
      <4>1. t[q] = s[q + 1] /\ q + 1 \in DOMAIN s /\ q \in Nat
        BY <1>2
      <4>2. q + 1 = p + 1
        BY <1>3, <3>3, <3>6, <4>1
      <4> QED
        BY <3>3, <4>1, <4>2
    <3>7. job'[t[p]] = "waiting"
      BY <1>6, <3>4, <3>5, MoveJobs
    <3> HIDE DEF t
    <3> QED
      BY <2>2, <3>1, <3>4, <3>6, <3>7 DEF t
  <2> QED
    BY <2>1, <2>2
<1>9. CallsOK'
  <2>1. Permits(j[1]) > 0
    BY <1>1, <1>4
  <2> QED
    BY <1>6, <2>1, MoveCalls
<1>10. DoneOK'
  BY <1>1, <1>4, <1>5, <1>6, MoveDone
<1>11. OvershootExplained'
  <2>1. Counts(j, x)
    BY <1>1, <1>5 DEF Counts
  <2> QED
    BY <1>6, <1>7, <1>9, <2>1, MoveCount
<1> QED
  BY <1>7, <1>8, <1>9, <1>10, <1>11

LEMMA ToolEndsInv ==
  ASSUME QueueInvAll, NEW j \in DOMAIN job, ToolEnds(j)
  PROVE  QueueInvAll'
<1> USE DEF QueueInvAll, QueueInv
<1>1. PICK x \in Outcomes :
        /\ job' = [job EXCEPT ![j] = x]
        /\ count' = IF x = "timeout_oom_or_error" THEN count ELSE count + 1
        /\ completed' = IF x = "completed" THEN completed \cup {TaskOf(j)} ELSE completed
        /\ oks' = IF x = "completed" THEN oks \cup {j} ELSE oks
  BY DEF ToolEnds, Completes
<1>2. j \in Jobs /\ job[j] = "running" /\ UNCHANGED <<tasks, calls, line>>
      /\ j[1] \in 1..MaxCalls /\ j[1] \in Nat
  BY JobSets DEF ToolEnds, Jobs
<1>3. Moves(j, x) /\ x # "running"
  BY <1>1, <1>2 DEF Moves, Going, JobStates, Outcomes
<1>4. QueueTypes'
  <2>1. line' \in [1..MaxCalls -> Seq(Jobs)]
    BY <1>2 DEF QueueTypes
  <2>2. count' \in Nat /\ oks' \subseteq Jobs
    BY <1>1, <1>2 DEF QueueTypes
  <2> QED
    BY <1>3, <2>1, <2>2, MoveTypes
<1>5. LinesOK'
  BY <1>2, <1>3, LinesKept
<1>6. CallsOK'
  BY <1>2, <1>3, MoveCalls
<1>7. OvershootExplained'
  <2>1. Counts(j, x)
    BY <1>1, <1>2, <1>3 DEF Counts
  <2> QED
    BY <1>3, <1>4, <1>6, <2>1, MoveCount
<1>8. CASE x # "completed"
  <2>1. DoneOK'
    BY <1>1, <1>2, <1>3, <1>8, MoveDone DEF Outcomes
  <2> QED
    BY <1>4, <1>5, <1>6, <1>7, <2>1
<1>9. CASE x = "completed"
  <2>0. oks' = oks \cup {j} /\ completed' = completed \cup {TaskOf(j)} /\ oks \subseteq Jobs
    BY <1>1, <1>9 DEF QueueTypes
  \* An earlier call that still runs this job has raised.
  <2>1. ASSUME NEW k \in Jobs, job[k] # "none", j[1] < k[1] PROVE HasRaised(j[1])
    <3>1. k[1] \in 1..MaxCalls /\ ~(k[1] > calls) /\ calls \in Nat
      BY <2>1 DEF CallsOK, Jobs, QueueTypes
    <3>2. j[1] \in 1..calls - 1
      BY <1>2, <2>1, <3>1
    <3>3. Over(j[1])
      BY <3>2 DEF CallsOK
    <3>4. j \in JobsOf(j[1]) /\ job[j] \in Going
      BY <1>2 DEF JobsOf, Jobs, Going
    <3> QED
      BY <3>3, <3>4 DEF Over
  <2>2. ASSUME NEW c \in 1..MaxCalls, HasRaised(c) PROVE HasRaised(c)'
    BY <1>3, <2>2, RaisedStays
  <2>3. \A k \in oks' : job'[k] = "completed"
    <3> SUFFICES ASSUME NEW k \in oks' PROVE job'[k] = "completed"
      OBVIOUS
    <3>1. CASE k = j
      BY <1>3, <1>9, <3>1, MoveJobs
    <3>2. CASE k # j
      BY <1>3, <2>0, <3>2, MoveJobs DEF DoneOK
    <3> QED
      BY <3>1, <3>2
  <2>4. completed' = {TaskOf(k)' : k \in oks'}
    <3>1. completed = {TaskOf(k) : k \in oks}
      BY DEF DoneOK
    <3>2. \A k : TaskOf(k)' = TaskOf(k)
      BY <1>3, MoveJobs
    <3> QED
      BY <2>0, <3>1, <3>2
  <2>5. ResumedIsDone'
    <3> SUFFICES ASSUME NEW k \in Jobs, job'[k] = "resumed"
                 PROVE  \E m \in oks' : TaskOf(m) = TaskOf(k)
      BY <1>3, MoveJobs DEF ResumedIsDone, Is
    <3>1. k # j
      BY <1>3, <1>9, MoveJobs
    <3>2. job[k] = "resumed"
      BY <1>3, <3>1, MoveJobs
    <3>3. \E m \in oks : TaskOf(m) = TaskOf(k)
      BY <3>2, JobSets DEF DoneOK, ResumedIsDone, Is
    <3> QED
      BY <2>0, <3>3
  <2>6. ASSUME NEW m \in oks', NEW k \in Jobs', job'[k] \in {"waiting", "running"}, m[1] < k[1],
               TaskOf(m)' = TaskOf(k)'
        PROVE  HasRaised(m[1])'
    <3>1. /\ k \in Jobs /\ k # j /\ job[k] \in {"waiting", "running"} /\ TaskOf(m) = TaskOf(k)
          /\ m \in Jobs /\ m[1] \in 1..MaxCalls
      BY <1>2, <1>3, <1>9, <2>0, <2>6, MoveJobs DEF Jobs
    <3>2. CASE m = j
      BY <1>2, <2>1, <2>2, <2>6, <3>1, <3>2
    <3>3. CASE m # j
      <4>1. m \in oks
        BY <2>0, <3>3
      <4>2. HasRaised(m[1])
        BY <2>6, <3>1, <4>1 DEF DoneOK
      <4> QED
        BY <2>2, <3>1, <4>2
    <3> QED
      BY <3>2, <3>3
  <2>7. ASSUME NEW m \in oks, TaskOf(m) = TaskOf(j), m # j
        PROVE  \/ m[1] = j[1]
               \/ HasRaised(m[1])' /\ m[1] < j[1]
               \/ HasRaised(j[1])' /\ j[1] < m[1]
    <3>1. m \in Jobs /\ m[1] \in 1..MaxCalls /\ job[m] = "completed"
      BY <2>0 DEF Jobs, DoneOK
    <3>2. CASE m[1] < j[1]
      <4>1. HasRaised(m[1])
        BY <1>2, <2>7, <3>2 DEF DoneOK
      <4> QED
        BY <2>2, <3>1, <3>2, <4>1
    <3>3. CASE j[1] < m[1]
      BY <1>2, <2>1, <2>2, <3>1, <3>3
    <3> QED
      BY <1>2, <3>1, <3>2, <3>3
  <2>8. RunsOnceExplained'
    <3> SUFFICES ASSUME NEW m \in oks', NEW k \in oks', m # k, TaskOf(m) = TaskOf(k)
                 PROVE  \/ m[1] = k[1]
                        \/ HasRaised(m[1])' /\ m[1] < k[1]
                        \/ HasRaised(k[1])' /\ k[1] < m[1]
      BY <1>3, MoveJobs DEF RunsOnceExplained
    <3>1. CASE m \in oks /\ k \in oks
      <4>1. m[1] \in 1..MaxCalls /\ k[1] \in 1..MaxCalls
        BY <2>0, <3>1 DEF Jobs
      <4>2. \/ m[1] = k[1]
            \/ HasRaised(m[1]) /\ m[1] < k[1]
            \/ HasRaised(k[1]) /\ k[1] < m[1]
        BY <3>1 DEF DoneOK, RunsOnceExplained
      <4> QED
        BY <2>2, <4>1, <4>2
    <3>2. CASE m = j
      BY <2>0, <2>7, <3>2
    <3>3. CASE k = j
      BY <2>0, <2>7, <3>3
    <3> QED
      BY <2>0, <3>1, <3>2, <3>3
  <2>9. DoneOK'
    BY <2>3, <2>4, <2>5, <2>6, <2>8 DEF DoneOK
  <2> QED
    BY <1>4, <1>5, <1>6, <1>7, <2>9
<1> QED
  BY <1>8, <1>9

LEMMA QueueStepInv ==
  QueueInvAll /\ [QueueNext]_queuevars => QueueInvAll'
<1> SUFFICES ASSUME QueueInvAll, [QueueNext]_queuevars
             PROVE  QueueInvAll'
  OBVIOUS
<1>1. CASE UNCHANGED queuevars
  BY <1>1, SMTT(60) DEF queuevars, QueueInvAll, QueueInv, QueueTypes, LinesOK, CallsOK, DoneOK, Jobs, JobsOf,
     TaskOf, Is, HasRaised, Over, RunningIn, ResumedIsDone, RunsOnceExplained, OvershootExplained,
     Overlapping
<1>2. CASE Call
  BY <1>2, CallInv
<1>3. ASSUME NEW j \in DOMAIN job, Start(j) PROVE QueueInvAll'
  BY <1>3, StartInv
<1>4. ASSUME NEW j \in DOMAIN job, ToolEnds(j) PROVE QueueInvAll'
  BY <1>4, ToolEndsInv
<1>5. ASSUME NEW c \in 1..calls, Enter(c) PROVE QueueInvAll'
  BY <1>5, EnterInv
<1> QED
  BY <1>1, <1>2, <1>3, <1>4, <1>5 DEF QueueNext

\* execution_queue.py:50 and execution_agent.py:53, for all lists of tasks and all
\* limits: a task runs well once unless it is listed twice or outlives its call,
\* what is reported as done was done, and max_executions is exceeded by no more
\* than the executions under way.
THEOREM QueueIsSound == QueueSpec => []QueueSound
<1>1. QueueInit => QueueInvAll
  BY QueueInitInv
<1>2. QueueInvAll => QueueSound
  BY DEF QueueInvAll, QueueInv, DoneOK, QueueSound
<1> QED
  BY <1>1, <1>2, QueueStepInv, PTL DEF QueueSpec

-----------------------------------------------------------------------------
(* The action loop: its inductive invariant *)

ActionRecords == [id : EventIds \cup {""}, tool : {""} \cup Tools, cites : SUBSET Events]
Stages == {"plan", "decide", "tool"}
Unstarted(l) ==
  pc[l] \notin {"decide", "tool"} /\ round[l] = 0 /\ history[l] = given[l].initial_history
\* The trainings whose files may come late: recorded as failed.
LateIn(H, e) ==
  /\ e[1] \in Loops
  /\ \E k \in DOMAIN H[e[1]] :
       LET t == H[e[1]][k] IN t.call = e[2] /\ t.tool = "train" /\ t.status = "failed"

LoopTypes ==
  /\ given \in Givens
  /\ pc \in [Loops -> Stages \cup Ended]
  /\ round \in [Loops -> Nat]
  /\ history \in [Loops -> Seq(Records)]
  /\ unresolved \in [Loops -> Events]
  /\ action \in [Loops -> ActionRecords]
  /\ DOMAIN context = Loops
  /\ abandoned \subseteq Loops \X Nat
  /\ disk \in Nat \X Nat

\* Where a run is: an action that runs has paid the debt.
StageAt(p, n, max, a, u) ==
  /\ n <= max
  /\ p = "plan" => n < max
  /\ p \in {"decide", "tool"} => n > 0
  /\ IF p = "tool" THEN a.tool \in Tools /\ (u = NoEvent \/ u \in a.cites) ELSE a = NoAction

\* The records of a run come from its planner calls, one each, in order.
RecordsAt(h, p, n) ==
  \A i \in DOMAIN h :
    /\ h[i].event[3] = h[i].status
    /\ h[i].call <= n /\ (p \in {"decide", "tool"} => h[i].call < n)
    /\ h[i].call = 0 => IsFixture(h[i])
    /\ \A j \in DOMAIN h : i < j => h[i].call < h[j].call

\* A failure is owed until a tool has run; a planner's error is not.
Owes(r) == Bad(r) /\ (r.status = "rejected" => r.call = 0)
\* What is owed is the last failure, unless a tool has run since.
DebtAt(h, p, u) ==
  /\ u # NoEvent => \E k \in DOMAIN h : Bad(h[k]) /\ h[k].event = u
  /\ p # "raised" =>
       \A i \in DOMAIN h :
         (Owes(h[i]) /\ \A k \in DOMAIN h : i < k => ~Executed(h[k])) => u = h[i].event

AnsweredAt(h) ==
  \A i, j \in DOMAIN h :
    (/\ i < j /\ Owes(h[i]) /\ Executed(h[j])
     /\ \A k \in DOMAIN h : (i < k /\ k < j) => ~Executed(h[k]))
    => h[i].event \in h[j].cites

OwedAt(h, p, u) ==
  (u # NoEvent /\ p # "raised") =>
    \A j \in DOMAIN h : (j > Source(h, u) /\ h[j].status = "succeeded") => u \notin h[j].cites

\* The runs come one after another.
OrderOK == \A l, k \in Loops : (k < l /\ pc[k] \notin Ended) => Unstarted(l)

HistoryOK ==
  \A l \in Loops :
    /\ StageAt(pc[l], round[l], given[l].max_actions, action[l], unresolved[l])
    /\ RecordsAt(history[l], pc[l], round[l])
    /\ DebtAt(history[l], pc[l], unresolved[l])
    /\ AnsweredAt(history[l])
    /\ OwedAt(history[l], pc[l], unresolved[l])

\* The result files are those of the last training, or of one that came late.
Late(e) == LateIn(history, e)
Trained(r) == r.tool = "train" /\ r.status = "succeeded"
Verified(r) == r.tool = "verify" /\ r.status = "succeeded"
DiskOK ==
  /\ \A e \in abandoned : Late(e) /\ e[2] \in 1..given[e[1]].max_actions
  /\ disk # NoWork => disk[1] \in Loops /\ disk[2] \in 1..given[disk[1]].max_actions
  /\ \A l \in Loops : pc[l] \notin Ended =>
       \A i \in DOMAIN history[l] :
         (Trained(history[l][i]) /\ \A k \in DOMAIN history[l] : i < k => history[l][k].tool # "train")
         => disk = history[l][i].obs \/ Late(disk)
VerifyOK ==
  \A l \in Loops : \A i, j \in DOMAIN history[l] :
    (/\ i < j /\ Trained(history[l][i]) /\ Verified(history[l][j])
     /\ \A k \in DOMAIN history[l] : (i < k /\ k < j) => history[l][k].tool # "train")
    => history[l][j].obs = history[l][i].obs \/ Late(history[l][j].obs)

\* The memories: one row per namespace and id, or per id; who wrote them; and
\* where the side index points.
RowsOK ==
  /\ backend \in {"langgraph", "postgres"}
  /\ rows \subseteq Rows /\ IsFiniteSet(rows)
  /\ \A r, q \in rows :
       (r.born = q.born \/ (r.item.id = q.item.id /\ (backend = "postgres" \/ r.at = q.at))) => r = q
  /\ index = [id \in DOMAIN index |-> index[id]] /\ \A id \in DOMAIN index : index[id] \in Namespaces
  /\ withdrawn \subseteq Nat \X Nat /\ erased \subseteq Nat \X Nat

Origin(r) ==
  /\ IF r.item.by \in Loops
     THEN r.item.id[1] = given[r.item.by].session /\ r.item.ns = given[r.item.by].ns
     ELSE \E o \in OldRows : o.item.by = r.item.by /\ o.item.id = r.item.id /\ o.item.ns = r.item.ns
  /\ r.at \in Homes(r.item.id[1])
  /\ backend = "langgraph" => r.at = r.item.ns
OriginOK ==
  \A r \in rows :
    /\ Origin(r)
    /\ (backend = "langgraph" /\ ~Split(r.item.id[1])) =>
         r.item.id \in DOMAIN index /\ index[r.item.id] = r.at

\* A run's memories are of actions it has done with.
Past(e) ==
  e[1] \in Loops => \/ e[2] < round[e[1]]
                    \/ e[2] = round[e[1]] /\ pc[e[1]] \notin {"decide", "tool"}
PastOK == \A e \in {Ident(r.item) : r \in rows} \cup withdrawn \cup erased : Past(e)

\* A valid row was not withdrawn.
WithdrawnOK ==
  \A r \in rows : (Valid(r) /\ Ident(r.item) \in withdrawn) =>
                    (backend = "langgraph" /\ Split(r.item.id[1]))

ContextOK == \A l \in Loops : Cardinality(context[l]) <= TopK

HistoryInv == LoopTypes /\ OrderOK /\ HistoryOK
TrainingInv == DiskOK /\ VerifyOK
MemoryInv == RowsOK /\ OriginOK /\ PastOK /\ WithdrawnOK /\ DeletedGone /\ EpisodeKept /\ ContextOK
LoopInv == HistoryInv /\ TrainingInv /\ MemoryInv

-----------------------------------------------------------------------------
(* Positions of sequences *)

\* A set of positions has a greatest element, and Max names it.
LEMMA MaxOfPositions ==
  ASSUME NEW n \in Nat, NEW S \in SUBSET (1..n), S # {}
  PROVE  Max(S) \in S /\ \A y \in S : Max(S) >= y
<1> DEFINE T == {m \in Nat : \A y \in S : y <= m}
<1>1. n \in T
  OBVIOUS
<1>2. PICK m \in T : \A x \in T : m <= x
  <2>1. T \in SUBSET Nat /\ T # {}
    BY <1>1
  <2> HIDE DEF T
  <2> QED
    BY <2>1, LeastExists
<1>3. m \in S
  <2>1. SUFFICES ASSUME m \notin S PROVE FALSE
    OBVIOUS
  <2>2. \A y \in S : y <= m - 1
    BY <2>1, <1>2
  <2>3. PICK y \in S : y <= m - 1
    BY <2>2
  <2>4. m - 1 \in T
    BY <2>2, <2>3, <1>2
  <2> QED
    BY <2>4, <1>2
<1>4. \A y \in S : m >= y
  BY <1>2
<1> QED
  BY <1>3, <1>4 DEF Max

LEMMA AppendShape ==
  ASSUME NEW T, NEW s \in Seq(T), NEW e \in T
  PROVE  /\ Len(s) \in Nat /\ DOMAIN s = 1..Len(s)
         /\ Append(s, e) \in Seq(T) /\ Len(Append(s, e)) = Len(s) + 1
         /\ DOMAIN Append(s, e) = 1..Len(s) + 1
         /\ Append(s, e)[Len(s) + 1] = e
         /\ \A k \in DOMAIN s : Append(s, e)[k] = s[k]
         /\ \A k \in DOMAIN Append(s, e) : k \in DOMAIN s \/ k = Len(s) + 1
  OBVIOUS

\* The failure that an event names: the last record of it.
LEMMA SourceIs ==
  ASSUME NEW h \in Seq(Records), NEW e
  PROVE  /\ Source(h, e) \in 0..Len(h)
         /\ Source(h, e) = 0 <=> \A k \in DOMAIN h : ~(Bad(h[k]) /\ h[k].event = e)
         /\ Source(h, e) # 0 =>
              /\ Source(h, e) \in DOMAIN h /\ Bad(h[Source(h, e)]) /\ h[Source(h, e)].event = e
              /\ \A k \in DOMAIN h : (Bad(h[k]) /\ h[k].event = e) => k <= Source(h, e)
<1> DEFINE K == {k \in FailuresOf(h) : h[k].event = e}
<1>1. K \in SUBSET (1..Len(h)) /\ Len(h) \in Nat /\ DOMAIN h = 1..Len(h)
  BY DEF FailuresOf
<1>2. K = {k \in DOMAIN h : Bad(h[k]) /\ h[k].event = e}
  BY DEF FailuresOf
<1>3. Source(h, e) = IF K = {} THEN 0 ELSE Max(K)
  BY DEF Source
<1>4. K # {} => Max(K) \in K /\ \A y \in K : Max(K) >= y
  <2> HIDE DEF K
  <2> QED
    BY <1>1, MaxOfPositions
<1>5. CASE K = {}
  BY <1>1, <1>2, <1>3, <1>5
<1>6. CASE K # {}
  <2>1. Source(h, e) = Max(K) /\ Max(K) \in K /\ \A y \in K : Max(K) >= y
    BY <1>3, <1>4, <1>6
  <2>2. Max(K) \in 1..Len(h) /\ Bad(h[Max(K)]) /\ h[Max(K)].event = e
    BY <1>1, <1>2, <2>1
  <2>3. \A k \in DOMAIN h : (Bad(h[k]) /\ h[k].event = e) => k <= Max(K)
    BY <1>1, <1>2, <2>1
  <2> HIDE DEF K
  <2> QED
    BY <1>1, <2>1, <2>2, <2>3
<1> QED
  BY <1>5, <1>6

-----------------------------------------------------------------------------
(* What one more record does to a history *)

LEMMA AppendRecords ==
  ASSUME NEW h \in Seq(Records), NEW r \in Records, NEW p, NEW q, NEW n \in Nat,
         RecordsAt(h, p, n), p \in {"decide", "tool"}, q \notin {"decide", "tool"},
         r.call = n, n > 0, r.event[3] = r.status
  PROVE  RecordsAt(Append(h, r), q, n)
<1> DEFINE g == Append(h, r)
<1>1. /\ Len(h) \in Nat /\ DOMAIN h = 1..Len(h) /\ g \in Seq(Records)
      /\ DOMAIN g = 1..Len(h) + 1 /\ g[Len(h) + 1] = r
      /\ \A k \in DOMAIN h : g[k] = h[k]
      /\ \A k \in DOMAIN g : k \in DOMAIN h \/ k = Len(h) + 1
  BY AppendShape
<1> HIDE DEF g
<1>2. \A i \in DOMAIN h : /\ h[i].event[3] = h[i].status /\ h[i].call < n /\ h[i].call <= n
                          /\ h[i].call = 0 => IsFixture(h[i])
                          /\ \A j \in DOMAIN h : i < j => h[i].call < h[j].call
  BY DEF RecordsAt
<1> SUFFICES ASSUME NEW i \in DOMAIN g
             PROVE  /\ g[i].event[3] = g[i].status /\ g[i].call <= n
                    /\ g[i].call = 0 => IsFixture(g[i])
                    /\ \A j \in DOMAIN g : i < j => g[i].call < g[j].call
  BY DEF RecordsAt, g
<1>3. CASE i = Len(h) + 1
  BY <1>1, <1>3
<1>4. CASE i \in DOMAIN h
  <2>1. g[i] = h[i]
    BY <1>1, <1>4
  <2>2. ASSUME NEW j \in DOMAIN g, i < j PROVE h[i].call < g[j].call
    <3>1. CASE j = Len(h) + 1
      BY <1>1, <1>2, <1>4, <3>1
    <3>2. CASE j \in DOMAIN h
      BY <1>1, <1>2, <1>4, <2>2, <3>2
    <3> QED
      BY <1>1, <3>1, <3>2
  <2> QED
    BY <1>2, <1>4, <2>1, <2>2
<1> QED
  BY <1>1, <1>3, <1>4

\* An event that a record has is not the absence of one.
LEMMA EventIsNot ==
  ASSUME NEW h \in Seq(Records), NEW p, NEW n, RecordsAt(h, p, n), NEW k \in DOMAIN h
  PROVE  h[k].event # NoEvent
<1>1. h[k].event[3] = h[k].status /\ h[k] \in Records
  BY DEF RecordsAt
<1>2. h[k].status \in {"succeeded", "failed", "rejected"}
  BY <1>1 DEF Records
<1>3. NoEvent[3] = ""
  BY DEF NoEvent
<1> QED
  BY <1>1, <1>2, <1>3

LEMMA AppendRejected ==
  ASSUME NEW h \in Seq(Records), NEW r \in Records, NEW p, NEW q, NEW n \in Nat, NEW u, NEW v,
         RecordsAt(h, p, n), DebtAt(h, p, u), AnsweredAt(h), OwedAt(h, p, u), p = "decide",
         r.status = "rejected", r.call = n, n > 0, r.event[3] = r.status,
         v = u \/ (u = NoEvent /\ v = r.event)
  PROVE  DebtAt(Append(h, r), q, v) /\ AnsweredAt(Append(h, r)) /\ OwedAt(Append(h, r), q, v)
<1> DEFINE g == Append(h, r)
           m == Len(h) + 1
<1>1. /\ Len(h) \in Nat /\ DOMAIN h = 1..Len(h) /\ g \in Seq(Records)
      /\ DOMAIN g = 1..m /\ g[m] = r /\ m \in DOMAIN g
      /\ \A k \in DOMAIN h : g[k] = h[k] /\ k \in DOMAIN g /\ k < m
      /\ \A k \in DOMAIN g : k \in DOMAIN h \/ k = m
  BY AppendShape
<1> HIDE DEF g
<1>2. ~Executed(r) /\ ~Owes(r) /\ Bad(r) /\ r.status # "succeeded"
  BY DEF Executed, Owes, Bad
<1>3. DebtAt(g, q, v)
  <2>1. ASSUME v # NoEvent PROVE \E k \in DOMAIN g : Bad(g[k]) /\ g[k].event = v
    <3>1. CASE v = u
      BY <1>1, <2>1, <3>1 DEF DebtAt
    <3>2. CASE v = r.event
      BY <1>1, <1>2, <3>2
    <3> QED
      BY <3>1, <3>2
  <2>2. ASSUME NEW i \in DOMAIN g, Owes(g[i]), \A k \in DOMAIN g : i < k => ~Executed(g[k])
        PROVE  v = g[i].event
    <3>1. i \in DOMAIN h /\ g[i] = h[i]
      BY <1>1, <1>2, <2>2
    <3>2. \A k \in DOMAIN h : i < k => ~Executed(h[k])
      BY <1>1, <2>2
    <3>3. u = h[i].event
      BY <2>2, <3>1, <3>2 DEF DebtAt
    <3>4. h[i].event # NoEvent
      BY <3>1, EventIsNot
    <3> QED
      BY <3>1, <3>3, <3>4
  <2> QED
    BY <2>1, <2>2 DEF DebtAt
<1>4. AnsweredAt(g)
  <2> SUFFICES ASSUME NEW i \in DOMAIN g, NEW j \in DOMAIN g, i < j, Owes(g[i]), Executed(g[j]),
                      \A k \in DOMAIN g : (i < k /\ k < j) => ~Executed(g[k])
               PROVE  g[i].event \in g[j].cites
    BY DEF AnsweredAt
  <2>1. i \in DOMAIN h /\ j \in DOMAIN h /\ g[i] = h[i] /\ g[j] = h[j]
    BY <1>1, <1>2
  <2>2. \A k \in DOMAIN h : (i < k /\ k < j) => ~Executed(h[k])
    BY <1>1
  <2> QED
    BY <2>1, <2>2 DEF AnsweredAt
<1>5. OwedAt(g, q, v)
  <2> SUFFICES ASSUME v # NoEvent, NEW j \in DOMAIN g, j > Source(g, v), g[j].status = "succeeded"
               PROVE  v \notin g[j].cites
    BY DEF OwedAt
  <2>1. j \in DOMAIN h /\ g[j] = h[j]
    BY <1>1, <1>2
  <2>2. ASSUME NEW k \in DOMAIN g, Bad(g[k]), g[k].event = v PROVE k < j
    <3>1. Source(g, v) # 0
      BY <1>1, <2>2, SourceIs
    <3>2. Source(g, v) \in DOMAIN g /\ k <= Source(g, v)
      BY <1>1, <2>2, <3>1, SourceIs
    <3> QED
      BY <1>1, <2>1, <3>2
  <2>3. v = u
    BY <1>1, <1>2, <2>1, <2>2
  <2>4. Source(h, u) < j
    <3>1. /\ Source(h, u) \in 0..Len(h)
          /\ Source(h, u) # 0 => Source(h, u) \in DOMAIN h /\ Bad(h[Source(h, u)]) /\ h[Source(h, u)].event = u
      BY SourceIs
    <3> QED
      BY <1>1, <2>1, <2>2, <2>3, <3>1
  <2>5. j > Source(h, u)
    BY <1>1, <2>1, <2>4, SourceIs
  <2> QED
    BY <2>1, <2>3, <2>5 DEF OwedAt
<1> QED
  BY <1>3, <1>4, <1>5 DEF g

LEMMA AppendExecuted ==
  ASSUME NEW h \in Seq(Records), NEW r \in Records, NEW p, NEW q, NEW n \in Nat, NEW u, NEW v,
         RecordsAt(h, p, n), DebtAt(h, p, u), AnsweredAt(h), p # "raised",
         Executed(r), r.event[3] = r.status, u = NoEvent \/ u \in r.cites,
         \/ q = "raised" /\ v = u
         \/ v = IF r.status = "failed" THEN r.event ELSE IF u \in r.cites THEN NoEvent ELSE u
  PROVE  DebtAt(Append(h, r), q, v) /\ AnsweredAt(Append(h, r)) /\ OwedAt(Append(h, r), q, v)
<1> DEFINE g == Append(h, r)
           m == Len(h) + 1
<1>1. /\ Len(h) \in Nat /\ DOMAIN h = 1..Len(h) /\ g \in Seq(Records) /\ Len(g) = m
      /\ DOMAIN g = 1..m /\ g[m] = r /\ m \in DOMAIN g
      /\ \A k \in DOMAIN h : g[k] = h[k] /\ k \in DOMAIN g /\ k < m
      /\ \A k \in DOMAIN g : k \in DOMAIN h \/ k = m
  BY AppendShape
<1> HIDE DEF g
<1>2. Owes(r) => r.status = "failed" /\ Bad(r)
  BY DEF Owes, Bad, Executed
<1>3. /\ r.status = "failed" => Bad(r)
      /\ q # "raised" => v = IF r.status = "failed" THEN r.event ELSE NoEvent
      /\ v = u \/ v = NoEvent \/ (r.status = "failed" /\ v = r.event)
  BY DEF Bad
<1>4. DebtAt(g, q, v)
  <2>1. ASSUME v # NoEvent PROVE \E k \in DOMAIN g : Bad(g[k]) /\ g[k].event = v
    <3>1. CASE v = u
      BY <1>1, <2>1, <3>1 DEF DebtAt
    <3>2. CASE r.status = "failed" /\ v = r.event
      BY <1>1, <1>3, <3>2
    <3> QED
      BY <1>3, <2>1, <3>1, <3>2
  <2>2. ASSUME q # "raised", NEW i \in DOMAIN g, Owes(g[i]), \A k \in DOMAIN g : i < k => ~Executed(g[k])
        PROVE  v = g[i].event
    <3>1. i = m
      BY <1>1, <2>2
    <3> QED
      BY <1>1, <1>2, <1>3, <2>2, <3>1
  <2> QED
    BY <2>1, <2>2 DEF DebtAt
<1>5. AnsweredAt(g)
  <2> SUFFICES ASSUME NEW i \in DOMAIN g, NEW j \in DOMAIN g, i < j, Owes(g[i]), Executed(g[j]),
                      \A k \in DOMAIN g : (i < k /\ k < j) => ~Executed(g[k])
               PROVE  g[i].event \in g[j].cites
    BY DEF AnsweredAt
  <2>1. i \in DOMAIN h /\ g[i] = h[i]
    BY <1>1
  <2>2. CASE j \in DOMAIN h
    <3>1. g[j] = h[j] /\ \A k \in DOMAIN h : (i < k /\ k < j) => ~Executed(h[k])
      BY <1>1, <2>2
    <3> QED
      BY <2>1, <2>2, <3>1 DEF AnsweredAt
  <2>3. CASE j = m
    <3>1. \A k \in DOMAIN h : i < k => ~Executed(h[k])
      BY <1>1, <2>3
    <3>2. u = h[i].event
      BY <2>1, <3>1 DEF DebtAt
    <3>3. h[i].event # NoEvent
      BY <2>1, EventIsNot
    <3> QED
      BY <1>1, <2>1, <2>3, <3>2, <3>3
  <2> QED
    BY <1>1, <2>2, <2>3
<1>6. OwedAt(g, q, v)
  <2> SUFFICES ASSUME v # NoEvent, q # "raised", NEW j \in DOMAIN g, j > Source(g, v)
               PROVE  FALSE
    BY DEF OwedAt
  <2>1. v = r.event /\ Bad(g[m]) /\ g[m].event = v
    BY <1>1, <1>3
  <2>2. Source(g, v) \in DOMAIN g /\ m <= Source(g, v)
    BY <1>1, <2>1, SourceIs
  <2> QED
    BY <1>1, <2>2
<1> QED
  BY <1>4, <1>5, <1>6 DEF g

-----------------------------------------------------------------------------
(* The steps of a run and its history *)

RunMoves(l, p, n, h, u, a) ==
  /\ pc' = [pc EXCEPT ![l] = p]
  /\ round' = [round EXCEPT ![l] = n]
  /\ history' = [history EXCEPT ![l] = h]
  /\ unresolved' = [unresolved EXCEPT ![l] = u]
  /\ action' = [action EXCEPT ![l] = a]
  /\ UNCHANGED given
OthersTyped ==
  DOMAIN context' = Loops /\ abandoned' \subseteq Loops \X Nat /\ disk' \in Nat \X Nat

LEMMA MovesAt ==
  ASSUME LoopTypes, NEW l \in Loops, NEW p, NEW n, NEW h, NEW u, NEW a, RunMoves(l, p, n, h, u, a)
  PROVE  /\ pc'[l] = p /\ round'[l] = n /\ history'[l] = h /\ unresolved'[l] = u /\ action'[l] = a
         /\ given' = given
         /\ \A k \in Loops : k # l =>
              /\ pc'[k] = pc[k] /\ round'[k] = round[k] /\ history'[k] = history[k]
              /\ unresolved'[k] = unresolved[k] /\ action'[k] = action[k]
<1>1. /\ DOMAIN pc = Loops /\ DOMAIN round = Loops /\ DOMAIN history = Loops
      /\ DOMAIN unresolved = Loops /\ DOMAIN action = Loops
  BY DEF LoopTypes
<1> QED
  BY <1>1 DEF RunMoves

LEMMA RunStep ==
  ASSUME HistoryInv, NEW l \in Loops, NEW p \in Stages \cup Ended, NEW n \in Nat, NEW h \in Seq(Records),
         NEW u \in Events, NEW a \in ActionRecords,
         RunMoves(l, p, n, h, u, a), OthersTyped,
         pc[l] \notin Ended, pc[l] = "plan" => Runs(l),
         StageAt(p, n, given[l].max_actions, a, u), RecordsAt(h, p, n), DebtAt(h, p, u),
         AnsweredAt(h), OwedAt(h, p, u)
  PROVE  HistoryInv'
<1>0. LoopTypes /\ OrderOK /\ HistoryOK
  BY DEF HistoryInv
<1>1. LoopTypes'
  BY <1>0 DEF LoopTypes, RunMoves, OthersTyped, ActionRecords
<1>2. ASSUME NEW j \in Loops, NEW k \in Loops, k < j, pc'[k] \notin Ended PROVE Unstarted(j)'
  <2>1. CASE j = l
    <3>1. k # l /\ pc[k] \notin Ended
      BY <1>0, <1>2, <2>1, MovesAt DEF Loops
    <3>2. Unstarted(l) /\ pc[l] # "plan"
      BY <1>0, <1>2, <2>1, <3>1 DEF OrderOK, Runs
    <3> QED
      BY <1>0, <3>2 DEF Unstarted, LoopTypes, Stages
  <2>2. CASE j # l
    <3>1. pc[k] \notin Ended
      BY <1>0, <1>2, MovesAt
    <3>2. Unstarted(j)
      BY <1>0, <1>2, <3>1 DEF OrderOK
    <3> QED
      BY <1>0, <2>2, <3>2, MovesAt DEF Unstarted
  <2> QED
    BY <2>1, <2>2
<1>3. ASSUME NEW k \in Loops
      PROVE  /\ StageAt(pc'[k], round'[k], given'[k].max_actions, action'[k], unresolved'[k])
             /\ RecordsAt(history'[k], pc'[k], round'[k])
             /\ DebtAt(history'[k], pc'[k], unresolved'[k])
             /\ AnsweredAt(history'[k])
             /\ OwedAt(history'[k], pc'[k], unresolved'[k])
  <2>1. CASE k = l
    BY <1>0, <2>1, MovesAt
  <2>2. CASE k # l
    BY <1>0, <2>2, MovesAt DEF HistoryOK
  <2> QED
    BY <2>1, <2>2
<1> QED
  BY <1>1, <1>2, <1>3 DEF HistoryInv, OrderOK, HistoryOK

\* A step that leaves the runs as they are.
LEMMA RunsRest ==
  ASSUME HistoryInv, UNCHANGED <<given, pc, round, history, unresolved, context, action>>,
         abandoned' \subseteq Loops \X Nat, disk' \in Nat \X Nat
  PROVE  HistoryInv'
  BY DEF HistoryInv, LoopTypes, OrderOK, HistoryOK, Unstarted

\* What is known of a run.
LEMMA RunFacts ==
  ASSUME HistoryInv, NEW l \in Loops
  PROVE  /\ pc[l] \in Stages \cup Ended /\ round[l] \in Nat /\ history[l] \in Seq(Records)
         /\ unresolved[l] \in Events /\ action[l] \in ActionRecords
         /\ given[l].max_actions \in Nat /\ l \in Nat /\ l > 0
         /\ StageAt(pc[l], round[l], given[l].max_actions, action[l], unresolved[l])
         /\ RecordsAt(history[l], pc[l], round[l])
         /\ DebtAt(history[l], pc[l], unresolved[l])
         /\ AnsweredAt(history[l])
         /\ OwedAt(history[l], pc[l], unresolved[l])
         /\ pc = [pc EXCEPT ![l] = pc[l]] /\ round = [round EXCEPT ![l] = round[l]]
         /\ history = [history EXCEPT ![l] = history[l]]
         /\ unresolved = [unresolved EXCEPT ![l] = unresolved[l]]
         /\ action = [action EXCEPT ![l] = action[l]]
<1>1. LoopTypes /\ HistoryOK
  BY DEF HistoryInv
<1>2. given[l].max_actions \in Nat /\ l \in Nat /\ l > 0
  BY <1>1, LoopAssumption DEF LoopTypes, Loops
<1> QED
  BY <1>1, <1>2 DEF LoopTypes, HistoryOK, ActionRecords

LEMMA NoActionTyped == NoAction \in ActionRecords /\ NoEvent \in Events /\ NoWork \in Nat \X Nat
  BY DEF NoAction, ActionRecords, NoEvent, NoWork, Events

LEMMA PlanHistory ==
  ASSUME HistoryInv, NEW l \in Loops, Plan(l)
  PROVE  HistoryInv'
<1> DEFINE n == round[l] + 1
<1>1. pc[l] = "plan" /\ Runs(l) /\ n \in Nat
  BY RunFacts DEF Plan
<1>2. RunMoves(l, "decide", n, history[l], unresolved[l], action[l])
  BY RunFacts DEF Plan, RunMoves
<1>3. OthersTyped
  BY DEF HistoryInv, LoopTypes, Plan, OthersTyped
<1>4. StageAt("decide", n, given[l].max_actions, action[l], unresolved[l])
  BY <1>1, RunFacts DEF StageAt
<1>5. RecordsAt(history[l], "decide", n)
  <2>1. \A i \in DOMAIN history[l] : history[l][i].call <= round[l] /\ history[l][i].call \in Nat
    <3> TAKE i \in DOMAIN history[l]
    <3>1. history[l] \in Seq(Records)
      BY RunFacts
    <3>2. history[l][i] \in Records
      BY <3>1
    <3>3. history[l][i].call \in Nat
      BY <3>2 DEF Records
    <3> QED
      BY <3>3, RunFacts DEF RecordsAt
  <2>2. \A i \in DOMAIN history[l] : history[l][i].call < n /\ history[l][i].call <= n
    BY <2>1, RunFacts
  <2> QED
    BY <2>2, RunFacts DEF RecordsAt
<1>6. DebtAt(history[l], "decide", unresolved[l]) /\ OwedAt(history[l], "decide", unresolved[l])
  BY <1>1, RunFacts DEF DebtAt, OwedAt
<1> HIDE DEF n
<1> QED
  BY <1>1, <1>2, <1>3, <1>4, <1>5, <1>6, RunFacts, RunStep DEF Ended, Stages

LEMMA PlannerLeavesHistory ==
  ASSUME HistoryInv, NEW l \in Loops, PlannerRaises(l) \/ PlannerStops(l)
  PROVE  HistoryInv'
<1>1. PICK p \in {"raised", "stopped"} : pc' = [pc EXCEPT ![l] = p]
  BY DEF PlannerRaises, PlannerStops
<1>2. pc[l] = "decide" /\ RunMoves(l, p, round[l], history[l], unresolved[l], action[l])
  BY <1>1, RunFacts DEF PlannerRaises, PlannerStops, RunMoves
<1>3. OthersTyped
  BY DEF HistoryInv, LoopTypes, PlannerRaises, PlannerStops, OthersTyped
<1>4. StageAt(p, round[l], given[l].max_actions, action[l], unresolved[l])
  BY <1>1, <1>2, RunFacts DEF StageAt
<1>5. RecordsAt(history[l], p, round[l])
  BY <1>1, RunFacts DEF RecordsAt
<1>6. DebtAt(history[l], p, unresolved[l]) /\ OwedAt(history[l], p, unresolved[l])
  BY <1>2, RunFacts DEF DebtAt, OwedAt
<1>7. p \in Stages \cup Ended /\ pc[l] \notin Ended /\ pc[l] # "plan"
  BY <1>1, <1>2 DEF Ended
<1> QED
  BY <1>2, <1>3, <1>4, <1>5, <1>6, <1>7, RunFacts, RunStep

LEMMA ProposeHistory ==
  ASSUME HistoryInv, NEW l \in Loops, Propose(l)
  PROVE  HistoryInv'
<1>1. PICK id \in ActionIds, tool \in Tools, cites \in Citations(l) :
        /\ AnswersDebt(l, cites)
        /\ action' = [action EXCEPT ![l] = [id |-> id, tool |-> tool, cites |-> cites]]
  BY DEF Propose
<1> DEFINE a == [id |-> id, tool |-> tool, cites |-> cites]
<1>2. cites \in SUBSET Events /\ tool \in Tools /\ id \in EventIds
  <2>1. id \in EventIds
    BY LoopAssumption
  <2>3. \A i \in ActionIds : <<i, 0, "failed">> \in Events
    BY LoopAssumption DEF Events
  <2>4. unresolved[l] \in Events
    BY RunFacts
  <2> QED
    BY <2>1, <2>3, <2>4 DEF Citations
<1>3. a \in ActionRecords /\ a.tool \in Tools /\ a.cites = cites
  BY <1>2 DEF ActionRecords
<1>4. pc[l] = "decide" /\ RunMoves(l, "tool", round[l], history[l], unresolved[l], a)
  BY <1>1, RunFacts DEF Propose, RunMoves
<1>5. OthersTyped
  BY DEF HistoryInv, LoopTypes, Propose, OthersTyped
<1> HIDE DEF a
<1>6. StageAt("tool", round[l], given[l].max_actions, a, unresolved[l])
  BY <1>1, <1>3, <1>4, RunFacts DEF StageAt, AnswersDebt
<1>7. RecordsAt(history[l], "tool", round[l])
  BY <1>4, RunFacts DEF RecordsAt
<1>8. DebtAt(history[l], "tool", unresolved[l]) /\ OwedAt(history[l], "tool", unresolved[l])
  BY <1>4, RunFacts DEF DebtAt, OwedAt
<1>9. "tool" \in Stages \cup Ended /\ pc[l] \notin Ended /\ pc[l] # "plan"
  BY <1>4 DEF Ended, Stages
<1> QED
  BY <1>3, <1>4, <1>5, <1>6, <1>7, <1>8, <1>9, RunFacts, RunStep

\* Where a run is after an action of it.
LEMMA NextRoundIs ==
  ASSUME HistoryInv, NEW l \in Loops, NEW u
  PROVE  /\ NextRound(l) \in {"plan", "max_actions_reached"}
         /\ StageAt(NextRound(l), round[l], given[l].max_actions, NoAction, u)
  BY RunFacts DEF NextRound, StageAt

LEMMA RejectedRecord ==
  ASSUME HistoryInv, NEW l \in Loops, PlannerErrs(l) \/ Reject(l)
  PROVE  \E r \in Records, v \in Events :
           /\ r.tool = "none" /\ r.status = "rejected" /\ r.call = round[l] /\ r.event[3] = r.status
           /\ history' = [history EXCEPT ![l] = Append(history[l], r)]
           /\ unresolved' = [unresolved EXCEPT ![l] = v]
           /\ v = unresolved[l] \/ (unresolved[l] = NoEvent /\ v = r.event)
<1>1. CASE PlannerErrs(l)
  <2> DEFINE r == Record("action-planner", round[l], round[l], "none", "rejected", {}, NoWork)
             v == IF unresolved[l] = NoEvent THEN r.event ELSE unresolved[l]
  <2>1. r \in Records /\ r.tool = "none" /\ r.status = "rejected" /\ r.call = round[l] /\ r.event[3] = r.status /\ r.event \in Events
    <3>1. /\ round[l] \in Nat /\ NoWork \in Nat \X Nat /\ {} \in SUBSET Events
          /\ "action-planner" \in EventIds \cup {"", "action-planner"} /\ "none" \in {"none"} \cup Tools
          /\ "rejected" \in {"succeeded", "failed", "rejected"}
      BY RunFacts, NoActionTyped
    <3> QED
      BY <3>1 DEF Record, Records, Events
  <2>2. history' = [history EXCEPT ![l] = Append(history[l], r)]
    BY <1>1 DEF PlannerErrs
  <2>3. unresolved' = [unresolved EXCEPT ![l] = v]
    BY <1>1 DEF PlannerErrs
  <2>4. v \in Events /\ (v = unresolved[l] \/ (unresolved[l] = NoEvent /\ v = r.event))
    BY <2>1, RunFacts
  <2> HIDE DEF r, v
  <2> QED
    BY <2>1, <2>2, <2>3, <2>4
<1>2. CASE Reject(l)
  <2>1. PICK id \in ActionIds :
          history' = [history EXCEPT ![l] =
                        Append(@, Record(id, 0, round[l], "none", "rejected", {}, NoWork))]
    BY <1>2 DEF Reject
  <2> DEFINE r == Record(id, 0, round[l], "none", "rejected", {}, NoWork)
  <2>2. r \in Records /\ r.tool = "none" /\ r.status = "rejected" /\ r.call = round[l] /\ r.event[3] = r.status
    <3>1. /\ round[l] \in Nat /\ NoWork \in Nat \X Nat /\ {} \in SUBSET Events /\ 0 \in Nat
          /\ id \in EventIds \cup {"", "action-planner"} /\ "none" \in {"none"} \cup Tools
          /\ "rejected" \in {"succeeded", "failed", "rejected"}
      BY RunFacts, NoActionTyped, LoopAssumption
    <3> QED
      BY <3>1 DEF Record, Records, Events
  <2>3. history' = [history EXCEPT ![l] = Append(history[l], r)]
    BY <2>1
  <2>4. unresolved' = [unresolved EXCEPT ![l] = unresolved[l]] /\ unresolved[l] \in Events
    BY <1>2, RunFacts DEF Reject
  <2> HIDE DEF r
  <2> QED
    BY <2>2, <2>3, <2>4
<1> QED
  BY <1>1, <1>2

LEMMA RejectedHistory ==
  ASSUME HistoryInv, NEW l \in Loops, PlannerErrs(l) \/ Reject(l)
  PROVE  HistoryInv'
<1>1. PICK r \in Records, v \in Events :
        /\ r.tool = "none" /\ r.status = "rejected" /\ r.call = round[l] /\ r.event[3] = r.status
        /\ history' = [history EXCEPT ![l] = Append(history[l], r)]
        /\ unresolved' = [unresolved EXCEPT ![l] = v]
        /\ v = unresolved[l] \/ (unresolved[l] = NoEvent /\ v = r.event)
  BY RejectedRecord
<1> DEFINE q == NextRound(l)
           g == Append(history[l], r)
<1>2. /\ pc[l] = "decide" /\ pc' = [pc EXCEPT ![l] = q]
      /\ UNCHANGED <<given, round, action, abandoned, disk>>
      /\ DOMAIN context' = DOMAIN context
  BY DEF PlannerErrs, Reject
<1>3. RunMoves(l, q, round[l], g, v, action[l])
  BY <1>1, <1>2, RunFacts DEF RunMoves
<1>4. OthersTyped
  BY <1>2 DEF HistoryInv, LoopTypes, OthersTyped
<1>5. action[l] = NoAction /\ round[l] > 0
  BY <1>2, RunFacts DEF StageAt
<1>6. q \in {"plan", "max_actions_reached"} /\ StageAt(q, round[l], given[l].max_actions, action[l], v)
  BY <1>5, NextRoundIs
<1>7. g \in Seq(Records)
  BY <1>1, RunFacts
<1>8. RecordsAt(g, q, round[l])
  BY <1>1, <1>2, <1>5, <1>6, RunFacts, AppendRecords
<1>9. DebtAt(g, q, v) /\ AnsweredAt(g) /\ OwedAt(g, q, v)
  BY <1>1, <1>2, <1>5, RunFacts, AppendRejected
<1>10. q \in Stages \cup Ended /\ pc[l] \notin Ended /\ pc[l] # "plan"
  BY <1>2, <1>6 DEF Ended, Stages
<1> HIDE DEF q, g
<1> QED
  BY <1>1, <1>3, <1>4, <1>6, <1>7, <1>8, <1>9, <1>10, RunFacts, RunStep

LEMMA ObservedRecord ==
  ASSUME HistoryInv, NEW l \in Loops, NEW status \in {"succeeded", "failed"}, NEW obs \in Nat \X Nat,
         pc[l] = "tool"
  PROVE  LET a == action[l]
             r == Record(a.id, 0, round[l], a.tool, status, a.cites, obs)
         IN /\ r \in Records /\ r.event \in Events /\ r.event[3] = r.status /\ r.call = round[l]
            /\ r.status = status /\ r.tool = a.tool /\ r.cites = a.cites /\ r.obs = obs
            /\ Executed(r)
<1> DEFINE a == action[l]
           r == Record(a.id, 0, round[l], a.tool, status, a.cites, obs)
<1>1. /\ a.id \in EventIds \cup {"", "action-planner"} /\ a.tool \in {"none"} \cup Tools
      /\ a.cites \in SUBSET Events /\ round[l] \in Nat /\ 0 \in Nat
      /\ status \in {"succeeded", "failed", "rejected"}
  BY RunFacts DEF ActionRecords, StageAt
<1> HIDE DEF a
<1>2. /\ r \in Records /\ r.event \in Events /\ r.event[3] = r.status /\ r.call = round[l]
      /\ r.status = status /\ r.tool = a.tool /\ r.cites = a.cites /\ r.obs = obs
  BY <1>1 DEF Record, Records, Events
<1>3. Executed(r)
  BY <1>2 DEF Executed
<1> HIDE DEF r
<1> QED
  BY <1>2, <1>3 DEF r, a

LEMMA ObserveHistory ==
  ASSUME HistoryInv, NEW l \in Loops, NEW status \in {"succeeded", "failed"}, NEW obs \in Nat \X Nat,
         pc[l] = "tool", Observe(l, status, obs), abandoned' \subseteq Loops \X Nat, disk' \in Nat \X Nat
  PROVE  HistoryInv'
<1> DEFINE a == action[l]
           r == Record(a.id, 0, round[l], a.tool, status, a.cites, obs)
           g == Append(history[l], r)
           u == unresolved[l]
<1>1. /\ r \in Records /\ r.status = status /\ r.call = round[l] /\ r.event[3] = r.status
      /\ r.cites = a.cites /\ r.event \in Events /\ Executed(r)
  BY ObservedRecord
<1>2. history' = [history EXCEPT ![l] = g] /\ action' = [action EXCEPT ![l] = NoAction]
      /\ UNCHANGED <<given, round, context>>
  BY DEF Observe
<1>3. PICK q, v :
        /\ pc' = [pc EXCEPT ![l] = q] /\ unresolved' = [unresolved EXCEPT ![l] = v]
        /\ \/ q = "raised" /\ v = u
           \/ q = NextRound(l) /\ v = Settled(l, r)
  <2>1. CASE pc' = [pc EXCEPT ![l] = "raised"] /\ UNCHANGED <<memory, unresolved>>
    BY <2>1, RunFacts
  <2>2. CASE pc' = [pc EXCEPT ![l] = NextRound(l)] /\ unresolved' = [unresolved EXCEPT ![l] = Settled(l, r)]
    BY <2>2
  <2> QED
    BY <2>1, <2>2 DEF Observe
<1>4. round[l] > 0 /\ (u = NoEvent \/ u \in r.cites)
  BY <1>1, RunFacts DEF StageAt
<1>5. /\ q \in {"raised", "plan", "max_actions_reached"} /\ v \in Events
      /\ StageAt(q, round[l], given[l].max_actions, NoAction, v)
  <2>1. CASE q = "raised" /\ v = u
    BY <2>1, RunFacts DEF StageAt
  <2>2. CASE q = NextRound(l) /\ v = Settled(l, r)
    BY <1>1, <2>2, RunFacts, NextRoundIs, NoActionTyped DEF Settled
  <2> QED
    BY <1>3, <2>1, <2>2
<1>6. RunMoves(l, q, round[l], g, v, NoAction)
  BY <1>2, <1>3, RunFacts DEF RunMoves
<1>7. OthersTyped
  BY <1>2 DEF HistoryInv, LoopTypes, OthersTyped
<1>8. g \in Seq(Records)
  BY <1>1, RunFacts
<1>9. \/ q = "raised" /\ v = u
      \/ v = IF r.status = "failed" THEN r.event ELSE IF u \in r.cites THEN NoEvent ELSE u
  BY <1>3 DEF Settled
<1> HIDE DEF r, u
<1>10. RecordsAt(g, q, round[l])
  BY <1>1, <1>4, <1>5, RunFacts, AppendRecords
<1>11. DebtAt(g, q, v) /\ AnsweredAt(g) /\ OwedAt(g, q, v)
  BY <1>1, <1>4, <1>9, RunFacts, AppendExecuted DEF u
<1>12. q \in Stages \cup Ended /\ pc[l] \notin Ended /\ pc[l] # "plan"
  BY <1>5 DEF Ended, Stages
<1> HIDE DEF g
<1> QED
  BY <1>5, <1>6, <1>7, <1>8, <1>10, <1>11, <1>12, RunFacts, RunStep, NoActionTyped

-----------------------------------------------------------------------------
(* The result files *)

\* Records stay.
LEMMA LateStays ==
  ASSUME \A l \in Loops : /\ DOMAIN history[l] \subseteq DOMAIN history'[l]
                          /\ \A k \in DOMAIN history[l] : history'[l][k] = history[l][k]
  PROVE  \A e : LateIn(history, e) => LateIn(history', e)
<1> SUFFICES ASSUME NEW e, LateIn(history, e) PROVE LateIn(history', e)
  OBVIOUS
<1>1. e[1] \in Loops
  BY DEF LateIn
<1>2. PICK k \in DOMAIN history[e[1]] :
        /\ history[e[1]][k].call = e[2] /\ history[e[1]][k].tool = "train"
        /\ history[e[1]][k].status = "failed"
  BY DEF LateIn
<1>3. k \in DOMAIN history'[e[1]] /\ history'[e[1]][k] = history[e[1]][k]
  BY <1>1, <1>2
<1> QED
  BY <1>1, <1>2, <1>3 DEF LateIn

\* The runs that have not ended while one runs: they have not begun, and have
\* trained nothing.
LEMMA OthersIdle ==
  ASSUME HistoryInv, NEW l \in Loops, pc[l] \in {"decide", "tool"},
         NEW k \in Loops, k # l, pc[k] \notin Ended
  PROVE  \A i \in DOMAIN history[k] : ~Trained(history[k][i])
<1>0. LoopTypes /\ OrderOK /\ l \in Nat /\ k \in Nat
  BY RunFacts DEF HistoryInv
<1>1. pc[l] \notin Ended /\ ~Unstarted(l)
  BY DEF Ended, Unstarted
<1>2. Unstarted(k)
  <2>1. ~(k < l)
    BY <1>0, <1>1 DEF OrderOK
  <2>2. l < k
    BY <1>0, <2>1
  <2> QED
    BY <1>0, <1>1, <2>2 DEF OrderOK
<1> SUFFICES ASSUME NEW i \in DOMAIN history[k] PROVE ~Trained(history[k][i])
  OBVIOUS
<1>3. round[k] = 0 /\ history[k][i].call <= round[k]
  BY <1>2, RunFacts DEF Unstarted, RecordsAt
<1>4. history[k][i] \in Records
  <2>1. history[k] \in Seq(Records)
    BY RunFacts
  <2> QED
    BY <2>1
<1>5. history[k][i].call = 0
  BY <1>3, <1>4 DEF Records
<1>6. IsFixture(history[k][i])
  BY <1>5, RunFacts DEF RecordsAt
<1> QED
  BY <1>6 DEF IsFixture, Trained

LEMMA AppendTraining ==
  ASSUME HistoryInv, TrainingInv, NEW l \in Loops, pc[l] \in {"decide", "tool"}, NEW q, NEW r \in Records,
         history' = [history EXCEPT ![l] = Append(history[l], r)], pc' = [pc EXCEPT ![l] = q],
         UNCHANGED given, r.call = round[l],
         \A e \in abandoned' : e \in abandoned \/ (e = <<l, round[l]>> /\ r.tool = "train" /\ r.status = "failed"),
         \/ disk' = disk /\ ~Trained(r) /\ (Verified(r) => r.obs = disk)
         \/ disk' = <<l, round[l]>> /\ Trained(r) /\ r.obs = disk'
  PROVE  TrainingInv'
<1> DEFINE h == history[l]
           g == Append(h, r)
           m == Len(h) + 1
<1>0. /\ LoopTypes /\ DOMAIN history = Loops /\ DOMAIN pc = Loops /\ h \in Seq(Records)
      /\ l \in Nat /\ round[l] \in 1..given[l].max_actions /\ <<l, round[l]>> # NoWork
  <2>1. LoopTypes /\ DOMAIN history = Loops /\ DOMAIN pc = Loops /\ h \in Seq(Records)
    BY DEF HistoryInv, LoopTypes
  <2>2. l \in Nat /\ l > 0 /\ round[l] \in 1..given[l].max_actions
    BY RunFacts DEF StageAt
  <2> QED
    BY <2>1, <2>2 DEF NoWork
<1>1. /\ Len(h) \in Nat /\ DOMAIN h = 1..Len(h)
      /\ DOMAIN g = 1..m /\ g[m] = r /\ m \in DOMAIN g
      /\ \A k \in DOMAIN h : g[k] = h[k] /\ k \in DOMAIN g /\ k < m
      /\ \A k \in DOMAIN g : k \in DOMAIN h \/ k = m
  BY <1>0, AppendShape
<1>2. history'[l] = g /\ \A k \in Loops : k # l => history'[k] = history[k] /\ pc'[k] = pc[k]
  BY <1>0
<1> HIDE DEF g
<1>3. \A e : LateIn(history, e) => LateIn(history', e)
  <2>1. ASSUME NEW k \in Loops
        PROVE  /\ DOMAIN history[k] \subseteq DOMAIN history'[k]
               /\ \A i \in DOMAIN history[k] : history'[k][i] = history[k][i]
    BY <1>1, <1>2
  <2> QED
    BY <2>1, LateStays
<1>4. ASSUME NEW e \in abandoned' PROVE LateIn(history', e) /\ e[2] \in 1..given'[e[1]].max_actions
  <2>1. CASE e \in abandoned
    BY <1>3, <2>1 DEF TrainingInv, DiskOK, Late
  <2>2. CASE e = <<l, round[l]>> /\ r.tool = "train" /\ r.status = "failed"
    <3>1. e[1] = l /\ e[2] = round[l] /\ m \in DOMAIN history'[e[1]] /\ history'[e[1]][m] = r
      BY <1>1, <1>2, <2>2
    <3> QED
      BY <1>0, <2>2, <3>1 DEF LateIn
  <2> QED
    BY <1>4, <2>1, <2>2
<1>5. disk' # NoWork => disk'[1] \in Loops /\ disk'[2] \in 1..given'[disk'[1]].max_actions
  BY <1>0 DEF TrainingInv, DiskOK
<1>6. ASSUME NEW k \in Loops, pc'[k] \notin Ended, NEW i \in DOMAIN history'[k], Trained(history'[k][i]),
             \A j \in DOMAIN history'[k] : i < j => history'[k][j].tool # "train"
      PROVE  disk' = history'[k][i].obs \/ LateIn(history', disk')
  <2>1. CASE k # l
    <3>1. \A j \in DOMAIN history[k] : ~Trained(history[k][j])
      BY <1>2, <1>6, <2>1, OthersIdle
    <3> QED
      BY <1>2, <1>6, <2>1, <3>1
  <2>2. CASE k = l /\ i = m
    <3>1. Trained(r) /\ history'[k][i] = r
      BY <1>1, <1>2, <1>6, <2>2
    <3> QED
      BY <3>1
  <2>3. CASE k = l /\ i \in DOMAIN h
    <3>1. history'[k][i] = h[i] /\ Trained(h[i]) /\ i < m /\ r.tool # "train"
      BY <1>1, <1>2, <1>6, <2>3
    <3>2. \A j \in DOMAIN h : i < j => h[j].tool # "train"
      BY <1>1, <1>2, <1>6, <2>3
    <3>3. pc[l] \notin Ended
      BY DEF Ended
    <3>4. disk = h[i].obs \/ LateIn(history, disk)
      BY <2>3, <3>1, <3>2, <3>3 DEF TrainingInv, DiskOK, Late
    <3>5. disk' = disk
      BY <3>1 DEF Trained
    <3> QED
      BY <1>3, <3>1, <3>4, <3>5
  <2> QED
    BY <1>1, <1>2, <1>6, <2>1, <2>2, <2>3
<1>7. ASSUME NEW k \in Loops, NEW i \in DOMAIN history'[k], NEW j \in DOMAIN history'[k],
             i < j, Trained(history'[k][i]), Verified(history'[k][j]),
             \A t \in DOMAIN history'[k] : (i < t /\ t < j) => history'[k][t].tool # "train"
      PROVE  history'[k][j].obs = history'[k][i].obs \/ LateIn(history', history'[k][j].obs)
  <2>1. CASE k # l
    <3>1. history[k][j].obs = history[k][i].obs \/ LateIn(history, history[k][j].obs)
      BY <1>2, <1>7, <2>1 DEF TrainingInv, VerifyOK, Late
    <3> QED
      BY <1>2, <1>3, <2>1, <3>1
  <2>2. CASE k = l /\ j \in DOMAIN h
    <3>1. /\ i \in DOMAIN h /\ g[i] = h[i] /\ g[j] = h[j]
          /\ \A t \in DOMAIN h : (i < t /\ t < j) => h[t].tool # "train"
      BY <1>1, <1>2, <1>7, <2>2
    <3>2. h[j].obs = h[i].obs \/ LateIn(history, h[j].obs)
      BY <1>2, <1>7, <2>2, <3>1 DEF TrainingInv, VerifyOK, Late
    <3> QED
      BY <1>2, <1>3, <2>2, <3>1, <3>2
  <2>3. CASE k = l /\ j = m
    <3>1. /\ i \in DOMAIN h /\ g[i] = h[i] /\ g[j] = r /\ Verified(r) /\ Trained(h[i])
          /\ \A t \in DOMAIN h : i < t => h[t].tool # "train"
      BY <1>1, <1>2, <1>7, <2>3
    <3>2. pc[l] \notin Ended
      BY DEF Ended
    <3>3. disk = h[i].obs \/ LateIn(history, disk)
      BY <3>1, <3>2 DEF TrainingInv, DiskOK, Late
    <3>4. r.obs = disk
      BY <3>1 DEF Verified, Trained
    <3> QED
      BY <1>2, <1>3, <2>3, <3>1, <3>3, <3>4
  <2> QED
    BY <1>1, <1>2, <1>7, <2>1, <2>2, <2>3
<1>8. DiskOK'
  BY <1>4, <1>5, <1>6 DEF DiskOK, Late
<1>9. VerifyOK'
  BY <1>7 DEF VerifyOK, Late
<1> QED
  BY <1>8, <1>9 DEF TrainingInv

\* A step that adds no record.
LEMMA TrainingRests ==
  ASSUME HistoryInv, TrainingInv, UNCHANGED <<given, history>>, abandoned' \subseteq abandoned,
         disk' \in {disk} \cup abandoned,
         \A l \in Loops : pc'[l] \notin Ended => pc[l] \notin Ended
  PROVE  TrainingInv'
<1>1. history' = history
  OBVIOUS
<1>2. \A e \in abandoned : Late(e) /\ e[1] \in Loops /\ e[2] \in 1..given[e[1]].max_actions
  BY DEF TrainingInv, DiskOK, Late, LateIn
<1>3. CASE disk' = disk
  BY <1>1, <1>3 DEF TrainingInv, DiskOK, VerifyOK, Late
<1>4. CASE disk' \in abandoned
  BY <1>1, <1>2, <1>4 DEF TrainingInv, DiskOK, VerifyOK, Late
<1> QED
  BY <1>3, <1>4

LEMMA RejectedTraining ==
  ASSUME HistoryInv, TrainingInv, NEW l \in Loops, PlannerErrs(l) \/ Reject(l)
  PROVE  TrainingInv'
<1>1. PICK r \in Records, v \in Events :
        /\ r.tool = "none" /\ r.status = "rejected" /\ r.call = round[l] /\ r.event[3] = r.status
        /\ history' = [history EXCEPT ![l] = Append(history[l], r)]
        /\ unresolved' = [unresolved EXCEPT ![l] = v]
        /\ v = unresolved[l] \/ (unresolved[l] = NoEvent /\ v = r.event)
  BY RejectedRecord
<1>2. /\ pc[l] \in {"decide", "tool"} /\ pc' = [pc EXCEPT ![l] = NextRound(l)]
      /\ UNCHANGED given /\ abandoned' = abandoned /\ disk' = disk
  BY DEF PlannerErrs, Reject
<1>3. ~Trained(r) /\ ~Verified(r)
  BY <1>1 DEF Trained, Verified
<1> QED
  BY <1>1, <1>2, <1>3, AppendTraining

LEMMA ObserveTraining ==
  ASSUME HistoryInv, TrainingInv, NEW l \in Loops, NEW status \in {"succeeded", "failed"},
         NEW obs \in Nat \X Nat, pc[l] = "tool", Observe(l, status, obs),
         \A e \in abandoned' : \/ e \in abandoned
                               \/ e = <<l, round[l]>> /\ action[l].tool = "train" /\ status = "failed",
         \/ /\ disk' = disk
            /\ status = "succeeded" => action[l].tool # "train" /\ obs = disk
         \/ /\ disk' = <<l, round[l]>> /\ obs = <<l, round[l]>>
            /\ action[l].tool = "train" /\ status = "succeeded"
  PROVE  TrainingInv'
<1> DEFINE a == action[l]
           r == Record(a.id, 0, round[l], a.tool, status, a.cites, obs)
<1>1. r \in Records /\ r.status = status /\ r.call = round[l] /\ r.tool = a.tool /\ r.obs = obs
  BY ObservedRecord
<1>2. history' = [history EXCEPT ![l] = Append(history[l], r)] /\ UNCHANGED given
  BY DEF Observe
<1>3. PICK q : pc' = [pc EXCEPT ![l] = q]
  BY DEF Observe
<1> HIDE DEF r
<1>4. \A e \in abandoned' : e \in abandoned \/ (e = <<l, round[l]>> /\ r.tool = "train" /\ r.status = "failed")
  BY <1>1
<1>5. \/ disk' = disk /\ ~Trained(r) /\ (Verified(r) => r.obs = disk)
      \/ disk' = <<l, round[l]>> /\ Trained(r) /\ r.obs = disk'
  BY <1>1 DEF Trained, Verified
<1>6. pc[l] \in {"decide", "tool"}
  OBVIOUS
<1> QED
  BY <1>1, <1>2, <1>3, <1>4, <1>5, <1>6, AppendTraining

-----------------------------------------------------------------------------
(* The steps of the loop *)

\* A tool's end: what it is said to have given, and the files.
ToolEnd(l, status, obs) ==
  /\ status \in {"succeeded", "failed"} /\ obs \in Nat \X Nat
  /\ pc[l] = "tool" /\ Observe(l, status, obs)
  /\ abandoned' \subseteq Loops \X Nat /\ disk' \in Nat \X Nat
  /\ \A e \in abandoned' : \/ e \in abandoned
                           \/ e = <<l, round[l]>> /\ action[l].tool = "train" /\ status = "failed"
  /\ \/ /\ disk' = disk
        /\ status = "succeeded" => action[l].tool # "train" /\ obs = disk
     \/ /\ disk' = <<l, round[l]>> /\ obs = <<l, round[l]>>
        /\ action[l].tool = "train" /\ status = "succeeded"

LEMMA ToolsEnd ==
  ASSUME HistoryInv, NEW l \in Loops, Train(l) \/ Verify(l) \/ ToolFails(l) \/ TimesOut(l)
  PROVE  \E status, obs : ToolEnd(l, status, obs)
<1> DEFINE e == <<l, round[l]>>
<1>0. e \in Nat \X Nat /\ e \in Loops \X Nat /\ NoWork \in Nat \X Nat
  BY RunFacts, NoActionTyped
<1>1. disk \in Nat \X Nat /\ abandoned \subseteq Loops \X Nat
  BY DEF HistoryInv, LoopTypes
<1>2. CASE Train(l)
  <2>1. ToolEnd(l, "succeeded", e)
    BY <1>0, <1>1, <1>2 DEF ToolEnd, Train, Written
  <2> QED
    BY <2>1
<1>3. CASE Verify(l)
  <2>1. ToolEnd(l, "succeeded", disk)
    BY <1>0, <1>1, <1>3 DEF ToolEnd, Verify
  <2> QED
    BY <2>1
<1>4. CASE ToolFails(l)
  <2>1. ToolEnd(l, "failed", NoWork)
    BY <1>0, <1>1, <1>4 DEF ToolEnd, ToolFails
  <2> QED
    BY <2>1
<1>5. CASE TimesOut(l)
  <2>1. ToolEnd(l, "failed", NoWork)
    BY <1>0, <1>1, <1>5 DEF ToolEnd, TimesOut
  <2> QED
    BY <2>1
<1> QED
  BY <1>2, <1>3, <1>4, <1>5

LEMMA ThreadsTyped ==
  ASSUME HistoryInv, ThreadWrites \/ ThreadDies
  PROVE  /\ abandoned' \subseteq abandoned /\ abandoned' \subseteq Loops \X Nat
         /\ disk' \in {disk} \cup abandoned /\ disk' \in Nat \X Nat
         /\ UNCHANGED <<memory, given, pc, round, history, unresolved, context, action>>
<1>1. disk \in Nat \X Nat /\ abandoned \subseteq Loops \X Nat
  BY DEF HistoryInv, LoopTypes
<1>2. Loops \subseteq Nat
  BY DEF Loops
<1>3. abandoned \subseteq Nat \X Nat
  BY <1>1, <1>2
<1>4. abandoned' \subseteq abandoned /\ disk' \in {disk} \cup abandoned
  BY DEF ThreadWrites, ThreadDies
<1> QED
  BY <1>1, <1>3, <1>4 DEF ThreadWrites, ThreadDies

\* What a run has done stays true, whatever step comes.
LEMMA HistoryStep == HistoryInv /\ [Next]_vars => HistoryInv'
<1> SUFFICES ASSUME HistoryInv, [Next]_vars PROVE HistoryInv'
  OBVIOUS
<1>0. abandoned \subseteq Loops \X Nat /\ disk \in Nat \X Nat
  BY DEF HistoryInv, LoopTypes
<1>1. ASSUME NEW l \in Loops, Train(l) \/ Verify(l) \/ ToolFails(l) \/ TimesOut(l) PROVE HistoryInv'
  <2>1. PICK status, obs : ToolEnd(l, status, obs)
    BY <1>1, ToolsEnd
  <2> QED
    BY <2>1, ObserveHistory DEF ToolEnd
<1>2. CASE ThreadWrites \/ ThreadDies
  BY <1>2, ThreadsTyped, RunsRest
<1>3. CASE Operator \/ Finished \/ UNCHANGED vars
  <2>1. UNCHANGED loopvars
    BY <1>3 DEF Operator, Finished, vars
  <2> QED
    BY <1>0, <2>1, RunsRest DEF loopvars
<1>4. ASSUME NEW l \in Loops,
             \/ Plan(l) \/ PlannerErrs(l) \/ PlannerRaises(l) \/ PlannerStops(l)
             \/ Propose(l) \/ Reject(l)
      PROVE  HistoryInv'
  BY <1>4, PlanHistory, RejectedHistory, PlannerLeavesHistory, ProposeHistory
<1> QED
  BY <1>1, <1>2, <1>3, <1>4 DEF Next

LEMMA TrainingStep == HistoryInv /\ TrainingInv /\ [Next]_vars => TrainingInv'
<1> SUFFICES ASSUME HistoryInv, TrainingInv, [Next]_vars PROVE TrainingInv'
  OBVIOUS
<1>1. ASSUME NEW l \in Loops, Train(l) \/ Verify(l) \/ ToolFails(l) \/ TimesOut(l) PROVE TrainingInv'
  <2>1. PICK status, obs : ToolEnd(l, status, obs)
    BY <1>1, ToolsEnd
  <2> QED
    BY <2>1, ObserveTraining DEF ToolEnd
<1>2. CASE ThreadWrites \/ ThreadDies
  BY <1>2, ThreadsTyped, TrainingRests
<1>3. CASE Operator \/ Finished \/ UNCHANGED vars
  <2>1. UNCHANGED loopvars
    BY <1>3 DEF Operator, Finished, vars
  <2> QED
    BY <2>1, TrainingRests DEF loopvars
<1>4. ASSUME NEW l \in Loops, PlannerErrs(l) \/ Reject(l) PROVE TrainingInv'
  BY <1>4, RejectedTraining
<1>5. ASSUME NEW l \in Loops, Plan(l) \/ PlannerRaises(l) \/ PlannerStops(l) \/ Propose(l)
      PROVE  TrainingInv'
  <2>1. UNCHANGED <<given, history, abandoned, disk>>
    BY <1>5 DEF Plan, PlannerRaises, PlannerStops, Propose
  <2>2. pc[l] \notin Ended /\ \E q : pc' = [pc EXCEPT ![l] = q]
    BY <1>5 DEF Plan, PlannerRaises, PlannerStops, Propose, Ended
  <2>3. DOMAIN pc = Loops
    BY DEF HistoryInv, LoopTypes
  <2>4. \A k \in Loops : pc'[k] \notin Ended => pc[k] \notin Ended
    BY <2>2, <2>3
  <2> QED
    BY <2>1, <2>4, TrainingRests
<1> QED
  BY <1>1, <1>2, <1>3, <1>4, <1>5 DEF Next

-----------------------------------------------------------------------------
(* The memories *)

LEMMA RowTyped ==
  ASSUME NEW r \in Rows
  PROVE  /\ r.at \in Namespaces /\ r.born \in Nat \ {0} /\ r.item \in Items
         /\ r.item.id \in Sessions \X Nat /\ r.item.ns \in Namespaces /\ r.item.by \in Nat
         /\ r.item.ref \in Events /\ r.item.valid \in BOOLEAN
         /\ Ident(r.item) = <<r.item.by, r.item.id[2]>> /\ Ident(r.item) \in Nat \X Nat
         /\ r = [at |-> r.at, born |-> r.born, item |-> r.item]
<1>1. r.at \in Namespaces /\ r.born \in Nat \ {0} /\ r.item \in Items
  BY DEF Rows
<1>2. /\ r.item.id \in Sessions \X Nat /\ r.item.ns \in Namespaces /\ r.item.by \in Nat
      /\ r.item.ref \in Events /\ r.item.valid \in BOOLEAN
  BY <1>1 DEF Items
<1>3. Ident(r.item) = <<r.item.by, r.item.id[2]>> /\ Ident(r.item) \in Nat \X Nat
  BY <1>2 DEF Ident
<1>4. r = [at |-> r.at, born |-> r.born, item |-> r.item]
  BY DEF Rows
<1> QED
  BY <1>1, <1>2, <1>3, <1>4

\* Where a session's memories lie does not change.
LEMMA HomesStay ==
  ASSUME UNCHANGED given, NEW s
  PROVE  Homes(s)' = Homes(s) /\ (Split(s)' <=> Split(s))
  BY DEF Homes, Split

\* A memory's writer and number say its id.
LEMMA IdentIsId ==
  ASSUME RowsOK, OriginOK, NEW r \in rows, NEW q \in rows, Ident(r.item) = Ident(q.item)
  PROVE  r.item.id = q.item.id
<1>1. r \in Rows /\ q \in Rows
  BY DEF RowsOK
<1>2. r.item.id \in Sessions \X Nat /\ q.item.id \in Sessions \X Nat
  BY <1>1, RowTyped
<1>3. r.item.by = q.item.by /\ r.item.id[2] = q.item.id[2]
  BY <1>1, RowTyped
<1>4. Origin(r) /\ Origin(q)
  BY DEF OriginOK
<1>5. CASE r.item.by \in Loops
  <2>1. r.item.id[1] = q.item.id[1]
    BY <1>3, <1>4, <1>5 DEF Origin
  <2> QED
    BY <1>2, <1>3, <2>1
<1>6. CASE r.item.by \notin Loops
  <2>1. PICK o \in OldRows : o.item.by = r.item.by /\ o.item.id = r.item.id
    BY <1>4, <1>6 DEF Origin
  <2>2. PICK p \in OldRows : p.item.by = q.item.by /\ p.item.id = q.item.id
    BY <1>3, <1>4, <1>6 DEF Origin
  <2>3. <<o.item.by, o.item.id[2]>> = <<p.item.by, p.item.id[2]>>
    BY <1>3, <2>1, <2>2
  <2>4. o = p
    BY <2>3, MemoryAssumption
  <2> QED
    BY <2>1, <2>2, <2>4
<1> QED
  BY <1>5, <1>6

\* A session with one home is found by the side index.
LEMMA UnsplitIndexed ==
  ASSUME OriginOK, NEW r \in rows, backend = "langgraph", ~Split(r.item.id[1])
  PROVE  r.at = NamespaceOf(r.item.id)
  BY DEF OriginOK, NamespaceOf

\* What lies where, for the two backends.
LEMMA OriginHomes ==
  ASSUME RowsOK, OriginOK, NEW r \in rows
  PROVE  r.at \in Homes(r.item.id[1]) /\ r.item.ns \in Homes(r.item.id[1])
<1>1. Origin(r) /\ r \in Rows
  BY DEF OriginOK, RowsOK
<1>2. CASE r.item.by \in Loops
  BY <1>1, <1>2 DEF Origin, Homes
<1>3. CASE r.item.by \notin Loops
  <2>1. PICK o \in OldRows : o.item.id = r.item.id /\ o.item.ns = r.item.ns
    BY <1>1, <1>3 DEF Origin
  <2>2. o.at = r.item.ns
    BY <2>1, MemoryAssumption
  <2> QED
    BY <1>1, <2>1, <2>2 DEF Origin, Homes
<1> QED
  BY <1>2, <1>3

\* Why an action that ran is accounted for: the disjuncts of EpisodeKept.
Kept(l, k) ==
  LET r == history[l][k] IN
  \/ \E q \in rows : q.item.id = <<given[l].session, r.call>> /\ q.item.by = l /\ q.item.ref = r.event
  \/ <<l, r.call>> \in erased
  \/ \E m \in Loops : /\ m > l
                      /\ given[m].session = given[l].session
                      /\ \E j \in DOMAIN history[m] :
                           history[m][j].call = r.call /\ Executed(history[m][j])
  \/ pc[l] = "raised" /\ k = Len(history[l])

\* A step that leaves the store alone.
LEMMA MemoryRests ==
  ASSUME HistoryInv, MemoryInv, UNCHANGED <<memory, given>>, ContextOK',
         \A l \in Loops : /\ DOMAIN history[l] \subseteq DOMAIN history'[l]
                          /\ \A k \in DOMAIN history[l] : history'[l][k] = history[l][k],
         \A l \in Loops : \A k \in DOMAIN history'[l] :
           \/ k \in DOMAIN history[l]
           \/ ~Executed(history'[l][k])
           \/ pc'[l] = "raised" /\ k = Len(history'[l]),
         \A l \in Loops : pc[l] = "raised" => pc'[l] = "raised" /\ history'[l] = history[l],
         \A e \in Nat \X Nat : Past(e) => Past(e)'
  PROVE  MemoryInv'
<1>0. RowsOK /\ OriginOK /\ PastOK /\ WithdrawnOK /\ DeletedGone /\ EpisodeKept
  BY DEF MemoryInv
<1>1. UNCHANGED <<backend, rows, index, withdrawn, erased>>
  BY DEF memory
<1>2. RowsOK'
  BY <1>0, <1>1 DEF RowsOK
<1>3. \A s : Homes(s)' = Homes(s) /\ (Split(s)' <=> Split(s))
  BY HomesStay
<1>4. OriginOK' /\ WithdrawnOK' /\ DeletedGone'
  BY <1>0, <1>1, <1>3 DEF OriginOK, Origin, WithdrawnOK, DeletedGone
<1>5. PastOK'
  <2>1. {Ident(r.item) : r \in rows} \cup withdrawn \cup erased \subseteq Nat \X Nat
    <3>1. \A r \in rows : Ident(r.item) \in Nat \X Nat
      BY <1>0, RowTyped DEF RowsOK
    <3> QED
      BY <1>0, <3>1 DEF RowsOK
  <2> QED
    BY <1>0, <1>1, <2>1 DEF PastOK
<1>6. EpisodeKept'
  <2> SUFFICES ASSUME NEW l \in Loops, NEW k \in DOMAIN history'[l],
                      history'[l][k].call > 0, Executed(history'[l][k])
               PROVE  Kept(l, k)'
    BY DEF EpisodeKept, Kept
  <2>1. CASE pc'[l] = "raised" /\ k = Len(history'[l])
    BY <2>1 DEF Kept
  <2>2. CASE k \in DOMAIN history[l]
    <3>1. history'[l][k] = history[l][k]
      BY <2>2
    <3>2. Kept(l, k)
      BY <1>0, <2>2, <3>1 DEF EpisodeKept, Kept
    <3>3. ASSUME NEW m \in Loops, NEW j \in DOMAIN history[m]
          PROVE  j \in DOMAIN history'[m] /\ history'[m][j] = history[m][j]
      OBVIOUS
    <3>4. pc[l] = "raised" /\ k = Len(history[l]) => pc'[l] = "raised" /\ k = Len(history'[l])
      OBVIOUS
    <3> QED
      BY <1>1, <3>1, <3>2, <3>3, <3>4 DEF Kept
  <2> QED
    BY <2>1, <2>2
<1> QED
  BY <1>2, <1>4, <1>5, <1>6 DEF MemoryInv

-----------------------------------------------------------------------------
(* The ranks of rows, and the context of a planner *)

LEMMA FiniteBounded ==
  ASSUME NEW S \in SUBSET Nat, IsFiniteSet(S)
  PROVE  \E n \in Nat : \A x \in S : x <= n
<1> DEFINE Bounded(T) == \E n \in Nat : \A x \in T : x <= n
           N == {n \in Nat : \E T \in SUBSET S : IsFiniteSet(T) /\ Cardinality(T) = n /\ ~Bounded(T)}
<1>1. SUFFICES ASSUME ~Bounded(S) PROVE FALSE
  OBVIOUS
<1>2. Cardinality(S) \in N
  <2>1. Cardinality(S) \in Nat
    BY FS_CardinalityType
  <2> QED
    BY <1>1, <2>1
<1>3. PICK n \in N : \A k \in N : n <= k
  <2>1. N \in SUBSET Nat /\ N # {}
    BY <1>2
  <2> HIDE DEF N
  <2> QED
    BY <2>1, LeastExists
<1>4. PICK T \in SUBSET S : IsFiniteSet(T) /\ Cardinality(T) = n /\ ~Bounded(T)
  OBVIOUS
<1>5. T # {}
  BY <1>4
<1>6. PICK x \in T : TRUE
  BY <1>5
<1>7. IsFiniteSet(T \ {x}) /\ Cardinality(T \ {x}) = n - 1
  BY <1>4, <1>6, FS_RemoveElement
<1>8. Cardinality(T \ {x}) \in Nat
  BY <1>7, FS_CardinalityType
<1>9. Bounded(T \ {x})
  <2>1. SUFFICES ASSUME ~Bounded(T \ {x}) PROVE FALSE
    OBVIOUS
  <2>2. Cardinality(T \ {x}) \in N
    BY <1>7, <1>8, <2>1
  <2> QED
    BY <1>3, <1>7, <2>2
<1>10. PICK m \in Nat : \A y \in T \ {x} : y <= m
  BY <1>9
<1>11. x \in Nat
  BY <1>6
<1>12. \A y \in T : y <= (IF x > m THEN x ELSE m)
  BY <1>10, <1>11
<1> QED
  BY <1>4, <1>11, <1>12

\* A set's image, by a function.
LEMMA ImageFinite ==
  ASSUME NEW C, IsFiniteSet(C), NEW f, DOMAIN f = C
  PROVE  LET I == {f[x] : x \in C} IN
         /\ IsFiniteSet(I) /\ Cardinality(I) <= Cardinality(C)
         /\ (\A x, y \in C : f[x] = f[y] => x = y) => Cardinality(I) = Cardinality(C)
<1> DEFINE I == {f[x] : x \in C}
           g == [x \in C |-> f[x]]
<1>1. g \in Surjection(C, I)
  BY DEF Surjection
<1>2. ASSUME \A x, y \in C : f[x] = f[y] => x = y PROVE g \in Injection(C, I)
  <2>1. g \in [C -> I]
    OBVIOUS
  <2>2. \A x, y \in C : g[x] = g[y] => x = y
    BY <1>2
  <2> HIDE DEF g, I
  <2> QED
    BY <2>1, <2>2 DEF Injection, IsInjective
<1> HIDE DEF g, I
<1>3. /\ IsFiniteSet(I) /\ Cardinality(I) <= Cardinality(C)
      /\ Cardinality(I) = Cardinality(C) <=> g \in Injection(C, I)
  BY <1>1, FS_Surjection
<1> QED
  BY <1>2, <1>3 DEF I

LEMMA NextRankFresh ==
  ASSUME RowsOK
  PROVE  NextRank \in Nat \ {0} /\ \A r \in rows : r.born < NextRank
<1>1. \A r \in rows : r.born \in Nat \ {0}
  BY RowTyped DEF RowsOK
<1> DEFINE S == {r.born : r \in rows}
<1>2. CASE rows = {}
  BY <1>2 DEF NextRank
<1>3. CASE rows # {}
  <2> DEFINE f == [r \in rows |-> r.born]
  <2>1. DOMAIN f = rows /\ {f[r] : r \in rows} = S
    OBVIOUS
  <2>2. IsFiniteSet(rows)
    BY DEF RowsOK
  <2> HIDE DEF f
  <2>3. IsFiniteSet({f[r] : r \in rows})
    BY <2>1, <2>2, ImageFinite
  <2>4. IsFiniteSet(S) /\ S \in SUBSET Nat
    BY <1>1, <2>1, <2>3
  <2>5. PICK n \in Nat : \A x \in S : x <= n
    <3> HIDE DEF S
    <3> QED
      BY <2>4, FiniteBounded
  <2>6. S \in SUBSET (1..n) /\ S # {}
    BY <1>1, <1>3, <2>5
  <2>7. Max(S) \in S /\ \A y \in S : Max(S) >= y
    <3> HIDE DEF S
    <3> QED
      BY <2>6, MaxOfPositions
  <2>8. NextRank = 1 + Max(S)
    BY <1>3 DEF NextRank
  <2>9. Max(S) \in Nat
    BY <2>4, <2>7
  <2>10. \A r \in rows : r.born \in S
    OBVIOUS
  <2> HIDE DEF S
  <2> QED
    BY <1>1, <2>7, <2>8, <2>9, <2>10
<1> QED
  BY <1>2, <1>3

Here(ns) == {r \in rows : r.at = ns}
Smaller(m, n) == IF m < n THEN m ELSE n

\* The context of a planner: the items of valid rows among some rows of its namespace.
LEMMA ContextIs ==
  ASSUME RowsOK, NEW ns, NEW I \in Contexts(ns)
  PROVE  \E Q \in SUBSET Here(ns) : \E C \in SUBSET {r \in Q : Valid(r)} :
           /\ Cardinality(Q) = Smaller(Cardinality(Here(ns)), WindowSize)
           /\ Cardinality(C) = Smaller(Cardinality({r \in Q : Valid(r)}), TopK)
           /\ I = {r.item : r \in C}
<1>1. PICK Q \in Queries(ns, WindowSize) : I \in Build(Q)
  BY DEF Contexts
<1>2. Q \in SUBSET Here(ns) /\ Cardinality(Q) = Smaller(Cardinality(Here(ns)), WindowSize)
  BY <1>1 DEF Queries, kSubset, Here, Smaller
<1>3. PICK C \in SUBSET {r \in Q : Valid(r)} :
        Cardinality(C) = Smaller(Cardinality({r \in Q : Valid(r)}), TopK) /\ I = {r.item : r \in C}
  BY <1>1 DEF Build, kSubset, Smaller
<1> QED
  BY <1>2, <1>3

LEMMA ItemsOf ==
  ASSUME RowsOK, NEW C \in SUBSET rows
  PROVE  LET I == {r.item : r \in C} IN
         /\ IsFiniteSet(C) /\ Cardinality(C) \in Nat
         /\ IsFiniteSet(I) /\ Cardinality(I) \in Nat /\ Cardinality(I) <= Cardinality(C)
         /\ (\A r, q \in C : r.item = q.item => r = q) => Cardinality(I) = Cardinality(C)
<1> DEFINE f == [r \in C |-> r.item]
           I == {r.item : r \in C}
<1>1. IsFiniteSet(C)
  BY FS_Subset DEF RowsOK
<1>2. DOMAIN f = C /\ {f[r] : r \in C} = I /\ \A r \in C : f[r] = r.item
  OBVIOUS
<1> HIDE DEF f
<1>3. /\ IsFiniteSet({f[r] : r \in C}) /\ Cardinality({f[r] : r \in C}) <= Cardinality(C)
      /\ (\A x, y \in C : f[x] = f[y] => x = y) => Cardinality({f[r] : r \in C}) = Cardinality(C)
  BY <1>1, <1>2, ImageFinite
<1>4. IsFiniteSet(I) /\ Cardinality(I) <= Cardinality(C)
  BY <1>2, <1>3
<1>5. (\A r, q \in C : r.item = q.item => r = q) => Cardinality(I) = Cardinality(C)
  BY <1>2, <1>3
<1> HIDE DEF I
<1>6. Cardinality(C) \in Nat /\ Cardinality(I) \in Nat
  BY <1>1, <1>4, FS_CardinalityType
<1> QED
  BY <1>1, <1>4, <1>5, <1>6 DEF I

LEMMA ContextSmall ==
  ASSUME RowsOK, NEW ns, NEW I \in Contexts(ns)
  PROVE  Cardinality(I) <= TopK
<1>0. PICK Q \in SUBSET Here(ns) : \E C \in SUBSET {r \in Q : Valid(r)} :
        /\ Cardinality(Q) = Smaller(Cardinality(Here(ns)), WindowSize)
        /\ Cardinality(C) = Smaller(Cardinality({r \in Q : Valid(r)}), TopK)
        /\ I = {r.item : r \in C}
  BY ContextIs, SMTT(60)
<1>1. PICK C \in SUBSET {r \in Q : Valid(r)} :
        /\ Cardinality(C) = Smaller(Cardinality({r \in Q : Valid(r)}), TopK)
        /\ I = {r.item : r \in C}
  BY <1>0
<1> DEFINE V == {r \in Q : Valid(r)}
<1>2. C \in SUBSET rows /\ V \in SUBSET rows
  BY DEF Here
<1>3. Cardinality(V) \in Nat /\ TopK \in Nat
  BY <1>2, ItemsOf, MemoryAssumption
<1>4. Cardinality(C) \in Nat /\ Cardinality(C) <= TopK
  BY <1>1, <1>2, <1>3, ItemsOf DEF Smaller
<1>5. Cardinality(I) \in Nat /\ Cardinality(I) <= Cardinality(C)
  BY <1>1, <1>2, ItemsOf
<1> QED
  BY <1>3, <1>4, <1>5

\* The past stays past.
LEMMA PastStays ==
  ASSUME HistoryInv, NEW l \in Loops, NEW p, NEW n,
         pc' = [pc EXCEPT ![l] = p], round' = [round EXCEPT ![l] = n],
         \/ n = round[l] /\ (p \in {"decide", "tool"} => pc[l] \in {"decide", "tool"})
         \/ n = round[l] + 1
  PROVE  \A e \in Nat \X Nat : Past(e) => Past(e)'
<1> SUFFICES ASSUME NEW e \in Nat \X Nat, Past(e), e[1] \in Loops
             PROVE  \/ e[2] < round'[e[1]]
                    \/ e[2] = round'[e[1]] /\ pc'[e[1]] \notin {"decide", "tool"}
  BY DEF Past
<1>1. DOMAIN pc = Loops /\ DOMAIN round = Loops /\ round[l] \in Nat
  BY DEF HistoryInv, LoopTypes
<1>2. \/ e[2] < round[e[1]]
      \/ e[2] = round[e[1]] /\ pc[e[1]] \notin {"decide", "tool"}
  BY DEF Past
<1>3. CASE e[1] # l
  BY <1>1, <1>2, <1>3
<1>4. CASE e[1] = l
  <2>1. pc'[l] = p /\ round'[l] = n /\ e[2] \in Nat
    BY <1>1
  <2> QED
    BY <1>1, <1>2, <1>4, <2>1
<1> QED
  BY <1>3, <1>4

LEMMA PlanMemory ==
  ASSUME HistoryInv, MemoryInv, NEW l \in Loops, Plan(l)
  PROVE  MemoryInv'
<1>1. PICK C \in Contexts(given[l].ns) : context' = [context EXCEPT ![l] = C]
  BY DEF Plan
<1>2. Cardinality(C) <= TopK
  BY ContextSmall DEF MemoryInv
<1>3. ContextOK'
  BY <1>1, <1>2 DEF ContextOK, MemoryInv, HistoryInv, LoopTypes
<1>4. UNCHANGED <<memory, given, history>> /\ pc' = [pc EXCEPT ![l] = "decide"] /\ pc[l] = "plan"
  BY DEF Plan
<1>5. \A e \in Nat \X Nat : Past(e) => Past(e)'
  BY <1>4, PastStays DEF Plan
<1>6. \A k \in Loops : pc[k] = "raised" => pc'[k] = "raised"
  BY <1>4 DEF HistoryInv, LoopTypes
<1> QED
  BY <1>3, <1>4, <1>5, <1>6, MemoryRests

LEMMA ContextDropped ==
  ASSUME HistoryInv, MemoryInv, NEW l, context' = [context EXCEPT ![l] = {}] \/ context' = context
  PROVE  ContextOK'
<1>1. Cardinality({}) <= TopK
  BY FS_EmptySet, MemoryAssumption
<1> QED
  BY <1>1 DEF ContextOK, MemoryInv, HistoryInv, LoopTypes

LEMMA DecideMemory ==
  ASSUME HistoryInv, MemoryInv, NEW l \in Loops, PlannerRaises(l) \/ PlannerStops(l) \/ Propose(l)
  PROVE  MemoryInv'
<1>1. UNCHANGED <<memory, given, history, round>> /\ pc[l] = "decide"
  BY DEF PlannerRaises, PlannerStops, Propose
<1>2. PICK p : pc' = [pc EXCEPT ![l] = p]
  BY DEF PlannerRaises, PlannerStops, Propose
<1>3. ContextOK'
  BY ContextDropped DEF PlannerRaises, PlannerStops, Propose
<1>4. round' = [round EXCEPT ![l] = round[l]]
  BY <1>1, RunFacts
<1>5. \A e \in Nat \X Nat : Past(e) => Past(e)'
  BY <1>1, <1>2, <1>4, PastStays
<1>6. \A k \in Loops : pc[k] = "raised" => pc'[k] = "raised"
  BY <1>1, <1>2 DEF HistoryInv, LoopTypes
<1> QED
  BY <1>1, <1>3, <1>5, <1>6, MemoryRests

\* A record that no memory is written for.
LEMMA UnwrittenMemory ==
  ASSUME HistoryInv, MemoryInv, NEW l \in Loops, pc[l] \in {"decide", "tool"}, NEW r \in Records, NEW q,
         history' = [history EXCEPT ![l] = Append(history[l], r)], pc' = [pc EXCEPT ![l] = q],
         ~Executed(r) \/ q = "raised", UNCHANGED <<memory, given, round>>,
         q \notin {"decide", "tool"}, context' = [context EXCEPT ![l] = {}] \/ context' = context
  PROVE  MemoryInv'
<1> DEFINE h == history[l]
           g == Append(h, r)
<1>1. /\ DOMAIN history = Loops /\ DOMAIN pc = Loops /\ h \in Seq(Records)
  BY DEF HistoryInv, LoopTypes
<1>2. /\ Len(h) \in Nat /\ Len(g) = Len(h) + 1 /\ DOMAIN h \subseteq DOMAIN g /\ g[Len(h) + 1] = r
      /\ \A k \in DOMAIN h : g[k] = h[k]
      /\ \A k \in DOMAIN g : k \in DOMAIN h \/ k = Len(h) + 1
  BY <1>1, AppendShape
<1> HIDE DEF g
<1>3. history'[l] = g /\ pc'[l] = q /\ \A k \in Loops : k # l => history'[k] = history[k] /\ pc'[k] = pc[k]
  BY <1>1 DEF g
<1>4. \A k \in Loops : /\ DOMAIN history[k] \subseteq DOMAIN history'[k]
                       /\ \A i \in DOMAIN history[k] : history'[k][i] = history[k][i]
  BY <1>2, <1>3
<1>5. \A k \in Loops : \A i \in DOMAIN history'[k] :
           \/ i \in DOMAIN history[k]
           \/ ~Executed(history'[k][i])
           \/ pc'[k] = "raised" /\ i = Len(history'[k])
  BY <1>2, <1>3
<1>6. \A k \in Loops : pc[k] = "raised" => pc'[k] = "raised" /\ history'[k] = history[k]
  BY <1>3
<1>7. \A e \in Nat \X Nat : Past(e) => Past(e)'
  <2>1. round' = [round EXCEPT ![l] = round[l]]
    BY RunFacts
  <2> QED
    BY <2>1, PastStays
<1>8. ContextOK'
  BY ContextDropped
<1> QED
  BY <1>4, <1>5, <1>6, <1>7, <1>8, MemoryRests

-----------------------------------------------------------------------------
(* Withdrawing memories *)

\* Two rows that tell of one memory.
SameMemory(m, r) ==
  /\ m.at = r.at /\ m.born = r.born /\ m.item.id = r.item.id /\ m.item.ns = r.item.ns
  /\ m.item.by = r.item.by /\ m.item.ref = r.item.ref /\ Ident(m.item) = Ident(r.item)
Marked(r) == [r EXCEPT !.item.valid = FALSE]

LEMMA MarkIs ==
  ASSUME NEW r \in Rows
  PROVE  Marked(r) \in Rows /\ SameMemory(Marked(r), r) /\ ~Valid(Marked(r))
<1> DEFINE i == [r.item EXCEPT !.valid = FALSE]
<1>1. r.item \in Items /\ r.at \in Namespaces /\ r.born \in Nat \ {0}
  BY RowTyped
<1>2. /\ i \in Items /\ i.id = r.item.id /\ i.ns = r.item.ns /\ i.by = r.item.by
      /\ i.ref = r.item.ref /\ i.valid = FALSE
  BY <1>1 DEF Items
<1>3. Ident(i) = Ident(r.item)
  BY <1>2 DEF Ident
<1>4. Marked(r) = [r EXCEPT !.item = i]
  BY DEF Marked
<1> HIDE DEF i
<1>5. Marked(r) = [at |-> r.at, born |-> r.born, item |-> i]
  BY <1>4 DEF Rows
<1>6. Marked(r).at = r.at /\ Marked(r).born = r.born /\ Marked(r).item = i /\ Marked(r) \in Rows
  BY <1>1, <1>2, <1>5 DEF Rows
<1> QED
  BY <1>2, <1>3, <1>6 DEF SameMemory, Valid

LEMMA InvalidateMemory ==
  ASSUME HistoryInv, MemoryInv, UNCHANGED loopvars, NEW id, Invalidate(id)
  PROVE  MemoryInv'
<1> DEFINE mark == [r \in rows |-> IF r \in Found(id) THEN Marked(r) ELSE r]
<1>0. RowsOK /\ OriginOK /\ PastOK /\ WithdrawnOK /\ DeletedGone /\ EpisodeKept /\ ContextOK
  BY DEF MemoryInv
<1>1. /\ UNCHANGED <<backend, index, erased, given, pc, round, history, context>>
      /\ withdrawn' = withdrawn \cup {Ident(r.item) : r \in WithId(id)}
      /\ rows' = {mark[r] : r \in rows} /\ DOMAIN mark = rows
  BY DEF Invalidate, Marked, loopvars
<1>2. ASSUME NEW r \in rows
      PROVE  /\ mark[r] \in Rows /\ SameMemory(mark[r], r)
             /\ r \in Found(id) => ~Valid(mark[r])
             /\ r \notin Found(id) => mark[r] = r
  <2>1. r \in Rows
    BY <1>0 DEF RowsOK
  <2>2. CASE r \in Found(id)
    BY <2>1, <2>2, MarkIs
  <2>3. CASE r \notin Found(id)
    BY <2>1, <2>3 DEF SameMemory
  <2> QED
    BY <2>2, <2>3
<1>3. \A s : Homes(s)' = Homes(s) /\ (Split(s)' <=> Split(s))
  BY <1>1, HomesStay
<1> HIDE DEF mark
<1>4. RowsOK'
  <2>1. IsFiniteSet(rows')
    BY <1>0, <1>1, ImageFinite DEF RowsOK
  <2>2. rows' \subseteq Rows
    BY <1>1, <1>2
  <2>3. ASSUME NEW m \in rows', NEW n \in rows',
               m.born = n.born \/ (m.item.id = n.item.id /\ (backend = "postgres" \/ m.at = n.at))
        PROVE  m = n
    <3>1. PICK r \in rows : m = mark[r]
      BY <1>1
    <3>2. PICK q \in rows : n = mark[q]
      BY <1>1
    <3>3. SameMemory(m, r) /\ SameMemory(n, q)
      BY <1>2, <3>1, <3>2
    <3>4. r = q
      BY <1>0, <2>3, <3>3 DEF SameMemory, RowsOK
    <3> QED
      BY <3>1, <3>2, <3>4
  <2>4. withdrawn' \subseteq Nat \X Nat
    <3>1. \A r \in rows : Ident(r.item) \in Nat \X Nat
      BY <1>0, RowTyped DEF RowsOK
    <3> QED
      BY <1>0, <1>1, <3>1 DEF RowsOK, WithId
  <2> QED
    BY <1>0, <1>1, <2>1, <2>2, <2>3, <2>4 DEF RowsOK
<1>5. OriginOK'
  <2> SUFFICES ASSUME NEW m \in rows'
               PROVE  /\ Origin(m)'
                      /\ (backend = "langgraph" /\ ~Split(m.item.id[1])) =>
                           m.item.id \in DOMAIN index /\ index[m.item.id] = m.at
    BY <1>1, <1>3 DEF OriginOK
  <2>1. PICK r \in rows : m = mark[r]
    BY <1>1
  <2>2. SameMemory(m, r)
    BY <1>2, <2>1
  <2>3. Origin(r) /\ ((backend = "langgraph" /\ ~Split(r.item.id[1])) =>
                        r.item.id \in DOMAIN index /\ index[r.item.id] = r.at)
    BY <1>0 DEF OriginOK
  <2>4. Origin(m)
    BY <2>2, <2>3 DEF Origin, SameMemory
  <2>5. Origin(m)'
    BY <1>1, <1>3, <2>4 DEF Origin
  <2> QED
    BY <2>2, <2>3, <2>5 DEF SameMemory
<1>6. PastOK'
  <2>1. \A e : Past(e)' <=> Past(e)
    BY <1>1 DEF Past
  <2>2. {Ident(m.item) : m \in rows'} \subseteq {Ident(r.item) : r \in rows}
    BY <1>1, <1>2 DEF SameMemory
  <2>3. withdrawn' \subseteq withdrawn \cup {Ident(r.item) : r \in rows}
    BY <1>1 DEF WithId
  <2> QED
    BY <1>0, <1>1, <2>1, <2>2, <2>3 DEF PastOK
<1>7. WithdrawnOK'
  <2> SUFFICES ASSUME NEW m \in rows', Valid(m), Ident(m.item) \in withdrawn'
               PROVE  backend = "langgraph" /\ Split(m.item.id[1])
    BY <1>1, <1>3 DEF WithdrawnOK, Valid
  <2>1. PICK r \in rows : m = mark[r]
    BY <1>1
  <2>2. r \notin Found(id) /\ m = r
    BY <1>2, <2>1
  <2>3. CASE Ident(r.item) \in withdrawn
    BY <1>0, <2>2, <2>3 DEF WithdrawnOK
  <2>4. CASE Ident(r.item) \notin withdrawn
    <3>1. PICK q \in WithId(id) : Ident(r.item) = Ident(q.item)
      BY <1>1, <2>2, <2>4
    <3>2. q \in rows /\ q.item.id = id
      BY DEF WithId
    <3>3. r.item.id = id
      BY <1>0, <3>1, <3>2, IdentIsId
    <3>4. backend = "langgraph" /\ r.at # NamespaceOf(id)
      BY <2>2, <3>3 DEF Found, WithId
    <3> QED
      BY <1>0, <2>2, <3>3, <3>4, UnsplitIndexed
  <2> QED
    BY <2>3, <2>4
<1>8. DeletedGone'
  <2> SUFFICES ASSUME NEW m \in rows', Ident(m.item) \in erased
               PROVE  backend = "langgraph" /\ Split(m.item.id[1])
    BY <1>1, <1>3 DEF DeletedGone
  <2>1. PICK r \in rows : m = mark[r]
    BY <1>1
  <2>2. SameMemory(m, r)
    BY <1>2, <2>1
  <2> QED
    BY <1>0, <2>2 DEF DeletedGone, SameMemory
<1>9. EpisodeKept'
  <2> SUFFICES ASSUME NEW l \in Loops, NEW k \in DOMAIN history'[l],
                      history'[l][k].call > 0, Executed(history'[l][k])
               PROVE  Kept(l, k)'
    BY DEF EpisodeKept, Kept
  <2>1. \A q \in rows : \E m \in rows' : /\ m.item.id = q.item.id /\ m.item.by = q.item.by
                                         /\ m.item.ref = q.item.ref
    BY <1>1, <1>2 DEF SameMemory
  <2>2. Kept(l, k)
    BY <1>0, <1>1 DEF EpisodeKept, Kept
  <2> QED
    BY <1>1, <2>1, <2>2, SMTT(60) DEF Kept
<1>10. ContextOK'
  BY <1>0, <1>1 DEF ContextOK
<1> QED
  BY <1>4, <1>5, <1>6, <1>7, <1>8, <1>9, <1>10 DEF MemoryInv

LEMMA DeleteMemory ==
  ASSUME HistoryInv, MemoryInv, UNCHANGED loopvars, NEW s, DeleteRun(s)
  PROVE  MemoryInv'
<1>0. RowsOK /\ OriginOK /\ PastOK /\ WithdrawnOK /\ DeletedGone /\ EpisodeKept /\ ContextOK
  BY DEF MemoryInv
<1>1. /\ UNCHANGED <<backend, withdrawn, given, pc, round, history, context>>
      /\ rows' = rows \ Deleted(s) /\ rows' \subseteq rows
      /\ index' = [id \in {i \in DOMAIN index : i[1] # s} |-> index[id]]
      /\ erased' = erased \cup {Ident(r.item) : r \in OfRun(s)}
  BY DEF DeleteRun, loopvars
<1>2. \A h : Homes(h)' = Homes(h) /\ (Split(h)' <=> Split(h))
  BY <1>1, HomesStay
<1>3. \A r \in rows : r \in Rows /\ Ident(r.item) \in Nat \X Nat /\ Ident(r.item) = <<r.item.by, r.item.id[2]>>
  BY <1>0, RowTyped DEF RowsOK
\* What is left of the run are copies that the index hides.
<1>4. ASSUME NEW r \in rows', r.item.id[1] = s
      PROVE  backend = "langgraph" /\ Split(s)
  <2>1. r \in OfRun(s) /\ r \notin Deleted(s) /\ r \in rows
    BY <1>1, <1>4 DEF OfRun
  <2>2. backend = "langgraph" /\ r.at # NamespaceOf(r.item.id)
    BY <2>1 DEF Deleted
  <2> QED
    BY <1>0, <1>4, <2>1, <2>2, UnsplitIndexed
<1>5. RowsOK'
  <2>1. IsFiniteSet(rows')
    BY <1>0, <1>1, FS_Subset DEF RowsOK
  <2>2. index' = [id \in DOMAIN index' |-> index'[id]] /\ \A id \in DOMAIN index' : index'[id] \in Namespaces
    BY <1>0, <1>1 DEF RowsOK
  <2>3. erased' \subseteq Nat \X Nat
    BY <1>0, <1>1, <1>3 DEF RowsOK, OfRun
  <2> QED
    BY <1>0, <1>1, <2>1, <2>2, <2>3 DEF RowsOK
<1>6. OriginOK'
  <2> SUFFICES ASSUME NEW r \in rows'
               PROVE  /\ Origin(r)'
                      /\ (backend = "langgraph" /\ ~Split(r.item.id[1])) =>
                           r.item.id \in DOMAIN index' /\ index'[r.item.id] = r.at
    BY <1>1, <1>2 DEF OriginOK
  <2>1. Origin(r) /\ ((backend = "langgraph" /\ ~Split(r.item.id[1])) =>
                        r.item.id \in DOMAIN index /\ index[r.item.id] = r.at)
    BY <1>0, <1>1 DEF OriginOK
  <2>2. Origin(r)'
    BY <1>1, <1>2, <2>1 DEF Origin
  <2> QED
    BY <1>1, <1>4, <2>1, <2>2
<1>7. PastOK'
  <2>1. \A e : Past(e)' <=> Past(e)
    BY <1>1 DEF Past
  <2>2. erased' \subseteq erased \cup {Ident(r.item) : r \in rows}
    BY <1>1 DEF OfRun
  <2> QED
    BY <1>0, <1>1, <2>1, <2>2 DEF PastOK
<1>8. WithdrawnOK'
  BY <1>0, <1>1, <1>2 DEF WithdrawnOK
<1>9. DeletedGone'
  <2> SUFFICES ASSUME NEW r \in rows', Ident(r.item) \in erased'
               PROVE  backend = "langgraph" /\ Split(r.item.id[1])
    BY <1>1, <1>2 DEF DeletedGone
  <2>1. CASE Ident(r.item) \in erased
    BY <1>0, <1>1, <2>1 DEF DeletedGone
  <2>2. CASE Ident(r.item) \notin erased
    <3>1. PICK q \in OfRun(s) : Ident(r.item) = Ident(q.item)
      BY <1>1, <2>2
    <3>2. q \in rows /\ q.item.id[1] = s
      BY DEF OfRun
    <3>3. r.item.id = q.item.id
      BY <1>0, <1>1, <3>1, <3>2, IdentIsId
    <3> QED
      BY <1>4, <3>2, <3>3
  <2> QED
    BY <2>1, <2>2
<1>10. EpisodeKept'
  <2> SUFFICES ASSUME NEW l \in Loops, NEW k \in DOMAIN history'[l],
                      history'[l][k].call > 0, Executed(history'[l][k])
               PROVE  Kept(l, k)'
    BY DEF EpisodeKept, Kept
  <2>1. Kept(l, k)
    BY <1>0, <1>1 DEF EpisodeKept, Kept
  <2>2. ASSUME NEW q \in rows, q.item.id = <<given[l].session, history[l][k].call>>, q.item.by = l, q \notin rows'
        PROVE  <<l, history[l][k].call>> \in erased'
    <3>1. q \in OfRun(s)
      BY <1>1, <2>2 DEF Deleted
    <3>2. Ident(q.item) = <<l, history[l][k].call>>
      BY <1>3, <2>2
    <3> QED
      BY <1>1, <3>1, <3>2
  <2> QED
    BY <1>1, <2>1, <2>2 DEF Kept
<1>11. ContextOK'
  BY <1>0, <1>1 DEF ContextOK
<1> QED
  BY <1>5, <1>6, <1>7, <1>8, <1>9, <1>10, <1>11 DEF MemoryInv

-----------------------------------------------------------------------------
(* Writing a memory *)

\* A write replaces one row at most, and leaves one that lies in a home of its session.
LEMMA WrittenRow ==
  ASSUME RowsOK, OriginOK, NEW item \in Items, item.ns \in Homes(item.id[1])
  PROVE  LET old == Replaced(item)
             new == RowOf(item, old)
         IN /\ new \in Rows /\ new.item = item
            /\ new.at \in Homes(item.id[1]) /\ (backend = "langgraph" => new.at = item.ns)
            /\ \A r \in rows \ old : /\ r.born # new.born
                                     /\ r.item.id = item.id => backend = "langgraph" /\ r.at # new.at
<1> DEFINE old == Replaced(item)
           new == RowOf(item, old)
<1>0. item.ns \in Namespaces /\ NextRank \in Nat \ {0} /\ backend \in {"langgraph", "postgres"}
  BY NextRankFresh DEF Items, RowsOK
<1>1. old \subseteq rows /\ \A r \in old : r.item.id = item.id
  BY DEF Replaced, WithId
<1>2. \A r \in rows \ old : r.item.id = item.id => backend = "langgraph" /\ r.at # item.ns
  BY DEF Replaced, WithId
<1>3. CASE old = {}
  <2>1. new = [at |-> item.ns, born |-> NextRank, item |-> item]
    BY <1>3 DEF RowOf
  <2> HIDE DEF new, old
  <2>2. new \in Rows /\ new.item = item /\ new.at = item.ns /\ new.born = NextRank
    BY <1>0, <2>1 DEF Rows
  <2>3. \A r \in rows : r.born # new.born
    <3> TAKE r \in rows
    <3>1. r.born \in Nat /\ r.born < NextRank
      BY RowTyped, NextRankFresh DEF RowsOK
    <3> QED
      BY <1>0, <2>2, <3>1
  <2> QED
    BY <1>2, <2>2, <2>3 DEF new, old
<1>4. CASE old # {}
  <2>1. PICK o \in old : TRUE
    BY <1>4
  <2>2. o \in rows /\ o \in Rows /\ o.item.id = item.id /\ (backend = "langgraph" => o.at = item.ns)
    BY <1>1, <2>1 DEF RowsOK, Replaced
  <2>3. \A r \in old : r = o
    <3> TAKE r \in old
    <3>1. r \in rows /\ r.item.id = o.item.id /\ (backend = "langgraph" => r.at = item.ns)
      BY <1>1, <2>2 DEF Replaced
    <3> QED
      BY <1>0, <2>2, <3>1 DEF RowsOK
  <2>4. (CHOOSE r \in old : TRUE) = o
    BY <2>1, <2>3
  <2>5. new = [at |-> IF backend = "langgraph" THEN item.ns ELSE o.at, born |-> o.born, item |-> item]
    BY <1>4, <2>4 DEF RowOf
  <2>6. o.at \in Namespaces /\ o.born \in Nat \ {0}
    BY <2>2, RowTyped
  <2>7. o.at \in Homes(item.id[1])
    BY <2>2, OriginHomes
  <2> HIDE DEF new, old
  <2>8. /\ new \in Rows /\ new.item = item /\ new.born = o.born
        /\ new.at = IF backend = "langgraph" THEN item.ns ELSE o.at
    BY <1>0, <2>5, <2>6 DEF Rows
  <2>9. \A r \in rows \ old : r.born # o.born
    BY <2>1, <2>2 DEF RowsOK
  <2> QED
    BY <1>2, <2>7, <2>8, <2>9 DEF new, old
<1> QED
  BY <1>3, <1>4

LEMMA WriteMemory ==
  ASSUME HistoryInv, MemoryInv, NEW l \in Loops, pc[l] = "tool", NEW r \in Records, r.call = round[l],
         history' = [history EXCEPT ![l] = Append(history[l], r)], Executed(r),
         pc' = [pc EXCEPT ![l] = NextRound(l)], UNCHANGED <<given, round, context>>,
         Write(Item(l, r))
  PROVE  MemoryInv'
<1> DEFINE item == Item(l, r)
           old == Replaced(item)
           new == RowOf(item, old)
           h == history[l]
           g == Append(h, r)
<1>0. RowsOK /\ OriginOK /\ PastOK /\ WithdrawnOK /\ DeletedGone /\ EpisodeKept /\ ContextOK
  BY DEF MemoryInv
<1>1. /\ given[l].session \in Sessions /\ given[l].ns \in Namespaces /\ l \in Nat
      /\ round[l] \in Nat /\ r.event \in Events
  BY RunFacts, LoopAssumption DEF HistoryInv, LoopTypes, Records
<1>2. /\ item \in Items /\ item.id = <<given[l].session, round[l]>> /\ item.ns = given[l].ns
      /\ item.by = l /\ item.ref = r.event /\ item.valid = TRUE
      /\ item.id[1] = given[l].session /\ Ident(item) = <<l, round[l]>>
  BY <1>1 DEF Item, Items, Ident
<1> HIDE DEF item
<1>3. item.ns \in Homes(item.id[1])
  BY <1>2 DEF Homes
<1>4. /\ new \in Rows /\ new.item = item
      /\ new.at \in Homes(item.id[1]) /\ (backend = "langgraph" => new.at = item.ns)
      /\ \A q \in rows \ old : /\ q.born # new.born
                               /\ q.item.id = item.id => backend = "langgraph" /\ q.at # new.at
  BY <1>0, <1>2, <1>3, WrittenRow
<1>5. /\ rows' = (rows \ old) \cup {new} /\ UNCHANGED <<backend, withdrawn, erased>>
      /\ index' = [id \in DOMAIN index \cup {item.id} |-> IF id = item.id THEN item.ns ELSE index[id]]
  BY DEF Write, item
<1>6. \A q \in old : q \in rows /\ q.item.id = item.id
  BY DEF Replaced, WithId
<1> HIDE DEF new, old
<1>7. /\ DOMAIN history = Loops /\ DOMAIN pc = Loops /\ h \in Seq(Records)
      /\ NextRound(l) \in {"plan", "max_actions_reached"}
  BY NextRoundIs DEF HistoryInv, LoopTypes
<1>8. /\ Len(h) \in Nat /\ Len(g) = Len(h) + 1 /\ DOMAIN h \subseteq DOMAIN g /\ g[Len(h) + 1] = r
      /\ Len(h) + 1 \in DOMAIN g
      /\ \A k \in DOMAIN h : g[k] = h[k]
      /\ \A k \in DOMAIN g : k \in DOMAIN h \/ k = Len(h) + 1
  BY <1>7, AppendShape
<1> HIDE DEF g
<1>9. /\ history'[l] = g /\ pc'[l] = NextRound(l)
      /\ \A k \in Loops : k # l => history'[k] = history[k] /\ pc'[k] = pc[k]
  BY <1>7 DEF g
<1>10. \A s : Homes(s)' = Homes(s) /\ (Split(s)' <=> Split(s))
  BY HomesStay
\* The action was not remembered, withdrawn or deleted before.
<1>11. <<l, round[l]>> \notin {Ident(q.item) : q \in rows} \cup withdrawn \cup erased
  <2>1. ~Past(<<l, round[l]>>)
    BY <1>1 DEF Past
  <2> QED
    BY <1>0, <2>1 DEF PastOK
<1>12. RowsOK'
  <2>1. IsFiniteSet(rows')
    <3>1. IsFiniteSet(rows \ old)
      BY <1>0, FS_Subset DEF RowsOK
    <3> QED
      BY <1>5, <3>1, FS_AddElement
  <2>2. rows' \subseteq Rows
    BY <1>0, <1>4, <1>5 DEF RowsOK
  <2>3. ASSUME NEW m \in rows', NEW n \in rows',
               m.born = n.born \/ (m.item.id = n.item.id /\ (backend = "postgres" \/ m.at = n.at))
        PROVE  m = n
    BY <1>0, <1>4, <1>5, <2>3 DEF RowsOK
  <2>4. /\ index' = [id \in DOMAIN index' |-> index'[id]]
        /\ \A id \in DOMAIN index' : index'[id] \in Namespaces
    BY <1>0, <1>1, <1>2, <1>5 DEF RowsOK
  <2> QED
    BY <1>0, <1>5, <2>1, <2>2, <2>3, <2>4 DEF RowsOK
<1>13. OriginOK'
  <2> SUFFICES ASSUME NEW m \in rows'
               PROVE  /\ Origin(m)'
                      /\ (backend = "langgraph" /\ ~Split(m.item.id[1])) =>
                           m.item.id \in DOMAIN index' /\ index'[m.item.id] = m.at
    BY <1>5, <1>10 DEF OriginOK
  <2>1. CASE m = new
    <3>1. Origin(m)
      BY <1>2, <1>4, <2>1 DEF Origin
    <3>2. Origin(m)'
      BY <1>5, <1>10, <3>1 DEF Origin
    <3> QED
      BY <1>4, <1>5, <2>1, <3>2
  <2>2. CASE m \in rows
    <3>1. Origin(m) /\ ((backend = "langgraph" /\ ~Split(m.item.id[1])) =>
                          m.item.id \in DOMAIN index /\ index[m.item.id] = m.at)
      BY <1>0, <2>2 DEF OriginOK
    <3>2. Origin(m)'
      BY <1>5, <1>10, <3>1 DEF Origin
    <3>3. (m.item.id = item.id /\ ~Split(m.item.id[1]) /\ backend = "langgraph") => m.at = item.ns
      BY <1>3, <3>1 DEF Split, Origin
    <3> QED
      BY <1>5, <3>1, <3>2, <3>3
  <2> QED
    BY <1>5, <2>1, <2>2
<1>14. PastOK'
  <2>1. \A e \in Nat \X Nat : Past(e) => Past(e)'
    <3>1. round' = [round EXCEPT ![l] = round[l]] /\ NextRound(l) \notin {"decide", "tool"}
      BY <1>7, RunFacts
    <3> QED
      BY <3>1, PastStays
  <2>2. Past(<<l, round[l]>>)'
    BY <1>1, <1>7, <1>9 DEF Past
  <2>3. \A q \in rows : Ident(q.item) \in Nat \X Nat
    BY <1>0, RowTyped DEF RowsOK
  <2>4. ASSUME NEW e \in {Ident(q.item) : q \in rows'} \cup withdrawn' \cup erased' PROVE Past(e)'
    <3>1. CASE e = <<l, round[l]>>
      BY <2>2, <3>1
    <3>2. CASE e \in {Ident(q.item) : q \in rows} \cup withdrawn \cup erased
      BY <1>0, <2>1, <2>3, <3>2 DEF PastOK, RowsOK
    <3> QED
      BY <1>2, <1>4, <1>5, <3>1, <3>2
  <2> QED
    BY <2>4 DEF PastOK
<1>15. WithdrawnOK' /\ DeletedGone'
  BY <1>0, <1>2, <1>4, <1>5, <1>10, <1>11 DEF WithdrawnOK, DeletedGone
<1>16. EpisodeKept'
  <2> SUFFICES ASSUME NEW k \in Loops, NEW i \in DOMAIN history'[k],
                      history'[k][i].call > 0, Executed(history'[k][i])
               PROVE  Kept(k, i)'
    BY DEF EpisodeKept, Kept
  <2>0. new \in rows'
    BY <1>5
  <2>1. CASE k = l /\ i = Len(h) + 1
    <3>1. history'[k][i] = r
      BY <1>8, <1>9, <2>1
    <3>2. /\ new.item.id = <<given'[k].session, history'[k][i].call>>
          /\ new.item.by = k /\ new.item.ref = history'[k][i].event
      BY <1>2, <1>4, <2>1, <3>1
    <3> QED
      BY <2>0, <3>2 DEF Kept
  <2>2. CASE i \in DOMAIN history[k]
    <3>1. history'[k][i] = history[k][i]
      BY <1>8, <1>9, <2>2
    <3>2. Kept(k, i)
      BY <1>0, <2>2, <3>1 DEF EpisodeKept, Kept
    <3>3. ASSUME NEW m \in Loops, NEW j \in DOMAIN history[m]
          PROVE  j \in DOMAIN history'[m] /\ history'[m][j] = history[m][j]
      BY <1>8, <1>9
    <3>4. pc[k] = "raised" /\ i = Len(history[k]) => pc'[k] = "raised" /\ i = Len(history'[k])
      BY <1>9
    <3>5. ASSUME NEW q \in rows, q \notin rows',
                 q.item.id = <<given[k].session, history[k][i].call>>, q.item.by = k
          PROVE  /\ l > k /\ given[l].session = given[k].session
                 /\ Len(h) + 1 \in DOMAIN history'[l] /\ history'[l][Len(h) + 1] = r
                 /\ r.call = history[k][i].call
      <4>1. given[l].session = given[k].session /\ round[l] = history[k][i].call
        BY <1>2, <1>5, <1>6, <3>5
      <4>2. k # l
        <5>1. history[l] \in Seq(Records) /\ round[l] \in Nat
          BY <1>1, <1>7
        <5>2. \A j \in DOMAIN history[l] : history[l][j].call < round[l] /\ history[l][j].call \in Nat
          <6> TAKE j \in DOMAIN history[l]
          <6>1. history[l][j] \in Records
            BY <5>1
          <6>2. history[l][j].call \in Nat
            BY <6>1 DEF Records
          <6>3. RecordsAt(history[l], pc[l], round[l])
            BY RunFacts
          <6> QED
            BY <6>2, <6>3 DEF RecordsAt
        <5> QED
          BY <2>2, <4>1, <5>1, <5>2
      <4>3. ~(l < k)
        <5>1. SUFFICES ASSUME l < k PROVE FALSE
          OBVIOUS
        <5>2. Unstarted(k)
          BY <5>1 DEF HistoryInv, OrderOK, Ended
        <5>3. history[k][i].call <= 0
          BY <2>2, <5>2, RunFacts DEF RecordsAt, Unstarted
        <5> QED
          BY <1>1, <3>1, <4>1, <5>3
      <4> QED
        BY <1>8, <1>9, <4>1, <4>2, <4>3, RunFacts
    <3>6. CASE \E q \in rows : /\ q.item.id = <<given[k].session, history[k][i].call>>
                               /\ q.item.by = k /\ q.item.ref = history[k][i].event
      <4>1. PICK q \in rows : /\ q.item.id = <<given[k].session, history[k][i].call>>
                              /\ q.item.by = k /\ q.item.ref = history[k][i].event
        BY <3>6
      <4>2. CASE q \in rows'
        BY <3>1, <4>1, <4>2 DEF Kept
      <4>3. CASE q \notin rows'
        <5>1. /\ l > k /\ given[l].session = given[k].session
              /\ Len(h) + 1 \in DOMAIN history'[l] /\ history'[l][Len(h) + 1] = r
              /\ r.call = history'[k][i].call
          BY <3>1, <3>5, <4>1, <4>3
        <5> QED
          BY <5>1 DEF Kept
      <4> QED
        BY <4>2, <4>3
    <3>7. CASE ~ \E q \in rows : /\ q.item.id = <<given[k].session, history[k][i].call>>
                                 /\ q.item.by = k /\ q.item.ref = history[k][i].event
      BY <1>5, <3>1, <3>2, <3>3, <3>4, <3>7, SMTT(60) DEF Kept
    <3> QED
      BY <3>6, <3>7
  <2> QED
    BY <1>8, <1>9, <2>1, <2>2
<1>17. ContextOK'
  BY <1>0 DEF ContextOK
<1> QED
  BY <1>12, <1>13, <1>14, <1>15, <1>16, <1>17 DEF MemoryInv

LEMMA ObserveMemory ==
  ASSUME HistoryInv, MemoryInv, NEW l \in Loops, NEW status \in {"succeeded", "failed"},
         NEW obs \in Nat \X Nat, pc[l] = "tool", Observe(l, status, obs)
  PROVE  MemoryInv'
<1> DEFINE a == action[l]
           r == Record(a.id, 0, round[l], a.tool, status, a.cites, obs)
<1>1. r \in Records /\ r.status = status /\ r.call = round[l] /\ Executed(r)
  BY ObservedRecord
<1>2. /\ history' = [history EXCEPT ![l] = Append(history[l], r)]
      /\ \/ Write(Item(l, r)) /\ pc' = [pc EXCEPT ![l] = NextRound(l)]
         \/ pc' = [pc EXCEPT ![l] = "raised"] /\ UNCHANGED memory
      /\ UNCHANGED <<given, round, context>>
  BY DEF Observe
<1> HIDE DEF r
<1>3. CASE Write(Item(l, r)) /\ pc' = [pc EXCEPT ![l] = NextRound(l)]
  BY <1>1, <1>2, <1>3, WriteMemory
<1>4. CASE pc' = [pc EXCEPT ![l] = "raised"] /\ UNCHANGED memory
  <2>1. pc[l] \in {"decide", "tool"} /\ "raised" \notin {"decide", "tool"}
    OBVIOUS
  <2> QED
    BY <1>1, <1>2, <1>4, <2>1, UnwrittenMemory
<1> QED
  BY <1>2, <1>3, <1>4

LEMMA RejectMemory ==
  ASSUME HistoryInv, MemoryInv, NEW l \in Loops, PlannerErrs(l) \/ Reject(l)
  PROVE  MemoryInv'
<1>1. PICK r \in Records, v \in Events :
        /\ r.tool = "none" /\ r.status = "rejected" /\ r.call = round[l] /\ r.event[3] = r.status
        /\ history' = [history EXCEPT ![l] = Append(history[l], r)]
        /\ unresolved' = [unresolved EXCEPT ![l] = v]
        /\ v = unresolved[l] \/ (unresolved[l] = NoEvent /\ v = r.event)
  BY RejectedRecord
<1>2. /\ pc[l] \in {"decide", "tool"} /\ pc' = [pc EXCEPT ![l] = NextRound(l)]
      /\ UNCHANGED <<memory, given, round>> /\ context' = [context EXCEPT ![l] = {}]
  BY DEF PlannerErrs, Reject
<1>3. ~Executed(r) /\ NextRound(l) \notin {"decide", "tool"}
  BY <1>1, NextRoundIs DEF Executed
<1> QED
  BY <1>1, <1>2, <1>3, UnwrittenMemory

LEMMA MemoryStep == HistoryInv /\ MemoryInv /\ [Next]_vars => MemoryInv'
<1> SUFFICES ASSUME HistoryInv, MemoryInv, [Next]_vars PROVE MemoryInv'
  OBVIOUS
<1>1. ASSUME NEW l \in Loops, Train(l) \/ Verify(l) \/ ToolFails(l) \/ TimesOut(l) PROVE MemoryInv'
  <2>1. PICK status, obs : ToolEnd(l, status, obs)
    BY <1>1, ToolsEnd
  <2> QED
    BY <2>1, ObserveMemory DEF ToolEnd
<1>2. CASE (ThreadWrites \/ ThreadDies) \/ Finished \/ UNCHANGED vars
  <2>1. UNCHANGED <<memory, given, pc, round, history, context>>
    BY <1>2 DEF ThreadWrites, ThreadDies, Finished, vars, loopvars
  <2>2. ContextOK' /\ \A e \in Nat \X Nat : Past(e) => Past(e)'
    BY <2>1 DEF ContextOK, MemoryInv, Past
  <2> QED
    BY <2>1, <2>2, MemoryRests
<1>3. CASE Operator
  BY <1>3, InvalidateMemory, DeleteMemory DEF Operator
<1>4. ASSUME NEW l \in Loops,
             \/ Plan(l) \/ PlannerErrs(l) \/ PlannerRaises(l) \/ PlannerStops(l)
             \/ Propose(l) \/ Reject(l)
      PROVE  MemoryInv'
  BY <1>4, PlanMemory, RejectMemory, DecideMemory
<1> QED
  BY <1>1, <1>2, <1>3, <1>4 DEF Next

-----------------------------------------------------------------------------
(* The beginning of the loop *)

LEMMA OneRecord ==
  ASSUME NEW r \in Records, NEW h, h = <<r>>
  PROVE  DOMAIN h = {1} /\ h \in Seq(Records) /\ h[1] = r
  OBVIOUS

LEMMA InitialRun ==
  ASSUME NEW g \in Givens, NEW l \in Loops, NEW u, NEW p,
         u = InitialDebt(g[l].initial_history),
         p = IF g[l].max_actions = 0 THEN "max_actions_reached" ELSE "plan"
  PROVE  LET h == g[l].initial_history IN
         /\ h \in Seq(Records) /\ u \in Events /\ \A i \in DOMAIN h : h[i].call = 0 /\ h[i].tool # "train"
         /\ StageAt(p, 0, g[l].max_actions, NoAction, u) /\ RecordsAt(h, p, 0) /\ DebtAt(h, p, u)
         /\ AnsweredAt(h) /\ OwedAt(h, p, u)
<1> DEFINE h == g[l].initial_history
           B == {k \in DOMAIN h : Bad(h[k])}
<1>1. g[l].max_actions \in Nat /\ StageAt(p, 0, g[l].max_actions, NoAction, u)
  BY LoopAssumption DEF StageAt
<1>2. CASE h = <<>>
  <2>1. DOMAIN h = {} /\ h \in Seq(Records) /\ u = NoEvent
    BY <1>2 DEF InitialDebt
  <2>2. RecordsAt(h, p, 0) /\ DebtAt(h, p, u) /\ AnsweredAt(h) /\ OwedAt(h, p, u)
    BY <2>1 DEF RecordsAt, DebtAt, AnsweredAt, OwedAt
  <2> QED
    BY <1>1, <2>1, <2>2, NoActionTyped
<1>3. CASE IsFixture(h[1]) /\ h = <<h[1]>>
  <2> DEFINE r == h[1]
  <2>1. r \in Records /\ r.event[3] = r.status /\ r.call = 0 /\ r.tool # "train" /\ r.event \in Events
    BY <1>3 DEF IsFixture, Records
  <2>2. DOMAIN h = {1} /\ h \in Seq(Records)
    <3>1. r \in Records /\ h = <<r>>
      BY <1>3, <2>1
    <3> HIDE DEF h, r
    <3> QED
      BY <3>1, OneRecord
  <2>3. u = IF Bad(r) THEN r.event ELSE NoEvent
    <3>1. CASE Bad(r)
      <4>1. B \in SUBSET (1..1) /\ B # {} /\ B = {1}
        BY <2>2, <3>1
      <4> HIDE DEF B
      <4>2. Max(B) = 1
        BY <4>1, MaxOfPositions
      <4> QED
        BY <2>2, <3>1, <4>1, <4>2 DEF InitialDebt, B
    <3>2. CASE ~Bad(r)
      <4>1. B = {}
        BY <2>2, <3>2
      <4> QED
        BY <3>2, <4>1 DEF InitialDebt
    <3> QED
      BY <3>1, <3>2
  <2>4. RecordsAt(h, p, 0)
    <3>1. p \notin {"decide", "tool"}
      OBVIOUS
    <3> QED
      BY <1>3, <2>1, <2>2, <3>1 DEF RecordsAt
  <2>5. r.event # NoEvent
    <3>1. r.event[3] # ""
      BY <2>1 DEF Records
    <3>2. NoEvent[3] = ""
      BY DEF NoEvent
    <3> HIDE DEF r
    <3> QED
      BY <3>1, <3>2
  <2> HIDE DEF h
  <2>6. DebtAt(h, p, u) /\ AnsweredAt(h)
    BY <2>2, <2>3 DEF DebtAt, AnsweredAt, Owes
  <2>7. OwedAt(h, p, u)
    <3> SUFFICES ASSUME u # NoEvent, NEW j \in DOMAIN h, h[j].status = "succeeded" PROVE FALSE
      BY DEF OwedAt
    <3> QED
      BY <2>2, <2>3 DEF Bad
  <2> QED
    BY <1>1, <2>1, <2>2, <2>3, <2>4, <2>6, <2>7, NoActionTyped DEF h
<1> QED
  BY <1>2, <1>3, LoopAssumption

LEMMA InitHistory == Init => HistoryInv /\ TrainingInv
<1> SUFFICES ASSUME Init PROVE HistoryInv /\ TrainingInv
  OBVIOUS
<1>1. /\ given \in Givens /\ history = [l \in Loops |-> given[l].initial_history]
      /\ unresolved = [l \in Loops |-> InitialDebt(history[l])]
      /\ pc = [l \in Loops |-> IF given[l].max_actions = 0 THEN "max_actions_reached" ELSE "plan"]
      /\ round = [l \in Loops |-> 0] /\ context = [l \in Loops |-> {}]
      /\ action = [l \in Loops |-> NoAction] /\ abandoned = {} /\ disk = NoWork
  BY DEF Init
<1>2. ASSUME NEW l \in Loops
      PROVE  /\ history[l] \in Seq(Records) /\ unresolved[l] \in Events /\ pc[l] \in Stages \cup Ended
             /\ \A i \in DOMAIN history[l] : history[l][i].call = 0 /\ history[l][i].tool # "train"
             /\ StageAt(pc[l], round[l], given[l].max_actions, action[l], unresolved[l])
             /\ RecordsAt(history[l], pc[l], round[l])
             /\ DebtAt(history[l], pc[l], unresolved[l])
             /\ AnsweredAt(history[l])
             /\ OwedAt(history[l], pc[l], unresolved[l])
  <2>1. /\ history[l] = given[l].initial_history /\ unresolved[l] = InitialDebt(given[l].initial_history)
        /\ pc[l] = IF given[l].max_actions = 0 THEN "max_actions_reached" ELSE "plan"
        /\ round[l] = 0 /\ action[l] = NoAction
    BY <1>1
  <2>2. pc[l] \in Stages \cup Ended
    BY <2>1 DEF Stages, Ended
  <2> QED
    BY <1>1, <2>1, <2>2, InitialRun
<1>3. LoopTypes
  BY <1>1, <1>2, NoActionTyped DEF LoopTypes
<1>4. OrderOK
  BY <1>1 DEF OrderOK, Unstarted
<1>5. HistoryOK
  BY <1>2 DEF HistoryOK
<1>6. DiskOK
  BY <1>1, <1>2 DEF DiskOK, Trained
<1>7. VerifyOK
  BY <1>2 DEF VerifyOK, Trained
<1> QED
  BY <1>3, <1>4, <1>5, <1>6, <1>7 DEF HistoryInv, TrainingInv

LEMMA InitMemory == Init => MemoryInv
<1> SUFFICES ASSUME Init PROVE MemoryInv
  OBVIOUS
<1>1. /\ backend \in {"langgraph", "postgres"} /\ rows \in {{}, OldRows} /\ erased = {}
      /\ withdrawn = {Ident(r.item) : r \in {q \in rows : ~Valid(q)}}
      /\ index = [id \in {r.item.id : r \in rows} |-> CHOOSE ns \in Namespaces :
                    \E r \in WithId(id) : r.at = ns]
      /\ context = [l \in Loops |-> {}] /\ HistoryInv
  BY InitHistory DEF Init, MemoryInit
<1>2. rows \subseteq OldRows /\ rows \subseteq Rows
  BY <1>1, MemoryAssumption
<1>3. IsFiniteSet(rows)
  BY <1>1, FS_EmptySet, MemoryAssumption
<1>4. \A r \in rows : /\ r.item.by \notin Loops /\ r.at = r.item.ns /\ r.at \in Namespaces
                      /\ Ident(r.item) = <<r.item.by, r.item.id[2]>> /\ Ident(r.item) \in Nat \X Nat
  BY <1>2, RowTyped, MemoryAssumption, LoopAssumption
<1>5. \A r, q \in rows : (r.born = q.born \/ r.item.id = q.item.id \/ Ident(r.item) = Ident(q.item)) => r = q
  BY <1>2, <1>4, MemoryAssumption
<1>6. ASSUME NEW r \in rows PROVE r.item.id \in DOMAIN index /\ index[r.item.id] = r.at
  <2>1. r.item.id \in DOMAIN index
           /\ index[r.item.id] = CHOOSE ns \in Namespaces : \E q \in WithId(r.item.id) : q.at = ns
    BY <1>1
  <2>2. WithId(r.item.id) = {r}
    BY <1>5 DEF WithId
  <2> QED
    BY <1>4, <2>1, <2>2
<1>7. RowsOK
  <2>1. index = [id \in DOMAIN index |-> index[id]] /\ DOMAIN index = {r.item.id : r \in rows}
    BY <1>1
  <2>2. \A id \in DOMAIN index : index[id] \in Namespaces
    BY <1>4, <1>6, <2>1
  <2>3. withdrawn \subseteq Nat \X Nat /\ erased \subseteq Nat \X Nat
    BY <1>1, <1>4
  <2> QED
    BY <1>1, <1>2, <1>3, <1>5, <2>1, <2>2, <2>3 DEF RowsOK
<1>8. OriginOK
  <2> SUFFICES ASSUME NEW r \in rows
               PROVE  Origin(r) /\ r.item.id \in DOMAIN index /\ index[r.item.id] = r.at
    BY DEF OriginOK
  <2>1. r.at \in Homes(r.item.id[1])
    BY <1>2 DEF Homes
  <2> QED
    BY <1>2, <1>4, <1>6, <2>1 DEF Origin
<1>9. PastOK
  BY <1>1, <1>4 DEF PastOK, Past
<1>10. WithdrawnOK
  <2> SUFFICES ASSUME NEW r \in rows, Valid(r), Ident(r.item) \in withdrawn PROVE FALSE
    BY DEF WithdrawnOK
  <2>1. PICK q \in rows : ~Valid(q) /\ Ident(r.item) = Ident(q.item)
    BY <1>1
  <2> QED
    BY <1>5, <2>1
<1>11. DeletedGone
  BY <1>1 DEF DeletedGone
<1>12. EpisodeKept
  <2>1. ASSUME NEW l \in Loops, NEW k \in DOMAIN history[l] PROVE history[l][k].call = 0
    BY InitialRun, <2>1 DEF Init
  <2> QED
    BY <2>1 DEF EpisodeKept
<1>13. ContextOK
  <2>1. Cardinality({}) <= TopK
    BY FS_EmptySet, MemoryAssumption
  <2> QED
    BY <1>1, <2>1 DEF ContextOK
<1> QED
  BY <1>7, <1>8, <1>9, <1>10, <1>11, <1>12, <1>13 DEF MemoryInv

\* The invariant is inductive.
THEOREM LoopInvariant == Spec => []LoopInv
<1>1. Init => LoopInv
  BY InitHistory, InitMemory DEF LoopInv
<1>2. LoopInv /\ [Next]_vars => LoopInv'
  BY HistoryStep, TrainingStep, MemoryStep DEF LoopInv
<1> QED
  BY <1>1, <1>2, PTL DEF Spec

-----------------------------------------------------------------------------
(* What the invariant says *)

LEMMA CallsGrow ==
  ASSUME NEW h \in Seq(Records), NEW p, NEW n, RecordsAt(h, p, n), NEW i \in DOMAIN h, NEW j \in DOMAIN h
  PROVE  /\ i \in Nat /\ i > 0 /\ i <= Len(h) /\ Len(h) \in Nat /\ h[i] \in Records /\ h[i].call \in Nat
         /\ (i < j => h[i].call < h[j].call) /\ (i # j => h[i].call # h[j].call)
<1>1. DOMAIN h = 1..Len(h) /\ Len(h) \in Nat
  OBVIOUS
<1>2. h[i] \in Records /\ h[j] \in Records
  OBVIOUS
<1>3. h[i].call \in Nat /\ h[j].call \in Nat
  BY <1>2 DEF Records
<1> QED
  BY <1>1, <1>2, <1>3 DEF RecordsAt

LEMMA RecoveryIs ==
  ASSUME NEW h \in Seq(Records), NEW p, NEW n, RecordsAt(h, p, n)
  PROVE  HasCausalRecovery(h) <=>
           \E i, j \in DOMAIN h : /\ i # j /\ h[j].status = "succeeded" /\ Bad(h[i])
                                  /\ h[i].event \in h[j].cites
<1>1. ASSUME HasCausalRecovery(h)
      PROVE  \E i, j \in DOMAIN h : /\ i # j /\ h[j].status = "succeeded" /\ Bad(h[i])
                                    /\ h[i].event \in h[j].cites
  <2>1. PICK j \in DOMAIN h : /\ h[j].status = "succeeded"
                              /\ \E e \in h[j].cites : /\ Source(h, e) # 0
                                                       /\ h[Source(h, e)].call # h[j].call
    BY <1>1 DEF HasCausalRecovery
  <2>2. PICK e \in h[j].cites : Source(h, e) # 0 /\ h[Source(h, e)].call # h[j].call
    BY <2>1
  <2>3. /\ Source(h, e) \in DOMAIN h /\ Bad(h[Source(h, e)]) /\ h[Source(h, e)].event = e
    BY <2>2, SourceIs
  <2> QED
    BY <2>1, <2>2, <2>3
<1>2. ASSUME NEW i \in DOMAIN h, NEW j \in DOMAIN h, h[j].status = "succeeded", Bad(h[i]),
             h[i].event \in h[j].cites
      PROVE  HasCausalRecovery(h)
  <2> DEFINE s == Source(h, h[i].event)
  <2>1. s # 0 /\ s \in DOMAIN h /\ Bad(h[s])
    BY <1>2, SourceIs
  <2>2. s # j
    BY <1>2, <2>1 DEF Bad
  <2>3. h[s].call # h[j].call
    BY <2>1, <2>2, CallsGrow
  <2> QED
    BY <1>2, <2>1, <2>3 DEF HasCausalRecovery
<1> QED
  BY <1>1, <1>2

\* A run that began with a failure and saw a success has answered a failure in time.
LEMMA FirstSuccess ==
  ASSUME NEW h \in Seq(Records), NEW p, NEW n, RecordsAt(h, p, n), AnsweredAt(h),
         NEW k \in DOMAIN h, h[k].call = 0, Bad(h[k]), NEW j \in DOMAIN h, h[j].status = "succeeded"
  PROVE  \E i, s \in DOMAIN h : /\ i < s /\ Bad(h[i])
                                /\ h[s].status = "succeeded" /\ h[i].event \in h[s].cites
<1>0. /\ DOMAIN h = 1..Len(h) /\ Len(h) \in Nat /\ k \in Nat /\ j \in Nat
      /\ k > 0 /\ \A i \in DOMAIN h : i \in Nat
  BY CallsGrow
<1>1. k < j
  <2>1. k # j
    BY DEF Bad
  <2>2. ~(j < k)
    BY CallsGrow
  <2> QED
    BY <1>0, <2>1, <2>2
<1> DEFINE S == {i \in DOMAIN h : k < i /\ h[i].status = "succeeded"}
<1>2. PICK s \in S : \A i \in S : s <= i
  <2>1. S \in SUBSET Nat /\ S # {}
    BY <1>0, <1>1
  <2> HIDE DEF S
  <2> QED
    BY <2>1, LeastExists
<1>3. s \in DOMAIN h /\ k < s /\ h[s].status = "succeeded" /\ s \in Nat
  BY <1>0
<1> DEFINE P == {i \in DOMAIN h : k <= i /\ i < s /\ (i = k \/ Executed(h[i]))}
<1>4. PICK i \in P : \A q \in P : i >= q
  <2>1. P \in SUBSET (1..Len(h)) /\ P # {}
    BY <1>0, <1>3
  <2> HIDE DEF P
  <2> QED
    BY <1>0, <2>1, MaxOfPositions
<1>5. i \in DOMAIN h /\ k <= i /\ i < s /\ (i = k \/ Executed(h[i])) /\ i \in Nat
  BY <1>0
<1>6. Owes(h[i])
  <2>1. CASE i = k
    BY <2>1 DEF Owes
  <2>2. CASE i # k
    <3>1. Executed(h[i]) /\ i \notin S
      BY <1>2, <1>3, <1>5, <2>2
    <3>2. h[i].status = "failed"
      BY <1>0, <1>5, <2>2, <3>1 DEF Executed
    <3> QED
      BY <3>2 DEF Owes, Bad
  <2> QED
    BY <2>1, <2>2
<1>7. \A q \in DOMAIN h : (i < q /\ q < s) => ~Executed(h[q])
  <2> SUFFICES ASSUME NEW q \in DOMAIN h, i < q, q < s, Executed(h[q]) PROVE FALSE
    OBVIOUS
  <2>1. q \in P
    BY <1>0, <1>5
  <2> QED
    BY <1>0, <1>4, <1>5, <2>1
<1>8. Executed(h[s])
  BY <1>3 DEF Executed
<1>9. h[i].event \in h[s].cites
  BY <1>3, <1>5, <1>6, <1>7, <1>8 DEF AnsweredAt
<1> QED
  BY <1>3, <1>5, <1>6, <1>9 DEF Owes

LEMMA LoopTypeOK == LoopInv => TypeOK
<1> SUFFICES ASSUME LoopInv PROVE TypeOK
  OBVIOUS
<1>0. HistoryInv /\ TrainingInv /\ MemoryInv /\ RowsOK /\ LoopTypes
  BY DEF LoopInv, MemoryInv, HistoryInv
<1>1. \A r \in rows : r.at \in Namespaces /\ r.born \in Nat \ {0}
  BY <1>0, RowTyped DEF RowsOK
<1>2. /\ \A r, q \in rows : /\ r.born = q.born => r = q
                            /\ (r.item.id = q.item.id /\ r.at = q.at) => r = q
      /\ \A id \in DOMAIN index : index[id] \in Namespaces
  BY <1>0 DEF RowsOK
<1>3. ASSUME NEW l \in Loops
      PROVE  /\ pc[l] \in {"plan", "decide", "tool"} \cup Ended
             /\ round[l] \in 0..given[l].max_actions
             /\ unresolved[l] # NoEvent => Source(history[l], unresolved[l]) # 0
             /\ (pc[l] = "tool") = (action[l] # NoAction)
             /\ Cardinality(context[l]) <= TopK
  <2>1. /\ pc[l] \in Stages \cup Ended /\ round[l] \in Nat /\ history[l] \in Seq(Records)
        /\ given[l].max_actions \in Nat
        /\ StageAt(pc[l], round[l], given[l].max_actions, action[l], unresolved[l])
        /\ DebtAt(history[l], pc[l], unresolved[l])
    BY <1>0, RunFacts
  <2>2. unresolved[l] # NoEvent => Source(history[l], unresolved[l]) # 0
    BY <2>1, SourceIs DEF DebtAt
  <2>3. (pc[l] = "tool") <=> (action[l] # NoAction)
    <3>1. NoAction.tool \notin Tools
      BY DEF NoAction, Tools
    <3> QED
      BY <2>1, <3>1 DEF StageAt
  <2>4. Cardinality(context[l]) <= TopK
    BY <1>0 DEF MemoryInv, ContextOK
  <2> QED
    BY <2>1, <2>2, <2>3, <2>4 DEF StageAt, Stages
<1>4. \A e \in abandoned \cup ({disk} \ {NoWork}) : e[1] \in Loops /\ e[2] \in 1..given[e[1]].max_actions
  BY <1>0 DEF TrainingInv, DiskOK, Late, LateIn
<1> QED
  BY <1>1, <1>2, <1>3, <1>4 DEF TypeOK

LEMMA LoopHistoryTrue == LoopInv => HistoryTrue
<1> SUFFICES ASSUME LoopInv PROVE HistoryTrue
  OBVIOUS
<1>0. HistoryInv /\ TrainingInv
  BY DEF LoopInv
<1>1. FailureAnswered
  <2> SUFFICES ASSUME NEW l \in Loops, NEW i \in DOMAIN history[l], NEW j \in DOMAIN history[l],
                      i < j, Bad(history[l][i]), history[l][i].status = "rejected" => history[l][i].call = 0,
                      Executed(history[l][j]), \A k \in i + 1..j - 1 : ~Executed(history[l][k])
               PROVE  history[l][i].event \in history[l][j].cites
    BY DEF FailureAnswered
  <2>1. history[l] \in Seq(Records) /\ AnsweredAt(history[l])
    BY <1>0, RunFacts
  <2>2. DOMAIN history[l] = 1..Len(history[l]) /\ Len(history[l]) \in Nat
    BY <2>1
  <2>3. \A k \in DOMAIN history[l] : (i < k /\ k < j) => ~Executed(history[l][k])
    BY <2>2
  <2> QED
    BY <2>1, <2>3 DEF AnsweredAt, Owes
<1>2. OwedOnce
  <2> SUFFICES ASSUME NEW l \in Loops, unresolved[l] # NoEvent, pc[l] # "raised",
                      NEW j \in Source(history[l], unresolved[l]) + 1..Len(history[l]),
                      history[l][j].status = "succeeded"
               PROVE  unresolved[l] \notin history[l][j].cites
    BY DEF OwedOnce
  <2>1. history[l] \in Seq(Records) /\ OwedAt(history[l], pc[l], unresolved[l])
    BY <1>0, RunFacts
  <2>2. /\ DOMAIN history[l] = 1..Len(history[l]) /\ Len(history[l]) \in Nat
        /\ Source(history[l], unresolved[l]) \in 0..Len(history[l])
    BY <2>1, SourceIs
  <2>3. j \in DOMAIN history[l] /\ j > Source(history[l], unresolved[l])
    BY <2>2
  <2> QED
    BY <2>1, <2>3 DEF OwedAt
<1>3. VerifyExplained
  <2> SUFFICES ASSUME NEW l \in Loops, NEW i \in DOMAIN history[l], NEW j \in DOMAIN history[l],
                      i < j, Trained(history[l][i]), Verified(history[l][j]),
                      \A k \in i + 1..j - 1 : history[l][k].tool # "train"
               PROVE  history[l][j].obs = history[l][i].obs \/ LateIn(history, history[l][j].obs)
    BY DEF VerifyExplained, Trained, Verified, LateIn
  <2>1. history[l] \in Seq(Records)
    BY <1>0, RunFacts
  <2>2. DOMAIN history[l] = 1..Len(history[l]) /\ Len(history[l]) \in Nat
    BY <2>1
  <2>3. \A k \in DOMAIN history[l] : (i < k /\ k < j) => history[l][k].tool # "train"
    BY <2>2
  <2> QED
    BY <1>0, <2>3 DEF TrainingInv, VerifyOK, Late
<1>4. RecoveryExplained
  <2> SUFFICES ASSUME NEW l \in Loops
               PROVE  HasCausalRecovery(history[l]) <=>
                        \/ \E i, j \in DOMAIN history[l] :
                             /\ i < j /\ history[l][j].status = "succeeded"
                             /\ Bad(history[l][i]) /\ history[l][i].event \in history[l][j].cites
                        \/ \E i, j \in DOMAIN history[l] :
                             /\ i > j /\ history[l][j].status = "succeeded"
                             /\ Bad(history[l][i]) /\ history[l][i].event \in history[l][j].cites
    BY DEF RecoveryExplained, HasCausalRecovery
  <2>1. history[l] \in Seq(Records) /\ RecordsAt(history[l], pc[l], round[l])
    BY <1>0, RunFacts
  <2>2. \A i \in DOMAIN history[l] : i \in Nat
    BY <2>1
  <2>3. \A i, j \in DOMAIN history[l] : i # j <=> (i < j \/ i > j)
    BY <2>2
  <2>4. HasCausalRecovery(history[l]) <=>
          \E i, j \in DOMAIN history[l] : /\ i # j /\ history[l][j].status = "succeeded"
                                          /\ Bad(history[l][i])
                                          /\ history[l][i].event \in history[l][j].cites
    BY <2>1, RecoveryIs
  <2> QED
    BY <2>3, <2>4
<1>5. PassExplained
  <2> SUFFICES ASSUME NEW l \in Loops, Passed(l)
               PROVE  /\ \A k \in DOMAIN Required : \E j \in DOMAIN history[l] :
                           history[l][j].tool = Required[k] /\ Executed(history[l][j])
                      /\ (\E k \in DOMAIN history[l] : history[l][k].call = 0 /\ Bad(history[l][k])) =>
                           \E i, j \in DOMAIN history[l] :
                             /\ i < j /\ Bad(history[l][i]) /\ history[l][j].status = "succeeded"
                             /\ history[l][i].event \in history[l][j].cites
    BY DEF PassExplained
  <2>1. \A k \in DOMAIN Required : \E j \in DOMAIN history[l] :
          history[l][j].tool = Required[k] /\ Executed(history[l][j])
    BY DEF Passed, IsSubsequence, ToolRecords
  <2>2. ASSUME NEW k \in DOMAIN history[l], history[l][k].call = 0, Bad(history[l][k])
        PROVE  \E i, j \in DOMAIN history[l] :
                 /\ i < j /\ Bad(history[l][i]) /\ history[l][j].status = "succeeded"
                 /\ history[l][i].event \in history[l][j].cites
    <3>1. HasCausalRecovery(history[l])
      BY <2>2 DEF Passed, FailuresOf
    <3>2. PICK j \in DOMAIN history[l] : history[l][j].status = "succeeded"
      BY <3>1 DEF HasCausalRecovery
    <3>3. history[l] \in Seq(Records) /\ RecordsAt(history[l], pc[l], round[l]) /\ AnsweredAt(history[l])
      BY <1>0, RunFacts
    <3> QED
      BY <2>2, <3>2, <3>3, FirstSuccess
  <2> QED
    BY <2>1, <2>2
<1> QED
  BY <1>1, <1>2, <1>3, <1>4, <1>5, LoopTypeOK DEF HistoryTrue

\* What a run's history says is true: failures are answered in time, debts are real,
\* verifications are of the training before them, and the score credits recoveries
\* that took place, but for the exceptions that HistoryTrue names.
THEOREM HistoriesTrue == Spec => []HistoryTrue
<1> QED
  BY LoopInvariant, LoopHistoryTrue, PTL

\* A deleted run's memories are gone, and those of an action that ran are kept, but
\* for the exceptions that MemoryKept names.
THEOREM MemoriesKept == Spec => []MemoryKept
<1>1. LoopInv => MemoryKept
  BY DEF LoopInv, MemoryInv, MemoryKept
<1> QED
  BY <1>1, LoopInvariant, PTL

-----------------------------------------------------------------------------
(* The contexts *)

\* Only Plan lets a planner decide.
LEMMA DecidesByPlan ==
  ASSUME HistoryInv, [Next]_vars, NEW l \in Loops, pc[l] = "plan", pc'[l] = "decide"
  PROVE  Plan(l)
<1>0. DOMAIN pc = Loops
  BY DEF HistoryInv, LoopTypes
<1>1. ASSUME NEW k \in Loops, Train(k) \/ Verify(k) \/ ToolFails(k) \/ TimesOut(k) PROVE FALSE
  <2>1. PICK status, obs : ToolEnd(k, status, obs)
    BY <1>1, ToolsEnd
  <2>2. pc[k] = "tool" /\ \E q : pc' = [pc EXCEPT ![k] = q]
    BY <2>1 DEF ToolEnd, Observe
  <2> QED
    BY <1>0, <2>2
<1>2. CASE ThreadWrites \/ ThreadDies \/ Operator \/ Finished \/ UNCHANGED vars
  BY <1>2 DEF ThreadWrites, ThreadDies, Operator, Finished, vars, loopvars
<1>3. ASSUME NEW k \in Loops,
             PlannerErrs(k) \/ PlannerRaises(k) \/ PlannerStops(k) \/ Propose(k) \/ Reject(k)
      PROVE  FALSE
  <2>1. pc[k] = "decide" /\ \E q : pc' = [pc EXCEPT ![k] = q]
    BY <1>3 DEF PlannerErrs, PlannerRaises, PlannerStops, Propose, Reject
  <2> QED
    BY <1>0, <2>1
<1>4. ASSUME NEW k \in Loops, Plan(k) PROVE k = l
  BY <1>0, <1>4 DEF Plan
<1> QED
  BY <1>1, <1>2, <1>3, <1>4 DEF Next

\* The context that a planner is given.
LEMMA DecidesWith ==
  ASSUME HistoryInv, [Next]_vars, NEW l \in Loops, pc[l] = "plan", pc'[l] = "decide"
  PROVE  context'[l] \in Contexts(given[l].ns)
<1>1. Plan(l)
  BY DecidesByPlan
<1>2. DOMAIN context = Loops
  BY DEF HistoryInv, LoopTypes
<1> QED
  BY <1>1, <1>2 DEF Plan

LEMMA ContextRows ==
  ASSUME RowsOK, NEW ns, NEW I \in Contexts(ns), NEW i \in I
  PROVE  \E r \in rows : r.at = ns /\ Valid(r) /\ i = r.item
<1>0. PICK Q \in SUBSET Here(ns) : \E C \in SUBSET {r \in Q : Valid(r)} :
        /\ Cardinality(Q) = Smaller(Cardinality(Here(ns)), WindowSize)
        /\ Cardinality(C) = Smaller(Cardinality({r \in Q : Valid(r)}), TopK)
        /\ I = {r.item : r \in C}
  BY ContextIs
<1>1. PICK C \in SUBSET {r \in Q : Valid(r)} : I = {r.item : r \in C}
  BY <1>0
<1> QED
  BY <1>1 DEF Here

LEMMA ContextValidStep ==
  LoopInv /\ [Next]_vars =>
    \A l \in Loops : (pc[l] = "plan" /\ pc'[l] = "decide") =>
      \A i \in context'[l] : Ident(i) \in withdrawn => (backend = "langgraph" /\ Split(i.id[1]))
<1> SUFFICES ASSUME LoopInv, [Next]_vars, NEW l \in Loops, pc[l] = "plan", pc'[l] = "decide",
                    NEW i \in context'[l], Ident(i) \in withdrawn
             PROVE  backend = "langgraph" /\ Split(i.id[1])
  OBVIOUS
<1>1. HistoryInv /\ RowsOK /\ WithdrawnOK
  BY DEF LoopInv, MemoryInv
<1>2. context'[l] \in Contexts(given[l].ns)
  BY <1>1, DecidesWith
<1>3. PICK r \in rows : r.at = given[l].ns /\ Valid(r) /\ i = r.item
  BY <1>1, <1>2, ContextRows
<1> QED
  BY <1>1, <1>3 DEF WithdrawnOK

\* A withdrawn memory reaches no planner, but for the copies the side index hides.
THEOREM ContextsValid == Spec => ContextValid
<1>1. LoopInv /\ [Next]_vars =>
        [LET Fresh(l, i) == Ident(i) \in withdrawn => (backend = "langgraph" /\ Split(i.id[1]))
         IN ContextsOf(Fresh)]_vars
  BY ContextValidStep DEF ContextsOf
<1> QED
  BY <1>1, LoopInvariant, PTL DEF Spec, ContextValid

LEMMA ContextIsolatedStep ==
  LoopInv /\ [Next]_vars =>
    \A l \in Loops : (pc[l] = "plan" /\ pc'[l] = "decide") =>
      \A i \in context'[l] : i.ns = given[l].ns \/ (backend = "postgres" /\ Split(i.id[1]))
<1> SUFFICES ASSUME LoopInv, [Next]_vars, NEW l \in Loops, pc[l] = "plan", pc'[l] = "decide",
                    NEW i \in context'[l], i.ns # given[l].ns
             PROVE  backend = "postgres" /\ Split(i.id[1])
  OBVIOUS
<1>1. HistoryInv /\ RowsOK /\ OriginOK
  BY DEF LoopInv, MemoryInv
<1>2. context'[l] \in Contexts(given[l].ns)
  BY <1>1, DecidesWith
<1>3. PICK r \in rows : r.at = given[l].ns /\ i = r.item
  BY <1>1, <1>2, ContextRows
<1>4. r.at \in Homes(i.id[1]) /\ i.ns \in Homes(i.id[1])
  BY <1>1, <1>3, OriginHomes
<1>5. backend = "postgres"
  BY <1>1, <1>3 DEF OriginOK, Origin, RowsOK
<1> QED
  BY <1>3, <1>4, <1>5 DEF Split

\* A planner is given memories of its own namespace, but for a rewritten id that
\* Postgres keeps where it was first written.
THEOREM ContextsIsolated == Spec => ContextIsolated
<1>1. LoopInv /\ [Next]_vars =>
        [LET Own(l, i) == i.ns = given[l].ns \/ (backend = "postgres" /\ Split(i.id[1]))
         IN ContextsOf(Own)]_vars
  BY ContextIsolatedStep DEF ContextsOf
<1> QED
  BY <1>1, LoopInvariant, PTL DEF Spec, ContextIsolated

LEMMA PartsAdd ==
  ASSUME NEW S, IsFiniteSet(S), NEW A \in SUBSET S
  PROVE  Cardinality(S) = Cardinality(A) + Cardinality(S \ A)
<1> DEFINE B == S \ A
<1>1. A \cup B = S /\ A \cap B = {}
  OBVIOUS
<1>2. IsFiniteSet(A) /\ IsFiniteSet(B)
  BY FS_Subset
<1> HIDE DEF B
<1>3. Cardinality(A \cup B) = Cardinality(A) + Cardinality(B) - Cardinality(A \cap B)
  BY <1>2, FS_Union
<1>4. Cardinality(A \cap B) = 0
  BY <1>1, FS_EmptySet
<1>5. Cardinality(A) \in Nat /\ Cardinality(B) \in Nat
  BY <1>2, FS_CardinalityType
<1>6. Cardinality(S) = Cardinality(A) + Cardinality(B) - 0
  BY <1>1, <1>3, <1>4
<1>7. Cardinality(S) = Cardinality(A) + Cardinality(B)
  BY <1>5, <1>6
<1> QED
  BY <1>7 DEF B

\* Where valid rows are withheld, withdrawn ones fill the window.
LEMMA Crowding ==
  ASSUME RowsOK, NEW ns, NEW I \in Contexts(ns)
  PROVE  LET valid == {r \in Here(ns) : Valid(r)}
         IN \/ Cardinality(I) = TopK
            \/ Cardinality(I) = Cardinality(valid)
            \/ /\ Cardinality(Here(ns)) > Window * TopK
               /\ Cardinality(Here(ns) \ valid) > (Window - 1) * TopK
<1> DEFINE R == Here(ns)
           valid == {r \in R : Valid(r)}
<1>0. PICK Q \in SUBSET R : \E C \in SUBSET {r \in Q : Valid(r)} :
        /\ Cardinality(Q) = Smaller(Cardinality(R), WindowSize)
        /\ Cardinality(C) = Smaller(Cardinality({r \in Q : Valid(r)}), TopK)
        /\ I = {r.item : r \in C}
  BY ContextIs, SMTT(60)
<1> DEFINE V == {r \in Q : Valid(r)}
<1>1. PICK C \in SUBSET V :
        /\ Cardinality(Q) = Smaller(Cardinality(R), WindowSize)
        /\ Cardinality(C) = Smaller(Cardinality(V), TopK)
        /\ I = {r.item : r \in C}
  BY <1>0
<1>2. /\ R \in SUBSET rows /\ Q \in SUBSET rows /\ V \in SUBSET rows /\ C \in SUBSET rows
      /\ R \ valid \in SUBSET rows /\ Q \ V \in SUBSET rows
  BY DEF Here
<1>3. /\ Cardinality(R) \in Nat /\ Cardinality(Q) \in Nat /\ Cardinality(V) \in Nat
      /\ Cardinality(C) \in Nat /\ Cardinality(R \ valid) \in Nat /\ Cardinality(Q \ V) \in Nat
      /\ IsFiniteSet(R) /\ IsFiniteSet(Q) /\ IsFiniteSet(V) /\ IsFiniteSet(R \ valid) /\ IsFiniteSet(Q \ V)
  BY <1>2, ItemsOf
<1>4. Cardinality(I) = Cardinality(C)
  <2>1. \A r, q \in C : r.item = q.item => r = q
    BY DEF RowsOK, Here
  <2> QED
    BY <1>1, <1>2, <2>1, ItemsOf
<1>5. TopK \in Nat \ {0} /\ Window \in Nat \ {0} /\ WindowSize = Window * TopK /\ WindowSize \in Nat
  BY MemoryAssumption DEF WindowSize
<1>6. CASE Cardinality(C) = TopK
  BY <1>4, <1>6
<1>7. CASE Cardinality(C) = Cardinality(V) /\ Cardinality(V) < TopK /\ Cardinality(R) <= WindowSize
  <2>1. Cardinality(Q) = Cardinality(R)
    BY <1>1, <1>3, <1>5, <1>7 DEF Smaller
  <2>2. Q = R
    BY <1>3, <2>1, FS_Subset
  <2>3. V = valid
    BY <2>2
  <2> QED
    BY <1>4, <1>7, <2>3
<1>8. CASE Cardinality(C) = Cardinality(V) /\ Cardinality(V) < TopK /\ Cardinality(R) > WindowSize
  <2>1. Cardinality(Q) = WindowSize
    BY <1>1, <1>3, <1>5, <1>8 DEF Smaller
  <2>5. Cardinality(Q) = Cardinality(V) + Cardinality(Q \ V)
    <3>1. V \in SUBSET Q
      OBVIOUS
    <3> HIDE DEF V
    <3> QED
      BY <1>3, <3>1, PartsAdd
  <2>6. Q \ V \in SUBSET (R \ valid)
    OBVIOUS
  <2>7. Cardinality(Q \ V) <= Cardinality(R \ valid)
    BY <1>3, <2>6, FS_Subset
  <2>8. (Window - 1) * TopK = Window * TopK - TopK
    BY <1>5
  <2> DEFINE w == Window * TopK
             w1 == (Window - 1) * TopK
             x == Cardinality(R \ valid)
             y == Cardinality(Q \ V)
             v == Cardinality(V)
  <2>9. w \in Nat /\ TopK \in Nat /\ x \in Nat /\ y \in Nat /\ v \in Nat /\ w1 = w - TopK
        /\ v < TopK /\ w = v + y /\ y <= x
    BY <1>3, <1>5, <1>8, <2>1, <2>5, <2>7, <2>8
  <2> HIDE DEF w, w1, x, y, v
  <2>10. x > w1
    BY <2>9
  <2> QED
    BY <1>5, <1>8, <2>10 DEF x, w1
<1> QED
  BY <1>1, <1>3, <1>5, <1>6, <1>7, <1>8 DEF Smaller

LEMMA CrowdingStep ==
  LoopInv /\ [Next]_vars =>
    \A l \in Loops : (pc[l] = "plan" /\ pc'[l] = "decide") =>
       LET here == {r \in rows : r.at = given[l].ns}
           valid == {r \in here : Valid(r)}
       IN \/ Cardinality(context'[l]) = TopK
          \/ Cardinality(context'[l]) = Cardinality(valid)
          \/ /\ Cardinality(here) > Window * TopK
             /\ Cardinality(here \ valid) > (Window - 1) * TopK
<1> SUFFICES ASSUME LoopInv, [Next]_vars, NEW l \in Loops, pc[l] = "plan", pc'[l] = "decide"
             PROVE  LET here == Here(given[l].ns)
                        valid == {r \in here : Valid(r)}
                    IN \/ Cardinality(context'[l]) = TopK
                       \/ Cardinality(context'[l]) = Cardinality(valid)
                       \/ /\ Cardinality(here) > Window * TopK
                          /\ Cardinality(here \ valid) > (Window - 1) * TopK
  BY DEF Here
<1>1. HistoryInv /\ RowsOK
  BY DEF LoopInv, MemoryInv
<1>2. context'[l] \in Contexts(given[l].ns)
  BY <1>1, DecidesWith
<1> QED
  BY <1>1, <1>2, Crowding

\* Valid memories are withheld only when invalidated ones fill the rows asked for.
THEOREM CrowdingIsExplained == Spec => CrowdingExplained
<1>1. LoopInv /\ [Next]_vars =>
        [\A l \in Loops : (pc[l] = "plan" /\ pc'[l] = "decide") =>
           LET here == {r \in rows : r.at = given[l].ns}
               valid == {r \in here : Valid(r)}
           IN \/ Cardinality(context'[l]) = TopK
              \/ Cardinality(context'[l]) = Cardinality(valid)
              \/ /\ Cardinality(here) > Window * TopK
                 /\ Cardinality(here \ valid) > (Window - 1) * TopK]_vars
  BY CrowdingStep
<1> QED
  BY <1>1, LoopInvariant, PTL DEF Spec, CrowdingExplained

\* The three together, as the runs check them.
THEOREM ContextsSound == Spec => ContextSound
  BY ContextsValid, ContextsIsolated, CrowdingIsExplained DEF ContextSound

-----------------------------------------------------------------------------
(* Every run and every call ends *)

\* The steps still to go, where each k of f's domain has f[k] of them.
StepsToGo(f) == UNION {{k} \X (1..f[k]) : k \in DOMAIN f}

LEMMA StepsFinite ==
  ASSUME NEW K, IsFiniteSet(K), NEW f \in [K -> Nat]
  PROVE  IsFiniteSet(StepsToGo(f)) /\ Cardinality(StepsToGo(f)) \in Nat
<1> DEFINE part == [k \in K |-> {k} \X (1..f[k])]
           parts == {part[k] : k \in K}
<1>1. IsFiniteSet(parts)
  <2>1. DOMAIN part = K
    OBVIOUS
  <2> HIDE DEF part
  <2> QED
    BY <2>1, ImageFinite
<1>2. ASSUME NEW k \in K PROVE IsFiniteSet(part[k])
  <2>1. f[k] \in Int /\ 1 \in Int
    OBVIOUS
  <2>2. IsFiniteSet({k}) /\ IsFiniteSet(1..f[k])
    BY <2>1, FS_Singleton, FS_Interval
  <2>3. IsFiniteSet({k} \X (1..f[k]))
    BY <2>2, FS_Product
  <2> QED
    BY <2>3
<1>3. StepsToGo(f) = UNION parts
  BY DEF StepsToGo
<1> HIDE DEF part
<1>4. \A T \in parts : IsFiniteSet(T)
  BY <1>2
<1> HIDE DEF parts
<1>5. IsFiniteSet(UNION parts)
  BY <1>1, <1>4, FS_UNION
<1> QED
  BY <1>3, <1>5, FS_CardinalityType

\* Where no k has more steps to go, and one has at least n less, n are done.
LEMMA StepsFall ==
  ASSUME NEW K, IsFiniteSet(K), NEW f \in [K -> Nat], NEW g \in [K -> Nat],
         \A k \in K : g[k] <= f[k],
         NEW m \in K, NEW n \in Nat, g[m] + n <= f[m]
  PROVE  Cardinality(StepsToGo(g)) + n <= Cardinality(StepsToGo(f))
<1> DEFINE F == StepsToGo(f)
           G == StepsToGo(g)
           D == {m} \X (g[m] + 1..f[m])
<1>1. \A x : x \in F <=> \E k \in K : x \in {k} \X (1..f[k])
  BY DEF StepsToGo
<1>2. \A x : x \in G <=> \E k \in K : x \in {k} \X (1..g[k])
  BY DEF StepsToGo
<1>3. \A k \in K : 1..g[k] \subseteq 1..f[k]
  OBVIOUS
<1>4. G \in SUBSET F
  BY <1>1, <1>2, <1>3
<1>5. D \subseteq F \ G
  <2> SUFFICES ASSUME NEW x \in D PROVE x \in F /\ x \notin G
    OBVIOUS
  <2>1. x[1] = m /\ x[2] \in g[m] + 1..f[m] /\ x = <<m, x[2]>> /\ x[2] \in 1..f[m] /\ x[2] \notin 1..g[m]
    OBVIOUS
  <2>2. x \in {m} \X (1..f[m])
    BY <2>1
  <2>3. ASSUME NEW k \in K, x \in {k} \X (1..g[k]) PROVE FALSE
    <3>1. x[1] = k /\ x[2] \in 1..g[k]
      BY <2>3
    <3> QED
      BY <2>1, <3>1
  <2> QED
    BY <1>1, <1>2, <2>2, <2>3
<1>6. IsFiniteSet(F) /\ Cardinality(F) \in Nat /\ IsFiniteSet(G) /\ Cardinality(G) \in Nat
  BY StepsFinite
<1>7. /\ IsFiniteSet({m}) /\ Cardinality({m}) = 1 /\ IsFiniteSet(g[m] + 1..f[m])
      /\ Cardinality(g[m] + 1..f[m]) = f[m] - g[m]
  <2>1. g[m] \in Nat /\ f[m] \in Nat /\ g[m] + 1 \in Int /\ f[m] \in Int
    OBVIOUS
  <2>2. /\ IsFiniteSet(g[m] + 1..f[m])
        /\ Cardinality(g[m] + 1..f[m]) = IF g[m] + 1 > f[m] THEN 0 ELSE f[m] - (g[m] + 1) + 1
    BY <2>1, FS_Interval
  <2>3. (IF g[m] + 1 > f[m] THEN 0 ELSE f[m] - (g[m] + 1) + 1) = f[m] - g[m]
    BY <2>1
  <2>4. IsFiniteSet({m}) /\ Cardinality({m}) = 1
    BY FS_Singleton
  <2> QED
    BY <2>2, <2>3, <2>4
<1>8. Cardinality(D) = f[m] - g[m]
  <2>1. Cardinality(D) = Cardinality({m}) * Cardinality(g[m] + 1..f[m])
    BY <1>7, FS_Product
  <2> QED
    BY <1>7, <2>1
<1> HIDE DEF D, F, G
<1>9. IsFiniteSet(F \ G) /\ Cardinality(F \ G) \in Nat
  BY <1>6, FS_Subset, FS_CardinalityType
<1>10. Cardinality(D) <= Cardinality(F \ G)
  BY <1>5, <1>9, FS_Subset
<1>11. Cardinality(F) = Cardinality(G) + Cardinality(F \ G)
  BY <1>4, <1>6, PartsAdd
<1> QED
  BY <1>6, <1>8, <1>9, <1>10, <1>11 DEF F, G

\* How many steps each job has still to go.
JobSteps == [j \in Jobs |-> QueueRank(job[j])]

LEMMA QueueLeftIs ==
  ASSUME QueueTypes
  PROVE  /\ JobSteps \in [Jobs -> Nat] /\ MaxCalls - calls \in Nat
         /\ QueueLeft = MaxCalls - calls + Cardinality(StepsToGo(JobSteps))
         /\ QueueLeft \in Nat
<1>1. JobSteps \in [Jobs -> Nat]
  BY DEF JobSteps, QueueRank
<1>2. MaxCalls - calls \in Nat
  BY QueueAssumption DEF QueueTypes
<1>3. UNION {{j} \X (1..QueueRank(job[j])) : j \in DOMAIN job} = StepsToGo(JobSteps)
  BY JobSets DEF StepsToGo, JobSteps
<1>4. Cardinality(StepsToGo(JobSteps)) \in Nat
  BY <1>1, JobSets, StepsFinite
<1>5. QueueLeft = MaxCalls - calls + Cardinality(StepsToGo(JobSteps))
  BY <1>3 DEF QueueLeft
<1> QED
  BY <1>1, <1>2, <1>4, <1>5

LEMMA QueueLeftNext ==
  QueueTypes' => (/\ JobSteps \in [Jobs -> Nat] /\ MaxCalls - calls \in Nat
                  /\ QueueLeft = MaxCalls - calls + Cardinality(StepsToGo(JobSteps))
                  /\ QueueLeft \in Nat)'
<1>1. QueueTypes => /\ JobSteps \in [Jobs -> Nat] /\ MaxCalls - calls \in Nat
                    /\ QueueLeft = MaxCalls - calls + Cardinality(StepsToGo(JobSteps))
                    /\ QueueLeft \in Nat
  BY QueueLeftIs
<1> QED
  BY <1>1, PTL

\* A step that brings no job back, and one job nearer to its end.
LEMMA JobsNearEnd ==
  ASSUME QueueTypes, QueueTypes', NEW n \in Nat, Jobs' = Jobs,
         \A j \in Jobs : QueueRank(job'[j]) <= QueueRank(job[j]),
         NEW k \in Jobs, QueueRank(job'[k]) + n <= QueueRank(job[k]),
         MaxCalls - calls' + 1 <= MaxCalls - calls + n
  PROVE  QueueLeft' \in 0..QueueLeft - 1
<1>1. JobSteps \in [Jobs -> Nat] /\ JobSteps' \in [Jobs -> Nat] /\ IsFiniteSet(Jobs)
  BY QueueLeftIs, JobSets DEF JobSteps, QueueRank
<1>2. \A j \in Jobs : JobSteps[j] = QueueRank(job[j]) /\ JobSteps'[j] = QueueRank(job'[j])
  BY DEF JobSteps
<1>3. \A j \in Jobs : JobSteps'[j] <= JobSteps[j]
  BY <1>2
<1>4. JobSteps'[k] + n <= JobSteps[k]
  BY <1>2
<1> DEFINE old == Cardinality(StepsToGo(JobSteps))
           new == Cardinality(StepsToGo(JobSteps'))
<1>5. old \in Nat /\ new \in Nat
  BY <1>1, StepsFinite
<1>6. new + n <= old
  BY <1>1, <1>3, <1>4, StepsFall
<1>7. QueueLeft = MaxCalls - calls + old /\ MaxCalls - calls \in Nat /\ QueueLeft \in Nat
  BY QueueLeftIs
<1>8. QueueLeft' = MaxCalls - calls' + new /\ MaxCalls - calls' \in Nat
  BY QueueLeftNext
<1> HIDE DEF old, new
<1> QED
  BY <1>5, <1>6, <1>7, <1>8

LEMMA CallNearsEnd ==
  ASSUME QueueInv, QueueInv', Call
  PROVE  QueueLeft' \in 0..QueueLeft - 1
<1>0. QueueTypes /\ QueueTypes'
  BY DEF QueueInv
<1>1. /\ calls' = calls + 1 /\ calls < MaxCalls /\ tasks # <<>> /\ Jobs' = Jobs
      /\ DOMAIN tasks = 1..Len(tasks) /\ Len(tasks) \in Nat /\ calls \in Nat /\ MaxCalls \in Nat
  BY <1>0, QueueAssumption DEF Call, QueueTypes, Jobs
<1>2. \A j \in Jobs : job'[j] = (IF j[1] = calls + 1 THEN "ready" ELSE job[j])
  BY <1>0, <1>1, JobSets DEF Call
<1>3. \A j \in Jobs : j[1] = calls + 1 => job[j] = "none"
  <2> SUFFICES ASSUME NEW j \in Jobs, j[1] = calls + 1 PROVE job[j] = "none"
    OBVIOUS
  <2>1. j[1] > calls
    BY <1>1
  <2> QED
    BY <2>1 DEF QueueInv, CallsOK
<1>4. ASSUME NEW n \in Nat, NEW k \in Jobs, k[1] = calls + 1 => n <= 1, k[1] # calls + 1 => n = 0
      PROVE QueueRank(job'[k]) + n <= QueueRank(job[k])
  <2>1. CASE k[1] = calls + 1
    BY <1>2, <1>3, <1>4, <2>1 DEF QueueRank
  <2>2. CASE k[1] # calls + 1
    BY <1>2, <1>4, <2>2 DEF QueueRank
  <2> QED
    BY <2>1, <2>2
<1>5. \A j \in Jobs : QueueRank(job'[j]) <= QueueRank(job[j])
  <2> SUFFICES ASSUME NEW j \in Jobs PROVE QueueRank(job'[j]) <= QueueRank(job[j])
    OBVIOUS
  <2>1. QueueRank(job'[j]) + 0 <= QueueRank(job[j])
    BY <1>4
  <2> QED
    BY <2>1 DEF QueueRank
<1>6. <<calls + 1, 1>> \in Jobs
  <2>1. Len(tasks) > 0
    BY <1>0, <1>1 DEF QueueTypes
  <2> QED
    BY <1>1, <2>1 DEF Jobs
<1>7. QueueRank(job'[<<calls + 1, 1>>]) + 1 <= QueueRank(job[<<calls + 1, 1>>])
  BY <1>4, <1>6
<1>8. MaxCalls - calls' + 1 <= MaxCalls - calls + 1
  BY <1>1
<1> QED
  BY <1>0, <1>1, <1>5, <1>6, <1>7, <1>8, JobsNearEnd

LEMMA MoveNearsEnd ==
  ASSUME QueueTypes, QueueTypes', NEW j, NEW x, Moves(j, x), QueueRank(x) + 1 <= QueueRank(job[j])
  PROVE  QueueLeft' \in 0..QueueLeft - 1
<1>1. Jobs' = Jobs /\ j \in Jobs /\ job'[j] = x /\ (\A k \in Jobs : k # j => job'[k] = job[k])
      /\ calls' = calls /\ calls \in Nat /\ MaxCalls \in Nat
  BY MoveJobs, QueueAssumption DEF Moves, QueueTypes
<1>2. \A k \in Jobs : QueueRank(job'[k]) <= QueueRank(job[k])
  <2> SUFFICES ASSUME NEW k \in Jobs PROVE QueueRank(job'[k]) <= QueueRank(job[k])
    OBVIOUS
  <2>1. QueueRank(x) \in Nat /\ QueueRank(job[j]) \in Nat /\ QueueRank(job[k]) \in Nat
    BY DEF QueueRank
  <2>2. CASE k = j
    BY <1>1, <2>1, <2>2
  <2>3. CASE k # j
    BY <1>1, <2>1, <2>3
  <2> QED
    BY <2>2, <2>3
<1>3. QueueRank(job'[j]) + 1 <= QueueRank(job[j]) /\ MaxCalls - calls' + 1 <= MaxCalls - calls + 1
  BY <1>1
<1> QED
  BY <1>1, <1>2, <1>3, JobsNearEnd

LEMMA QueueStepEnds == QueueInv /\ QueueInv' /\ [QueueNext]_queuevars => [QueueLeft' \in 0..QueueLeft - 1]_queuevars
<1> SUFFICES ASSUME QueueInv, QueueInv', QueueNext PROVE QueueLeft' \in 0..QueueLeft - 1
  OBVIOUS
<1>0. QueueTypes /\ QueueTypes'
  BY DEF QueueInv
<1>1. CASE Call
  BY <1>1, CallNearsEnd
<1>2. ASSUME NEW j \in DOMAIN job, Start(j) PROVE QueueLeft' \in 0..QueueLeft - 1
  <2> DEFINE free == Permits(j[1]) > 0 /\ line[j[1]] = <<>>
             x == IF Skips(j) THEN "resumed" ELSE IF free THEN Admitted(j) ELSE "waiting"
  <2>1. x \in {"resumed", "waiting", "budget_exceeded", "raised", "running"}
    BY <1>0, AdmittedState
  <2>2. j \in Jobs /\ job[j] = "ready" /\ job' = [job EXCEPT ![j] = x] /\ UNCHANGED <<tasks, calls>>
    BY <1>0, <1>2, JobSets DEF Start
  <2> HIDE DEF x
  <2>3. Moves(j, x) /\ QueueRank(x) + 1 <= QueueRank(job[j])
    BY <2>1, <2>2 DEF Moves, Going, JobStates, Outcomes, QueueRank
  <2> QED
    BY <1>0, <2>3, MoveNearsEnd
<1>3. ASSUME NEW j \in DOMAIN job, ToolEnds(j) PROVE QueueLeft' \in 0..QueueLeft - 1
  <2>1. PICK x \in Outcomes : job' = [job EXCEPT ![j] = x]
    BY <1>3 DEF ToolEnds
  <2>2. j \in Jobs /\ job[j] = "running" /\ UNCHANGED <<tasks, calls>>
    BY <1>0, <1>3, JobSets DEF ToolEnds
  <2>3. Moves(j, x) /\ QueueRank(x) + 1 <= QueueRank(job[j])
    BY <2>1, <2>2 DEF Moves, Going, JobStates, Outcomes, QueueRank
  <2> QED
    BY <1>0, <2>3, MoveNearsEnd
<1>4. ASSUME NEW c \in 1..calls, Enter(c) PROVE QueueLeft' \in 0..QueueLeft - 1
  <2> DEFINE j == Head(line[c])
             x == Admitted(j)
  <2>1. c \in 1..MaxCalls
    BY <1>0, QueueAssumption DEF QueueTypes
  <2>2. line[c] \in Seq(Jobs) /\ line[c] # <<>>
    BY <1>0, <1>4, <2>1 DEF QueueTypes, Enter
  <2>3. 1 \in DOMAIN line[c] /\ j = line[c][1] /\ j \in Jobs
    BY <2>2
  <2>4. job[j] = "waiting"
    BY <2>1, <2>3 DEF QueueInv, LinesOK
  <2>5. job' = [job EXCEPT ![j] = x] /\ UNCHANGED <<tasks, calls>>
    BY <1>4 DEF Enter
  <2>6. x \in {"budget_exceeded", "raised", "running"}
    BY <1>0, AdmittedState
  <2> HIDE DEF x, j
  <2>7. Moves(j, x) /\ QueueRank(x) + 1 <= QueueRank(job[j])
    BY <2>3, <2>4, <2>5, <2>6 DEF Moves, Going, JobStates, Outcomes, QueueRank
  <2> QED
    BY <1>0, <2>7, MoveNearsEnd
<1> QED
  BY <1>1, <1>2, <1>3, <1>4 DEF QueueNext

\* execution_queue.py:60, for all lists of tasks and all limits: every step brings
\* the calls nearer to their end, so that no task waits for a permit that nobody
\* returns and no more than QueueLeft steps can follow.
THEOREM QueueCallsEnd == QueueSpec => QueueEnds
<1>1. QueueInit => QueueInvAll
  BY QueueInitInv
<1>2. QueueInvAll => QueueInv
  BY DEF QueueInvAll
<1> QED
  BY <1>1, <1>2, QueueStepInv, QueueStepEnds, PTL DEF QueueSpec, QueueEnds

\* How many steps each run has still to go.
RankAt(p, n, max) ==
  IF p \in Ended THEN 0
  ELSE 4 * (max - n) + (CASE p = "plan" -> 1 [] p = "decide" -> 4 [] p = "tool" -> 3)
RunSteps == [l \in Loops |-> Rank(l)]

LEMMA RankIs ==
  ASSUME HistoryInv, NEW l \in Loops
  PROVE  Rank(l) = RankAt(pc[l], round[l], given[l].max_actions) /\ Rank(l) \in Nat
<1>1. round[l] \in Nat /\ given[l].max_actions \in Nat /\ round[l] <= given[l].max_actions
  BY RunFacts DEF StageAt
<1>2. given[l].max_actions - round[l] \in Nat
  BY <1>1
<1>3. pc[l] \in Ended \/ pc[l] \in {"plan", "decide", "tool"}
  BY RunFacts DEF Stages
<1>4. Rank(l) = RankAt(pc[l], round[l], given[l].max_actions)
  BY DEF Rank, RankAt
<1> DEFINE left == given[l].max_actions - round[l]
<1>5. left \in Nat
  BY <1>2
<1> HIDE DEF left
<1>6. Rank(l) = IF pc[l] \in Ended THEN 0
                ELSE 4 * left + (CASE pc[l] = "plan" -> 1 [] pc[l] = "decide" -> 4 [] pc[l] = "tool" -> 3)
  BY DEF Rank, left
<1> QED
  BY <1>3, <1>4, <1>5, <1>6 DEF Ended

LEMMA RankNext ==
  \A l \in Loops : Rank(l)' = RankAt(pc'[l], round'[l], given'[l].max_actions)
  BY DEF Rank, RankAt

LEMMA AbandonedFinite ==
  ASSUME HistoryInv, DiskOK
  PROVE  IsFiniteSet(abandoned) /\ Cardinality(abandoned) \in Nat
<1> DEFINE most == [l \in Loops |-> given[l].max_actions]
<1>1. most \in [Loops -> Nat] /\ IsFiniteSet(Loops)
  BY RunFacts, LoopAssumption, FS_Interval DEF Loops
<1>2. ASSUME NEW e \in abandoned PROVE e \in StepsToGo(most)
  <2>1. e \in Loops \X Nat /\ e[2] \in 1..given[e[1]].max_actions
    BY <1>2 DEF HistoryInv, LoopTypes, DiskOK
  <2>2. e[1] \in Loops /\ e = <<e[1], e[2]>> /\ e[2] \in 1..most[e[1]]
    BY <2>1
  <2>3. e \in {e[1]} \X (1..most[e[1]])
    BY <2>2
  <2> QED
    BY <2>2, <2>3 DEF StepsToGo
<1> HIDE DEF most
<1>3. IsFiniteSet(StepsToGo(most))
  BY <1>1, StepsFinite
<1>4. abandoned \in SUBSET StepsToGo(most)
  BY <1>2
<1>5. IsFiniteSet(abandoned)
  BY <1>3, <1>4, FS_Subset
<1> QED
  BY <1>5, FS_CardinalityType

LEMMA LeftIs ==
  HistoryInv /\ DiskOK =>
    /\ RunSteps \in [Loops -> Nat] /\ Cardinality(StepsToGo(RunSteps)) \in Nat
    /\ IsFiniteSet(abandoned) /\ Cardinality(abandoned) \in Nat
    /\ Left = Cardinality(StepsToGo(RunSteps)) + Cardinality(abandoned)
<1> SUFFICES ASSUME HistoryInv, DiskOK
             PROVE  /\ RunSteps \in [Loops -> Nat] /\ Cardinality(StepsToGo(RunSteps)) \in Nat
                    /\ IsFiniteSet(abandoned) /\ Cardinality(abandoned) \in Nat
                    /\ Left = Cardinality(StepsToGo(RunSteps)) + Cardinality(abandoned)
  OBVIOUS
<1>1. RunSteps \in [Loops -> Nat]
  BY RankIs DEF RunSteps
<1>2. IsFiniteSet(Loops)
  BY LoopAssumption, FS_Interval DEF Loops
<1>3. UNION {{l} \X (1..Rank(l)) : l \in Loops} = StepsToGo(RunSteps)
  BY DEF StepsToGo, RunSteps
<1>4. Left = Cardinality(StepsToGo(RunSteps)) + Cardinality(abandoned)
  BY <1>3 DEF Left
<1>5. Cardinality(StepsToGo(RunSteps)) \in Nat
  BY <1>1, <1>2, StepsFinite
<1> QED
  BY <1>1, <1>4, <1>5, AbandonedFinite

LEMMA LeftIsNext ==
  (HistoryInv /\ DiskOK)' =>
    (/\ RunSteps \in [Loops -> Nat] /\ Cardinality(StepsToGo(RunSteps)) \in Nat
     /\ IsFiniteSet(abandoned) /\ Cardinality(abandoned) \in Nat
     /\ Left = Cardinality(StepsToGo(RunSteps)) + Cardinality(abandoned))'
  BY LeftIs, PTL

\* A step of a run: an execution that it abandons costs one of the two steps it
\* comes nearer to its end.
LEMMA RunNearsEnd ==
  ASSUME HistoryInv, DiskOK, HistoryInv', DiskOK', NEW l \in Loops,
         \A k \in Loops : k # l => pc'[k] = pc[k] /\ round'[k] = round[k], UNCHANGED given,
         NEW n \in {0, 1}, Rank(l)' + 1 + n <= Rank(l),
         NEW e, n = 0 => abandoned' \subseteq abandoned, n = 1 => abandoned' \subseteq abandoned \cup {e}
  PROVE  Left' \in 0..Left - 1
<1> DEFINE old == Cardinality(StepsToGo(RunSteps))
           new == Cardinality(StepsToGo(RunSteps'))
           olds == Cardinality(abandoned)
           news == Cardinality(abandoned')
<1>1. /\ RunSteps \in [Loops -> Nat] /\ old \in Nat /\ olds \in Nat /\ IsFiniteSet(abandoned)
      /\ Left = old + olds
  BY LeftIs
<1>2. /\ RunSteps' \in [Loops -> Nat] /\ new \in Nat /\ news \in Nat /\ IsFiniteSet(abandoned')
      /\ Left' = new + news
  BY LeftIsNext
<1>3. ASSUME NEW k \in Loops, k # l PROVE RunSteps'[k] = RunSteps[k]
  <2>1. Rank(k)' = Rank(k)
    BY <1>3, RankIs, RankNext
  <2> QED
    BY <2>1 DEF RunSteps
<1>4. RunSteps[l] = Rank(l) /\ RunSteps'[l] = Rank(l)'
  BY DEF RunSteps
<1>5. RunSteps'[l] + (1 + n) <= RunSteps[l] /\ 1 + n \in Nat
  BY <1>1, <1>2, <1>4
<1>6. \A k \in Loops : RunSteps'[k] <= RunSteps[k]
  BY <1>1, <1>2, <1>3, <1>5
<1>7. IsFiniteSet(Loops)
  BY LoopAssumption, FS_Interval DEF Loops
<1>8. new + (1 + n) <= old
  BY <1>1, <1>2, <1>5, <1>6, <1>7, StepsFall
<1>9. news <= olds + n
  <2>1. CASE n = 0
    <3>1. abandoned' \in SUBSET abandoned
      BY <2>1
    <3>2. news <= olds
      BY <1>1, <3>1, FS_Subset
    <3> QED
      BY <1>1, <1>2, <2>1, <3>2
  <2>2. CASE n = 1
    <3>0. IsFiniteSet(abandoned \cup {e})
          /\ Cardinality(abandoned \cup {e}) = IF e \in abandoned THEN olds ELSE olds + 1
      BY <1>1, FS_AddElement
    <3>1. IsFiniteSet(abandoned \cup {e}) /\ Cardinality(abandoned \cup {e}) <= olds + 1
          /\ Cardinality(abandoned \cup {e}) \in Nat
      BY <1>1, <3>0
    <3>2. abandoned' \in SUBSET (abandoned \cup {e})
      BY <2>2
    <3>3. news <= Cardinality(abandoned \cup {e})
      BY <3>1, <3>2, FS_Subset
    <3> QED
      BY <1>1, <1>2, <2>2, <3>1, <3>3
  <2> QED
    BY <2>1, <2>2
<1> HIDE DEF old, new, olds, news
<1> QED
  BY <1>1, <1>2, <1>8, <1>9

LEMMA ThreadNearsEnd ==
  ASSUME HistoryInv, DiskOK, HistoryInv', DiskOK', ThreadWrites \/ ThreadDies
  PROVE  Left' \in 0..Left - 1
<1> DEFINE old == Cardinality(StepsToGo(RunSteps))
           new == Cardinality(StepsToGo(RunSteps'))
<1>1. old \in Nat /\ IsFiniteSet(abandoned) /\ Cardinality(abandoned) \in Nat /\ Left = old + Cardinality(abandoned)
  BY LeftIs
<1>2. Left' = new + Cardinality(abandoned')
  BY LeftIsNext
<1>3. RunSteps' = RunSteps
  <2>1. \A l \in Loops : Rank(l)' = Rank(l)
    BY ThreadsTyped, RankIs, RankNext
  <2> QED
    BY <2>1 DEF RunSteps
<1>4. PICK e \in abandoned : abandoned' = abandoned \ {e}
  BY DEF ThreadWrites, ThreadDies
<1>5. Cardinality(abandoned \ {e}) = Cardinality(abandoned) - 1
  BY <1>1, FS_RemoveElement
<1>6. IsFiniteSet(abandoned \ {e})
  BY <1>1, FS_RemoveElement
<1>7. Cardinality(abandoned \ {e}) \in Nat
  BY <1>6, FS_CardinalityType
<1>8. new = old
  BY <1>3
<1> HIDE DEF old, new
<1> QED
  BY <1>1, <1>2, <1>4, <1>5, <1>7, <1>8

\* What a run's step does to where it is.
LEMMA RankFalls ==
  ASSUME HistoryInv, NEW l \in Loops, NEW p, NEW m, NEW n \in {0, 1}, UNCHANGED given,
         pc' = [pc EXCEPT ![l] = p], round' = [round EXCEPT ![l] = m], m \in Nat, m <= given[l].max_actions,
         RankAt(p, m, given[l].max_actions) + 1 + n <= RankAt(pc[l], round[l], given[l].max_actions)
  PROVE  /\ Rank(l)' + 1 + n <= Rank(l)
         /\ \A k \in Loops : k # l => pc'[k] = pc[k] /\ round'[k] = round[k]
<1>1. DOMAIN pc = Loops /\ DOMAIN round = Loops
  BY DEF HistoryInv, LoopTypes
<1>2. pc'[l] = p /\ round'[l] = m
  BY <1>1
<1>3. Rank(l)' = RankAt(p, m, given[l].max_actions)
  BY <1>2, RankNext
<1> QED
  BY <1>1, <1>3, RankIs

LEMMA RunStepNearsEnd ==
  ASSUME HistoryInv, DiskOK, HistoryInv', DiskOK', NEW l \in Loops,
         \/ Plan(l) \/ PlannerErrs(l) \/ PlannerRaises(l) \/ PlannerStops(l)
         \/ Propose(l) \/ Reject(l)
         \/ Train(l) \/ Verify(l) \/ ToolFails(l) \/ TimesOut(l)
  PROVE  Left' \in 0..Left - 1
<1> DEFINE max == given[l].max_actions
           r == round[l]
<1>1. r \in Nat /\ max \in Nat /\ r <= max /\ (pc[l] = "plan" => r < max)
      /\ DOMAIN pc = Loops /\ DOMAIN round = Loops /\ round = [round EXCEPT ![l] = r]
  BY RunFacts DEF StageAt, HistoryInv, LoopTypes
<1>2. CASE Plan(l)
  <2>1. pc[l] = "plan" /\ pc' = [pc EXCEPT ![l] = "decide"] /\ round' = [round EXCEPT ![l] = r + 1]
        /\ UNCHANGED <<given, abandoned>>
    BY <1>2 DEF Plan
  <2> HIDE DEF max, r
  <2>2. RankAt("decide", r + 1, max) + 1 + 0 <= RankAt("plan", r, max) /\ r + 1 \in Nat /\ r + 1 <= max
    BY <1>1, <2>1 DEF RankAt, Ended
  <2> QED
    <3>1. /\ Rank(l)' + 1 + 0 <= Rank(l)
          /\ \A k \in Loops : k # l => pc'[k] = pc[k] /\ round'[k] = round[k]
      BY <2>1, <2>2, RankFalls DEF max, r
    <3>2. 0 \in {0, 1} /\ (0 = 0 => abandoned' \subseteq abandoned) /\ (0 = 1 => abandoned' \subseteq abandoned \cup {0})
          /\ UNCHANGED given
      BY <2>1
    <3> QED
      BY <3>1, <3>2, RunNearsEnd
<1>3. CASE PlannerErrs(l) \/ PlannerRaises(l) \/ PlannerStops(l) \/ Propose(l) \/ Reject(l)
  <2>1. PICK p \in {"plan", "tool"} \cup Ended : pc' = [pc EXCEPT ![l] = p]
    BY <1>3 DEF PlannerErrs, PlannerRaises, PlannerStops, Propose, Reject, NextRound, Ended
  <2>2. pc[l] = "decide" /\ round' = [round EXCEPT ![l] = r] /\ UNCHANGED <<given, abandoned>>
    BY <1>1, <1>3 DEF PlannerErrs, PlannerRaises, PlannerStops, Propose, Reject
  <2> HIDE DEF max, r
  <2>3. RankAt(p, r, max) + 1 + 0 <= RankAt("decide", r, max)
    BY <1>1, <2>1 DEF RankAt, Ended
  <2> QED
    <3>1. /\ Rank(l)' + 1 + 0 <= Rank(l)
          /\ \A k \in Loops : k # l => pc'[k] = pc[k] /\ round'[k] = round[k]
      BY <1>1, <2>1, <2>2, <2>3, RankFalls DEF max, r
    <3>2. 0 \in {0, 1} /\ (0 = 0 => abandoned' \subseteq abandoned) /\ (0 = 1 => abandoned' \subseteq abandoned \cup {0})
          /\ UNCHANGED given
      BY <2>2
    <3> QED
      BY <3>1, <3>2, RunNearsEnd
<1>4. CASE Train(l) \/ Verify(l) \/ ToolFails(l) \/ TimesOut(l)
  <2>1. PICK p \in {"plan"} \cup Ended : pc' = [pc EXCEPT ![l] = p]
    BY <1>4 DEF Train, Verify, ToolFails, TimesOut, Observe, NextRound, Ended
  <2>2. pc[l] = "tool" /\ round' = [round EXCEPT ![l] = r] /\ UNCHANGED given
        /\ abandoned' \subseteq abandoned \cup {<<l, r>>}
    BY <1>1, <1>4 DEF Train, Verify, ToolFails, TimesOut, Observe
  <2> HIDE DEF max, r
  <2>3. RankAt(p, r, max) + 1 + 1 <= RankAt("tool", r, max)
    BY <1>1, <2>1 DEF RankAt, Ended
  <2> QED
    <3>1. /\ Rank(l)' + 1 + 1 <= Rank(l)
          /\ \A k \in Loops : k # l => pc'[k] = pc[k] /\ round'[k] = round[k]
      BY <1>1, <2>1, <2>2, <2>3, RankFalls DEF max, r
    <3>2. 1 \in {0, 1} /\ (1 = 0 => abandoned' \subseteq abandoned)
          /\ (1 = 1 => abandoned' \subseteq abandoned \cup {<<l, r>>}) /\ UNCHANGED given
      BY <2>2
    <3> QED
      BY <3>1, <3>2, RunNearsEnd
<1> QED
  BY <1>2, <1>3, <1>4

LEMMA LoopStepEnds ==
  HistoryInv /\ DiskOK /\ (HistoryInv /\ DiskOK)' /\ [Next]_vars
    => [loopvars' # loopvars => Left' \in 0..Left - 1]_vars
<1> SUFFICES ASSUME HistoryInv, DiskOK, HistoryInv', DiskOK', Next, loopvars' # loopvars
             PROVE  Left' \in 0..Left - 1
  OBVIOUS
<1>1. ~Operator /\ ~Finished
  BY DEF Operator, Finished, vars
<1> QED
  BY <1>1, RunStepNearsEnd, ThreadNearsEnd DEF Next

\* action_loop.py:88, for all runs: every step of a run or of an abandoned thread
\* brings them nearer to their end, so that a run ends after no more than Left
\* steps, whatever the planner and the tools do.
THEOREM LoopRunsEnd == Spec => RunsEnd
<1>1. LoopInv => HistoryInv /\ DiskOK
  BY DEF LoopInv, TrainingInv
<1> QED
  BY <1>1, LoopInvariant, LoopStepEnds, PTL DEF Spec, RunsEnd

=============================================================================
