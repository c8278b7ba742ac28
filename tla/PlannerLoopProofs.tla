------------------------- MODULE PlannerLoopProofs -------------------------
(***************************************************************************)
(* Proofs about the planner loop, for any plans, trainings, quotas and     *)
(* numbers of rounds, retries and requests that hang: what it spends, what *)
(* its prompts show, what its result says, and that it comes to an end.    *)
(***************************************************************************)
EXTENDS PlannerLoop, FloatMetricsProofs, FiniteSetTheorems, TLAPS

(* The records of a history *)

Ids == {"", "reflection"} \cup {e.id : e \in Experiments}
Overrides == {""} \cup {e.ov : e \in Experiments}
Statuses == {"rejected", "failed", "succeeded", "reflection"}
Metrics == {x \in Int : x < Infinity \/ x \in {NoMetric, NotANumber}}
Cited == (Nat \X Ids \X Statuses) \cup {NoEvent}
Records == [id : Ids, status : Statuses, round : Nat, event : BOOLEAN, ov : Overrides,
            metric : Metrics, caused : Cited, causes : SUBSET Nat, best : Nat]

\* A record is one of an experiment, of a rejection inside a recovery or of a
\* reflection, and only a tool chain leaves a metric.
RecordOK(r) ==
  /\ r.event => r.round >= 1 /\ r.status # "reflection"
  /\ r.status # "reflection" => r.causes = {}
  /\ r.status \in {"rejected", "reflection"} => r.metric = NoMetric
  /\ r.status \in {"failed", "succeeded"} =>
       /\ r.event
       /\ \E t \in Trainings : r.status = ToolChain(t).status /\ r.metric = ToolChain(t).metric

\* The experiments of round r.
InRound(h, r) == {k \in DOMAIN h : h[k].round = r /\ h[k].event}

\* An event c is what the first failure leads to record in round r, if the
\* failures are those before position n.
CitesFirst(h, c, r, n) ==
  /\ c # NoEvent => \E j \in Failures(h) : j < n /\ EventOf(h[j]) = c
  /\ (\E j \in Failures(h) : j < n /\ h[j].round < r) => c # NoEvent /\ c[1] < r

\* The reflection at position p names the failures of its round and calls an
\* experiment best that is, but for the exceptions BestExplained names.
ReflectionOK(h, p) ==
  LET b == h[p].best
      metrics == {h[k].metric : k \in InRound(h, h[p].round)} \ {NoMetric}
  IN  /\ h[p].causes = {k \in InRound(h, h[p].round) : Fails(h[k])}
      /\ b \in {0} \cup InRound(h, h[p].round)
      /\ (b = 0) = (metrics = {})
      /\ b # 0 => \/ h[b].metric = NotANumber
                  \/ \A m \in metrics : m = 0 \/ ~Below(m, h[b].metric)
                  \/ h[b].metric = 0 /\ metrics \subseteq {0, NotANumber}

\* A history at a time when round r is on or was the last.
HistoryOK(h, r) ==
  /\ h \in Seq(Records)
  /\ \A k \in DOMAIN h : RecordOK(h[k]) /\ h[k].round <= r
  /\ \A j, k \in DOMAIN h : j < k /\ h[j].event /\ h[k].event => h[j].round <= h[k].round
  /\ \A k \in DOMAIN h : h[k].event => CitesFirst(h, h[k].caused, h[k].round, k)
  /\ \A p \in DOMAIN h : h[p].status = "reflection" => ReflectionOK(h, p)

-----------------------------------------------------------------------------
(* The inductive invariant *)

\* A round is on.
Open == pc \in {"planning", "experiments", "recovering", "retrying"}

ResultStatuses == {"none", "earlier", "stopped", "max_rounds_reached",
                   "max_experiments_reached", "planner_error"}
Results == [status : ResultStatuses, history : Seq(Records), tokens : Nat]
Disks == [plans : SUBSET Nat, reflections : SUBSET Nat, result : Results]

Types ==
  /\ TypeOK
  /\ todo \in Seq(Experiments)
  /\ retry \in Experiments \cup {None}
  /\ caused \in Cited
  /\ disk \in Disks /\ reported \in Results

\* Calls are made for plans; a socket left open has its cause; what was billed
\* and not counted, too.
ClientInv ==
  /\ pc \in {"planning", "recovering"} <=> call # "idle"
  /\ leaked + (IF call = "trying" /\ conn = "none" THEN 1 ELSE 0) <= nulled
  /\ nulled + dying + leaked <= hangs
  /\ counted <= billed
  /\ billed - counted <=
       hangs + lost
         + (IF call = "raised" \/ reported.status = "planner_error" THEN 1 ELSE 0)

HistoryInv ==
  /\ HistoryOK(history, round)
  /\ records = InRound(history, round)
  /\ Open => /\ round >= 1
             /\ CitesFirst(history, caused, round, Len(history) + 1)
             /\ \A p \in DOMAIN history :
                  history[p].status = "reflection" => history[p].round < round
  /\ pc = "round" /\ records # {} =>
       history[Len(history)].status = "reflection" /\ history[Len(history)].round = round

QuotaInv ==
  /\ executed = Cardinality({k \in DOMAIN history : history[k].status = "failed"})
                + Cardinality({k \in DOMAIN history : history[k].status = "succeeded"})
  /\ pc \in {"recovering", "retrying"} => executed < MaxExperiments

\* The rejection a recovery is about.
AnswerInv ==
  pc = "recovering" => /\ retries > 0
                       /\ answered \in DOMAIN history /\ Fails(history[answered])

DiskInv ==
  /\ \A r \in 1..round :
       r < round \/ pc = "round" =>
         /\ r \in disk.plans
         /\ InRound(history, r) # {} =>
              /\ \E k \in DOMAIN history : history[k].status = "reflection" /\ history[k].round = r
              /\ r \in disk.reflections
  /\ pc \in {"experiments", "recovering", "retrying"} => round \in disk.plans
  /\ pc # "done" => disk.result = Earlier
  /\ pc = "done" => disk.result = reported /\ reported.history = history
  /\ pc \in {"recovering", "retrying", "raised"} => mode = "run"
  /\ pc = "left" => mode = "streaming"
  /\ pc = "raised" => reported.history = <<>>
  /\ pc \in {"done", "raised"} => reported.tokens = counted
  /\ pc \notin {"done", "raised"} => reported = NoResult

LoopInv ==
  /\ Types /\ ClientInv /\ HistoryInv /\ QuotaInv /\ AnswerInv /\ DiskInv
  /\ PromptsTell

-----------------------------------------------------------------------------
(* Longer histories *)

\* The types of a record's fields.
LEMMA RecordTypes ==
  ASSUME NEW h \in Seq(Records)
  PROVE  /\ DOMAIN h = 1..Len(h) /\ Len(h) \in Nat
         /\ \A k \in DOMAIN h :
              /\ h[k] \in Records /\ h[k].status \in Statuses /\ h[k].round \in Nat
              /\ h[k].event \in BOOLEAN /\ h[k].metric \in Metrics /\ h[k].metric \in Int
              /\ h[k].caused \in Cited /\ h[k].causes \in SUBSET Nat /\ h[k].best \in Nat
<1>1. DOMAIN h = 1..Len(h) /\ Len(h) \in Nat
  OBVIOUS
<1>2. ASSUME NEW k \in DOMAIN h
      PROVE  /\ h[k] \in Records /\ h[k].status \in Statuses /\ h[k].round \in Nat
             /\ h[k].event \in BOOLEAN /\ h[k].metric \in Metrics /\ h[k].metric \in Int
             /\ h[k].caused \in Cited /\ h[k].causes \in SUBSET Nat /\ h[k].best \in Nat
  <2>1. h[k] \in Records
    BY <1>1, <1>2
  <2>2. h[k].metric \in Metrics
    BY <2>1 DEF Records
  <2> QED
    BY <2>1, <2>2 DEF Records, Metrics
<1> QED
  BY <1>1, <1>2

\* g goes on where h ends.
Extends(h, g) ==
  /\ h \in Seq(Records) /\ g \in Seq(Records) /\ Len(h) <= Len(g)
  /\ \A k \in 1..Len(h) : g[k] = h[k]

\* The positions of g past the end of h.
Past(h, g) == {k \in DOMAIN g : k > Len(h)}

LEMMA ExtendsTypes ==
  ASSUME NEW h, NEW g, Extends(h, g)
  PROVE  /\ DOMAIN h = 1..Len(h) /\ Len(h) \in Nat /\ DOMAIN g = 1..Len(g) /\ Len(g) \in Nat
         /\ \A k \in DOMAIN h : k \in DOMAIN g /\ g[k] = h[k]
         /\ \A k \in DOMAIN g : k \in DOMAIN h \/ k \in Past(h, g)
         /\ \A k \in DOMAIN g : k <= Len(h) => k \in DOMAIN h
BY DEF Extends, Past

LEMMA FailuresKept ==
  ASSUME NEW h, NEW g, Extends(h, g)
  PROVE  \A j \in DOMAIN h : (j \in Failures(g)) <=> (j \in Failures(h))
<1>1. \A k \in DOMAIN h : k \in DOMAIN g /\ g[k] = h[k]
  BY ExtendsTypes
<1> QED
  BY <1>1 DEF Failures

LEMMA CitesKept ==
  ASSUME NEW h, NEW g, Extends(h, g), NEW c, NEW r, NEW n \in Int, n <= Len(h) + 1,
         CitesFirst(h, c, r, n)
  PROVE  CitesFirst(g, c, r, n)
<1>1. /\ DOMAIN h = 1..Len(h) /\ Len(h) \in Nat /\ DOMAIN g = 1..Len(g) /\ Len(g) \in Nat
      /\ \A k \in DOMAIN h : k \in DOMAIN g /\ g[k] = h[k]
      /\ \A k \in DOMAIN g : k <= Len(h) => k \in DOMAIN h
  BY ExtendsTypes
<1>2. \A j \in DOMAIN h : (j \in Failures(g)) <=> (j \in Failures(h))
  BY FailuresKept
<1>3. \A j \in Failures(h) : j \in DOMAIN h
  BY DEF Failures
<1>4. \A j \in Failures(g) : j \in DOMAIN g
  BY DEF Failures
<1>5. c # NoEvent => \E j \in Failures(g) : j < n /\ EventOf(g[j]) = c
  <2>1. SUFFICES ASSUME c # NoEvent PROVE \E j \in Failures(g) : j < n /\ EventOf(g[j]) = c
    OBVIOUS
  <2>2. PICK j \in Failures(h) : j < n /\ EventOf(h[j]) = c
    BY <2>1 DEF CitesFirst
  <2> QED
    BY <1>1, <1>2, <1>3, <2>2
<1>6. ASSUME NEW j \in Failures(g), j < n, g[j].round < r
      PROVE  c # NoEvent /\ c[1] < r
  <2>1. j \in DOMAIN h
    BY <1>1, <1>4, <1>6
  <2>2. j \in Failures(h) /\ g[j] = h[j]
    BY <1>1, <1>2, <2>1
  <2>3. h[j].round < r
    BY <1>6, <2>2
  <2> QED
    BY <1>6, <2>2, <2>3 DEF CitesFirst
<1> QED
  BY <1>5, <1>6 DEF CitesFirst

LEMMA InRoundKept ==
  ASSUME NEW h, NEW g, Extends(h, g), NEW r,
         \A k \in Past(h, g) : ~(g[k].event /\ g[k].round = r)
  PROVE  InRound(g, r) = InRound(h, r)
<1>1. /\ \A k \in DOMAIN h : k \in DOMAIN g /\ g[k] = h[k]
      /\ \A k \in DOMAIN g : k \in DOMAIN h \/ k \in Past(h, g)
  BY ExtendsTypes
<1> QED
  BY <1>1 DEF InRound

LEMMA ReflectionKept ==
  ASSUME NEW h, NEW g, Extends(h, g), NEW p \in DOMAIN h, ReflectionOK(h, p),
         InRound(g, h[p].round) = InRound(h, h[p].round)
  PROVE  ReflectionOK(g, p)
<1>1. /\ DOMAIN h = 1..Len(h)
      /\ \A k \in DOMAIN h : k \in DOMAIN g /\ g[k] = h[k]
  BY ExtendsTypes
<1>2. g[p] = h[p]
  BY <1>1
<1> DEFINE I == InRound(h, h[p].round)
<1>3. \A k \in I : g[k] = h[k]
  BY <1>1 DEF InRound
<1>4. InRound(g, g[p].round) = I
  BY <1>2
<1>5. {k \in I : Fails(g[k])} = {k \in I : Fails(h[k])}
  BY <1>3
<1>6. {g[k].metric : k \in I} = {h[k].metric : k \in I}
  BY <1>3
<1>7. h[p].best \in {0} \cup I
  BY DEF ReflectionOK
<1>8. h[p].best # 0 => g[h[p].best] = h[h[p].best]
  BY <1>3, <1>7
<1> HIDE DEF I
<1>9. /\ h[p].causes = {k \in I : Fails(h[k])}
      /\ (h[p].best = 0) = ({h[k].metric : k \in I} \ {NoMetric} = {})
      /\ h[p].best # 0 =>
           \/ h[h[p].best].metric = NotANumber
           \/ \A m \in {h[k].metric : k \in I} \ {NoMetric} : m = 0 \/ ~Below(m, h[h[p].best].metric)
           \/ /\ h[h[p].best].metric = 0
              /\ {h[k].metric : k \in I} \ {NoMetric} \subseteq {0, NotANumber}
  BY DEF ReflectionOK, I
<1> QED
  BY <1>2, <1>4, <1>5, <1>6, <1>7, <1>8, <1>9 DEF ReflectionOK

\* A history that is sound stays so if each record that is added is, with the
\* round that is on and what it cites or names, and no experiment is added to a
\* round after its reflection.
LEMMA HistoryExtended ==
  ASSUME NEW h, NEW g, Extends(h, g), NEW r \in Nat, HistoryOK(h, r),
         \A k \in Past(h, g) : RecordOK(g[k]) /\ g[k].round <= r,
         \A k \in Past(h, g) : g[k].event => g[k].round = r /\ CitesFirst(g, g[k].caused, r, k),
         \A k \in Past(h, g) : g[k].status = "reflection" => ReflectionOK(g, k),
         (\E k \in Past(h, g) : g[k].event) =>
           \A p \in DOMAIN h : h[p].status = "reflection" => h[p].round < r
  PROVE  HistoryOK(g, r)
<1>1. /\ DOMAIN h = 1..Len(h) /\ Len(h) \in Nat /\ DOMAIN g = 1..Len(g) /\ Len(g) \in Nat
      /\ \A k \in DOMAIN h : k \in DOMAIN g /\ g[k] = h[k]
      /\ \A k \in DOMAIN g : k \in DOMAIN h \/ k \in Past(h, g)
  BY ExtendsTypes
<1>2. \A k \in Past(h, g) : k \in DOMAIN g /\ k > Len(h)
  BY DEF Past
<1>3. g \in Seq(Records) /\ h \in Seq(Records)
  BY DEF Extends
<1>4. \A k \in DOMAIN h : RecordOK(h[k]) /\ h[k].round <= r
  BY DEF HistoryOK
<1>5. \A k \in DOMAIN g : RecordOK(g[k]) /\ g[k].round <= r
  BY <1>1, <1>4
<1>6. ASSUME NEW j \in DOMAIN g, NEW k \in DOMAIN g, j < k, g[j].event, g[k].event
      PROVE  g[j].round <= g[k].round
  <2>1. CASE k \in DOMAIN h
    <3>1. j \in DOMAIN h
      BY <1>1, <1>6, <2>1
    <3>2. g[j] = h[j] /\ g[k] = h[k]
      BY <1>1, <2>1, <3>1
    <3> QED
      BY <1>6, <2>1, <3>1, <3>2 DEF HistoryOK
  <2>2. CASE k \in Past(h, g)
    BY <1>5, <1>6, <2>2
  <2> QED
    BY <1>1, <2>1, <2>2
<1>7. ASSUME NEW k \in DOMAIN g, g[k].event PROVE CitesFirst(g, g[k].caused, g[k].round, k)
  <2>1. CASE k \in DOMAIN h
    <3>1. g[k] = h[k] /\ k \in Int /\ k <= Len(h) + 1
      BY <1>1, <2>1
    <3>2. CitesFirst(h, h[k].caused, h[k].round, k)
      BY <1>7, <2>1, <3>1 DEF HistoryOK
    <3> QED
      BY <3>1, <3>2, CitesKept
  <2>2. CASE k \in Past(h, g)
    BY <1>7, <2>2
  <2> QED
    BY <1>1, <2>1, <2>2
<1>8. ASSUME NEW p \in DOMAIN g, g[p].status = "reflection" PROVE ReflectionOK(g, p)
  <2>1. CASE p \in DOMAIN h
    <3>1. g[p] = h[p]
      BY <1>1, <2>1
    <3>2. ReflectionOK(h, p)
      BY <1>8, <2>1, <3>1 DEF HistoryOK
    <3>3. \A k \in Past(h, g) : ~(g[k].event /\ g[k].round = h[p].round)
      <4>1. SUFFICES ASSUME NEW k \in Past(h, g), g[k].event, g[k].round = h[p].round PROVE FALSE
        OBVIOUS
      <4>2. g[k].round = r
        BY <4>1
      <4>3. h[p].round < r
        BY <1>8, <2>1, <3>1, <4>1
      <4> QED
        BY <4>1, <4>2, <4>3
    <3>4. InRound(g, h[p].round) = InRound(h, h[p].round)
      BY <3>3, InRoundKept
    <3> QED
      BY <2>1, <3>2, <3>4, ReflectionKept
  <2>2. CASE p \in Past(h, g)
    BY <1>8, <2>2
  <2> QED
    BY <1>1, <2>1, <2>2
<1> QED
  BY <1>3, <1>5, <1>6, <1>7, <1>8 DEF HistoryOK

\* One more record.
LEMMA AppendExtends ==
  ASSUME NEW h \in Seq(Records), NEW x \in Records
  PROVE  /\ Extends(h, Append(h, x))
         /\ Len(Append(h, x)) = Len(h) + 1 /\ Append(h, x)[Len(h) + 1] = x
         /\ Past(h, Append(h, x)) = {Len(h) + 1} /\ Len(h) \in Nat
         /\ DOMAIN Append(h, x) = 1..Len(h) + 1 /\ DOMAIN h = 1..Len(h)
         /\ \A k \in DOMAIN h : Append(h, x)[k] = h[k]
<1> DEFINE g == Append(h, x)
<1>1. /\ g \in Seq(Records) /\ Len(g) = Len(h) + 1 /\ Len(h) \in Nat
      /\ g[Len(h) + 1] = x /\ \A k \in 1..Len(h) : g[k] = h[k]
      /\ DOMAIN g = 1..Len(g) /\ DOMAIN h = 1..Len(h)
  OBVIOUS
<1> HIDE DEF g
<1>2. Extends(h, g)
  BY <1>1 DEF Extends
<1>3. Past(h, g) = {Len(h) + 1}
  BY <1>1 DEF Past
<1> QED
  BY <1>1, <1>2, <1>3 DEF g

\* Rejections inside a recovery.
LEMMA QuietExtends ==
  ASSUME NEW h \in Seq(Records), NEW q \in Seq(Records)
  PROVE  /\ Extends(h, h \o q)
         /\ Len(h \o q) = Len(h) + Len(q) /\ Len(q) \in Nat /\ Len(h) \in Nat
         /\ \A k \in Past(h, h \o q) : k - Len(h) \in 1..Len(q) /\ (h \o q)[k] = q[k - Len(h)]
         /\ \A k \in DOMAIN h : (h \o q)[k] = h[k]
<1> DEFINE g == h \o q
<1>1. /\ g \in Seq(Records) /\ Len(g) = Len(h) + Len(q) /\ Len(h) \in Nat /\ Len(q) \in Nat
      /\ \A k \in 1..Len(h) : g[k] = h[k]
      /\ \A k \in Len(h) + 1..Len(g) : g[k] = q[k - Len(h)]
      /\ DOMAIN g = 1..Len(g) /\ DOMAIN h = 1..Len(h)
  OBVIOUS
<1> HIDE DEF g
<1>2. Extends(h, g)
  BY <1>1 DEF Extends
<1>3. \A k \in Past(h, g) : k - Len(h) \in 1..Len(q) /\ g[k] = q[k - Len(h)]
  BY <1>1 DEF Past
<1> QED
  BY <1>1, <1>2, <1>3 DEF g

-----------------------------------------------------------------------------
(* Experiments, rejections and reflections join a history *)

\* The best of a round, as _best_record finds it.
LEMMA BestIs ==
  ASSUME NEW h \in Seq(Records), NEW P \in SUBSET DOMAIN h
  PROVE  LET b == BestOfRound(h, P)
             metrics == {h[k].metric : k \in P} \ {NoMetric}
         IN  /\ b \in {0} \cup P
             /\ (b = 0) = (metrics = {})
             /\ b # 0 => \/ h[b].metric = NotANumber
                         \/ \A m \in metrics : m = 0 \/ ~Below(m, h[b].metric)
                         \/ h[b].metric = 0 /\ metrics \subseteq {0, NotANumber}
<1> DEFINE b == BestOfRound(h, P)
           metrics == {h[k].metric : k \in P} \ {NoMetric}
           key == [k \in DOMAIN h |-> ReflectionKey(h[k].metric)]
           M == P \cap Measured(h)
<1>1. /\ DOMAIN h = 1..Len(h) /\ Len(h) \in Nat
      /\ \A k \in DOMAIN h : h[k].metric \in Int /\ h[k].metric \in Metrics
  BY RecordTypes
<1>2. M \in SUBSET 1..Len(h) /\ M \in SUBSET P /\ M \in SUBSET DOMAIN h
  BY <1>1
<1>3. \A k \in M : key[k] \in Int /\ key[k] = ReflectionKey(h[k].metric) /\ h[k].metric # NoMetric
  BY <1>1 DEF ReflectionKey, Infinity, Measured
<1>4. b = First(M, key)
  BY DEF BestOfRound
<1>5. \A m \in metrics : \E k \in M : m = h[k].metric
  BY DEF Measured
<1>6. \A k \in M : h[k].metric \in metrics
  BY <1>2, <1>3
<1>7. \A k \in M : k # 0
  BY <1>2
<1> HIDE DEF M, key, metrics, b
<1>8. CASE M = {}
  <2>1. b = 0
    BY <1>1, <1>2, <1>3, <1>4, <1>8, FirstIs
  <2>2. metrics = {}
    BY <1>5, <1>8
  <2> QED
    BY <2>1, <2>2 DEF b, metrics
<1>9. CASE M # {}
  <2>1. /\ b \in M
        /\ key[Min(M)] = NotANumber => key[b] = NotANumber
        /\ key[Min(M)] # NotANumber =>
             /\ key[b] # NotANumber
             /\ \A j \in M : key[j] # NotANumber => key[b] <= key[j]
    BY <1>1, <1>2, <1>3, <1>4, <1>9, FirstIs
  <2>2. b \in P /\ b # 0 /\ metrics # {} /\ b \in DOMAIN h
    BY <1>2, <1>6, <1>7, <2>1
  <2>3. key[b] = ReflectionKey(h[b].metric) /\ h[b].metric \in Int
    BY <1>1, <1>3, <2>1, <2>2
  <2>4. CASE key[Min(M)] = NotANumber
    <3>1. h[b].metric = NotANumber
      BY <2>1, <2>3, <2>4 DEF ReflectionKey, Infinity, NotANumber
    <3> QED
      BY <2>2, <3>1 DEF b, metrics
  <2>5. CASE key[Min(M)] # NotANumber /\ h[b].metric # 0
    <3>1. ASSUME NEW m \in metrics PROVE m = 0 \/ ~Below(m, h[b].metric)
      <4>1. PICK k \in M : m = h[k].metric
        BY <1>5
      <4>2. key[k] = ReflectionKey(m) /\ k \in DOMAIN h
        BY <1>2, <1>3, <4>1
      <4>3. m \in Int
        BY <1>1, <4>1, <4>2
      <4>4. key[b] = h[b].metric
        BY <2>3, <2>5 DEF ReflectionKey
      <4>5. ASSUME m # 0, m # NotANumber PROVE h[b].metric <= m
        <5>1. key[k] = m
          BY <4>2, <4>5 DEF ReflectionKey
        <5> QED
          BY <2>1, <2>5, <4>1, <4>4, <4>5, <5>1
      <4> QED
        BY <2>3, <4>3, <4>5 DEF Below
    <3> QED
      BY <2>2, <3>1 DEF b, metrics
  <2>6. CASE key[Min(M)] # NotANumber /\ h[b].metric = 0
    <3>1. ASSUME NEW m \in metrics PROVE m \in {0, NotANumber}
      <4>1. PICK k \in M : m = h[k].metric
        BY <1>5
      <4>2. key[k] = ReflectionKey(m) /\ k \in DOMAIN h /\ m # NoMetric
        BY <1>2, <1>3, <4>1
      <4>3. m \in Int /\ m \in Metrics
        BY <1>1, <4>1, <4>2
      <4>4. key[b] = Infinity
        BY <2>3, <2>6 DEF ReflectionKey
      <4>5. ASSUME m # 0, m # NotANumber PROVE FALSE
        <5>1. key[k] = m
          BY <4>2, <4>5 DEF ReflectionKey
        <5>2. Infinity <= m
          BY <2>1, <2>6, <4>1, <4>4, <4>5, <5>1
        <5> QED
          BY <4>2, <4>3, <4>5, <5>2 DEF Metrics, Infinity
      <4> QED
        BY <4>5
    <3>2. h[b].metric = 0 /\ metrics \subseteq {0, NotANumber}
      BY <2>6, <3>1
    <3> QED
      BY <2>2, <3>2 DEF b, metrics
  <2> QED
    BY <2>4, <2>5, <2>6
<1> QED
  BY <1>8, <1>9

\* What the first failure so far is, in any round from the last one on.
LEMMA FirstCites ==
  ASSUME NEW h, NEW q \in Nat, NEW r \in Nat, q <= r, HistoryOK(h, q)
  PROVE  /\ FirstFailure(h) \in Cited
         /\ CitesFirst(h, FirstFailure(h), r, Len(h) + 1)
<1>1. h \in Seq(Records)
  BY DEF HistoryOK
<1>2. /\ DOMAIN h = 1..Len(h) /\ Len(h) \in Nat
      /\ \A k \in DOMAIN h : /\ h[k] \in Records /\ h[k].round \in Nat /\ h[k].status \in Statuses
  BY <1>1, RecordTypes
<1>3. \A k \in DOMAIN h : h[k].id \in Ids
  BY <1>2 DEF Records
<1>4. Failures(h) \in SUBSET DOMAIN h /\ \A k \in Failures(h) : h[k].event
  BY DEF Failures
<1>5. CASE Failures(h) = {}
  BY <1>5 DEF FirstFailure, CitesFirst, Cited
<1>6. CASE Failures(h) # {}
  <2> DEFINE m == Min(Failures(h))
  <2>1. m \in Failures(h) /\ \A j \in Failures(h) : m <= j
    <3>1. Failures(h) \in SUBSET Nat
      BY <1>2, <1>4
    <3> QED
      BY <1>6, <3>1, MinOfPositions
  <2>2. FirstFailure(h) = EventOf(h[m])
    BY <1>6 DEF FirstFailure
  <2> HIDE DEF m
  <2>3. m \in DOMAIN h /\ h[m].event /\ m < Len(h) + 1
    BY <1>2, <1>4, <2>1
  <2>4. h[m].round >= 1
    BY <2>3 DEF HistoryOK, RecordOK
  <2>5. /\ EventOf(h[m]) \in Nat \X Ids \X Statuses /\ EventOf(h[m])[1] = h[m].round
        /\ EventOf(h[m]) # NoEvent
    <3>1. EventOf(h[m]) = <<h[m].round, h[m].id, h[m].status>>
      BY DEF EventOf
    <3>2. EventOf(h[m])[1] = h[m].round
      BY <3>1
    <3>3. NoEvent[1] = 0
      BY DEF NoEvent
    <3> QED
      BY <1>2, <1>3, <2>3, <2>4, <3>1, <3>2, <3>3
  <2>6. ASSUME NEW j \in Failures(h), h[j].round < r PROVE h[m].round < r
    <3>1. m <= j /\ j \in DOMAIN h /\ h[j].event
      BY <1>4, <2>1
    <3>2. h[m].round <= h[j].round
      <4>1. CASE m = j
        BY <1>2, <2>3, <4>1
      <4>2. CASE m < j
        BY <2>3, <3>1, <4>2 DEF HistoryOK
      <4> QED
        BY <1>2, <2>3, <3>1, <4>1, <4>2
    <3> QED
      BY <1>2, <2>3, <2>6, <3>1, <3>2
  <2>7. CitesFirst(h, EventOf(h[m]), r, Len(h) + 1)
    BY <2>1, <2>3, <2>5, <2>6 DEF CitesFirst
  <2> QED
    BY <2>2, <2>5, <2>7 DEF Cited
<1> QED
  BY <1>5, <1>6

LEMMA CitesGrow ==
  ASSUME NEW h, NEW g, Extends(h, g), NEW c, NEW r \in Nat, CitesFirst(h, c, r, Len(h) + 1),
         \A k \in Past(h, g) : g[k].event => g[k].round = r
  PROVE  CitesFirst(g, c, r, Len(g) + 1)
<1>1. /\ DOMAIN h = 1..Len(h) /\ Len(h) \in Nat /\ DOMAIN g = 1..Len(g) /\ Len(g) \in Nat
      /\ \A k \in DOMAIN h : k \in DOMAIN g /\ g[k] = h[k]
      /\ \A k \in DOMAIN g : k \in DOMAIN h \/ k \in Past(h, g)
      /\ Len(h) <= Len(g)
  BY ExtendsTypes DEF Extends
<1>2. CitesFirst(g, c, r, Len(h) + 1)
  BY <1>1, CitesKept
<1>3. \A j \in Failures(g) : j \in DOMAIN g /\ g[j].event
  BY DEF Failures
<1>4. c # NoEvent => \E j \in Failures(g) : j < Len(g) + 1 /\ EventOf(g[j]) = c
  <2>1. \A j \in Failures(g) : j < Len(g) + 1
    BY <1>1, <1>3
  <2> QED
    BY <1>2, <2>1 DEF CitesFirst
<1>5. ASSUME NEW j \in Failures(g), g[j].round < r PROVE j < Len(h) + 1
  <2>1. j \notin Past(h, g)
    BY <1>3, <1>5
  <2> QED
    BY <1>1, <1>3, <2>1
<1> QED
  BY <1>2, <1>4, <1>5 DEF CitesFirst

\* An experiment, or its rejection, joins the round that is on.
LEMMA ExperimentJoins ==
  ASSUME NEW h, NEW r \in Nat, r >= 1, HistoryOK(h, r), NEW x \in Records, RecordOK(x),
         x.event, x.round = r, CitesFirst(h, x.caused, r, Len(h) + 1),
         \A p \in DOMAIN h : h[p].status = "reflection" => h[p].round < r
  PROVE  LET g == Append(h, x) IN
         /\ HistoryOK(g, r)
         /\ InRound(g, r) = InRound(h, r) \cup {Len(h) + 1}
         /\ \A q : q # r => InRound(g, q) = InRound(h, q)
         /\ \A p \in DOMAIN g : g[p].status = "reflection" => g[p].round < r
         /\ \A c : CitesFirst(h, c, r, Len(h) + 1) => CitesFirst(g, c, r, Len(g) + 1)
<1> DEFINE g == Append(h, x)
<1>0. h \in Seq(Records)
  BY DEF HistoryOK
<1>1. /\ Extends(h, g) /\ Len(g) = Len(h) + 1 /\ g[Len(h) + 1] = x
      /\ Past(h, g) = {Len(h) + 1} /\ Len(h) \in Nat
      /\ DOMAIN g = 1..Len(h) + 1 /\ DOMAIN h = 1..Len(h)
      /\ \A k \in DOMAIN h : g[k] = h[k]
  BY <1>0, AppendExtends
<1> HIDE DEF g
<1>2. x.status # "reflection"
  BY DEF RecordOK
<1>3. \A k \in Past(h, g) : g[k] = x /\ k = Len(h) + 1
  BY <1>1
<1>4. CitesFirst(g, x.caused, r, Len(h) + 1)
  <2>1. Len(h) + 1 \in Int /\ Len(h) + 1 <= Len(h) + 1
    BY <1>1
  <2> QED
    BY <1>1, <2>1, CitesKept
<1>5. HistoryOK(g, r)
  <2>1. \A k \in Past(h, g) : RecordOK(g[k]) /\ g[k].round <= r
    BY <1>3
  <2>2. \A k \in Past(h, g) : g[k].event => g[k].round = r /\ CitesFirst(g, g[k].caused, r, k)
    BY <1>3, <1>4
  <2>3. \A k \in Past(h, g) : g[k].status = "reflection" => ReflectionOK(g, k)
    BY <1>2, <1>3
  <2> QED
    BY <1>1, <2>1, <2>2, <2>3, HistoryExtended
<1>6. \A k \in DOMAIN g : k \in DOMAIN h \/ k = Len(h) + 1
  BY <1>1
<1>7. InRound(g, r) = InRound(h, r) \cup {Len(h) + 1}
  <2>1. Len(h) + 1 \in DOMAIN g
    BY <1>1
  <2>2. \A k \in DOMAIN h : k \in DOMAIN g
    BY <1>1
  <2> QED
    BY <1>1, <1>6, <2>1, <2>2 DEF InRound
<1>8. ASSUME NEW q, q # r PROVE InRound(g, q) = InRound(h, q)
  BY <1>1, <1>3, <1>8, InRoundKept
<1>9. ASSUME NEW p \in DOMAIN g, g[p].status = "reflection" PROVE g[p].round < r
  <2>1. p \in DOMAIN h
    BY <1>1, <1>2, <1>6, <1>9
  <2> QED
    BY <1>1, <1>9, <2>1
<1>10. ASSUME NEW c, CitesFirst(h, c, r, Len(h) + 1) PROVE CitesFirst(g, c, r, Len(g) + 1)
  BY <1>1, <1>3, <1>10, CitesGrow
<1> QED
  BY <1>5, <1>7, <1>8, <1>9, <1>10 DEF g

\* Rejections inside a recovery join no round.
LEMMA QuietJoins ==
  ASSUME NEW h, NEW r \in Nat, HistoryOK(h, r), NEW s \in Seq(Records),
         \A k \in 1..Len(s) : /\ s[k].status = "rejected" /\ s[k].event = FALSE
                              /\ s[k].round = 0 /\ s[k].metric = NoMetric /\ s[k].causes = {}
  PROVE  LET g == h \o s IN
         /\ HistoryOK(g, r)
         /\ \A q : InRound(g, q) = InRound(h, q)
         /\ \A p \in DOMAIN g : g[p].status = "reflection" => p \in DOMAIN h
         /\ \A c : CitesFirst(h, c, r, Len(h) + 1) => CitesFirst(g, c, r, Len(g) + 1)
<1> DEFINE g == h \o s
<1>0. h \in Seq(Records)
  BY DEF HistoryOK
<1>1. /\ Extends(h, g) /\ Len(h) \in Nat /\ Len(s) \in Nat
      /\ \A k \in Past(h, g) : k - Len(h) \in 1..Len(s) /\ g[k] = s[k - Len(h)]
  BY <1>0, QuietExtends
<1> HIDE DEF g
<1>2. \A k \in Past(h, g) : /\ g[k].status = "rejected" /\ g[k].event = FALSE
                           /\ g[k].round = 0 /\ g[k].metric = NoMetric /\ g[k].causes = {}
  BY <1>1
<1>3. \A k \in DOMAIN g : k \in DOMAIN h \/ k \in Past(h, g)
  BY <1>1, ExtendsTypes
<1>4. HistoryOK(g, r)
  <2>1. \A k \in Past(h, g) : RecordOK(g[k]) /\ g[k].round <= r
    BY <1>2 DEF RecordOK
  <2> QED
    BY <1>1, <1>2, <2>1, HistoryExtended
<1>5. ASSUME NEW q PROVE InRound(g, q) = InRound(h, q)
  BY <1>1, <1>2, InRoundKept
<1>6. ASSUME NEW p \in DOMAIN g, g[p].status = "reflection" PROVE p \in DOMAIN h
  BY <1>2, <1>3, <1>6
<1>7. ASSUME NEW c, CitesFirst(h, c, r, Len(h) + 1) PROVE CitesFirst(g, c, r, Len(g) + 1)
  BY <1>1, <1>2, <1>7, CitesGrow
<1> QED
  BY <1>4, <1>5, <1>6, <1>7 DEF g

LEMMA ReflectionIs ==
  ASSUME NEW h, NEW P, NEW r
  PROVE  Reflection(h, P, r) =
           [id |-> "reflection", status |-> "reflection", round |-> r, event |-> FALSE, ov |-> "",
            metric |-> NoMetric, caused |-> NoEvent, causes |-> Causes(h, P),
            best |-> BestOfRound(h, P)]
BY DEF Reflection

LEMMA ReflectionType ==
  ASSUME NEW r \in Nat, NEW C \in SUBSET Nat, NEW b \in Nat
  PROVE  [id |-> "reflection", status |-> "reflection", round |-> r, event |-> FALSE, ov |-> "",
          metric |-> NoMetric, caused |-> NoEvent, causes |-> C, best |-> b] \in Records
<1>1. "reflection" \in Ids /\ "" \in Overrides /\ "reflection" \in Statuses /\ NoEvent \in Cited
      /\ NoMetric \in Metrics
  BY DEF Ids, Overrides, Statuses, Cited, Metrics, NoMetric
<1> QED
  BY <1>1 DEF Records

\* The reflection on a round.
LEMMA ReflectionJoins ==
  ASSUME NEW h, NEW r \in Nat, HistoryOK(h, r)
  PROVE  LET x == Reflection(h, InRound(h, r), r)
             g == Append(h, x)
         IN  /\ HistoryOK(g, r) /\ x \in Records
             /\ \A q : InRound(g, q) = InRound(h, q)
             /\ x.status = "reflection" /\ x.round = r /\ x.event = FALSE
<1> DEFINE P == InRound(h, r)
           x == Reflection(h, P, r)
           g == Append(h, x)
<1>0. h \in Seq(Records)
  BY DEF HistoryOK
<1>1. P \in SUBSET DOMAIN h /\ DOMAIN h = 1..Len(h) /\ Len(h) \in Nat
  BY <1>0, RecordTypes DEF InRound
<1> HIDE DEF P
<1>2. /\ x.id = "reflection" /\ x.status = "reflection" /\ x.round = r /\ x.event = FALSE
      /\ x.ov = "" /\ x.metric = NoMetric /\ x.caused = NoEvent
      /\ x.causes = {k \in P : Fails(h[k])} /\ x.best = BestOfRound(h, P)
  BY DEF Reflection, Causes
<1>3. /\ BestOfRound(h, P) \in {0} \cup P
      /\ (BestOfRound(h, P) = 0) = ({h[k].metric : k \in P} \ {NoMetric} = {})
      /\ BestOfRound(h, P) # 0 =>
           \/ h[BestOfRound(h, P)].metric = NotANumber
           \/ \A m \in {h[k].metric : k \in P} \ {NoMetric} :
                m = 0 \/ ~Below(m, h[BestOfRound(h, P)].metric)
           \/ /\ h[BestOfRound(h, P)].metric = 0
              /\ {h[k].metric : k \in P} \ {NoMetric} \subseteq {0, NotANumber}
  BY <1>0, <1>1, BestIs
<1>4. x \in Records
  <2>1. BestOfRound(h, P) \in Nat /\ {k \in P : Fails(h[k])} \in SUBSET Nat
    BY <1>1, <1>3
  <2>2. x = [id |-> "reflection", status |-> "reflection", round |-> r, event |-> FALSE, ov |-> "",
             metric |-> NoMetric, caused |-> NoEvent, causes |-> Causes(h, P),
             best |-> BestOfRound(h, P)]
    BY ReflectionIs
  <2> HIDE DEF x
  <2> QED
    BY <2>1, <2>2, ReflectionType DEF Causes
<1> HIDE DEF x
<1>5. /\ Extends(h, g) /\ Len(g) = Len(h) + 1 /\ g[Len(h) + 1] = x
      /\ Past(h, g) = {Len(h) + 1}
      /\ \A k \in DOMAIN h : g[k] = h[k]
  BY <1>0, <1>4, AppendExtends
<1> HIDE DEF g
<1>6. \A k \in Past(h, g) : g[k] = x
  BY <1>5
<1>7. ASSUME NEW q PROVE InRound(g, q) = InRound(h, q)
  <2>1. \A k \in Past(h, g) : ~(g[k].event /\ g[k].round = q)
    BY <1>2, <1>6
  <2> QED
    BY <1>5, <2>1, InRoundKept
<1>8. ReflectionOK(g, Len(h) + 1)
  <2> DEFINE n == Len(h) + 1
             b == x.best
  <2>1. g[n] = x /\ InRound(g, g[n].round) = P
    BY <1>2, <1>5, <1>7 DEF P
  <2>2. \A k \in P : g[k] = h[k]
    BY <1>1, <1>5
  <2>3. {k \in P : Fails(g[k])} = {k \in P : Fails(h[k])}
    BY <2>2
  <2>4. {g[k].metric : k \in P} = {h[k].metric : k \in P}
    BY <2>2
  <2>5. b # 0 => g[b] = h[b]
    BY <1>2, <1>3, <2>2
  <2> HIDE DEF n
  <2> QED
    BY <1>2, <1>3, <2>1, <2>3, <2>4, <2>5 DEF ReflectionOK, n
<1>9. HistoryOK(g, r)
  <2>0. RecordOK(x) /\ x.round <= r
    <3>1. x.event = FALSE /\ x.status = "reflection" /\ x.metric = NoMetric /\ x.round = r
      BY <1>2
    <3> QED
      BY <3>1 DEF RecordOK
  <2>1. \A k \in Past(h, g) : RecordOK(g[k]) /\ g[k].round <= r
    BY <1>6, <2>0
  <2>2. \A k \in Past(h, g) : g[k].event = FALSE
    BY <1>2, <1>6
  <2>3. \A k \in Past(h, g) : ReflectionOK(g, k)
    BY <1>5, <1>8
  <2> QED
    BY <1>5, <2>1, <2>2, <2>3, HistoryExtended
<1> QED
  BY <1>2, <1>4, <1>7, <1>9 DEF g, x, P

\* Nothing is in a round that has not begun.
LEMMA NextRoundEmpty ==
  ASSUME NEW h, NEW r \in Nat, HistoryOK(h, r)
  PROVE  /\ HistoryOK(h, r + 1) /\ InRound(h, r + 1) = {}
         /\ \A k \in DOMAIN h : h[k].round < r + 1
<1>1. h \in Seq(Records)
  BY DEF HistoryOK
<1>2. \A k \in DOMAIN h : h[k].round \in Nat
  BY <1>1, RecordTypes
<1>3. \A k \in DOMAIN h : h[k].round <= r
  BY DEF HistoryOK
<1>4. \A k \in DOMAIN h : h[k].round < r + 1 /\ h[k].round <= r + 1 /\ h[k].round # r + 1
  BY <1>2, <1>3
<1>5. HistoryOK(h, r + 1)
  BY <1>4 DEF HistoryOK
<1> QED
  BY <1>4, <1>5 DEF InRound

-----------------------------------------------------------------------------
(* What a prompt shows, and how many experiments a history counts *)

LEMMA VisibleIs ==
  ASSUME NEW h, NEW r \in Nat, HistoryOK(h, r)
  PROVE  /\ Visible(h) \in SUBSET DOMAIN h
         /\ Len(h) > 0 => h[Len(h)].causes \subseteq Visible(h)
         /\ \A k \in DOMAIN h : Fails(h[k]) =>
              \/ k \in Visible(h)
              \/ /\ Len(h) - k >= RecentWindow
                 /\ Cardinality({j \in 1..k - 1 : Fails(h[j])}) >= MaxNotable
<1> DEFINE old == Len(h) - RecentWindow
           recent == {k \in DOMAIN h : k > old}
           errors == {k \in DOMAIN h : k <= old /\ Fails(h[k])}
           first == {k \in errors : Cardinality({j \in errors : j < k}) < MaxNotable}
<1>0. h \in Seq(Records)
  BY DEF HistoryOK
<1>1. DOMAIN h = 1..Len(h) /\ Len(h) \in Nat
  BY <1>0, RecordTypes
<1>2. RecentWindow \in Nat \ {0} /\ MaxNotable \in Nat \ {0} /\ old \in Int
  BY <1>1, MetricsAssumption
<1>3. \A k : k \in Visible(h) <=> \/ k \in recent /\ Fails(h[k])
                                  \/ \E j \in recent : k \in h[j].causes
                                  \/ k \in first
  <2> DEFINE R == {k \in recent : Fails(h[k])}
             U == UNION {h[k].causes : k \in recent}
  <2>1. Visible(h) = R \cup first \cup U
    BY DEF Visible
  <2>2. \A k : k \in R <=> k \in recent /\ Fails(h[k])
    OBVIOUS
  <2>3. \A k : k \in U <=> \E j \in recent : k \in h[j].causes
    OBVIOUS
  <2> HIDE DEF R, U, recent, first
  <2> QED
    BY <2>1, <2>2, <2>3
<1>4. \A k \in recent : k \in DOMAIN h
  OBVIOUS
<1>5. ASSUME NEW k \in DOMAIN h PROVE h[k].causes \in SUBSET DOMAIN h
  <2>1. CASE h[k].status = "reflection"
    <3>1. ReflectionOK(h, k)
      BY <2>1 DEF HistoryOK
    <3> QED
      BY <3>1 DEF ReflectionOK, InRound
  <2>2. CASE h[k].status # "reflection"
    <3>1. RecordOK(h[k])
      BY DEF HistoryOK
    <3> QED
      BY <2>2, <3>1 DEF RecordOK
  <2> QED
    BY <2>1, <2>2
<1>6. Visible(h) \in SUBSET DOMAIN h
  <2>1. \A j \in recent : h[j].causes \in SUBSET DOMAIN h
    BY <1>4, <1>5
  <2>2. first \in SUBSET DOMAIN h
    OBVIOUS
  <2> HIDE DEF recent, errors, first
  <2> QED
    BY <1>3, <1>4, <2>1, <2>2
<1>7. Len(h) > 0 => h[Len(h)].causes \subseteq Visible(h)
  <2>1. SUFFICES ASSUME Len(h) > 0 PROVE h[Len(h)].causes \subseteq Visible(h)
    OBVIOUS
  <2>2. Len(h) \in recent
    BY <1>1, <1>2, <2>1
  <2> HIDE DEF recent, first
  <2> QED
    BY <1>3, <2>2
<1>8. ASSUME NEW k \in DOMAIN h, Fails(h[k]), k \notin Visible(h)
      PROVE  /\ Len(h) - k >= RecentWindow
             /\ Cardinality({j \in 1..k - 1 : Fails(h[j])}) >= MaxNotable
  <2>1. k \notin recent
    BY <1>3, <1>8
  <2>2. k <= old /\ k \in errors
    BY <1>1, <1>2, <1>8, <2>1
  <2>3. {j \in errors : j < k} = {j \in 1..k - 1 : Fails(h[j])}
    <3>1. k \in Nat /\ k <= Len(h)
      BY <1>1
    <3>2. \A j \in DOMAIN h : j < k <=> j \in 1..k - 1
      BY <1>1, <3>1
    <3>3. \A j \in 1..k - 1 : j \in DOMAIN h /\ j <= old
      BY <1>1, <1>2, <2>2, <3>1
    <3> QED
      BY <3>2, <3>3
  <2>4. ~(Cardinality({j \in errors : j < k}) < MaxNotable)
    <3>1. k \notin first
      <4> HIDE DEF recent, errors, first
      <4> QED
        BY <1>3, <1>8
    <3> QED
      BY <2>2, <3>1
  <2>5. Cardinality({j \in 1..k - 1 : Fails(h[j])}) \in Nat
    <3>1. IsFiniteSet(1..k - 1)
      BY <1>1, FS_Interval
    <3>2. IsFiniteSet({j \in 1..k - 1 : Fails(h[j])})
      BY <3>1, FS_Subset
    <3> QED
      BY <3>2, FS_CardinalityType
  <2>6. ~(Cardinality({j \in 1..k - 1 : Fails(h[j])}) < MaxNotable)
    BY <2>3, <2>4
  <2>7. Len(h) - k >= RecentWindow
    BY <1>1, <1>2, <2>2
  <2> HIDE DEF old, recent, errors, first
  <2> QED
    BY <1>2, <2>5, <2>6, <2>7
<1> QED
  BY <1>6, <1>7, <1>8

\* How many records of a status there are.
Count(h, s) == Cardinality({k \in DOMAIN h : h[k].status = s})

LEMMA CountAppend ==
  ASSUME NEW h \in Seq(Records), NEW x \in Records, NEW s
  PROVE  /\ Count(h, s) \in Nat
         /\ Count(Append(h, x), s) = Count(h, s) + (IF x.status = s THEN 1 ELSE 0)
<1> DEFINE g == Append(h, x)
           S == {k \in DOMAIN h : h[k].status = s}
           T == {k \in DOMAIN g : g[k].status = s}
<1>1. /\ g[Len(h) + 1] = x /\ Len(h) \in Nat
      /\ DOMAIN g = 1..Len(h) + 1 /\ DOMAIN h = 1..Len(h)
      /\ \A k \in DOMAIN h : g[k] = h[k]
  BY AppendExtends
<1> HIDE DEF g
<1>2. IsFiniteSet(DOMAIN h)
  BY <1>1, FS_Interval
<1>3. IsFiniteSet(S)
  BY <1>2, FS_Subset
<1>4. Cardinality(S) \in Nat
  BY <1>3, FS_CardinalityType
<1>5. DOMAIN g = DOMAIN h \cup {Len(h) + 1} /\ Len(h) + 1 \notin DOMAIN h
  BY <1>1
<1>6. CASE x.status = s
  <2>1. T = S \cup {Len(h) + 1} /\ Len(h) + 1 \notin S
    BY <1>1, <1>5, <1>6
  <2>2. Cardinality(T) = Cardinality(S) + 1
    BY <1>3, <2>1, FS_AddElement
  <2> QED
    BY <1>4, <1>6, <2>2 DEF Count, g
<1>7. CASE x.status # s
  <2>1. T = S
    BY <1>1, <1>5, <1>7
  <2>2. Count(g, s) = Cardinality(T) /\ Count(h, s) = Cardinality(S)
    BY DEF Count
  <2> HIDE DEF S, T
  <2> QED
    BY <1>4, <1>7, <2>1, <2>2 DEF g
<1> QED
  BY <1>6, <1>7

LEMMA CountQuiet ==
  ASSUME NEW h \in Seq(Records), NEW q \in Seq(Records), NEW s,
         \A k \in 1..Len(q) : q[k].status # s
  PROVE  Count(h \o q, s) = Count(h, s)
<1> DEFINE g == h \o q
<1>1. /\ Extends(h, g) /\ \A k \in DOMAIN h : g[k] = h[k]
      /\ \A k \in Past(h, g) : k - Len(h) \in 1..Len(q) /\ g[k] = q[k - Len(h)]
  BY QuietExtends
<1> HIDE DEF g
<1>2. /\ \A k \in DOMAIN h : k \in DOMAIN g
      /\ \A k \in DOMAIN g : k \in DOMAIN h \/ k \in Past(h, g)
  BY <1>1, ExtendsTypes
<1>3. {k \in DOMAIN g : g[k].status = s} = {k \in DOMAIN h : h[k].status = s}
  BY <1>1, <1>2
<1> QED
  BY <1>3 DEF Count, g

-----------------------------------------------------------------------------
(* Records, results and the run directory *)

LEMMA ToolChainIs ==
  ASSUME NEW t \in Trainings
  PROVE  ToolChain(t).status \in {"failed", "succeeded"} /\ ToolChain(t).metric \in Metrics
<1>1. /\ t.ran \in BOOLEAN /\ t.psd \in BOOLEAN /\ t.metric \in Metrics /\ NoMetric \in Metrics
  BY LoopAssumption DEF Metrics, NoMetric
<1>2. CASE ~t.ran
  BY <1>1, <1>2 DEF ToolChain
<1>3. CASE t.ran /\ ~Verified(t)
  BY <1>1, <1>3 DEF ToolChain
<1>4. CASE t.ran /\ Verified(t)
  BY <1>1, <1>4 DEF ToolChain
<1> QED
  BY <1>1, <1>2, <1>3, <1>4

LEMMA ExperimentIs ==
  ASSUME NEW e \in Experiments \cup {None}
  PROVE  e.id \in Ids /\ e.ov \in Overrides
<1>1. CASE e \in Experiments
  <2>1. e.id \in {d.id : d \in Experiments}
    BY <1>1
  <2>2. e.ov \in {d.ov : d \in Experiments}
    BY <1>1
  <2> QED
    BY <2>1, <2>2 DEF Ids, Overrides
<1>2. CASE e = None
  <2>1. None.id = "" /\ None.ov = ""
    BY DEF None
  <2> QED
    BY <1>2, <2>1 DEF Ids, Overrides
<1> QED
  BY <1>1, <1>2

\* An experiment the guard refuses leaves a record.
LEMMA RejectionAppends ==
  ASSUME NEW e \in Experiments, round \in Nat, round >= 1, caused \in Cited, RejectOne(e)
  PROVE  \E x \in Records :
           /\ RecordOK(x) /\ x.status = "rejected" /\ x.round = round /\ x.event = TRUE
           /\ x.caused = caused
           /\ history' = Append(history, x) /\ records' = records \cup {Len(history) + 1}
<1>1. e.id \in Ids /\ e.ov \in Overrides
  BY ExperimentIs
<1>2. "rejected" \in Statuses /\ NoMetric \in Metrics /\ {} \in SUBSET Nat /\ 0 \in Nat
  BY DEF Statuses, Metrics, NoMetric
<1>3. PICK x : x = Record(e.id, "rejected", round, TRUE, e.ov, NoMetric, caused)
  OBVIOUS
<1>4. /\ x \in Records /\ x.status = "rejected" /\ x.round = round /\ x.event = TRUE
      /\ x.metric = NoMetric /\ x.caused = caused /\ x.causes = {}
  BY <1>1, <1>2, <1>3 DEF Record, Records
<1>5. history' = Append(history, x) /\ records' = records \cup {Len(history) + 1}
  BY <1>3 DEF RejectOne, Append1, Record
<1>6. RecordOK(x)
  BY <1>4 DEF RecordOK
<1> QED
  BY <1>4, <1>5, <1>6

\* So does one that is executed.
LEMMA ExecutionAppends ==
  ASSUME NEW e \in Experiments \cup {None}, NEW c \in Cited, NEW t \in Trainings,
         round \in Nat, round >= 1, ExecuteOne(e, c, t)
  PROVE  /\ executed' = executed + 1
         /\ \E x \in Records :
              /\ RecordOK(x) /\ x.status \in {"failed", "succeeded"} /\ x.round = round
              /\ x.event = TRUE /\ x.caused = c
              /\ history' = Append(history, x) /\ records' = records \cup {Len(history) + 1}
<1>1. e.id \in Ids /\ e.ov \in Overrides
  BY ExperimentIs
<1>2. PICK s, m : s = ToolChain(t).status /\ m = ToolChain(t).metric
  OBVIOUS
<1>3. s \in {"failed", "succeeded"} /\ m \in Metrics /\ s \in Statuses /\ {} \in SUBSET Nat /\ 0 \in Nat
  BY <1>2, ToolChainIs DEF Statuses
<1>4. PICK x : x = [id |-> e.id, status |-> s, round |-> round, event |-> TRUE, ov |-> e.ov,
                    metric |-> m, caused |-> c, causes |-> {}, best |-> 0]
  OBVIOUS
<1>5. /\ x \in Records /\ x.status = s /\ x.round = round /\ x.event = TRUE
      /\ x.metric = m /\ x.caused = c /\ x.causes = {}
  BY <1>1, <1>3, <1>4 DEF Records
<1>6. /\ history' = Append(history, x) /\ records' = records \cup {Len(history) + 1}
      /\ executed' = executed + 1
  BY <1>2, <1>4 DEF ExecuteOne, Append1, Record
<1>7. RecordOK(x)
  BY <1>2, <1>3, <1>5 DEF RecordOK
<1> QED
  BY <1>3, <1>5, <1>6, <1>7

LEMMA DiskUpdates ==
  ASSUME NEW d \in Disks, NEW r \in Nat, NEW q \in Results
  PROVE  /\ LET p == [d EXCEPT !.plans = @ \cup {r}] IN
            p \in Disks /\ p.plans = d.plans \cup {r}
              /\ p.reflections = d.reflections /\ p.result = d.result
         /\ LET p == [d EXCEPT !.reflections = @ \cup {r}] IN
            p \in Disks /\ p.plans = d.plans
              /\ p.reflections = d.reflections \cup {r} /\ p.result = d.result
         /\ LET p == [d EXCEPT !.result = q] IN
            p \in Disks /\ p.plans = d.plans
              /\ p.reflections = d.reflections /\ p.result = q
BY DEF Disks

LEMMA ResultIs ==
  ASSUME NEW s \in ResultStatuses, NEW h \in Seq(Records), NEW n \in Nat
  PROVE  LET q == [status |-> s, history |-> h, tokens |-> n] IN
         q \in Results /\ q.status = s /\ q.history = h /\ q.tokens = n
BY DEF Results

\* The loop returns.
LEMMA SaveIs ==
  ASSUME Types, HistoryInv, NEW s \in ResultStatuses, Save(s)
  PROVE  /\ pc' = "done" /\ disk' \in Disks /\ reported' \in Results
         /\ disk'.plans = disk.plans /\ disk'.reflections = disk.reflections
         /\ disk'.result = reported'
         /\ reported'.status = s /\ reported'.history = history /\ reported'.tokens = counted
<1> DEFINE q == [status |-> s, history |-> history, tokens |-> counted]
<1>1. history \in Seq(Records) /\ counted \in Nat /\ disk \in Disks
  BY DEF Types, TypeOK, ClientTypeOK, HistoryInv, HistoryOK
<1>2. q \in Results /\ q.status = s /\ q.history = history /\ q.tokens = counted
  BY <1>1, ResultIs
<1>3. pc' = "done" /\ reported' = q /\ disk' = [disk EXCEPT !.result = q]
  BY DEF Save
<1> HIDE DEF q
<1>4. LET p == [disk EXCEPT !.result = q] IN
      p \in Disks /\ p.plans = disk.plans /\ p.reflections = disk.reflections /\ p.result = q
  <2>1. 0 \in Nat
    OBVIOUS
  <2> QED
    BY <1>1, <1>2, <2>1, DiskUpdates
<1> QED
  BY <1>2, <1>3, <1>4

-----------------------------------------------------------------------------
(* The initial states, and the client *)

LEMMA LoopStarts == Init => LoopInv
<1> SUFFICES ASSUME Init PROVE LoopInv
  OBVIOUS
<1>1. /\ pc = "round" /\ round = 0 /\ todo = <<>> /\ executed = 0 /\ history = <<>> /\ records = {}
      /\ caused = NoEvent /\ retried = FALSE /\ retries = 0 /\ answered = 0 /\ retry = None
      /\ prompt = {} /\ disk = [plans |-> {}, reflections |-> {}, result |-> Earlier]
      /\ reported = NoResult /\ mode \in {"run", "streaming"}
      /\ ClientInit
  BY DEF Init
<1>2. /\ call = "idle" /\ attempt = 0 /\ conn = "none" /\ dying = 0 /\ leaked = 0 /\ nulled = 0
      /\ hangs = 0 /\ lost = 0 /\ billed = 0 /\ counted = 0
  BY <1>1 DEF ClientInit
<1>3. /\ history \in Seq(Records) /\ Len(history) = 0 /\ DOMAIN history = {}
  BY <1>1
<1>4. NoResult \in Results /\ Earlier \in Results /\ NoResult.status = "none"
  BY <1>1, <1>3 DEF NoResult, Earlier, Results, ResultStatuses
<1>5. disk \in Disks /\ disk.plans = {} /\ disk.reflections = {} /\ disk.result = Earlier
  BY <1>1, <1>4 DEF Disks
<1>6. Types
  <2>1. ClientTypeOK
    BY <1>2, ClientAssumption DEF ClientTypeOK
  <2>2. TypeOK
    <3>1. /\ pc = "round" /\ round = 0 /\ executed = 0 /\ retried = FALSE /\ retries = 0
          /\ answered = 0 /\ prompt = {} /\ mode \in {"run", "streaming"}
      BY <1>1
    <3>2. round \in 0..MaxRounds /\ executed \in 0..MaxExperiments /\ retries \in 0..PlannerRetries
      BY <3>1, LoopAssumption
    <3>3. disk.plans \cup disk.reflections \subseteq 1..MaxRounds
      BY <1>5
    <3>4. answered \in 0..Len(history) /\ prompt \subseteq DOMAIN history
      BY <1>3, <3>1
    <3> QED
      BY <2>1, <3>1, <3>2, <3>3, <3>4 DEF TypeOK
  <2>3. caused \in Cited
    BY <1>1 DEF Cited
  <2> QED
    BY <1>1, <1>4, <1>5, <2>2, <2>3 DEF Types
<1>7. ClientInv
  BY <1>1, <1>2, <1>4 DEF ClientInv
<1>8. HistoryOK(history, 0) /\ InRound(history, 0) = {}
  BY <1>3 DEF HistoryOK, InRound
<1>9. HistoryInv
  BY <1>1, <1>8 DEF HistoryInv, Open
<1>10. QuotaInv
  <2>1. /\ {k \in DOMAIN history : history[k].status = "failed"} = {}
        /\ {k \in DOMAIN history : history[k].status = "succeeded"} = {}
    BY <1>3
  <2> QED
    BY <1>1, <2>1, FS_EmptySet DEF QuotaInv
<1>11. AnswerInv /\ PromptsTell
  BY <1>1 DEF AnswerInv, PromptsTell, LastRoundShown, RejectionShown
<1>12. DiskInv
  BY <1>1, <1>5 DEF DiskInv
<1> QED
  BY <1>6, <1>7, <1>9, <1>10, <1>11, <1>12 DEF LoopInv

\* What the client's own steps preserve.
LEMMA ClientMoves ==
  ASSUME ClientTypeOK, ClientInv, UNCHANGED <<pc, reported>>, reported.status # "planner_error",
         ClientStep
  PROVE  ClientTypeOK' /\ ClientInv' /\ call = "trying"
<1> USE ClientAssumption DEF ClientTypeOK, ClientInv
<1>1. CASE Answer
  <2>1. /\ call = "trying" /\ call' = "ok" /\ billed' = billed + 1
        /\ UNCHANGED <<attempt, conn, dying, leaked, nulled, hangs>>
    BY <1>1 DEF Answer
  <2>2. CASE counted' = counted + 1 /\ lost' = lost
    BY <2>1, <2>2
  <2>3. CASE hangs + lost < MaxLosses /\ counted' = counted /\ lost' = lost + 1
    BY <2>1, <2>3
  <2> QED
    BY <1>1, <2>2, <2>3 DEF Answer
<1>2. CASE AnswerUnusable
  BY <1>2 DEF AnswerUnusable
<1>3. CASE Refused
  <2>1. /\ call = "trying" /\ TryAgain /\ UNCHANGED <<dying, leaked, nulled, hangs, counted>>
    BY <1>3 DEF Refused
  <2>2. CASE UNCHANGED <<lost, billed>>
    BY <2>1, <2>2 DEF TryAgain
  <2>3. CASE hangs + lost < MaxLosses /\ lost' = lost + 1 /\ billed' = billed + 1
    BY <2>1, <2>3 DEF TryAgain
  <2> QED
    BY <1>3, <2>2, <2>3 DEF Refused
<1>4. CASE Hang
  <2>1. CASE conn = "open"
    BY <1>4, <2>1 DEF Hang, TryAgain
  <2>2. CASE conn # "open"
    BY <1>4, <2>2 DEF Hang, TryAgain
  <2> QED
    BY <2>1, <2>2
<1>5. CASE ThreadDies
  BY <1>5 DEF ThreadDies
<1> QED
  BY <1>1, <1>2, <1>3, <1>4, <1>5 DEF ClientStep

\* A call begins: for a plan, or for the next attempt at one.
LEMMA CallStarts ==
  ASSUME ClientTypeOK, ClientInv, StartCall, UNCHANGED reported, reported.status # "planner_error",
         call # "raised", pc' \in {"planning", "recovering"}
  PROVE  ClientTypeOK' /\ ClientInv'
<1>1. /\ call' = "trying" /\ attempt' = 0 /\ conn' = "open"
      /\ dying' \in 0..dying /\ leaked' \in 0..leaked
      /\ UNCHANGED <<nulled, hangs, lost, billed, counted>>
  BY DEF StartCall
<1>2. ClientTypeOK'
  BY <1>1, ClientAssumption DEF ClientTypeOK
<1>3. ClientInv'
  BY <1>1 DEF ClientInv, ClientTypeOK
<1> QED
  BY <1>2, <1>3

\* A call ends, and its exception is reported if there was one.
LEMMA CallEnds ==
  ASSUME ClientTypeOK, ClientInv, EndCall, pc' \notin {"planning", "recovering"},
         call = "raised" => reported'.status = "planner_error",
         reported.status = "planner_error" => reported'.status = "planner_error"
  PROVE  ClientTypeOK' /\ ClientInv'
<1>1. call' = "idle" /\ UNCHANGED <<attempt, conn, dying, leaked, nulled, hangs, lost, billed, counted>>
  BY DEF EndCall
<1>2. ClientTypeOK'
  BY <1>1 DEF ClientTypeOK
<1>3. ClientInv'
  BY <1>1 DEF ClientInv, ClientTypeOK
<1> QED
  BY <1>2, <1>3

\* Between calls nothing of it changes.
LEMMA ClientRests ==
  ASSUME ClientTypeOK, ClientInv, UNCHANGED clientVars,
         (pc \in {"planning", "recovering"}) <=> (pc' \in {"planning", "recovering"}),
         reported.status = "planner_error" => reported'.status = "planner_error"
  PROVE  ClientTypeOK' /\ ClientInv'
<1>1. UNCHANGED <<call, attempt, conn, dying, leaked, nulled, hangs, lost, billed, counted>>
  BY DEF clientVars
<1>2. ClientTypeOK'
  BY <1>1 DEF ClientTypeOK
<1>3. ClientInv'
  BY <1>1 DEF ClientInv, ClientTypeOK
<1> QED
  BY <1>2, <1>3

-----------------------------------------------------------------------------
(* The steps of the loop *)

LEMMA LoopTypes ==
  ASSUME LoopInv
  PROVE  /\ ClientTypeOK /\ mode \in {"run", "streaming"} /\ round \in Nat /\ round <= MaxRounds
         /\ executed \in Nat /\ executed <= MaxExperiments /\ retries \in 0..PlannerRetries
         /\ answered \in Nat /\ retried \in BOOLEAN /\ prompt \subseteq DOMAIN history
         /\ todo \in Seq(Experiments) /\ retry \in Experiments \cup {None} /\ caused \in Cited
         /\ disk \in Disks /\ reported \in Results
         /\ disk.plans \subseteq 1..MaxRounds /\ disk.reflections \subseteq 1..MaxRounds
         /\ history \in Seq(Records) /\ DOMAIN history = 1..Len(history) /\ Len(history) \in Nat
         /\ counted \in Nat /\ HistoryOK(history, round) /\ records = InRound(history, round)
<1>1. Types /\ HistoryInv
  BY DEF LoopInv
<1>2. history \in Seq(Records)
  BY <1>1 DEF HistoryInv, HistoryOK
<1>3. DOMAIN history = 1..Len(history) /\ Len(history) \in Nat
  BY <1>2
<1>4. HistoryOK(history, round) /\ records = InRound(history, round)
  BY <1>1 DEF HistoryInv
<1>5. TypeOK
  BY <1>1 DEF Types
<1>6. ClientTypeOK
  BY <1>5 DEF TypeOK
<1>7. counted \in Nat
  BY <1>6 DEF ClientTypeOK
<1>8. answered \in Nat
  BY <1>3, <1>5 DEF TypeOK
<1> QED
  BY <1>1, <1>2, <1>3, <1>4, <1>5, <1>6, <1>7, <1>8, LoopAssumption DEF Types, TypeOK

\* The loop or its client ends a run: nothing is added to the history.
LEMMA EndKeeps ==
  ASSUME LoopInv, pc' \in {"done", "raised", "left"}, ClientTypeOK',
         UNCHANGED <<mode, round, executed, history, records, caused, retried, retries, answered,
                     retry, prompt>>,
         todo' \in Seq(Experiments), disk' \in Disks, reported' \in Results,
         disk'.plans \subseteq 1..MaxRounds, disk'.reflections \subseteq 1..MaxRounds
  PROVE  Types' /\ HistoryInv' /\ QuotaInv' /\ AnswerInv' /\ PromptsTell'
<1>1. Types'
  <2>1. Types /\ TypeOK
    BY DEF LoopInv, Types
  <2>2. /\ disk'.plans \cup disk'.reflections \subseteq 1..MaxRounds
        /\ pc' \in {"round", "planning", "experiments", "recovering", "retrying",
                   "done", "raised", "left"}
    OBVIOUS
  <2>3. TypeOK'
    BY <2>1, <2>2 DEF TypeOK
  <2> QED
    BY <2>1, <2>3 DEF Types
<1>2. HistoryInv'
  <2>1. HistoryInv
    BY DEF LoopInv
  <2> QED
    BY <2>1 DEF HistoryInv, Open
<1>3. QuotaInv'
  <2>1. QuotaInv
    BY DEF LoopInv
  <2> QED
    BY <2>1 DEF QuotaInv
<1>4. AnswerInv' /\ PromptsTell'
  BY DEF AnswerInv, PromptsTell, LastRoundShown, RejectionShown
<1> QED
  BY <1>1, <1>2, <1>3, <1>4

\* What was written for the rounds before stays.
LEMMA DiskKept ==
  ASSUME DiskInv, NEW d, disk.plans \subseteq d.plans, disk.reflections \subseteq d.reflections
  PROVE  \A r \in 1..round :
           r < round =>
             /\ r \in d.plans
             /\ InRound(history, r) # {} =>
                  /\ \E k \in DOMAIN history :
                       history[k].status = "reflection" /\ history[k].round = r
                  /\ r \in d.reflections
BY DEF DiskInv

\* It returns with a result.
LEMMA ReturnStep ==
  ASSUME LoopInv, pc \notin {"done", "raised", "left"}, NEW s \in ResultStatuses, Save(s),
         ClientTypeOK', ClientInv', counted' = counted,
         UNCHANGED <<mode, round, loopVars, prompt>>
  PROVE  LoopInv'
<1>1. UNCHANGED <<todo, executed, history, records, caused, retried, retries, answered, retry>>
  BY DEF loopVars
<1>2. /\ todo \in Seq(Experiments) /\ disk.plans \subseteq 1..MaxRounds
      /\ disk.reflections \subseteq 1..MaxRounds
  BY LoopTypes
<1>3. /\ pc' = "done" /\ disk' \in Disks /\ reported' \in Results
      /\ disk'.plans = disk.plans /\ disk'.reflections = disk.reflections
      /\ disk'.result = reported' /\ reported'.history = history /\ reported'.tokens = counted
  BY SaveIs DEF LoopInv
<1>4. Types' /\ HistoryInv' /\ QuotaInv' /\ AnswerInv' /\ PromptsTell'
  BY <1>1, <1>2, <1>3, EndKeeps
<1>5. DiskInv'
  <2>1. DiskInv
    BY DEF LoopInv
  <2>2. \A r \in 1..round :
          r < round =>
            /\ r \in disk'.plans
            /\ InRound(history, r) # {} =>
                 /\ \E k \in DOMAIN history :
                      history[k].status = "reflection" /\ history[k].round = r
                 /\ r \in disk'.reflections
    BY <2>1, <1>3, DiskKept
  <2> QED
    BY <1>1, <1>3, <2>2 DEF DiskInv
<1> QED
  BY <1>4, <1>5 DEF LoopInv

LEMMA NothingReported ==
  ASSUME LoopInv, pc \notin {"done", "raised"}
  PROVE  reported = NoResult /\ reported.status # "planner_error" /\ disk.result = Earlier
<1>1. reported = NoResult /\ disk.result = Earlier
  BY DEF LoopInv, DiskInv
<1>2. NoResult.status = "none"
  BY DEF NoResult
<1> QED
  BY <1>1, <1>2

LEMMA FinishRoundsStep == ASSUME LoopInv, FinishRounds PROVE LoopInv'
<1>1. /\ pc = "round" /\ Save("max_rounds_reached")
      /\ UNCHANGED <<clientVars, mode, round, loopVars, prompt>>
  BY DEF FinishRounds
<1>2. "max_rounds_reached" \in ResultStatuses /\ pc' = "done"
  BY <1>1 DEF ResultStatuses, Save
<1>3. reported.status # "planner_error"
  BY <1>1, NothingReported
<1>4. ClientTypeOK /\ ClientInv
  BY LoopTypes DEF LoopInv
<1>5. ClientTypeOK' /\ ClientInv' /\ counted' = counted
  <2>1. counted' = counted
    BY <1>1 DEF clientVars
  <2> QED
    BY <1>1, <1>2, <1>3, <1>4, <2>1, ClientRests
<1> QED
  BY <1>1, <1>2, <1>5, ReturnStep

LEMMA QuotaReachedStep == ASSUME LoopInv, QuotaReached PROVE LoopInv'
<1>1. /\ pc = "experiments" /\ Save("max_experiments_reached")
      /\ UNCHANGED <<clientVars, mode, round, loopVars, prompt>>
  BY DEF QuotaReached
<1>2. "max_experiments_reached" \in ResultStatuses /\ pc' = "done"
  BY <1>1 DEF ResultStatuses, Save
<1>3. reported.status # "planner_error"
  BY <1>1, NothingReported
<1>4. ClientTypeOK /\ ClientInv
  BY LoopTypes DEF LoopInv
<1>5. ClientTypeOK' /\ ClientInv' /\ counted' = counted
  <2>1. counted' = counted
    BY <1>1 DEF clientVars
  <2> QED
    BY <1>1, <1>2, <1>3, <1>4, <2>1, ClientRests
<1> QED
  BY <1>1, <1>2, <1>5, ReturnStep

\* run() raises.
LEMMA RaiseStep ==
  ASSUME LoopInv, pc \in {"planning", "recovering"}, mode = "run", EndCall, Raise,
         UNCHANGED <<mode, round, loopVars, prompt>>
  PROVE  LoopInv'
<1>0. call' = "idle" /\ UNCHANGED <<attempt, conn, dying, leaked, nulled, hangs, lost, billed, counted>>
  BY DEF EndCall
<1>1. UNCHANGED <<todo, executed, history, records, caused, retried, retries, answered, retry>>
  BY DEF loopVars
<1>2. /\ todo \in Seq(Experiments) /\ disk.plans \subseteq 1..MaxRounds /\ disk \in Disks
      /\ disk.reflections \subseteq 1..MaxRounds /\ counted \in Nat /\ ClientTypeOK
  BY LoopTypes
<1>3. /\ pc' = "raised" /\ disk' = disk
      /\ reported' = [status |-> "planner_error", history |-> <<>>, tokens |-> counted]
  BY DEF Raise
<1>4. /\ reported' \in Results /\ reported'.status = "planner_error"
      /\ reported'.history = <<>> /\ reported'.tokens = counted
  <2>1. "planner_error" \in ResultStatuses /\ <<>> \in Seq(Records)
    BY DEF ResultStatuses
  <2> QED
    BY <1>2, <1>3, <2>1, ResultIs
<1>5. ClientTypeOK' /\ ClientInv'
  <2>1. ClientInv
    BY DEF LoopInv
  <2> QED
    BY <1>2, <1>3, <1>4, <2>1, CallEnds
<1>6. Types' /\ HistoryInv' /\ QuotaInv' /\ AnswerInv' /\ PromptsTell'
  BY <1>1, <1>2, <1>3, <1>4, <1>5, EndKeeps
<1>7. DiskInv'
  <2>1. DiskInv
    BY DEF LoopInv
  <2>2. \A r \in 1..round :
          r < round =>
            /\ r \in disk.plans
            /\ InRound(history, r) # {} =>
                 /\ \E k \in DOMAIN history :
                      history[k].status = "reflection" /\ history[k].round = r
                 /\ r \in disk.reflections
    BY <2>1, DiskKept
  <2>3. disk.result = Earlier
    BY NothingReported
  <2> QED
    BY <1>0, <1>1, <1>3, <1>4, <2>2, <2>3 DEF DiskInv
<1> QED
  BY <1>5, <1>6, <1>7 DEF LoopInv

LEMMA PlanFailsStep == ASSUME LoopInv, PlanFails PROVE LoopInv'
<1>1. /\ pc = "planning" /\ EndCall /\ call \in {"ok", "raised"}
      /\ UNCHANGED <<mode, round, loopVars, prompt>>
  BY DEF PlanFails
<1>2. CASE mode = "streaming"
  <2>1. Save("planner_error") /\ pc' = "done"
    BY <1>2 DEF PlanFails, Save
  <2>2. "planner_error" \in ResultStatuses
    BY DEF ResultStatuses
  <2>3. reported'.status = "planner_error"
    BY <2>1, <2>2, SaveIs DEF LoopInv
  <2>4. ClientTypeOK /\ ClientInv /\ counted' = counted
    BY <1>1, LoopTypes DEF LoopInv, EndCall
  <2>5. ClientTypeOK' /\ ClientInv'
    BY <1>1, <2>1, <2>3, <2>4, CallEnds
  <2> QED
    BY <1>1, <2>1, <2>2, <2>4, <2>5, ReturnStep
<1>3. CASE mode # "streaming"
  <2>1. Raise /\ mode = "run"
    BY <1>3, LoopTypes DEF PlanFails
  <2> QED
    BY <1>1, <2>1, RaiseStep
<1> QED
  BY <1>2, <1>3

LEMMA RetryFailsStep == ASSUME LoopInv, RetryFails PROVE LoopInv'
<1>1. pc = "recovering" /\ EndCall /\ Raise /\ UNCHANGED <<mode, round, loopVars, prompt>>
  BY DEF RetryFails
<1>2. mode = "run"
  BY <1>1 DEF LoopInv, DiskInv
<1> QED
  BY <1>1, <1>2, RaiseStep

LEMMA LeaveStep == ASSUME LoopInv, Leave PROVE LoopInv'
<1>1. /\ mode = "streaming" /\ pc \in {"round", "experiments"} /\ pc' = "left"
      /\ UNCHANGED <<clientVars, mode, round, loopVars, prompt, disk, reported>>
  BY DEF Leave
<1>2. UNCHANGED <<todo, executed, history, records, caused, retried, retries, answered, retry>>
  BY <1>1 DEF loopVars
<1>3. /\ todo \in Seq(Experiments) /\ disk.plans \subseteq 1..MaxRounds /\ disk \in Disks
      /\ disk.reflections \subseteq 1..MaxRounds /\ ClientTypeOK /\ reported \in Results
  BY LoopTypes
<1>4. reported = NoResult /\ disk.result = Earlier
  BY <1>1, NothingReported
<1>5. ClientTypeOK' /\ ClientInv'
  <2>1. ClientInv
    BY DEF LoopInv
  <2> QED
    BY <1>1, <1>3, <2>1, ClientRests
<1>6. Types' /\ HistoryInv' /\ QuotaInv' /\ AnswerInv' /\ PromptsTell'
  BY <1>1, <1>2, <1>3, <1>5, EndKeeps
<1>7. DiskInv'
  <2>1. DiskInv
    BY DEF LoopInv
  <2>2. \A r \in 1..round :
          r < round =>
            /\ r \in disk.plans
            /\ InRound(history, r) # {} =>
                 /\ \E k \in DOMAIN history :
                      history[k].status = "reflection" /\ history[k].round = r
                 /\ r \in disk.reflections
    BY <2>1, DiskKept
  <2> QED
    BY <1>1, <1>2, <1>4, <2>2 DEF DiskInv
<1> QED
  BY <1>5, <1>6, <1>7 DEF LoopInv

LEMMA ClientRunsStep == ASSUME LoopInv, ClientRuns PROVE LoopInv'
<1>1. ClientStep /\ UNCHANGED <<mode, pc, round, loopVars, prompt, disk, reported>>
  BY DEF ClientRuns
<1>2. UNCHANGED <<todo, executed, history, records, caused, retried, retries, answered, retry>>
  BY <1>1 DEF loopVars
<1>3. call = "trying"
  BY <1>1 DEF ClientStep, Answer, AnswerUnusable, Refused, Hang, ThreadDies
<1>4. pc \in {"planning", "recovering"}
  BY <1>3 DEF LoopInv, ClientInv
<1>5. reported.status # "planner_error"
  BY <1>4, NothingReported
<1>6. ClientTypeOK /\ ClientInv
  BY LoopTypes DEF LoopInv
<1>7. ClientTypeOK' /\ ClientInv'
  BY <1>1, <1>5, <1>6, ClientMoves
<1>8. Types'
  BY <1>1, <1>2, <1>7 DEF LoopInv, Types, TypeOK
<1>9. HistoryInv' /\ QuotaInv' /\ AnswerInv'
  BY <1>1, <1>2 DEF LoopInv, HistoryInv, Open, QuotaInv, AnswerInv
<1>10. DiskInv'
  BY <1>1, <1>2, <1>4 DEF LoopInv, DiskInv
<1>11. PromptsTell'
  BY <1>1, <1>2 DEF LoopInv, PromptsTell, LastRoundShown, RejectionShown, OfRound
<1> QED
  BY <1>7, <1>8, <1>9, <1>10, <1>11 DEF LoopInv

\* A round begins.
LEMMA StartRoundStep == ASSUME LoopInv, StartRound PROVE LoopInv'
<1>1. /\ pc = "round" /\ round < MaxRounds /\ round' = round + 1 /\ records' = {}
      /\ retried' = FALSE /\ caused' = FirstFailure(history) /\ prompt' = Visible(history)
      /\ pc' = "planning" /\ StartCall
      /\ UNCHANGED <<mode, todo, executed, history, retries, answered, retry, disk, reported>>
  BY DEF StartRound
<1>2. /\ round \in Nat /\ HistoryOK(history, round) /\ records = InRound(history, round)
      /\ history \in Seq(Records) /\ DOMAIN history = 1..Len(history) /\ Len(history) \in Nat
      /\ MaxRounds \in Nat
  BY LoopTypes, LoopAssumption
<1>3. /\ HistoryOK(history, round + 1) /\ InRound(history, round + 1) = {}
      /\ \A k \in DOMAIN history : history[k].round < round + 1
  BY <1>2, NextRoundEmpty
<1>4. /\ FirstFailure(history) \in Cited
      /\ CitesFirst(history, FirstFailure(history), round + 1, Len(history) + 1)
  <2>1. round + 1 \in Nat /\ round <= round + 1
    BY <1>2
  <2> QED
    BY <1>2, <2>1, FirstCites
<1>5. /\ Visible(history) \in SUBSET DOMAIN history
      /\ Len(history) > 0 => history[Len(history)].causes \subseteq Visible(history)
  BY <1>2, VisibleIs
<1>6. ClientTypeOK' /\ ClientInv'
  <2>1. ClientTypeOK /\ ClientInv /\ reported.status # "planner_error"
    BY <1>1, LoopTypes, NothingReported DEF LoopInv
  <2>2. call # "raised"
    BY <1>1 DEF LoopInv, ClientInv
  <2> QED
    BY <1>1, <2>1, <2>2, CallStarts
<1>7. Types'
  <2>1. Types /\ TypeOK
    BY DEF LoopInv, Types
  <2>2. round + 1 \in 0..MaxRounds
    BY <1>1, <1>2
  <2>3. TypeOK'
    BY <1>1, <1>5, <1>6, <2>1, <2>2 DEF TypeOK
  <2> QED
    BY <1>1, <1>4, <2>1, <2>3 DEF Types
<1>8. HistoryInv'
  <2>1. round + 1 >= 1
    BY <1>2
  <2> QED
    BY <1>1, <1>3, <1>4, <2>1 DEF HistoryInv, Open
<1>9. QuotaInv' /\ AnswerInv'
  BY <1>1 DEF LoopInv, QuotaInv, AnswerInv
<1>10. DiskInv'
  <2>1. DiskInv
    BY DEF LoopInv
  <2>2. \A r \in 1..round + 1 : r < round + 1 => r \in 1..round
    BY <1>2
  <2> QED
    BY <1>1, <2>1, <2>2 DEF DiskInv
<1>11. PromptsTell'
  <2>1. {k \in InRound(history, round) : Fails(history[k])} \subseteq Visible(history)
    <3>1. CASE records = {}
      BY <1>2, <3>1
    <3>2. CASE records # {}
      <4>1. /\ history[Len(history)].status = "reflection"
            /\ history[Len(history)].round = round
        BY <1>1, <3>2 DEF LoopInv, HistoryInv
      <4>2. Len(history) > 0 /\ Len(history) \in DOMAIN history
        BY <1>2, <3>2 DEF InRound
      <4>3. ReflectionOK(history, Len(history))
        BY <1>2, <4>1, <4>2 DEF HistoryOK
      <4> QED
        BY <1>5, <4>1, <4>2, <4>3 DEF ReflectionOK
    <3> QED
      BY <3>1, <3>2
  <2>2. round' - 1 = round
    BY <1>1, <1>2
  <2> QED
    BY <1>1, <2>1, <2>2 DEF PromptsTell, LastRoundShown, RejectionShown, OfRound, InRound
<1> QED
  BY <1>6, <1>7, <1>8, <1>9, <1>10, <1>11 DEF LoopInv

\* The plan of a round.
LEMMA PlanArrivesStep == ASSUME LoopInv, PlanArrives PROVE LoopInv'
<1>1. /\ pc = "planning" /\ call = "ok" /\ EndCall
      /\ UNCHANGED <<mode, round, executed, history, records, caused, retried, retries,
                     answered, retry, prompt>>
  BY DEF PlanArrives
<1>2. PICK p \in Plans :
        LET d == [disk EXCEPT !.plans = @ \cup {round}]
        IN IF p.stop /\ p.exps = <<>>
           THEN LET result == [status |-> "stopped", history |-> history, tokens |-> counted]
                IN  /\ disk' = [d EXCEPT !.result = result] /\ reported' = result
                    /\ pc' = "done" /\ todo' = <<>>
           ELSE /\ disk' = d /\ todo' = p.exps /\ pc' = "experiments"
                /\ UNCHANGED reported
  BY DEF PlanArrives
<1> DEFINE d == [disk EXCEPT !.plans = @ \cup {round}]
           q == [status |-> "stopped", history |-> history, tokens |-> counted]
<1>3. /\ round \in Nat /\ round <= MaxRounds /\ disk \in Disks /\ history \in Seq(Records)
      /\ counted \in Nat /\ reported \in Results /\ ClientTypeOK /\ ClientInv
      /\ disk.plans \subseteq 1..MaxRounds /\ disk.reflections \subseteq 1..MaxRounds
  BY LoopTypes DEF LoopInv
<1>4. round >= 1
  BY <1>1 DEF LoopInv, HistoryInv, Open
<1>5. reported = NoResult /\ reported.status # "planner_error" /\ disk.result = Earlier
  BY <1>1, NothingReported
<1>6. q \in Results /\ q.status = "stopped" /\ q.history = history /\ q.tokens = counted
  <2>1. "stopped" \in ResultStatuses
    BY DEF ResultStatuses
  <2> QED
    BY <1>3, <2>1, ResultIs
<1>7. /\ d \in Disks /\ d.plans = disk.plans \cup {round} /\ d.reflections = disk.reflections
      /\ d.result = disk.result
  BY <1>3, DiskUpdates
<1> HIDE DEF d, q
<1>8. d.plans \subseteq 1..MaxRounds
  BY <1>3, <1>4, <1>7, LoopAssumption
<1>9. \A r \in 1..round :
        r < round =>
          /\ r \in d.plans
          /\ InRound(history, r) # {} =>
               /\ \E k \in DOMAIN history : history[k].status = "reflection" /\ history[k].round = r
               /\ r \in d.reflections
  BY <1>7, DiskKept DEF LoopInv
<1>10. CASE p.stop /\ p.exps = <<>>
  <2>1. disk' = [d EXCEPT !.result = q] /\ reported' = q /\ pc' = "done" /\ todo' = <<>>
    BY <1>2, <1>10 DEF d, q
  <2>2. LET x == [d EXCEPT !.result = q] IN
        x \in Disks /\ x.plans = d.plans /\ x.reflections = d.reflections /\ x.result = q
    <3>1. d \in Disks /\ q \in Results /\ round \in Nat
      BY <1>3, <1>6, <1>7
    <3> QED
      BY <3>1, DiskUpdates
  <2>3. ClientTypeOK' /\ ClientInv'
    BY <1>1, <1>3, <1>5, <2>1, CallEnds
  <2>4. todo' \in Seq(Experiments) /\ reported' \in Results
    BY <1>6, <2>1
  <2>5. Types' /\ HistoryInv' /\ QuotaInv' /\ AnswerInv' /\ PromptsTell'
    BY <1>1, <1>3, <1>7, <1>8, <2>1, <2>2, <2>3, <2>4, EndKeeps
  <2>6. counted' = counted
    BY <1>1 DEF EndCall
  <2>7. DiskInv'
    BY <1>1, <1>6, <1>9, <2>1, <2>2, <2>6 DEF DiskInv
  <2> QED
    BY <2>3, <2>5, <2>7 DEF LoopInv
<1>11. CASE ~(p.stop /\ p.exps = <<>>)
  <2>1. disk' = d /\ todo' = p.exps /\ pc' = "experiments" /\ reported' = reported
    BY <1>2, <1>11 DEF d
  <2>2. p.exps \in Seq(Experiments)
    BY LoopAssumption
  <2>3. ClientTypeOK' /\ ClientInv'
    BY <1>1, <1>3, <1>5, <2>1, CallEnds
  <2>4. Types'
    <3>1. Types /\ TypeOK
      BY DEF LoopInv, Types
    <3>2. d.plans \cup d.reflections \subseteq 1..MaxRounds
      BY <1>3, <1>7, <1>8
    <3>3. TypeOK'
      BY <1>1, <2>1, <2>3, <3>1, <3>2 DEF TypeOK
    <3> QED
      BY <1>1, <1>7, <2>1, <2>2, <3>1, <3>3 DEF Types
  <2>5. HistoryInv'
    BY <1>1, <2>1 DEF LoopInv, HistoryInv, Open
  <2>6. QuotaInv' /\ AnswerInv' /\ PromptsTell'
    BY <1>1, <2>1
       DEF LoopInv, QuotaInv, AnswerInv, PromptsTell, LastRoundShown, RejectionShown
  <2>7. DiskInv'
    <3>1. round \in d.plans
      BY <1>7
    <3> QED
      BY <1>1, <1>5, <1>7, <1>9, <2>1, <3>1 DEF DiskInv
  <2> QED
    BY <2>3, <2>4, <2>5, <2>6, <2>7 DEF LoopInv
<1> QED
  BY <1>10, <1>11

\* What a record of the round that is on changes.
LEMMA RecordAdded ==
  ASSUME LoopInv, pc \in {"experiments", "retrying"}, pc' \in {"experiments", "recovering"},
         NEW x \in Records, RecordOK(x), x.event = TRUE, x.round = round,
         CitesFirst(history, x.caused, round, Len(history) + 1),
         history' = Append(history, x), records' = records \cup {Len(history) + 1},
         UNCHANGED <<mode, round, caused, disk, reported>>,
         executed' = executed + (IF x.status \in {"failed", "succeeded"} THEN 1 ELSE 0),
         pc' = "recovering" => executed' < MaxExperiments /\ mode = "run"
  PROVE  /\ HistoryInv' /\ QuotaInv' /\ DiskInv'
         /\ Len(history') = Len(history) + 1 /\ history'[Len(history) + 1] = x
         /\ DOMAIN history' = 1..Len(history) + 1
<1>1. /\ round \in Nat /\ HistoryOK(history, round) /\ records = InRound(history, round)
      /\ history \in Seq(Records) /\ DOMAIN history = 1..Len(history) /\ Len(history) \in Nat
      /\ executed \in Nat
  BY LoopTypes
<1>2. /\ round >= 1 /\ CitesFirst(history, caused, round, Len(history) + 1)
      /\ \A p \in DOMAIN history : history[p].status = "reflection" => history[p].round < round
  BY DEF LoopInv, HistoryInv, Open
<1> DEFINE g == Append(history, x)
<1>3. /\ Len(g) = Len(history) + 1 /\ g[Len(history) + 1] = x
      /\ DOMAIN g = 1..Len(history) + 1 /\ \A k \in DOMAIN history : g[k] = history[k]
  BY <1>1, AppendExtends
<1>4. /\ HistoryOK(g, round)
      /\ InRound(g, round) = InRound(history, round) \cup {Len(history) + 1}
      /\ \A q : q # round => InRound(g, q) = InRound(history, q)
      /\ \A p \in DOMAIN g : g[p].status = "reflection" => g[p].round < round
      /\ \A c : CitesFirst(history, c, round, Len(history) + 1)
                  => CitesFirst(g, c, round, Len(g) + 1)
  BY <1>1, <1>2, ExperimentJoins
<1>5. \A s : /\ Count(history, s) \in Nat
             /\ Count(g, s) = Count(history, s) + (IF x.status = s THEN 1 ELSE 0)
  BY <1>1, CountAppend
<1> HIDE DEF g
<1>6. history' = g
  BY DEF g
<1>7. HistoryInv'
  BY <1>1, <1>2, <1>4, <1>6 DEF HistoryInv, Open
<1>8. QuotaInv'
  <2>1. executed = Count(history, "failed") + Count(history, "succeeded")
    BY DEF LoopInv, QuotaInv, Count
  <2>2. executed' = Count(g, "failed") + Count(g, "succeeded")
    <3>1. Count(history, "failed") \in Nat /\ Count(history, "succeeded") \in Nat
      BY <1>5
    <3>2. /\ Count(g, "failed") = Count(history, "failed")
                                  + (IF x.status = "failed" THEN 1 ELSE 0)
          /\ Count(g, "succeeded") = Count(history, "succeeded")
                                     + (IF x.status = "succeeded" THEN 1 ELSE 0)
      BY <1>5
    <3> DEFINE a == Count(history, "failed")
               b == Count(history, "succeeded")
               c == Count(g, "failed")
               d == Count(g, "succeeded")
    <3> HIDE DEF a, b, c, d
    <3>3. a \in Nat /\ b \in Nat /\ executed = a + b
      BY <2>1, <3>1 DEF a, b
    <3>4. CASE x.status = "failed"
      <4>1. c = a + 1 /\ d = b /\ executed' = executed + 1
        BY <3>1, <3>2, <3>4 DEF a, b, c, d
      <4>2. executed' = c + d
        BY <3>3, <4>1
      <4> QED
        BY <4>2 DEF c, d
    <3>5. CASE x.status = "succeeded"
      <4>1. c = a /\ d = b + 1 /\ executed' = executed + 1
        BY <3>1, <3>2, <3>5 DEF a, b, c, d
      <4>2. executed' = c + d
        BY <3>3, <4>1
      <4> QED
        BY <4>2 DEF c, d
    <3>6. CASE x.status \notin {"failed", "succeeded"}
      <4>1. c = a /\ d = b /\ executed' = executed
        BY <1>1, <3>1, <3>2, <3>6 DEF a, b, c, d
      <4>2. executed' = c + d
        BY <3>3, <4>1
      <4> QED
        BY <4>2 DEF c, d
    <3> QED
      BY <3>4, <3>5, <3>6
  <2> QED
    BY <1>6, <2>2 DEF QuotaInv, Count
<1>9. DiskInv'
  <2>1. DiskInv
    BY DEF LoopInv
  <2>2. \A r \in 1..round :
          r < round =>
            /\ r \in disk.plans
            /\ InRound(g, r) # {} =>
                 /\ \E k \in DOMAIN g : g[k].status = "reflection" /\ g[k].round = r
                 /\ r \in disk.reflections
    <3>1. SUFFICES ASSUME NEW r \in 1..round, r < round
                   PROVE  /\ r \in disk.plans
                          /\ InRound(g, r) # {} =>
                               /\ \E k \in DOMAIN g : g[k].status = "reflection" /\ g[k].round = r
                               /\ r \in disk.reflections
      OBVIOUS
    <3>2. InRound(g, r) = InRound(history, r)
      BY <1>1, <1>4, <3>1
    <3>3. \A k \in DOMAIN history : k \in DOMAIN g /\ g[k] = history[k]
      BY <1>1, <1>3
    <3>4. r \in disk.plans
      BY <2>1, <3>1 DEF DiskInv
    <3>5. ASSUME InRound(history, r) # {}
          PROVE  /\ \E k \in DOMAIN g : g[k].status = "reflection" /\ g[k].round = r
                 /\ r \in disk.reflections
      <4>1. PICK k \in DOMAIN history :
              history[k].status = "reflection" /\ history[k].round = r
        BY <2>1, <3>1, <3>5 DEF DiskInv
      <4>2. r \in disk.reflections
        BY <2>1, <3>1, <3>5 DEF DiskInv
      <4> QED
        BY <3>3, <4>1, <4>2
    <3> QED
      BY <3>2, <3>4, <3>5
  <2> QED
    BY <1>6, <2>1, <2>2 DEF DiskInv
<1> QED
  BY <1>3, <1>6, <1>7, <1>8, <1>9

\* The guard refuses an experiment.
LEMMA RejectStep == ASSUME LoopInv, Reject PROVE LoopInv'
<1>1. /\ pc = "experiments" /\ todo # <<>> /\ executed < MaxExperiments
      /\ RejectOne(Head(todo)) /\ todo' = Tail(todo)
      /\ UNCHANGED <<mode, round, executed, caused, retry, disk, reported>>
  BY DEF Reject
<1>2. /\ round \in Nat /\ todo \in Seq(Experiments) /\ caused \in Cited /\ ClientTypeOK
      /\ executed \in Nat /\ retried \in BOOLEAN /\ mode \in {"run", "streaming"}
      /\ history \in Seq(Records) /\ DOMAIN history = 1..Len(history) /\ Len(history) \in Nat
      /\ answered \in Nat /\ prompt \subseteq DOMAIN history /\ retries \in 0..PlannerRetries
  BY LoopTypes
<1>3. /\ round >= 1 /\ CitesFirst(history, caused, round, Len(history) + 1)
      /\ call = "idle" /\ ClientInv
  BY <1>1 DEF LoopInv, HistoryInv, Open, ClientInv
<1>4. Head(todo) \in Experiments /\ Tail(todo) \in Seq(Experiments)
  BY <1>1, <1>2
<1>5. PICK x \in Records :
        /\ RecordOK(x) /\ x.status = "rejected" /\ x.round = round /\ x.event = TRUE
        /\ x.caused = caused
        /\ history' = Append(history, x) /\ records' = records \cup {Len(history) + 1}
  BY <1>1, <1>2, <1>3, <1>4, RejectionAppends
<1>6. executed' = executed + (IF x.status \in {"failed", "succeeded"} THEN 1 ELSE 0)
  <2>1. x.status \notin {"failed", "succeeded"}
    BY <1>5
  <2> QED
    BY <1>1, <1>2, <2>1
<1>7. CASE mode = "run" /\ ~retried /\ PlannerRetries > 0
  <2>1. /\ retried' = TRUE /\ pc' = "recovering" /\ retries' = PlannerRetries
        /\ answered' = Len(history') /\ prompt' = Visible(history') /\ StartCall
    BY <1>7 DEF Reject
  <2>2. /\ HistoryInv' /\ QuotaInv' /\ DiskInv'
        /\ Len(history') = Len(history) + 1 /\ history'[Len(history) + 1] = x
        /\ DOMAIN history' = 1..Len(history) + 1
    BY <1>1, <1>3, <1>5, <1>6, <1>7, <2>1, RecordAdded
  <2>3. ClientTypeOK' /\ ClientInv'
    <3>1. reported.status # "planner_error" /\ call # "raised"
      BY <1>1, <1>3, NothingReported
    <3> QED
      BY <1>1, <1>2, <1>3, <2>1, <3>1, CallStarts
  <2>4. PICK g : g = history'
    OBVIOUS
  <2>5. HistoryOK(g, round) /\ Len(g) = Len(history) + 1 /\ DOMAIN g = 1..Len(history) + 1
    BY <1>1, <2>2, <2>4 DEF HistoryInv
  <2>6. Fails(g[Len(g)]) /\ Len(g) \in DOMAIN g /\ Len(g) - Len(g) = 0 /\ Len(g) \in Nat
    BY <1>2, <1>5, <2>2, <2>4, <2>5 DEF Fails
  <2>7. /\ Visible(g) \in SUBSET DOMAIN g
        /\ \/ Len(g) \in Visible(g)
           \/ Len(g) - Len(g) >= RecentWindow
    BY <1>2, <2>5, <2>6, VisibleIs
  <2>8. Len(g) \in Visible(g)
    BY <2>6, <2>7, MetricsAssumption
  <2>9. Types'
    <3>1. Types /\ TypeOK
      BY DEF LoopInv, Types
    <3>2. prompt' \subseteq DOMAIN history' /\ answered' \in 0..Len(history')
      BY <2>1, <2>4, <2>6, <2>7
    <3>3. retries' \in 0..PlannerRetries
      BY <2>1, LoopAssumption
    <3>4. TypeOK'
      BY <1>1, <2>1, <2>3, <3>1, <3>2, <3>3 DEF TypeOK
    <3> QED
      BY <1>1, <1>4, <3>1, <3>4 DEF Types
  <2>10. AnswerInv'
    BY <1>7, <2>1, <2>4, <2>6 DEF AnswerInv
  <2>11. PromptsTell'
    <3>1. answered' \in prompt'
      BY <2>1, <2>4, <2>8
    <3> QED
      BY <2>1, <3>1 DEF PromptsTell, LastRoundShown, RejectionShown
  <2> QED
    BY <2>2, <2>3, <2>9, <2>10, <2>11 DEF LoopInv
<1>8. CASE ~(mode = "run" /\ ~retried /\ PlannerRetries > 0)
  <2>1. /\ retried' \in BOOLEAN
        /\ UNCHANGED <<pc, retries, answered, prompt, clientVars>>
    BY <1>2, <1>8 DEF Reject
  <2>2. /\ HistoryInv' /\ QuotaInv' /\ DiskInv'
        /\ Len(history') = Len(history) + 1
        /\ DOMAIN history' = 1..Len(history) + 1
    BY <1>1, <1>3, <1>5, <1>6, <2>1, RecordAdded
  <2>3. ClientTypeOK' /\ ClientInv'
    BY <1>1, <1>2, <1>3, <2>1, ClientRests
  <2>4. Types'
    <3>1. Types /\ TypeOK
      BY DEF LoopInv, Types
    <3>2. prompt' \subseteq DOMAIN history' /\ answered' \in 0..Len(history')
      <4>1. answered \in 0..Len(history)
        BY <3>1 DEF TypeOK
      <4> QED
        BY <1>2, <2>1, <2>2, <4>1
    <3>3. TypeOK'
      BY <1>1, <2>1, <2>3, <3>1, <3>2 DEF TypeOK
    <3> QED
      BY <1>1, <1>4, <3>1, <3>3 DEF Types
  <2>5. AnswerInv' /\ PromptsTell'
    BY <1>1, <2>1 DEF AnswerInv, PromptsTell, LastRoundShown, RejectionShown
  <2> QED
    BY <2>2, <2>3, <2>4, <2>5 DEF LoopInv
<1> QED
  BY <1>7, <1>8

\* An experiment is executed: one of the plan, or the one a recovery found.
LEMMA ExecutionAdded ==
  ASSUME LoopInv, pc \in {"experiments", "retrying"}, pc' = "experiments",
         executed < MaxExperiments,
         NEW e \in Experiments \cup {None}, NEW c \in Cited, NEW t \in Trainings,
         CitesFirst(history, c, round, Len(history) + 1), ExecuteOne(e, c, t),
         UNCHANGED <<clientVars, mode, round, caused, retried, retries, prompt, disk, reported>>,
         answered' \in {0, answered}, todo' \in Seq(Experiments),
         retry' \in Experiments \cup {None}
  PROVE  LoopInv'
<1>1. /\ round \in Nat /\ ClientTypeOK /\ executed \in Nat
      /\ history \in Seq(Records) /\ DOMAIN history = 1..Len(history) /\ Len(history) \in Nat
      /\ prompt \subseteq DOMAIN history
  BY LoopTypes
<1>2. /\ round >= 1 /\ ClientInv
  BY DEF LoopInv, HistoryInv, Open
<1>3. executed' = executed + 1
  BY <1>1, <1>2, ExecutionAppends
<1>4. PICK x \in Records :
        /\ RecordOK(x) /\ x.status \in {"failed", "succeeded"} /\ x.round = round
        /\ x.event = TRUE /\ x.caused = c
        /\ history' = Append(history, x) /\ records' = records \cup {Len(history) + 1}
  BY <1>1, <1>2, ExecutionAppends
<1>5. executed' = executed + (IF x.status \in {"failed", "succeeded"} THEN 1 ELSE 0)
  BY <1>3, <1>4
<1>6. /\ HistoryInv' /\ QuotaInv' /\ DiskInv'
      /\ Len(history') = Len(history) + 1
      /\ DOMAIN history' = 1..Len(history) + 1
  BY <1>4, <1>5, RecordAdded
<1>7. ClientTypeOK' /\ ClientInv'
  BY <1>1, <1>2, ClientRests
<1>8. Types'
  <2>1. Types /\ TypeOK
    BY DEF LoopInv, Types
  <2>2. prompt' \subseteq DOMAIN history' /\ answered' \in 0..Len(history')
    <3>1. answered \in 0..Len(history)
      BY <2>1 DEF TypeOK
    <3> QED
      BY <1>1, <1>6, <3>1
  <2>3. executed' \in 0..MaxExperiments
    BY <1>1, <1>3, LoopAssumption
  <2>4. TypeOK'
    BY <1>7, <2>1, <2>2, <2>3 DEF TypeOK
  <2> QED
    BY <2>1, <2>4 DEF Types
<1>9. AnswerInv' /\ PromptsTell'
  BY DEF AnswerInv, PromptsTell, LastRoundShown, RejectionShown
<1> QED
  BY <1>6, <1>7, <1>8, <1>9 DEF LoopInv

LEMMA ExecuteStep == ASSUME LoopInv, Execute PROVE LoopInv'
<1>1. /\ pc = "experiments" /\ todo # <<>> /\ executed < MaxExperiments /\ todo' = Tail(todo)
      /\ UNCHANGED <<clientVars, mode, pc, round, caused, retried, retries, answered, retry,
                     prompt, disk, reported>>
  BY DEF Execute
<1>2. PICK t \in Trainings : ExecuteOne(Head(todo), caused, t)
  BY DEF Execute
<1>3. todo \in Seq(Experiments) /\ caused \in Cited /\ retry \in Experiments \cup {None}
  BY LoopTypes
<1>4. Head(todo) \in Experiments \cup {None} /\ Tail(todo) \in Seq(Experiments)
  BY <1>1, <1>3
<1>5. CitesFirst(history, caused, round, Len(history) + 1)
  BY <1>1 DEF LoopInv, HistoryInv, Open
<1>6. PICK e \in Experiments \cup {None} : e = Head(todo)
  BY <1>4
<1>7. ExecuteOne(e, caused, t)
  BY <1>2, <1>6
<1>8. /\ pc \in {"experiments", "retrying"} /\ pc' = "experiments" /\ answered' \in {0, answered}
      /\ todo' \in Seq(Experiments) /\ retry' \in Experiments \cup {None}
      /\ UNCHANGED <<clientVars, mode, round, caused, retried, retries, prompt, disk, reported>>
  BY <1>1, <1>3, <1>4
<1> QED
  BY <1>1, <1>3, <1>5, <1>7, <1>8, ExecutionAdded

LEMMA ExecuteRetryStep == ASSUME LoopInv, ExecuteRetry PROVE LoopInv'
<1>1. /\ pc = "retrying" /\ pc' = "experiments" /\ retry' = None /\ answered' = 0
      /\ UNCHANGED <<clientVars, mode, round, todo, caused, retried, retries, prompt, disk,
                     reported>>
  BY DEF ExecuteRetry
<1>2. PICK t \in Trainings : ExecuteOne(retry, FirstFailure(history), t)
  BY DEF ExecuteRetry
<1>3. /\ todo \in Seq(Experiments) /\ retry \in Experiments \cup {None}
      /\ HistoryOK(history, round) /\ round \in Nat
  BY LoopTypes
<1>4. executed < MaxExperiments
  BY <1>1 DEF LoopInv, QuotaInv
<1>5. /\ FirstFailure(history) \in Cited
      /\ CitesFirst(history, FirstFailure(history), round, Len(history) + 1)
  <2>1. round <= round
    BY <1>3
  <2> QED
    BY <1>3, <2>1, FirstCites
<1>6. /\ pc \in {"experiments", "retrying"} /\ answered' \in {0, answered}
      /\ todo' \in Seq(Experiments) /\ retry' \in Experiments \cup {None}
      /\ UNCHANGED <<clientVars, mode, round, caused, retried, retries, prompt, disk, reported>>
  BY <1>1, <1>3
<1> QED
  BY <1>1, <1>2, <1>3, <1>4, <1>5, <1>6, ExecutionAdded

\* A retry plan: its experiments before the first valid one are rejected.
LEMMA QuietsAre ==
  ASSUME NEW b \in Seq(Experiments)
  PROVE  LET s == [k \in DOMAIN b |-> Quiet(b[k])] IN
         /\ s \in Seq(Records)
         /\ \A k \in 1..Len(s) : /\ s[k].status = "rejected" /\ s[k].event = FALSE
                                 /\ s[k].round = 0 /\ s[k].metric = NoMetric /\ s[k].causes = {}
<1> DEFINE s == [k \in DOMAIN b |-> Quiet(b[k])]
<1>1. DOMAIN b = 1..Len(b) /\ Len(b) \in Nat /\ \A k \in DOMAIN b : b[k] \in Experiments
  OBVIOUS
<1>2. ASSUME NEW e \in Experiments
      PROVE  /\ Quiet(e) \in Records /\ Quiet(e).status = "rejected" /\ Quiet(e).event = FALSE
             /\ Quiet(e).round = 0 /\ Quiet(e).metric = NoMetric /\ Quiet(e).causes = {}
  <2>1. e.id \in Ids
    BY ExperimentIs
  <2>2. /\ "rejected" \in Statuses /\ NoMetric \in Metrics /\ {} \in SUBSET Nat /\ 0 \in Nat
        /\ NoEvent \in Cited
    BY DEF Statuses, Metrics, NoMetric, Cited
  <2>3. PICK v \in Overrides : v = ""
    BY Zenon DEF Overrides
  <2>4. ASSUME NEW i \in Ids, NEW x,
               x = [id |-> i, status |-> "rejected", round |-> 0, event |-> FALSE, ov |-> v,
                    metric |-> NoMetric, caused |-> NoEvent, causes |-> {}, best |-> 0]
        PROVE  /\ x \in Records /\ x.status = "rejected" /\ x.event = FALSE
               /\ x.round = 0 /\ x.metric = NoMetric /\ x.causes = {}
    <3>1. v \in Overrides
      OBVIOUS
    <3> QED
      BY <2>2, <2>4, <3>1, SMT DEF Records
  <2>5. PICK i \in Ids : i = e.id
    BY <2>1
  <2>6. Quiet(e) = [id |-> i, status |-> "rejected", round |-> 0, event |-> FALSE, ov |-> v,
                    metric |-> NoMetric, caused |-> NoEvent, causes |-> {}, best |-> 0]
    BY <2>3, <2>5, Zenon DEF Quiet, Record
  <2> QED
    BY <2>4, <2>6
<1>3. \A k \in 1..Len(b) :
        /\ s[k] \in Records /\ s[k].status = "rejected" /\ s[k].event = FALSE
        /\ s[k].round = 0 /\ s[k].metric = NoMetric /\ s[k].causes = {}
  <2>1. SUFFICES ASSUME NEW k \in 1..Len(b)
                 PROVE  /\ s[k] \in Records /\ s[k].status = "rejected" /\ s[k].event = FALSE
                        /\ s[k].round = 0 /\ s[k].metric = NoMetric /\ s[k].causes = {}
    OBVIOUS
  <2>2. PICK e \in Experiments : e = b[k]
    BY <1>1
  <2>3. s[k] = Quiet(e)
    BY <1>1, <2>2
  <2> HIDE DEF s
  <2> QED
    BY <1>2, <2>3
<1>4. DOMAIN s = 1..Len(b) /\ s = [k \in 1..Len(b) |-> s[k]]
  BY <1>1
<1> HIDE DEF s
<1>5. s \in Seq(Records) /\ Len(s) = Len(b)
  BY <1>1, <1>3, <1>4
<1> QED
  BY <1>3, <1>5 DEF s

\* What the rejections inside a recovery change.
LEMMA QuietAdded ==
  ASSUME LoopInv, pc = "recovering", pc' \in {"recovering", "retrying", "experiments"},
         NEW s \in Seq(Records),
         \A k \in 1..Len(s) : /\ s[k].status = "rejected" /\ s[k].event = FALSE
                              /\ s[k].round = 0 /\ s[k].metric = NoMetric /\ s[k].causes = {},
         history' = history \o s,
         UNCHANGED <<mode, round, executed, records, caused, disk, reported>>
  PROVE  /\ HistoryInv' /\ QuotaInv' /\ DiskInv'
         /\ history' \in Seq(Records) /\ DOMAIN history' = 1..Len(history')
         /\ Len(history') \in Nat /\ Len(history) <= Len(history')
         /\ \A k \in DOMAIN history : history'[k] = history[k]
<1>1. /\ round \in Nat /\ HistoryOK(history, round) /\ records = InRound(history, round)
      /\ history \in Seq(Records) /\ DOMAIN history = 1..Len(history) /\ Len(history) \in Nat
  BY LoopTypes
<1>2. /\ round >= 1 /\ CitesFirst(history, caused, round, Len(history) + 1)
      /\ \A p \in DOMAIN history : history[p].status = "reflection" => history[p].round < round
  BY DEF LoopInv, HistoryInv, Open
<1> DEFINE g == history \o s
<1>3. /\ Extends(history, g) /\ Len(g) = Len(history) + Len(s) /\ Len(s) \in Nat
      /\ \A k \in DOMAIN history : g[k] = history[k]
  BY <1>1, QuietExtends
<1>4. /\ HistoryOK(g, round)
      /\ \A q : InRound(g, q) = InRound(history, q)
      /\ \A p \in DOMAIN g : g[p].status = "reflection" => p \in DOMAIN history
      /\ \A c : CitesFirst(history, c, round, Len(history) + 1)
                  => CitesFirst(g, c, round, Len(g) + 1)
  BY <1>1, QuietJoins
<1>5. Count(g, "failed") = Count(history, "failed")
      /\ Count(g, "succeeded") = Count(history, "succeeded")
  <2>1. \A k \in 1..Len(s) : s[k].status # "failed" /\ s[k].status # "succeeded"
    OBVIOUS
  <2>2. Count(g, "failed") = Count(history, "failed")
    BY <1>1, <2>1, CountQuiet
  <2>3. Count(g, "succeeded") = Count(history, "succeeded")
    BY <1>1, <2>1, CountQuiet
  <2> QED
    BY <2>2, <2>3
<1> HIDE DEF g
<1>6. history' = g
  BY DEF g
<1>7. \A p \in DOMAIN g : g[p].status = "reflection" => g[p].round < round
  BY <1>2, <1>3, <1>4
<1>8. HistoryInv'
  BY <1>1, <1>2, <1>4, <1>6, <1>7 DEF HistoryInv, Open
<1>9. QuotaInv'
  <2>1. executed = Count(history, "failed") + Count(history, "succeeded")
        /\ executed < MaxExperiments
    BY DEF LoopInv, QuotaInv, Count
  <2>2. executed' = Count(g, "failed") + Count(g, "succeeded")
    BY <1>5, <2>1
  <2> QED
    BY <1>6, <2>1, <2>2 DEF QuotaInv, Count
<1>10. /\ g \in Seq(Records) /\ DOMAIN g = 1..Len(g) /\ Len(g) \in Nat
       /\ \A k \in DOMAIN history : k \in DOMAIN g
  BY <1>3, ExtendsTypes DEF Extends
<1>11. DiskInv'
  <2>1. DiskInv
    BY DEF LoopInv
  <2>2. \A r \in 1..round :
          r < round =>
            /\ r \in disk.plans
            /\ InRound(g, r) # {} =>
                 /\ \E k \in DOMAIN g : g[k].status = "reflection" /\ g[k].round = r
                 /\ r \in disk.reflections
    <3>1. SUFFICES ASSUME NEW r \in 1..round, r < round
                   PROVE  /\ r \in disk.plans
                          /\ InRound(history, r) # {} =>
                               /\ \E k \in DOMAIN g : g[k].status = "reflection" /\ g[k].round = r
                               /\ r \in disk.reflections
      BY <1>4
    <3>2. r \in disk.plans
      BY <2>1, <3>1 DEF DiskInv
    <3>3. ASSUME InRound(history, r) # {}
          PROVE  /\ \E k \in DOMAIN g : g[k].status = "reflection" /\ g[k].round = r
                 /\ r \in disk.reflections
      <4>1. PICK k \in DOMAIN history :
              history[k].status = "reflection" /\ history[k].round = r
        BY <2>1, <3>1, <3>3 DEF DiskInv
      <4>2. r \in disk.reflections
        BY <2>1, <3>1, <3>3 DEF DiskInv
      <4> QED
        BY <1>3, <1>10, <4>1, <4>2
    <3> QED
      BY <3>2, <3>3
  <2>3. pc' \in {"experiments", "recovering", "retrying"} /\ pc' # "round" /\ mode = "run"
    BY <2>1 DEF DiskInv
  <2> QED
    BY <1>6, <2>1, <2>2, <2>3 DEF DiskInv
<1> QED
  BY <1>1, <1>3, <1>6, <1>8, <1>9, <1>10, <1>11

\* The first valid experiment of a retry plan, and those before it.
LEMMA RetryPlanIs ==
  ASSUME NEW es \in Seq(Experiments)
  PROVE  LET good == {k \in DOMAIN es : Valid(es[k])}
             bad == IF good = {} THEN es ELSE SubSeq(es, 1, Min(good) - 1)
         IN  bad \in Seq(Experiments) /\ (good # {} => es[Min(good)] \in Experiments)
<1> DEFINE good == {k \in DOMAIN es : Valid(es[k])}
<1>1. DOMAIN es = 1..Len(es) /\ Len(es) \in Nat /\ \A k \in DOMAIN es : es[k] \in Experiments
  OBVIOUS
<1>2. good \in SUBSET Nat /\ good \in SUBSET DOMAIN es
  BY <1>1
<1> HIDE DEF good
<1>3. CASE good = {}
  BY <1>3 DEF good
<1>4. CASE good # {}
  <2>1. Min(good) \in DOMAIN es
    BY <1>2, <1>4, MinOfPositions
  <2>2. Min(good) - 1 \in Int /\ Min(good) - 1 <= Len(es)
    BY <1>1, <2>1
  <2>3. SubSeq(es, 1, Min(good) - 1) \in Seq(Experiments)
    BY <1>1, <2>2
  <2> QED
    BY <1>1, <1>4, <2>1, <2>3 DEF good
<1> QED
  BY <1>3, <1>4

LEMMA RetryArrivesStep == ASSUME LoopInv, RetryArrives PROVE LoopInv'
<1>1. /\ pc = "recovering" /\ call = "ok"
      /\ UNCHANGED <<mode, round, todo, executed, records, caused, retried, disk, reported>>
  BY DEF RetryArrives
<1>2. PICK p \in Plans :
        LET good == {k \in DOMAIN p.exps : Valid(p.exps[k])}
            bad == IF good = {} THEN p.exps ELSE SubSeq(p.exps, 1, Min(good) - 1)
        IN  /\ history' = history \o [k \in DOMAIN bad |-> Quiet(bad[k])]
            /\ IF good # {}
               THEN /\ retry' = p.exps[Min(good)] /\ pc' = "retrying" /\ EndCall
                    /\ UNCHANGED <<retries, answered, prompt>>
               ELSE IF RetryLeft > 0
               THEN /\ retries' = RetryLeft /\ prompt' = Visible(history') /\ StartCall
                    /\ UNCHANGED <<retry, pc, answered>>
               ELSE /\ retries' = RetryLeft /\ pc' = "experiments" /\ answered' = 0 /\ EndCall
                    /\ UNCHANGED <<retry, prompt>>
  BY DEF RetryArrives
<1> DEFINE good == {k \in DOMAIN p.exps : Valid(p.exps[k])}
           bad == IF good = {} THEN p.exps ELSE SubSeq(p.exps, 1, Min(good) - 1)
           s == [k \in DOMAIN bad |-> Quiet(bad[k])]
           found == p.exps[Min(good)]
<1>3. bad \in Seq(Experiments) /\ (good # {} => found \in Experiments)
  <2>1. p.exps \in Seq(Experiments)
    BY LoopAssumption
  <2> QED
    BY <2>1, RetryPlanIs
<1>4. /\ history' = history \o s
      /\ IF good # {}
         THEN /\ retry' = found /\ pc' = "retrying" /\ EndCall
              /\ UNCHANGED <<retries, answered, prompt>>
         ELSE IF RetryLeft > 0
         THEN /\ retries' = RetryLeft /\ prompt' = Visible(history') /\ StartCall
              /\ UNCHANGED <<retry, pc, answered>>
         ELSE /\ retries' = RetryLeft /\ pc' = "experiments" /\ answered' = 0 /\ EndCall
              /\ UNCHANGED <<retry, prompt>>
  BY <1>2
<1> HIDE DEF good, bad, found
<1>5. /\ s \in Seq(Records)
      /\ \A k \in 1..Len(s) : /\ s[k].status = "rejected" /\ s[k].event = FALSE
                              /\ s[k].round = 0 /\ s[k].metric = NoMetric /\ s[k].causes = {}
  BY <1>3, QuietsAre
<1> HIDE DEF s
<1>6. pc' \in {"recovering", "retrying", "experiments"}
  BY <1>1, <1>4
<1>7. /\ HistoryInv' /\ QuotaInv' /\ DiskInv'
      /\ history' \in Seq(Records) /\ DOMAIN history' = 1..Len(history')
      /\ Len(history') \in Nat /\ Len(history) <= Len(history')
      /\ \A k \in DOMAIN history : history'[k] = history[k]
  BY <1>1, <1>4, <1>5, <1>6, QuietAdded
<1>8. /\ ClientTypeOK /\ ClientInv /\ retries \in 0..PlannerRetries /\ answered \in Nat
      /\ DOMAIN history = 1..Len(history) /\ Len(history) \in Nat /\ prompt \subseteq DOMAIN history
      /\ round \in Nat /\ retry \in Experiments \cup {None} /\ PlannerRetries \in Nat
  BY LoopTypes, LoopAssumption DEF LoopInv
<1>9. retries > 0 /\ answered \in DOMAIN history /\ Fails(history[answered])
  BY <1>1 DEF LoopInv, AnswerInv
<1>10. reported.status # "planner_error"
  BY <1>1, NothingReported
<1>11. /\ answered \in 0..Len(history') /\ answered \in DOMAIN history'
       /\ prompt \subseteq DOMAIN history' /\ Fails(history'[answered])
  BY <1>7, <1>8, <1>9
<1>12. RetryLeft = retries - 1 /\ RetryLeft \in 0..PlannerRetries /\ RetryLeft < PlannerRetries
  BY <1>8, <1>9 DEF RetryLeft
<1>13. ASSUME ClientTypeOK', retries' \in 0..PlannerRetries, answered' \in 0..Len(history'),
              prompt' \subseteq DOMAIN history', retry' \in Experiments \cup {None}
       PROVE  Types'
  <2>1. Types /\ TypeOK
    BY DEF LoopInv, Types
  <2>2. TypeOK'
    BY <1>1, <1>6, <1>13, <2>1 DEF TypeOK
  <2> QED
    BY <1>1, <1>13, <2>1, <2>2 DEF Types
<1>14. CASE good # {}
  <2>1. /\ retry' = found /\ pc' = "retrying" /\ EndCall
        /\ UNCHANGED <<retries, answered, prompt>>
    BY <1>4, <1>14
  <2>2. ClientTypeOK' /\ ClientInv'
    BY <1>1, <1>8, <1>10, <2>1, CallEnds
  <2>3. Types'
    BY <1>3, <1>8, <1>11, <1>13, <1>14, <2>1, <2>2
  <2>4. AnswerInv' /\ PromptsTell'
    BY <2>1 DEF AnswerInv, PromptsTell, LastRoundShown, RejectionShown
  <2> QED
    BY <1>7, <2>2, <2>3, <2>4 DEF LoopInv
<1>15. CASE good = {} /\ RetryLeft > 0
  <2>1. /\ retries' = RetryLeft /\ prompt' = Visible(history') /\ StartCall
        /\ UNCHANGED <<retry, pc, answered>>
    BY <1>4, <1>15
  <2>2. ClientTypeOK' /\ ClientInv'
    <3>1. call # "raised" /\ pc' \in {"planning", "recovering"} /\ UNCHANGED reported
      BY <1>1, <2>1
    <3> QED
      BY <1>8, <1>10, <2>1, <3>1, CallStarts
  <2>3. PICK g : g = history'
    OBVIOUS
  <2>4. HistoryOK(g, round) /\ answered \in DOMAIN g /\ Fails(g[answered])
    BY <1>1, <1>7, <1>11, <2>3 DEF HistoryInv
  <2>5. /\ Visible(g) \in SUBSET DOMAIN g
        /\ \/ answered \in Visible(g)
           \/ /\ Len(g) - answered >= RecentWindow
              /\ Cardinality({j \in 1..answered - 1 : Fails(g[j])}) >= MaxNotable
    BY <1>8, <2>4, VisibleIs
  <2>6. Types'
    BY <1>8, <1>11, <1>12, <1>13, <2>1, <2>2, <2>3, <2>5
  <2>7. AnswerInv'
    BY <1>11, <1>15, <2>1 DEF AnswerInv
  <2>8. PromptsTell'
    <3>1. LastRoundShown'
      BY <1>1, <2>1 DEF LastRoundShown
    <3>2. RejectionShown'
      BY <1>12, <2>1, <2>3, <2>5 DEF RejectionShown
    <3> QED
      BY <3>1, <3>2 DEF PromptsTell
  <2> QED
    BY <1>7, <2>2, <2>6, <2>7, <2>8 DEF LoopInv
<1>16. CASE good = {} /\ ~(RetryLeft > 0)
  <2>1. /\ retries' = RetryLeft /\ pc' = "experiments" /\ answered' = 0 /\ EndCall
        /\ UNCHANGED <<retry, prompt>>
    BY <1>4, <1>16
  <2>2. ClientTypeOK' /\ ClientInv'
    BY <1>1, <1>8, <1>10, <2>1, CallEnds
  <2>3. Types'
    BY <1>7, <1>8, <1>11, <1>12, <1>13, <2>1, <2>2
  <2>4. AnswerInv' /\ PromptsTell'
    BY <2>1 DEF AnswerInv, PromptsTell, LastRoundShown, RejectionShown
  <2> QED
    BY <1>7, <2>2, <2>3, <2>4 DEF LoopInv
<1> QED
  BY <1>14, <1>15, <1>16

\* A round ends, with a reflection when it recorded something.
LEMMA EndRoundStep == ASSUME LoopInv, EndRound PROVE LoopInv'
<1>1. /\ pc = "experiments" /\ pc' = "round"
      /\ UNCHANGED <<clientVars, mode, round, todo, executed, records, caused, retried, retries,
                     answered, retry, prompt, reported>>
  BY DEF EndRound
<1>2. /\ round \in Nat /\ HistoryOK(history, round) /\ records = InRound(history, round)
      /\ history \in Seq(Records) /\ DOMAIN history = 1..Len(history) /\ Len(history) \in Nat
      /\ disk \in Disks /\ reported \in Results /\ ClientTypeOK /\ ClientInv
      /\ prompt \subseteq DOMAIN history /\ round <= MaxRounds /\ MaxRounds \in Nat
      /\ disk.plans \subseteq 1..MaxRounds /\ disk.reflections \subseteq 1..MaxRounds
  BY LoopTypes, LoopAssumption DEF LoopInv
<1>3. round >= 1
  BY <1>1 DEF LoopInv, HistoryInv, Open
<1>4. ClientTypeOK' /\ ClientInv'
  BY <1>1, <1>2, ClientRests
<1>5. ASSUME prompt \subseteq DOMAIN history', answered \in 0..Len(history'), disk' \in Disks,
             disk'.plans \subseteq 1..MaxRounds, disk'.reflections \subseteq 1..MaxRounds
      PROVE  Types'
  <2>1. Types /\ TypeOK
    BY DEF LoopInv, Types
  <2>2. disk'.plans \cup disk'.reflections \subseteq 1..MaxRounds
    BY <1>5
  <2>3. TypeOK'
    BY <1>1, <1>4, <1>5, <2>1, <2>2 DEF TypeOK
  <2> QED
    BY <1>1, <1>5, <2>1, <2>3 DEF Types
<1>6. AnswerInv' /\ PromptsTell'
  BY <1>1 DEF AnswerInv, PromptsTell, LastRoundShown, RejectionShown
<1>7. answered \in 0..Len(history)
  BY DEF LoopInv, Types, TypeOK
<1>8. CASE records = {}
  <2>1. UNCHANGED <<history, disk>>
    BY <1>8 DEF EndRound
  <2>2. HistoryInv'
    BY <1>1, <1>2, <1>8, <2>1 DEF HistoryInv, Open
  <2>3. QuotaInv'
    BY <1>1, <2>1 DEF LoopInv, QuotaInv
  <2>4. DiskInv'
    <3>1. DiskInv /\ InRound(history, round) = {}
      BY <1>2, <1>8 DEF LoopInv
    <3>2. \A r \in 1..round : r < round \/ r = round
      BY <1>2
    <3> QED
      BY <1>1, <2>1, <3>1, <3>2 DEF DiskInv
  <2>5. Types'
    BY <1>2, <1>5, <1>7, <2>1
  <2> QED
    BY <1>4, <1>6, <2>2, <2>3, <2>4, <2>5 DEF LoopInv
<1>9. CASE records # {}
  <2> DEFINE x == Reflection(history, InRound(history, round), round)
             g == Append(history, x)
             d == [disk EXCEPT !.reflections = @ \cup {round}]
  <2>1. history' = g /\ disk' = d
    BY <1>2, <1>9 DEF EndRound
  <2>2. /\ HistoryOK(g, round) /\ x \in Records
        /\ \A q : InRound(g, q) = InRound(history, q)
        /\ x.status = "reflection" /\ x.round = round /\ x.event = FALSE
    BY <1>2, ReflectionJoins
  <2> HIDE DEF x
  <2>3. /\ Len(g) = Len(history) + 1 /\ g[Len(history) + 1] = x
        /\ DOMAIN g = 1..Len(history) + 1 /\ \A k \in DOMAIN history : g[k] = history[k]
    BY <1>2, <2>2, AppendExtends
  <2>4. \A s : /\ Count(history, s) \in Nat
               /\ Count(g, s) = Count(history, s) + (IF x.status = s THEN 1 ELSE 0)
    BY <1>2, <2>2, CountAppend
  <2> HIDE DEF g
  <2>5. /\ d \in Disks /\ d.plans = disk.plans
        /\ d.reflections = disk.reflections \cup {round} /\ d.result = disk.result
    BY <1>2, DiskUpdates
  <2> HIDE DEF d
  <2>6. g[Len(g)].status = "reflection" /\ g[Len(g)].round = round /\ Len(g) \in DOMAIN g
    BY <1>2, <2>2, <2>3
  <2>7. HistoryInv'
    BY <1>1, <1>2, <2>1, <2>2, <2>6 DEF HistoryInv, Open
  <2>8. QuotaInv'
    <3>1. executed = Count(history, "failed") + Count(history, "succeeded")
      BY DEF LoopInv, QuotaInv, Count
    <3>2. Count(g, "failed") = Count(history, "failed")
      <4>1. x.status # "failed"
        BY <2>2
      <4>2. Count(history, "failed") \in Nat
        BY <2>4
      <4>3. Count(g, "failed") = Count(history, "failed") + (IF x.status = "failed" THEN 1 ELSE 0)
        BY <2>4
      <4> QED
        BY <4>1, <4>2, <4>3
    <3>3. Count(g, "succeeded") = Count(history, "succeeded")
      <4>1. x.status # "succeeded"
        BY <2>2
      <4>2. Count(history, "succeeded") \in Nat
        BY <2>4
      <4>3. Count(g, "succeeded")
              = Count(history, "succeeded") + (IF x.status = "succeeded" THEN 1 ELSE 0)
        BY <2>4
      <4> QED
        BY <4>1, <4>2, <4>3
    <3>4. executed' = Count(g, "failed") + Count(g, "succeeded")
      BY <1>1, <3>1, <3>2, <3>3
    <3> QED
      BY <1>1, <2>1, <3>4 DEF QuotaInv, Count
  <2>9. DiskInv'
    <3>1. DiskInv
      BY DEF LoopInv
    <3>2. \A r \in 1..round :
            /\ r \in d.plans
            /\ InRound(g, r) # {} =>
                 /\ \E k \in DOMAIN g : g[k].status = "reflection" /\ g[k].round = r
                 /\ r \in d.reflections
      <4>1. SUFFICES ASSUME NEW r \in 1..round
                     PROVE  /\ r \in d.plans
                            /\ InRound(history, r) # {} =>
                                 /\ \E k \in DOMAIN g :
                                      g[k].status = "reflection" /\ g[k].round = r
                                 /\ r \in d.reflections
        BY <2>2
      <4>2. CASE r = round
        <5>1. round \in d.plans
          BY <1>1, <2>5, <3>1 DEF DiskInv
        <5> QED
          BY <2>5, <2>6, <4>2, <5>1
      <4>3. CASE r # round
        <5>1. r < round
          BY <1>2, <4>3
        <5>2. r \in d.plans
          BY <2>5, <3>1, <5>1 DEF DiskInv
        <5>3. ASSUME InRound(history, r) # {}
              PROVE  /\ \E k \in DOMAIN g : g[k].status = "reflection" /\ g[k].round = r
                     /\ r \in d.reflections
          <6>1. PICK k \in DOMAIN history :
                  history[k].status = "reflection" /\ history[k].round = r
            BY <3>1, <5>1, <5>3 DEF DiskInv
          <6>2. r \in d.reflections
            BY <2>5, <3>1, <5>1, <5>3 DEF DiskInv
          <6>3. k \in DOMAIN g
            BY <1>2, <2>3
          <6> QED
            BY <2>3, <6>1, <6>2, <6>3
        <5> QED
          BY <5>2, <5>3
      <4> QED
        BY <4>2, <4>3
    <3> QED
      BY <1>1, <2>1, <2>5, <3>1, <3>2 DEF DiskInv
  <2>10. Types'
    <3>1. prompt \subseteq DOMAIN history' /\ answered \in 0..Len(history')
      BY <1>2, <1>7, <2>1, <2>3
    <3>2. d.reflections \subseteq 1..MaxRounds /\ d.plans \subseteq 1..MaxRounds
      BY <1>2, <1>3, <2>5
    <3> QED
      BY <1>5, <2>1, <2>5, <3>1, <3>2
  <2> QED
    BY <1>4, <1>6, <2>7, <2>8, <2>9, <2>10 DEF LoopInv
<1> QED
  BY <1>8, <1>9

-----------------------------------------------------------------------------
(* The invariant holds throughout *)

LEMMA LoopKept == LoopInv /\ [Next]_vars => LoopInv'
<1> SUFFICES ASSUME LoopInv, [Next]_vars PROVE LoopInv'
  OBVIOUS
<1>1. CASE UNCHANGED vars
  <2>1. /\ UNCHANGED <<call, attempt, conn, dying, leaked, nulled, hangs, lost, billed, counted>>
        /\ UNCHANGED <<mode, pc, round, todo, executed, history, records, caused,
                       retried, retries, answered, retry, prompt, disk, reported>>
    BY <1>1 DEF vars, clientVars
  <2>2. Types'
    BY <2>1 DEF LoopInv, Types, TypeOK, ClientTypeOK
  <2>3. ClientInv' /\ HistoryInv'
    BY <2>1 DEF LoopInv, ClientInv, HistoryInv, Open
  <2>4. QuotaInv' /\ AnswerInv' /\ DiskInv'
    BY <2>1 DEF LoopInv, QuotaInv, AnswerInv, DiskInv
  <2>5. PromptsTell'
    BY <2>1 DEF LoopInv, PromptsTell, LastRoundShown, RejectionShown, OfRound
  <2> QED
    BY <2>2, <2>3, <2>4, <2>5 DEF LoopInv
<1>2. CASE Finished
  BY <1>1, <1>2 DEF Finished
<1>3. CASE StartRound
  BY <1>3, StartRoundStep
<1>4. CASE FinishRounds
  BY <1>4, FinishRoundsStep
<1>5. CASE PlanArrives
  BY <1>5, PlanArrivesStep
<1>6. CASE PlanFails
  BY <1>6, PlanFailsStep
<1>7. CASE QuotaReached
  BY <1>7, QuotaReachedStep
<1>8. CASE Reject
  BY <1>8, RejectStep
<1>9. CASE Execute
  BY <1>9, ExecuteStep
<1>10. CASE RetryArrives
  BY <1>10, RetryArrivesStep
<1>11. CASE RetryFails
  BY <1>11, RetryFailsStep
<1>12. CASE ExecuteRetry
  BY <1>12, ExecuteRetryStep
<1>13. CASE EndRound
  BY <1>13, EndRoundStep
<1>14. CASE Leave
  BY <1>14, LeaveStep
<1>15. CASE ClientRuns
  BY <1>15, ClientRunsStep
<1> QED
  BY <1>1, <1>2, <1>3, <1>4, <1>5, <1>6, <1>7, <1>8, <1>9, <1>10, <1>11, <1>12, <1>13, <1>14,
     <1>15 DEF Next

LEMMA LoopAlways == Spec => []LoopInv
BY LoopStarts, LoopKept, PTL DEF Spec

-----------------------------------------------------------------------------
(* What a loop spends, and what its prompts show *)

\* The numbers a benchmark reads from a history.
LEMMA SummaryIs ==
  ASSUME NEW h
  PROVE  /\ Summary(h).best = BestOfHistory(h)
         /\ Summary(h).used = Count(h, "failed") + Count(h, "succeeded")
         /\ Summary(h).hit <=> /\ BestOfHistory(h) # 0
                               /\ h[BestOfHistory(h)].metric # NotANumber
                               /\ h[BestOfHistory(h)].metric <= Threshold
BY DEF Summary, Count

LEMMA SpendingFollows == LoopInv => SpendingExplained
<1> SUFFICES ASSUME LoopInv PROVE SpendingExplained
  OBVIOUS
<1>1. TypeOK
  BY DEF LoopInv, Types
<1>2. QuotaHolds
  <2>1. executed = Count(history, "failed") + Count(history, "succeeded")
    BY DEF LoopInv, QuotaInv, Count
  <2>2. executed <= MaxExperiments
    BY LoopTypes
  <2> QED
    BY <2>1, <2>2, SummaryIs DEF QuotaHolds
<1>3. TokensExplained
  <2>1. counted <= billed
    BY DEF LoopInv, ClientInv
  <2>2. ASSUME Ended, pc # "left"
        PROVE  /\ reported.tokens = counted
               /\ billed - counted
                    <= hangs + lost + (IF reported.status = "planner_error" THEN 1 ELSE 0)
    <3>1. pc \in {"done", "raised"}
      BY <2>2 DEF Ended
    <3>2. call # "raised"
      BY <3>1 DEF LoopInv, ClientInv, Types, TypeOK, ClientTypeOK
    <3>3. billed - counted <= hangs + lost + (IF reported.status = "planner_error" THEN 1 ELSE 0)
      BY <3>2 DEF LoopInv, ClientInv
    <3> QED
      BY <3>1, <3>3 DEF LoopInv, DiskInv
  <2> QED
    BY <2>1, <2>2 DEF TokensExplained
<1>4. HungSocketsClosed
  <2>1. ClientTypeOK /\ ClientInv
    BY LoopTypes DEF LoopInv
  <2> QED
    BY <2>1, ClientAssumption DEF ClientInv, ClientTypeOK, HungSocketsClosed
<1> QED
  BY <1>1, <1>2, <1>3, <1>4 DEF SpendingExplained

(* However rounds, rejections, recoveries and requests that hang interleave,  *)
(* no more experiments than the quota are executed and as many as a benchmark *)
(* counts; the tokens of the result are those of the replies, but for the     *)
(* requests given up, those that broke off after they were charged for, the   *)
(* replies without a usage and a last unusable reply; and a socket stays open *)
(* only if an abandoned thread dropped the connection of a later try.         *)
THEOREM SpendingIsExplained == Spec => []SpendingExplained
BY LoopAlways, SpendingFollows, PTL

(* The prompt of a round shows every failure of the round before, and that of *)
(* a recovery the rejection it answers unless it was pushed out.              *)
THEOREM PromptsTellAll == Spec => []PromptsTell
<1>1. LoopInv => PromptsTell
  BY DEF LoopInv
<1> QED
  BY <1>1, LoopAlways, PTL

-----------------------------------------------------------------------------
(* What a result says *)

\* The best experiment of a history.
LEMMA BestOfHistoryIs ==
  ASSUME NEW h \in Seq(Records)
  PROVE  LET b == BestOfHistory(h)
             M == Measured(h)
         IN  /\ M = {} => b = 0
             /\ M # {} =>
                  /\ b \in M /\ b # 0 /\ h[b].metric \in Int
                  /\ h[Min(M)].metric # NotANumber =>
                       /\ h[b].metric # NotANumber
                       /\ \A j \in M : h[j].metric # NotANumber => h[b].metric <= h[j].metric
                  /\ h[b].metric = NotANumber \/ \A j \in M : ~Below(h[j].metric, h[b].metric)
<1> DEFINE b == BestOfHistory(h)
           M == Measured(h)
           key == [k \in DOMAIN h |-> h[k].metric]
<1>1. DOMAIN h = 1..Len(h) /\ Len(h) \in Nat /\ \A k \in DOMAIN h : h[k].metric \in Int
  BY RecordTypes
<1>2. M \in SUBSET 1..Len(h) /\ M \in SUBSET DOMAIN h
  BY <1>1 DEF Measured
<1>3. \A k \in M : key[k] \in Int /\ key[k] = h[k].metric /\ k # 0
  BY <1>1, <1>2
<1>4. b = First(M, key)
  BY DEF BestOfHistory
<1> HIDE DEF b, M, key
<1>5. /\ M = {} => b = 0
      /\ M # {} =>
           /\ b \in M
           /\ key[Min(M)] = NotANumber => key[b] = NotANumber
           /\ key[Min(M)] # NotANumber =>
                /\ key[b] # NotANumber
                /\ \A j \in M : key[j] # NotANumber => key[b] <= key[j]
  BY <1>1, <1>2, <1>3, <1>4, FirstIs
<1>6. ASSUME M # {}
      PROVE  /\ b \in M /\ b # 0 /\ h[b].metric \in Int
             /\ h[Min(M)].metric # NotANumber =>
                  /\ h[b].metric # NotANumber
                  /\ \A j \in M : h[j].metric # NotANumber => h[b].metric <= h[j].metric
             /\ h[b].metric = NotANumber \/ \A j \in M : ~Below(h[j].metric, h[b].metric)
  <2>1. Min(M) \in M
    <3>1. M \in SUBSET Nat
      BY <1>2
    <3> QED
      BY <1>6, <3>1, MinOfPositions
  <2>2. b \in M /\ b # 0 /\ h[b].metric \in Int /\ key[b] = h[b].metric
    BY <1>3, <1>5, <1>6
  <2>3. h[Min(M)].metric # NotANumber =>
          /\ h[b].metric # NotANumber
          /\ \A j \in M : h[j].metric # NotANumber => h[b].metric <= h[j].metric
    BY <1>3, <1>5, <1>6, <2>1, <2>2
  <2>4. ASSUME h[b].metric # NotANumber, NEW j \in M PROVE ~Below(h[j].metric, h[b].metric)
    <3>1. key[Min(M)] # NotANumber
      BY <1>5, <1>6, <2>2, <2>4
    <3>2. h[j].metric # NotANumber => h[b].metric <= h[j].metric
      BY <1>3, <2>1, <2>3, <3>1
    <3>3. h[j].metric \in Int /\ h[b].metric \in Int
      BY <1>3, <2>2
    <3> QED
      BY <3>2, <3>3 DEF Below
  <2> QED
    BY <2>2, <2>3, <2>4
<1> QED
  BY <1>5, <1>6 DEF b, M

LEMMA BestFollows == LoopInv => BestExplained
<1> SUFFICES ASSUME LoopInv PROVE BestExplained
  OBVIOUS
<1>1. history \in Seq(Records) /\ HistoryOK(history, round)
  BY LoopTypes
<1>2. ASSUME NEW p \in DOMAIN history, history[p].status = "reflection"
      PROVE  LET b == history[p].best
                 metrics == {history[k].metric : k \in OfRound(history[p].round)} \ {NoMetric}
             IN  /\ (b = 0) = (metrics = {})
                 /\ b # 0 => \/ history[b].metric = NotANumber
                             \/ \A m \in metrics : m = 0 \/ ~Below(m, history[b].metric)
                             \/ history[b].metric = 0 /\ metrics \subseteq {0, NotANumber}
  <2>1. ReflectionOK(history, p)
    BY <1>1, <1>2 DEF HistoryOK
  <2>2. OfRound(history[p].round) = InRound(history, history[p].round)
    BY DEF OfRound, InRound
  <2> QED
    BY <2>1, <2>2 DEF ReflectionOK
<1>3. LET b == BestOfHistory(history)
      IN  b # 0 => \A k \in DOMAIN history :
                     history[k].metric # NoMetric =>
                       \/ history[b].metric = NotANumber
                       \/ ~Below(history[k].metric, history[b].metric)
  <2> DEFINE M == Measured(history)
             b == BestOfHistory(history)
  <2>1. \A k \in DOMAIN history : history[k].metric # NoMetric => k \in M
    BY DEF Measured
  <2>2. /\ M = {} => b = 0
        /\ M # {} => history[b].metric = NotANumber
                     \/ \A j \in M : ~Below(history[j].metric, history[b].metric)
    BY <1>1, BestOfHistoryIs
  <2> HIDE DEF M, b
  <2>3. b # 0 => \A k \in DOMAIN history :
                   history[k].metric # NoMetric =>
                     \/ history[b].metric = NotANumber
                     \/ ~Below(history[k].metric, history[b].metric)
    BY <2>1, <2>2
  <2> QED
    BY <2>3 DEF b
<1> QED
  BY <1>2, <1>3, SummaryIs DEF BestExplained

\* A training that reached the target and failed left no figure, and one whose
\* experiment succeeded reached it.
LEMMA ToolChainTells ==
  ASSUME NEW t \in Trainings, NEW m, m = ToolChain(t).metric
  PROVE  /\ ToolChain(t).status = "succeeded" => m <= Threshold \/ m = NotANumber
         /\ ToolChain(t).status = "failed" /\ m <= Threshold => t.metric = m /\ ~t.psd
<1>1. t.ran \in BOOLEAN /\ t.psd \in BOOLEAN /\ t.metric \in Int
      /\ Threshold \in Int /\ Threshold < Infinity
  BY LoopAssumption, MetricsAssumption
<1>2. Threshold # NotANumber /\ ~(NoMetric <= Threshold)
  BY <1>1 DEF Infinity, NotANumber, NoMetric
<1>3. CASE ~t.ran
  <2>1. ToolChain(t).status = "failed" /\ m = NoMetric
    BY <1>3 DEF ToolChain
  <2> QED
    BY <1>2, <2>1
<1>4. CASE t.ran /\ ~Verified(t)
  <2>1. ToolChain(t).status = "failed" /\ m = t.metric
    BY <1>4 DEF ToolChain
  <2>2. m <= Threshold => ~t.psd
    BY <1>1, <1>4, <2>1 DEF Verified, Below
  <2> QED
    BY <2>1, <2>2
<1>5. CASE t.ran /\ Verified(t)
  <2>1. ToolChain(t).status = "succeeded" /\ m = t.metric
    BY <1>5 DEF ToolChain
  <2>2. m <= Threshold \/ m = NotANumber
    BY <1>1, <1>2, <1>5, <2>1 DEF Verified, Below
  <2> QED
    BY <2>1, <2>2
<1> QED
  BY <1>1, <1>3, <1>4, <1>5

LEMMA HitFollows == LoopInv => HitExplained
<1> SUFFICES ASSUME LoopInv PROVE HitExplained
  OBVIOUS
<1> SUFFICES ASSUME Ended, pc # "left"
             PROVE  LET h == reported.history
                        reached == {k \in DOMAIN history : history[k].metric <= Threshold}
                    IN  /\ (reached # {} /\ ~Summary(h).hit) =>
                             \/ pc = "raised" /\ h = <<>>
                             \/ history[Min(Measured(history))].metric = NotANumber
                        /\ Summary(h).hit =>
                             \E k \in reached :
                               \/ history[k].status = "succeeded"
                               \/ \E t \in Trainings : t.metric = history[k].metric /\ ~t.psd
                        /\ \A k \in DOMAIN h :
                             h[k].status = "succeeded" =>
                               h[k].metric <= Threshold \/ h[k].metric = NotANumber
  BY DEF HitExplained
<1> DEFINE h == reported.history
           M == Measured(history)
           b == BestOfHistory(history)
           reached == {k \in DOMAIN history : history[k].metric <= Threshold}
<1>1. /\ history \in Seq(Records) /\ HistoryOK(history, round)
      /\ Threshold \in Int /\ Threshold < Infinity
  BY LoopTypes, MetricsAssumption
<1>2. \A k \in DOMAIN history : /\ history[k].metric \in Int /\ history[k].status \in Statuses
                                /\ RecordOK(history[k])
  BY <1>1, RecordTypes DEF HistoryOK
<1>3. \A k \in reached : k \in M /\ history[k].metric # NotANumber
  BY <1>1, <1>2 DEF Measured, Infinity, NoMetric, NotANumber
<1>4. /\ M = {} => b = 0
      /\ M # {} =>
           /\ b \in M /\ b # 0 /\ history[b].metric \in Int
           /\ history[Min(M)].metric # NotANumber =>
                /\ history[b].metric # NotANumber
                /\ \A j \in M : history[j].metric # NotANumber => history[b].metric <= history[j].metric
  BY <1>1, BestOfHistoryIs
<1>5. M \in SUBSET DOMAIN history
  BY DEF Measured
<1>6. \A k \in DOMAIN history :
        history[k].status = "succeeded" =>
          history[k].metric <= Threshold \/ history[k].metric = NotANumber
  <2>1. SUFFICES ASSUME NEW k \in DOMAIN history, history[k].status = "succeeded"
                 PROVE  history[k].metric <= Threshold \/ history[k].metric = NotANumber
    OBVIOUS
  <2>2. PICK t \in Trainings : /\ history[k].status = ToolChain(t).status
                               /\ history[k].metric = ToolChain(t).metric
    BY <1>2, <2>1 DEF RecordOK
  <2> QED
    BY <2>1, <2>2, ToolChainTells
<1>7. \A k \in reached : \/ history[k].status = "succeeded"
                         \/ \E t \in Trainings : t.metric = history[k].metric /\ ~t.psd
  <2>1. SUFFICES ASSUME NEW k \in reached, history[k].status # "succeeded"
                 PROVE  \E t \in Trainings : t.metric = history[k].metric /\ ~t.psd
    OBVIOUS
  <2>2. /\ k \in DOMAIN history /\ history[k].metric <= Threshold
        /\ history[k].metric # NoMetric
    BY <1>3 DEF Measured
  <2>3. history[k].status = "failed"
    BY <1>2, <2>1, <2>2 DEF RecordOK, Statuses
  <2>4. PICK t \in Trainings : /\ history[k].status = ToolChain(t).status
                               /\ history[k].metric = ToolChain(t).metric
    BY <1>2, <2>2, <2>3 DEF RecordOK
  <2> QED
    BY <2>2, <2>3, <2>4, ToolChainTells
<1>8. CASE pc = "done"
  <2>1. h = history
    BY <1>8 DEF LoopInv, DiskInv
  <2>2. Summary(h).hit <=> /\ b # 0 /\ history[b].metric # NotANumber
                           /\ history[b].metric <= Threshold
    BY <2>1, SummaryIs
  <2> HIDE DEF M, b, h
  <2>3. reached # {} /\ ~Summary(h).hit => history[Min(M)].metric = NotANumber
    <3>1. SUFFICES ASSUME reached # {}, history[Min(M)].metric # NotANumber PROVE Summary(h).hit
      OBVIOUS
    <3>2. PICK k \in reached : TRUE
      BY <3>1
    <3>3. /\ k \in DOMAIN history /\ history[k].metric <= Threshold
          /\ k \in M /\ history[k].metric # NotANumber /\ history[k].metric \in Int
      BY <1>2, <1>3
    <3>4. /\ b # 0 /\ history[b].metric # NotANumber /\ history[b].metric \in Int
          /\ history[b].metric <= history[k].metric
      BY <1>4, <3>1, <3>3
    <3>5. history[b].metric <= Threshold
      BY <1>1, <3>3, <3>4
    <3> QED
      BY <2>2, <3>4, <3>5
  <2>4. Summary(h).hit => b \in reached
    <3>1. SUFFICES ASSUME Summary(h).hit PROVE b \in reached
      OBVIOUS
    <3>2. b # 0 /\ history[b].metric <= Threshold
      BY <2>2, <3>1
    <3>3. b \in DOMAIN history
      BY <1>4, <1>5, <3>2
    <3> QED
      BY <3>2, <3>3
  <2>5. h = history /\ M = Measured(history) /\ h = reported.history
    BY <2>1 DEF M, h
  <2> HIDE DEF reached
  <2>6. /\ reached # {} /\ ~Summary(h).hit => history[Min(M)].metric = NotANumber
        /\ Summary(h).hit =>
             \E k \in reached : \/ history[k].status = "succeeded"
                                \/ \E t \in Trainings : t.metric = history[k].metric /\ ~t.psd
        /\ \A k \in DOMAIN h :
             h[k].status = "succeeded" =>
               h[k].metric <= Threshold \/ h[k].metric = NotANumber
    BY <1>6, <1>7, <2>3, <2>4, <2>5
  <2> QED
    BY <2>6 DEF h, M, reached
<1>9. CASE pc = "raised"
  <2>1. h = <<>> /\ DOMAIN h = {}
    BY <1>9 DEF LoopInv, DiskInv
  <2>2. ~Summary(h).hit
    <3>1. h \in Seq(Records) /\ Measured(h) = {}
      BY <2>1 DEF Measured
    <3>2. BestOfHistory(h) = 0
      BY <3>1, BestOfHistoryIs
    <3> QED
      BY <3>2, SummaryIs
  <2> QED
    BY <1>9, <2>1, <2>2
<1> QED
  BY <1>8, <1>9 DEF Ended

\* The failure an event names, for a record that cites it.
LEMMA FailureIs ==
  ASSUME NEW h, NEW r \in Nat, HistoryOK(h, r), NEW k \in DOMAIN h, h[k].event,
         h[k].caused # NoEvent
  PROVE  LET m == FailureOf(h, h[k].caused) IN
         /\ m \in DOMAIN h /\ Fails(h[m]) /\ h[m].event
         /\ h[m].round = h[k].caused[1] /\ h[m].round <= h[k].round
         /\ h[m].round < h[k].round => m \in 1..k - 1
<1> DEFINE c == h[k].caused
           S == {j \in Failures(h) : EventOf(h[j]) = c}
           m == FailureOf(h, c)
<1>1. h \in Seq(Records)
  BY DEF HistoryOK
<1>2. /\ DOMAIN h = 1..Len(h) /\ Len(h) \in Nat
      /\ \A j \in DOMAIN h : h[j].round \in Nat
  BY <1>1, RecordTypes
<1>3. \A j \in Failures(h) : j \in DOMAIN h /\ Fails(h[j]) /\ h[j].event
  BY DEF Failures
<1>4. \A j \in DOMAIN h : EventOf(h[j]) = c => h[j].round = c[1]
  <2>1. SUFFICES ASSUME NEW j \in DOMAIN h, EventOf(h[j]) = c PROVE h[j].round = c[1]
    OBVIOUS
  <2>2. EventOf(h[j]) = <<h[j].round, h[j].id, h[j].status>>
    BY DEF EventOf
  <2>3. EventOf(h[j])[1] = h[j].round
    BY <2>2
  <2> QED
    BY <2>1, <2>3
<1>5. CitesFirst(h, c, h[k].round, k)
  BY DEF HistoryOK
<1>6. PICK j \in Failures(h) : j < k /\ EventOf(h[j]) = c
  BY <1>5 DEF CitesFirst
<1>7. m \in S
  <2>1. S \in SUBSET 1..Len(h) /\ S # {} /\ m = Max(S)
    BY <1>2, <1>3, <1>6 DEF FailureOf
  <2> HIDE DEF S, m
  <2> QED
    BY <1>2, <2>1, MaxOfPositions
<1>8. m \in DOMAIN h /\ Fails(h[m]) /\ h[m].event /\ h[m].round = c[1]
  BY <1>3, <1>4, <1>7
<1>9. h[j].round = c[1] /\ h[j].round <= h[k].round
  <2>1. j \in DOMAIN h /\ h[j].event /\ j < k
    BY <1>3, <1>6
  <2>2. h[j].round <= h[k].round
    BY <2>1 DEF HistoryOK
  <2> QED
    BY <1>4, <1>6, <2>1, <2>2
<1>10. ASSUME h[m].round < h[k].round PROVE m \in 1..k - 1
  <2>1. m # k
    BY <1>2, <1>8, <1>10
  <2>2. ~(k < m)
    <3>1. k < m => h[k].round <= h[m].round
      BY <1>8 DEF HistoryOK
    <3> QED
      BY <1>2, <1>8, <1>10, <3>1
  <2> HIDE DEF m
  <2> QED
    BY <1>2, <1>8, <2>1, <2>2
<1> HIDE DEF m
<1>11. h[m].round <= h[k].round
  BY <1>8, <1>9
<1> QED
  BY <1>8, <1>10, <1>11 DEF m

LEMMA CorrectionsFollow == LoopInv => CorrectionsExplained
<1> SUFFICES ASSUME LoopInv, NEW k \in DOMAIN history, history[k].status = "succeeded"
             PROVE  LET before == {j \in 1..k - 1 : /\ Fails(history[j]) /\ history[j].event
                                                    /\ history[j].round < history[k].round}
                    IN  /\ k \in Successes(history) =>
                             \E j \in before : history[j].ov # history[k].ov
                        /\ before # {} /\ k \notin Successes(history) =>
                             \E j \in before : history[j].ov = history[k].ov
  BY DEF CorrectionsExplained
<1> DEFINE before == {j \in 1..k - 1 : /\ Fails(history[j]) /\ history[j].event
                                       /\ history[j].round < history[k].round}
           c == history[k].caused
           m == FailureOf(history, c)
<1>1. /\ history \in Seq(Records) /\ HistoryOK(history, round) /\ round \in Nat
      /\ DOMAIN history = 1..Len(history) /\ Len(history) \in Nat
  BY LoopTypes
<1>2. history[k].event
  BY <1>1 DEF HistoryOK, RecordOK
<1>3. \A j \in DOMAIN history : history[j].round \in Nat
  BY <1>1, RecordTypes
<1>4. c # NoEvent =>
        /\ m \in DOMAIN history /\ Fails(history[m]) /\ history[m].event
        /\ history[m].round = c[1] /\ history[m].round <= history[k].round
        /\ history[m].round < history[k].round => m \in 1..k - 1
  BY <1>1, <1>2, FailureIs
<1>5. k \in Successes(history) <=> /\ c # NoEvent /\ history[m].round # history[k].round
                                   /\ history[m].ov # history[k].ov
  BY DEF Successes, Attempts, Corrects
<1> HIDE DEF m
<1>6. ASSUME k \in Successes(history) PROVE \E j \in before : history[j].ov # history[k].ov
  <2>1. /\ m \in DOMAIN history /\ Fails(history[m]) /\ history[m].event
        /\ history[m].round < history[k].round
    BY <1>3, <1>4, <1>5, <1>6
  <2>2. m \in before
    BY <1>4, <1>5, <1>6, <2>1
  <2> QED
    BY <1>5, <1>6, <2>2
<1>7. ASSUME before # {}, k \notin Successes(history)
      PROVE  \E j \in before : history[j].ov = history[k].ov
  <2>1. PICK j \in before : TRUE
    BY <1>7
  <2>2. j \in Failures(history) /\ j < k /\ history[j].round < history[k].round
    BY <1>1, <2>1 DEF Failures
  <2>3. CitesFirst(history, c, history[k].round, k)
    BY <1>1, <1>2 DEF HistoryOK
  <2>4. c # NoEvent /\ c[1] < history[k].round
    BY <2>2, <2>3 DEF CitesFirst
  <2>5. history[m].round < history[k].round /\ history[m].round # history[k].round
    BY <1>3, <1>4, <2>4
  <2>6. m \in before
    BY <1>4, <2>4, <2>5
  <2>7. history[m].ov = history[k].ov
    BY <1>5, <1>7, <2>4, <2>5
  <2> QED
    BY <2>6, <2>7
<1> QED
  BY <1>6, <1>7

LEMMA DiskFollows == LoopInv => DiskExplained
<1> SUFFICES ASSUME LoopInv PROVE DiskExplained
  OBVIOUS
<1>1. DiskInv /\ round \in Nat
  BY LoopTypes DEF LoopInv
<1>2. ASSUME NEW r \in 1..round - 1
      PROVE  /\ r \in disk.plans
             /\ OfRound(r) # {} => \E k \in DOMAIN history :
                                     history[k].status = "reflection" /\ history[k].round = r
             /\ OfRound(r) # {} => r \in disk.reflections
  <2>1. r \in 1..round /\ r < round
    BY <1>1
  <2>2. OfRound(r) = InRound(history, r)
    BY DEF OfRound, InRound
  <2> QED
    BY <1>1, <2>1, <2>2 DEF DiskInv
<1> QED
  BY <1>1, <1>2 DEF DiskExplained, DiskInv

(* What a reflection and a benchmark call best, a hit or a causal correction  *)
(* is one, and the run directory holds the result and the reflections it      *)
(* should, but for the exceptions the property names.                         *)
THEOREM ResultIsExplained == Spec => []ResultExplained
<1>1. LoopInv => ResultExplained
  BY BestFollows, HitFollows, CorrectionsFollow, DiskFollows DEF ResultExplained
<1> QED
  BY <1>1, LoopAlways, PTL

-----------------------------------------------------------------------------
(* The loop comes to an end *)

\* The parts of the measure: rounds, the experiments of a plan, the client.
RoundsLeft(r) == RoundSteps * (MaxRounds - r)
TodoLeft(s) == ExperimentSteps * Len(s)

LEMMA StepTypes ==
  /\ CallSteps \in Nat /\ ExperimentSteps \in Nat /\ ExperimentSteps * LongestPlan \in Nat
  /\ RoundSteps \in Nat /\ RoundSteps = 2 + CallSteps + ExperimentSteps * LongestPlan
  /\ ExperimentSteps = 3 + PlannerRetries * CallSteps + CallSteps
  /\ \A n \in Nat : n * CallSteps \in Nat /\ (n + 1) * CallSteps = n * CallSteps + CallSteps
<1>1. CallSteps \in Nat
  BY ClientAssumption DEF CallSteps
<1>2. \A n \in Nat : n * CallSteps \in Nat /\ (n + 1) * CallSteps = n * CallSteps + CallSteps
  BY <1>1
<1>3. /\ PlannerRetries \in Nat /\ LongestPlan \in Nat
  BY LoopAssumption
<1>4. /\ PlannerRetries * CallSteps \in Nat
      /\ (PlannerRetries + 1) * CallSteps = PlannerRetries * CallSteps + CallSteps
  BY <1>2, <1>3
<1>5. ExperimentSteps = 3 + PlannerRetries * CallSteps + CallSteps
  BY <1>1, <1>4 DEF ExperimentSteps
<1>6. ExperimentSteps \in Nat
  BY <1>1, <1>4, <1>5
<1>7. \A n \in Nat : ExperimentSteps * n \in Nat
  BY <1>6
<1>8. ExperimentSteps * LongestPlan \in Nat
  BY <1>3, <1>7
<1>9. RoundSteps \in Nat /\ RoundSteps = 2 + CallSteps + ExperimentSteps * LongestPlan
  BY <1>1, <1>8 DEF RoundSteps
<1> QED
  BY <1>1, <1>2, <1>5, <1>6, <1>8, <1>9

LEMMA RoundsLeftIs ==
  ASSUME NEW r \in Nat, r <= MaxRounds
  PROVE  /\ RoundsLeft(r) \in Nat
         /\ r < MaxRounds => RoundsLeft(r) = RoundsLeft(r + 1) + RoundSteps
<1>1. RoundSteps \in Nat /\ MaxRounds \in Nat
  BY StepTypes, LoopAssumption
<1>2. \A n \in Nat : RoundSteps * n \in Nat /\ RoundSteps * (n + 1) = RoundSteps * n + RoundSteps
  BY <1>1
<1>3. MaxRounds - r \in Nat
  BY <1>1
<1>4. ASSUME r < MaxRounds PROVE MaxRounds - (r + 1) \in Nat /\ MaxRounds - r = MaxRounds - (r + 1) + 1
  BY <1>1, <1>4
<1>5. ASSUME r < MaxRounds PROVE RoundsLeft(r) = RoundsLeft(r + 1) + RoundSteps
  <2>1. PICK n \in Nat : n = MaxRounds - (r + 1)
    BY <1>4, <1>5
  <2>2. MaxRounds - r = n + 1
    BY <1>4, <1>5, <2>1
  <2> QED
    BY <1>2, <2>1, <2>2 DEF RoundsLeft
<1> QED
  BY <1>2, <1>3, <1>5 DEF RoundsLeft

LEMMA TodoLeftIs ==
  ASSUME NEW s \in Seq(Experiments)
  PROVE  /\ TodoLeft(s) \in Nat
         /\ s # <<>> => TodoLeft(s) = TodoLeft(Tail(s)) + ExperimentSteps
         /\ Len(s) <= LongestPlan => TodoLeft(s) <= ExperimentSteps * LongestPlan
<1>1. ExperimentSteps \in Nat /\ LongestPlan \in Nat /\ Len(s) \in Nat
  BY StepTypes, LoopAssumption
<1>2. \A n \in Nat : /\ ExperimentSteps * n \in Nat
                     /\ ExperimentSteps * (n + 1) = ExperimentSteps * n + ExperimentSteps
  BY <1>1
<1>3. TodoLeft(s) \in Nat
  BY <1>1, <1>2 DEF TodoLeft
<1>4. ASSUME s # <<>> PROVE TodoLeft(s) = TodoLeft(Tail(s)) + ExperimentSteps
  <2>1. PICK n \in Nat : n = Len(Tail(s)) /\ Len(s) = n + 1
    BY <1>4
  <2> QED
    BY <1>2, <2>1 DEF TodoLeft
<1>5. ASSUME Len(s) <= LongestPlan PROVE TodoLeft(s) <= ExperimentSteps * LongestPlan
  <2>1. PICK n \in Nat : LongestPlan = Len(s) + n
    <3>1. LongestPlan - Len(s) \in Nat /\ LongestPlan = Len(s) + (LongestPlan - Len(s))
      BY <1>1, <1>5
    <3> QED
      BY <3>1
  <2>2. ExperimentSteps * (Len(s) + n) = ExperimentSteps * Len(s) + ExperimentSteps * n
    BY <1>1
  <2>3. ExperimentSteps * n \in Nat /\ ExperimentSteps * Len(s) \in Nat
    BY <1>1, <1>2
  <2> QED
    BY <2>1, <2>2, <2>3 DEF TodoLeft
<1> QED
  BY <1>3, <1>4, <1>5

LEMMA StageIs ==
  /\ pc = "round" => StageSteps = 1
  /\ pc = "planning" => StageSteps = 2 + ExperimentSteps * LongestPlan
  /\ pc = "experiments" => StageSteps = 2
  /\ pc = "recovering" => StageSteps = 3 + retries * CallSteps
  /\ pc = "retrying" => StageSteps = 3
  /\ pc \in {"done", "raised", "left"} => StageSteps = 0
BY DEF StageSteps

LEMMA StageIsNext ==
  (/\ pc = "round" => StageSteps = 1
   /\ pc = "planning" => StageSteps = 2 + ExperimentSteps * LongestPlan
   /\ pc = "experiments" => StageSteps = 2
   /\ pc = "recovering" => StageSteps = 3 + retries * CallSteps
   /\ pc = "retrying" => StageSteps = 3
   /\ pc \in {"done", "raised", "left"} => StageSteps = 0)'
BY StageIs, PTL

LEMMA ClientLeftIs ==
  ASSUME ClientTypeOK
  PROVE  /\ ClientLeft \in Nat
         /\ ClientStep => ClientLeft' < ClientLeft
         /\ StartCall /\ call = "idle" => ClientLeft' <= ClientLeft + CallSteps
         /\ StartCall /\ call = "ok" => ClientLeft' < ClientLeft + CallSteps
         /\ EndCall /\ call \in {"ok", "raised"} => ClientLeft' < ClientLeft
         /\ UNCHANGED clientVars => ClientLeft' = ClientLeft
<1> USE ClientAssumption DEF ClientTypeOK, ClientLeft
<1>1. ClientLeft \in Nat
  OBVIOUS
<1>2. ASSUME ClientStep PROVE ClientLeft' < ClientLeft
  <2>1. CASE Answer
    BY <2>1 DEF Answer
  <2>2. CASE AnswerUnusable
    BY <2>2 DEF AnswerUnusable
  <2>3. CASE Refused
    BY <2>3 DEF Refused, TryAgain
  <2>4. CASE Hang
    BY <2>4 DEF Hang, TryAgain
  <2>5. CASE ThreadDies
    BY <2>5 DEF ThreadDies
  <2> QED
    BY <1>2, <2>1, <2>2, <2>3, <2>4, <2>5 DEF ClientStep
<1>3. ASSUME StartCall, call \in {"idle", "ok"}
      PROVE  /\ call = "idle" => ClientLeft' <= ClientLeft + CallSteps
             /\ call = "ok" => ClientLeft' < ClientLeft + CallSteps
  BY <1>3 DEF StartCall, CallSteps
<1>4. ASSUME EndCall, call \in {"ok", "raised"} PROVE ClientLeft' < ClientLeft
  BY <1>4 DEF EndCall
<1>5. ASSUME UNCHANGED clientVars PROVE ClientLeft' = ClientLeft
  BY <1>5 DEF clientVars
<1> QED
  BY <1>1, <1>2, <1>3, <1>4, <1>5

LEMMA LeftIs ==
  /\ Left = RoundsLeft(round) + StageSteps + TodoLeft(todo) + ClientLeft
  /\ LoopInv => /\ RoundsLeft(round) \in Nat /\ StageSteps \in Nat /\ TodoLeft(todo) \in Nat
                /\ ClientLeft \in Nat /\ Left \in Nat
<1>1. Left = RoundsLeft(round) + StageSteps + TodoLeft(todo) + ClientLeft
  BY DEF Left, RoundsLeft, TodoLeft
<1>2. ASSUME LoopInv
      PROVE  /\ RoundsLeft(round) \in Nat /\ StageSteps \in Nat /\ TodoLeft(todo) \in Nat
             /\ ClientLeft \in Nat
  <2>1. /\ ClientTypeOK /\ round \in Nat /\ round <= MaxRounds /\ todo \in Seq(Experiments)
        /\ retries \in Nat
    BY <1>2, LoopTypes, LoopAssumption
  <2>2. StageSteps \in Nat
    <3>1. /\ ExperimentSteps * LongestPlan \in Nat /\ retries * CallSteps \in Nat
      BY <2>1, StepTypes
    <3>2. pc \in {"round", "planning", "experiments", "recovering", "retrying",
                  "done", "raised", "left"}
      BY <1>2 DEF LoopInv, Types, TypeOK
    <3> QED
      BY <3>1, <3>2, StageIs
  <2> QED
    BY <2>1, <2>2, RoundsLeftIs, TodoLeftIs, ClientLeftIs
<1> QED
  BY <1>1, <1>2

LEMMA LeftIsNext ==
  (/\ Left = RoundsLeft(round) + StageSteps + TodoLeft(todo) + ClientLeft
   /\ LoopInv => /\ RoundsLeft(round) \in Nat /\ StageSteps \in Nat /\ TodoLeft(todo) \in Nat
                 /\ ClientLeft \in Nat /\ Left \in Nat)'
BY LeftIs, PTL

\* Where the round and the experiments to take stay, the stage and the client
\* decide.
LEMMA StageFalls ==
  ASSUME LoopInv, LoopInv', UNCHANGED <<round, todo>>,
         StageSteps' + ClientLeft' < StageSteps + ClientLeft
  PROVE  Left' < Left
<1> DEFINE a == RoundsLeft(round)
           b == TodoLeft(todo)
           c == StageSteps
           d == ClientLeft
           x == StageSteps'
           y == ClientLeft'
<1>1. Left = a + c + b + d /\ a \in Nat /\ b \in Nat /\ c \in Nat /\ d \in Nat
  BY LeftIs
<1>2. RoundsLeft(round)' = a /\ TodoLeft(todo)' = b
  BY DEF RoundsLeft, TodoLeft
<1>3. Left' = a + x + b + y /\ x \in Nat /\ y \in Nat
  BY <1>2, LeftIsNext
<1>4. x + y < c + d
  OBVIOUS
<1> HIDE DEF a, b, c, d, x, y
<1> QED
  BY <1>1, <1>3, <1>4

LEMMA LeftFalls ==
  ASSUME LoopInv, LoopInv', Next, ~UNCHANGED vars
  PROVE  Left' < Left
<1> DEFINE e == ExperimentSteps * LongestPlan
           p == PlannerRetries * CallSteps
<1>1. /\ CallSteps \in Nat /\ ExperimentSteps \in Nat /\ e \in Nat /\ RoundSteps \in Nat
      /\ RoundSteps = 2 + CallSteps + e /\ ExperimentSteps = 3 + p + CallSteps /\ p \in Nat
  BY StepTypes, LoopAssumption
<1>2. /\ ClientTypeOK /\ round \in Nat /\ round <= MaxRounds /\ todo \in Seq(Experiments)
      /\ retries \in Nat
  BY LoopTypes, LoopAssumption
<1>3. /\ StageSteps \in Nat /\ ClientLeft \in Nat /\ StageSteps' \in Nat /\ ClientLeft' \in Nat
      /\ TodoLeft(todo) \in Nat /\ TodoLeft(todo') \in Nat
      /\ RoundsLeft(round) \in Nat /\ RoundsLeft(round') \in Nat
      /\ Left = RoundsLeft(round) + StageSteps + TodoLeft(todo) + ClientLeft
      /\ Left' = RoundsLeft(round') + StageSteps' + TodoLeft(todo') + ClientLeft'
  BY LeftIs, LeftIsNext DEF RoundsLeft, TodoLeft
<1>4. /\ pc = "round" => StageSteps = 1
      /\ pc = "planning" => StageSteps = 2 + e
      /\ pc = "experiments" => StageSteps = 2
      /\ pc = "recovering" => StageSteps = 3 + retries * CallSteps
      /\ pc = "retrying" => StageSteps = 3
  BY StageIs
<1>5. /\ pc' = "round" => StageSteps' = 1
      /\ pc' = "planning" => StageSteps' = 2 + e
      /\ pc' = "experiments" => StageSteps' = 2
      /\ pc' = "recovering" => StageSteps' = 3 + retries' * CallSteps
      /\ pc' = "retrying" => StageSteps' = 3
      /\ pc' \in {"done", "raised", "left"} => StageSteps' = 0
  BY StageIsNext
<1>6. /\ ClientStep => ClientLeft' < ClientLeft
      /\ StartCall /\ call = "idle" => ClientLeft' <= ClientLeft + CallSteps
      /\ StartCall /\ call = "ok" => ClientLeft' < ClientLeft + CallSteps
      /\ EndCall /\ call \in {"ok", "raised"} => ClientLeft' < ClientLeft
      /\ UNCHANGED clientVars => ClientLeft' = ClientLeft
  BY <1>2, ClientLeftIs
<1>7. pc \notin {"planning", "recovering"} => call = "idle"
  BY DEF LoopInv, ClientInv
<1> HIDE DEF e, p
<1>8. CASE StartRound
  <2>1. /\ pc = "round" /\ round < MaxRounds /\ round' = round + 1 /\ pc' = "planning"
        /\ StartCall /\ todo' = todo
    BY <1>8 DEF StartRound
  <2>2. RoundsLeft(round) = RoundsLeft(round') + RoundSteps
    BY <1>2, <2>1, RoundsLeftIs
  <2>3. ClientLeft' <= ClientLeft + CallSteps /\ StageSteps = 1 /\ StageSteps' = 2 + e
    BY <1>4, <1>5, <1>6, <1>7, <2>1
  <2>4. TodoLeft(todo') = TodoLeft(todo)
    BY <2>1
  <2> QED
    BY <1>1, <1>3, <2>2, <2>3, <2>4
<1>9. CASE FinishRounds
  <2>1. pc = "round" /\ pc' = "done" /\ UNCHANGED <<clientVars, round, todo>>
    BY <1>9 DEF FinishRounds, Save, loopVars
  <2> QED
    BY <1>3, <1>4, <1>5, <1>6, <2>1, StageFalls
<1>10. CASE PlanArrives
  <2>1. pc = "planning" /\ call = "ok" /\ EndCall /\ round' = round
    BY <1>10 DEF PlanArrives
  <2>2. PICK q \in Plans : \/ pc' = "done" /\ todo' = <<>>
                           \/ pc' = "experiments" /\ todo' = q.exps
    BY <1>10 DEF PlanArrives
  <2>3. todo' \in Seq(Experiments) /\ Len(todo') <= LongestPlan
    <3>1. CASE todo' = <<>>
      BY <3>1, LoopAssumption
    <3>2. CASE todo' = q.exps
      BY <3>2, LoopAssumption
    <3> QED
      BY <2>2, <3>1, <3>2
  <2>4. TodoLeft(todo') <= e
    BY <2>3, TodoLeftIs DEF e
  <2>5. StageSteps = 2 + e /\ StageSteps' <= 2 /\ ClientLeft' < ClientLeft
    BY <1>4, <1>5, <1>6, <2>1, <2>2
  <2>6. RoundsLeft(round') = RoundsLeft(round)
    BY <2>1
  <2> QED
    BY <1>1, <1>3, <2>4, <2>5, <2>6
<1>11. CASE PlanFails
  <2>1. /\ pc = "planning" /\ pc' \in {"done", "raised"} /\ call \in {"ok", "raised"} /\ EndCall
        /\ UNCHANGED <<round, todo>>
    BY <1>11 DEF PlanFails, Save, Raise, loopVars
  <2> QED
    BY <1>1, <1>3, <1>4, <1>5, <1>6, <2>1, StageFalls
<1>12. CASE QuotaReached
  <2>1. pc = "experiments" /\ pc' = "done" /\ UNCHANGED <<clientVars, round, todo>>
    BY <1>12 DEF QuotaReached, Save, loopVars
  <2> QED
    BY <1>3, <1>4, <1>5, <1>6, <2>1, StageFalls
<1>13. CASE Reject
  <2>1. pc = "experiments" /\ todo # <<>> /\ todo' = Tail(todo) /\ round' = round
    BY <1>13 DEF Reject
  <2>2. \/ pc' = "recovering" /\ retries' = PlannerRetries /\ StartCall
        \/ pc' = pc /\ UNCHANGED clientVars
    BY <1>13 DEF Reject
  <2>3. TodoLeft(todo) = TodoLeft(todo') + ExperimentSteps /\ RoundsLeft(round') = RoundsLeft(round)
    BY <1>2, <2>1, TodoLeftIs
  <2>4. CASE pc' = "recovering" /\ retries' = PlannerRetries /\ StartCall
    <3>1. StageSteps = 2 /\ StageSteps' = 3 + p /\ ClientLeft' <= ClientLeft + CallSteps
      BY <1>4, <1>5, <1>6, <1>7, <2>1, <2>4 DEF p
    <3> QED
      BY <1>1, <1>3, <2>3, <3>1
  <2>5. CASE pc' = pc /\ UNCHANGED clientVars
    <3>1. StageSteps = 2 /\ StageSteps' = 2 /\ ClientLeft' = ClientLeft
      BY <1>4, <1>5, <1>6, <2>1, <2>5
    <3> QED
      BY <1>1, <1>3, <2>3, <3>1
  <2> QED
    BY <2>2, <2>4, <2>5
<1>14. CASE Execute
  <2>1. /\ pc = "experiments" /\ pc' = pc /\ todo # <<>> /\ todo' = Tail(todo)
        /\ UNCHANGED <<clientVars, round>>
    BY <1>14 DEF Execute
  <2>2. TodoLeft(todo) = TodoLeft(todo') + ExperimentSteps /\ RoundsLeft(round') = RoundsLeft(round)
    BY <1>2, <2>1, TodoLeftIs
  <2>3. StageSteps = 2 /\ StageSteps' = 2 /\ ClientLeft' = ClientLeft
    BY <1>4, <1>5, <1>6, <2>1
  <2> QED
    BY <1>1, <1>3, <2>2, <2>3
<1>15. CASE RetryArrives
  <2>1. pc = "recovering" /\ call = "ok" /\ UNCHANGED <<round, todo>>
    BY <1>15 DEF RetryArrives
  <2>2. \/ pc' \in {"retrying", "experiments"} /\ EndCall
        \/ pc' = pc /\ retries' = RetryLeft /\ RetryLeft > 0 /\ StartCall
    BY <1>15 DEF RetryArrives
  <2>3. retries * CallSteps \in Nat
    BY <1>2, StepTypes
  <2>4. CASE pc' \in {"retrying", "experiments"} /\ EndCall
    <3>1. StageSteps = 3 + retries * CallSteps /\ StageSteps' <= 3 /\ ClientLeft' < ClientLeft
      BY <1>4, <1>5, <1>6, <2>1, <2>4
    <3>2. StageSteps' + ClientLeft' < StageSteps + ClientLeft
      <4> DEFINE n == retries * CallSteps
      <4> HIDE DEF n
      <4>1. n \in Nat /\ StageSteps = 3 + n
        BY <2>3, <3>1 DEF n
      <4> QED
        BY <1>3, <3>1, <4>1
    <3> QED
      BY <2>1, <3>2, StageFalls
  <2>5. CASE pc' = pc /\ retries' = RetryLeft /\ RetryLeft > 0 /\ StartCall
    <3>1. retries = retries' + 1 /\ retries' \in Nat
      BY <1>2, <2>5 DEF RetryLeft
    <3>2. retries * CallSteps = retries' * CallSteps + CallSteps /\ retries' * CallSteps \in Nat
      <4>1. PICK n \in Nat : n = retries'
        BY <3>1
      <4>2. n * CallSteps \in Nat /\ (n + 1) * CallSteps = n * CallSteps + CallSteps
        BY StepTypes
      <4> QED
        BY <3>1, <4>1, <4>2
    <3>3. /\ StageSteps = 3 + retries * CallSteps /\ StageSteps' = 3 + retries' * CallSteps
          /\ ClientLeft' < ClientLeft + CallSteps
      BY <1>4, <1>5, <1>6, <2>1, <2>5
    <3>4. StageSteps' + ClientLeft' < StageSteps + ClientLeft
      <4> DEFINE n == retries' * CallSteps
      <4>1. n \in Nat /\ StageSteps = 3 + (n + CallSteps) /\ StageSteps' = 3 + n
        BY <3>2, <3>3
      <4> HIDE DEF n
      <4> QED
        BY <1>1, <1>3, <3>3, <4>1
    <3> QED
      BY <2>1, <3>4, StageFalls
  <2> QED
    BY <2>2, <2>4, <2>5
<1>16. CASE RetryFails
  <2>1. /\ pc = "recovering" /\ pc' = "raised" /\ call \in {"ok", "raised"} /\ EndCall
        /\ UNCHANGED <<round, todo>>
    BY <1>16 DEF RetryFails, Raise, loopVars
  <2>2. StageSteps' = 0 /\ ClientLeft' < ClientLeft
    BY <1>5, <1>6, <2>1
  <2> QED
    BY <1>3, <2>1, <2>2, StageFalls
<1>17. CASE ExecuteRetry
  <2>1. pc = "retrying" /\ pc' = "experiments" /\ UNCHANGED <<clientVars, round, todo>>
    BY <1>17 DEF ExecuteRetry
  <2> QED
    BY <1>3, <1>4, <1>5, <1>6, <2>1, StageFalls
<1>18. CASE EndRound
  <2>1. pc = "experiments" /\ pc' = "round" /\ UNCHANGED <<clientVars, round, todo>>
    BY <1>18 DEF EndRound
  <2> QED
    BY <1>3, <1>4, <1>5, <1>6, <2>1, StageFalls
<1>19. CASE Leave
  <2>1. pc \in {"round", "experiments"} /\ pc' = "left" /\ UNCHANGED <<clientVars, round, todo>>
    BY <1>19 DEF Leave, loopVars
  <2> QED
    BY <1>3, <1>4, <1>5, <1>6, <2>1, StageFalls
<1>20. CASE ClientRuns
  <2>1. ClientStep /\ UNCHANGED <<pc, round, todo, retries>>
    BY <1>20 DEF ClientRuns, loopVars
  <2>2. StageSteps' = StageSteps
    BY <2>1 DEF StageSteps
  <2> QED
    BY <1>3, <1>6, <2>1, <2>2, StageFalls
<1>21. CASE Finished
  BY <1>21 DEF Finished
<1> QED
  BY <1>8, <1>9, <1>10, <1>11, <1>12, <1>13, <1>14, <1>15, <1>16, <1>17, <1>18, <1>19, <1>20,
     <1>21 DEF Next

(* Every run of the loop comes to an end, however often plans are refused,    *)
(* planned again, or requests hang: each step uses up some of a measure that  *)
(* the numbers of rounds, of experiments of a plan, of retries and of         *)
(* requests that hang bound.                                                  *)
THEOREM LoopComesToEnd == Spec => LoopEnds
<1>1. LoopInv /\ LoopInv' /\ [Next]_vars => [Left' \in 0..(Left - 1)]_vars
  <2> SUFFICES ASSUME LoopInv, LoopInv', Next, ~UNCHANGED vars PROVE Left' \in 0..(Left - 1)
    OBVIOUS
  <2>1. Left' < Left
    BY LeftFalls
  <2>2. Left \in Nat /\ Left' \in Nat
    BY LeftIs, LeftIsNext
  <2> QED
    BY <2>1, <2>2
<1> QED
  BY <1>1, LoopAlways, PTL DEF Spec, LoopEnds

=============================================================================
