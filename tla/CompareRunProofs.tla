-------------------------- MODULE CompareRunProofs --------------------------
(***************************************************************************)
(* Proofs about strategy comparisons, for any number of comparisons, any   *)
(* methods, budgets and design space: the trials are fair, the summary and *)
(* the strategies' memories follow from the rows, and every step uses up   *)
(* some of what a comparison has left to do.                               *)
(***************************************************************************)
EXTENDS CompareRun, FloatMetricsProofs, FiniteSetTheorems, SequenceTheorems, TLAPS

Hows == {"none", "drawn", "prior", "fallback", "asked", "reply", "refused", "exhausted"}
Rows == [id : Nat, cand : Candidates, how : Hows, rejected : BOOLEAN, failed : BOOLEAN,
         metric : Int, hit : BOOLEAN, hash : Candidates, shared : BOOLEAN, answered : Nat]
Memories == [seen : SUBSET Candidates, exhausted : BOOLEAN, types : SUBSET Types,
             told : Seq(Int), last : {0, 1}, calls : Nat, billed : Nat]

Flight == {"configure", "train", "training", "verify", "fit", "evaluate"}
Rest == {"suggest", "done", "left"}
Comparisons ==
  [pc : Flight \cup Rest, task : Nat, strat : Memories, rows : Seq(Seq(Rows)), effective : Nat,
   attempts : Nat, cand : Candidates, how : Hows, answered : Nat, trained : Candidates,
   metric : Int, shared : BOOLEAN]

-----------------------------------------------------------------------------
(* What is known of the rows of one method and seed *)

\* A row's metric and hash are its candidate's, unless a place was shared.
RowOK(w) ==
  /\ w.rejected => w.metric = NoMetric
  /\ w.metric = NoMetric => w.rejected \/ w.failed
  /\ ~w.shared => w.hash = w.cand
  /\ ~w.shared /\ w.metric # NoMetric => w.metric = Score[w.cand]

\* A trial, as the budget counts it.
Trial(w) == ~w.rejected \/ w.failed
Trials(own) == {j \in DOMAIN own : Trial(own[j])}

\* Candidate c may follow the first n rows, proposed by method m as h says.
MayFollow(m, d, own, n, c, h) ==
  /\ m \in Simulated \cup {"random_search"} =>
       /\ h = "exhausted" <=> c = Empty
       /\ \A i \in 1..n :
            /\ own[i].how = "exhausted" => h = "exhausted"
            /\ own[i].cand = c => h \in {"exhausted", "fallback"} \/ own[i].how = "fallback"
  /\ m \in UsesFacts /\ d = "nonlinear" /\ h = "drawn" =>
       \A i \in 1..n : own[i].failed \/ own[i].rejected => own[i].cand.type # c.type

HistoryOK(m, d, own) ==
  \A j \in 1..Len(own) :
    /\ RowOK(own[j])
    /\ Trial(own[j]) => own[j].id = j - 1
    /\ MayFollow(m, d, own, j - 1, own[j].cand, own[j].how)

-----------------------------------------------------------------------------
(* What a strategy remembers of the rows, c being the candidate under way *)

\* Sampling strategies know what they proposed.
Knows(m, s, c, h) ==
  m \in Simulated \cup {"random_search"} =>
    /\ h \notin {"fallback", "exhausted"} => c \in s.seen
    /\ h = "exhausted" => m = "random_search" /\ s.exhausted

\* Of a row whose type shall not be proposed again.
Learned(m, d, s, w) ==
  m \in UsesFacts /\ d = "nonlinear" /\ (w.failed \/ w.rejected) /\ w.cand # Empty =>
    w.cand.type \in s.types

ToldOf(d, x, w) ==
  x # Untold => \/ x = w.metric /\ ~w.rejected
                \/ d = "nonlinear" /\ x = 0 /\ (w.rejected \/ w.failed)

\* The study was told of every row, n of its trials have none yet.
StudyOK(m, d, s, own, n) ==
  /\ IF m = "optuna_tpe" THEN Len(s.told) = Len(own) + n ELSE s.told = <<>>
  /\ \A j \in 1..Len(s.told) : IF j <= Len(own) THEN ToldOf(d, s.told[j], own[j])
                               ELSE s.told[j] = Untold

\* The bill follows the calls, of which n are in no row yet.
BillOK(m, s, own, n) ==
  m = "real_llm" =>
    /\ s.billed < s.calls - n => \E j \in 1..Len(own) : own[j].answered > 1
    /\ s.billed > s.calls - n => \E j \in 1..Len(own) : own[j].answered = 0

MemoryOK(m, d, s, own, n, answered) ==
  /\ \A j \in 1..Len(own) : Knows(m, s, own[j].cand, own[j].how) /\ Learned(m, d, s, own[j])
  /\ StudyOK(m, d, s, own, n)
  /\ BillOK(m, s, own, answered)

-----------------------------------------------------------------------------
(* One comparison *)

CountsOK(b, me, own) ==
  /\ Len(own) = me.attempts
  /\ Cardinality(Trials(own)) = me.effective
  /\ me.effective <= b /\ me.effective <= me.attempts /\ me.attempts <= AttemptFactor * b
  /\ me.pc \in Flight => me.effective < b /\ me.attempts < AttemptFactor * b

\* A method that is over used up its budget or the attempts.
Fair(b, own) == Cardinality(Trials(own)) = b \/ Len(own) = AttemptFactor * b

UnderWay(m, d, me, own) ==
  IF me.pc \in Rest THEN MemoryOK(m, d, me.strat, own, 0, 0)
  ELSE /\ MemoryOK(m, d, me.strat, own, IF m = "optuna_tpe" THEN 1 ELSE 0, me.answered)
       /\ MayFollow(m, d, own, Len(own), me.cand, me.how)
       /\ Knows(m, me.strat, me.cand, me.how)
       /\ m = "real_llm" /\ me.answered > 0 => me.strat.last = 1

RunOK(b, ms, d, me) ==
  /\ me.task \in 1..Len(ms) /\ Len(me.rows) = Len(ms)
  /\ \A k \in 1..Len(ms) : HistoryOK(ms[k], d, me.rows[k])
  /\ \A k \in 1..Len(ms) : k < me.task \/ me.pc = "done" => Fair(b, me.rows[k])
  /\ \A k \in 1..Len(ms) : k > me.task => me.rows[k] = <<>>
  /\ CountsOK(b, me, me.rows[me.task])
  /\ UnderWay(ms[me.task], d, me, me.rows[me.task])

\* The trial of a comparison whose place holds configuration c and model m.
TrialOK(d, me, c, m) ==
  /\ me.pc \in {"configure", "train", "training", "verify"} => d = "nonlinear"
  /\ me.pc \in {"fit", "evaluate"} => d = "synthetic"
  /\ me.pc \in Flight => me.cand \in Accepted
  /\ me.pc \in {"train", "training", "verify"} => c \in Accepted /\ (~me.shared => c = me.cand)
  /\ me.pc \in {"training", "verify"} => me.trained \in Accepted /\ (~me.shared => me.trained = me.cand)
  /\ me.pc \in {"verify", "evaluate"} =>
       m \in Accepted /\ Score[m] # NoMetric /\ (~me.shared => m = me.cand)
  /\ me.metric = IF me.pc = "verify" THEN Score[me.trained] ELSE NoMetric
  /\ me.pc = "verify" => me.metric # NoMetric

\* Trials that overlap in a place know it.
Overlap ==
  \A q, r \in Runs : q # r /\ run[q].pc \in Working /\ run[r].pc \in Working /\ Place(q) = Place(r)
    => run[r].shared

CompareInv ==
  /\ protocol \in Protocols /\ domain \in {"nonlinear", "synthetic"}
  /\ configs \in [Places -> Candidates] /\ models \in [Places -> Candidates]
  /\ run \in [Runs -> Comparisons]
  /\ \A r \in Runs : RunOK(Budget(r), Methods(r), domain, run[r])
  /\ \A r \in Runs : TrialOK(domain, run[r], configs[Place(r)], models[Place(r)])
  /\ Overlap

\* Tools given up will write models of accepted candidates into places of trials.
LateOK ==
  \A t \in late : t.by \in Runs /\ t.place \in Places /\ t.cand \in Accepted /\ Score[t.cand] # NoMetric

-----------------------------------------------------------------------------
(* Candidates and rows *)

LEMMA ProposalsAre ==
  /\ Empty \in Candidates /\ Proposals \subseteq Candidates /\ Space \subseteq Proposals
  /\ Empty \notin Proposals /\ Accepted \subseteq Candidates /\ Priors \subseteq Proposals
  /\ \A c \in Proposals : c # Empty /\ c.type \in Types
  /\ \A c \in Candidates : c # Empty => c \in Proposals
<1>1. Empty.type = "none"
  BY DEF Empty
<1>2. \A c \in Proposals : c.type \in Types
  BY DEF Proposals
<1>3. Empty \notin Proposals
  BY <1>1, <1>2, StrategyAssumption
<1>4. Space \subseteq Proposals
  BY StrategyAssumption DEF Space, Proposals
<1> QED
  BY <1>2, <1>3, <1>4, StrategyAssumption DEF Candidates

LEMMA RowTypes ==
  ASSUME NEW w \in Rows
  PROVE  /\ w.id \in Nat /\ w.cand \in Candidates /\ w.how \in Hows /\ w.rejected \in BOOLEAN
         /\ w.failed \in BOOLEAN /\ w.metric \in Int /\ w.hit \in BOOLEAN /\ w.hash \in Candidates
         /\ w.shared \in BOOLEAN /\ w.answered \in Nat
BY DEF Rows

LEMMA MemoryTypes ==
  ASSUME NEW s \in Memories
  PROVE  /\ s.seen \subseteq Candidates /\ s.exhausted \in BOOLEAN /\ s.types \subseteq Types
         /\ s.told \in Seq(Int) /\ s.last \in {0, 1} /\ s.calls \in Nat /\ s.billed \in Nat
BY DEF Memories

LEMMA ComparisonTypes ==
  ASSUME NEW me \in Comparisons
  PROVE  /\ me.pc \in Flight \cup Rest /\ me.task \in Nat /\ me.strat \in Memories
         /\ me.rows \in Seq(Seq(Rows)) /\ me.effective \in Nat /\ me.attempts \in Nat
         /\ me.cand \in Candidates /\ me.how \in Hows /\ me.answered \in Nat
         /\ me.trained \in Candidates /\ me.metric \in Int /\ me.shared \in BOOLEAN
BY DEF Comparisons

LEMMA NewMemory ==
  /\ NewStrategy \in Memories
  /\ NewStrategy.told = <<>> /\ NewStrategy.calls = 0 /\ NewStrategy.billed = 0
BY DEF NewStrategy, Memories

\* One more row.
LEMMA Appended ==
  ASSUME NEW own \in Seq(Rows), NEW w \in Rows
  PROVE  /\ Append(own, w) \in Seq(Rows) /\ Len(Append(own, w)) = Len(own) + 1 /\ Len(own) \in Nat
         /\ \A j \in 1..Len(own) : Append(own, w)[j] = own[j] /\ own[j] \in Rows
         /\ Append(own, w)[Len(own) + 1] = w
         /\ DOMAIN own = 1..Len(own) /\ DOMAIN Append(own, w) = 1..(Len(own) + 1)
OBVIOUS

LEMMA HistoryGrows ==
  ASSUME NEW m, NEW d, NEW own \in Seq(Rows), NEW w \in Rows, HistoryOK(m, d, own),
         RowOK(w), Trial(w) => w.id = Len(own), MayFollow(m, d, own, Len(own), w.cand, w.how)
  PROVE  HistoryOK(m, d, Append(own, w))
<1> DEFINE new == Append(own, w)
<1>1. /\ Len(new) = Len(own) + 1 /\ Len(own) \in Nat /\ new[Len(own) + 1] = w
      /\ \A j \in 1..Len(own) : new[j] = own[j]
  BY Appended
<1> HIDE DEF new
<1>2. ASSUME NEW n \in Nat, n <= Len(own), NEW c, NEW h, MayFollow(m, d, own, n, c, h)
      PROVE  MayFollow(m, d, new, n, c, h)
  <2>1. \A i \in 1..n : new[i] = own[i]
    BY <1>1, <1>2
  <2> QED
    BY <1>2, <2>1 DEF MayFollow
<1>3. ASSUME NEW j \in 1..Len(new)
      PROVE  /\ RowOK(new[j]) /\ (Trial(new[j]) => new[j].id = j - 1)
             /\ MayFollow(m, d, new, j - 1, new[j].cand, new[j].how)
  <2>1. CASE j = Len(own) + 1
    BY <1>1, <1>2, <2>1
  <2>2. CASE j \in 1..Len(own)
    <3>1. new[j] = own[j] /\ j - 1 \in Nat /\ j - 1 <= Len(own)
      BY <1>1, <2>2
    <3>2. /\ RowOK(own[j]) /\ (Trial(own[j]) => own[j].id = j - 1)
          /\ MayFollow(m, d, own, j - 1, own[j].cand, own[j].how)
      BY <2>2 DEF HistoryOK
    <3> QED
      BY <1>2, <3>1, <3>2
  <2> QED
    BY <1>1, <2>1, <2>2
<1> QED
  BY <1>3 DEF HistoryOK, new

LEMMA TrialsGrow ==
  ASSUME NEW own \in Seq(Rows), NEW w \in Rows
  PROVE  /\ IsFiniteSet(Trials(own)) /\ Cardinality(Trials(own)) \in Nat
         /\ Cardinality(Trials(Append(own, w))) =
              IF Trial(w) THEN Cardinality(Trials(own)) + 1 ELSE Cardinality(Trials(own))
         /\ Cardinality(Trials(own)) <= Len(own)
<1> DEFINE new == Append(own, w)
<1>1. /\ Len(own) \in Nat /\ new[Len(own) + 1] = w
      /\ DOMAIN own = 1..Len(own) /\ DOMAIN new = 1..(Len(own) + 1)
      /\ \A j \in 1..Len(own) : new[j] = own[j]
  BY Appended
<1> HIDE DEF new
<1>2. Trials(own) \subseteq 1..Len(own)
  BY <1>1 DEF Trials
<1>3. IsFiniteSet(1..Len(own)) /\ Cardinality(1..Len(own)) = Len(own)
  BY <1>1, FS_Interval
<1>4. /\ IsFiniteSet(Trials(own)) /\ Cardinality(Trials(own)) \in Nat
      /\ Cardinality(Trials(own)) <= Len(own)
  BY <1>2, <1>3, FS_Subset, FS_CardinalityType
<1>5. Trials(new) = IF Trial(w) THEN Trials(own) \cup {Len(own) + 1} ELSE Trials(own)
  BY <1>1 DEF Trials
<1>6. Len(own) + 1 \notin Trials(own)
  BY <1>1, <1>2
<1>7. Cardinality(Trials(own) \cup {Len(own) + 1}) = Cardinality(Trials(own)) + 1
  BY <1>4, <1>6, FS_AddElement
<1> QED
  BY <1>4, <1>5, <1>7 DEF new

-----------------------------------------------------------------------------
(* What a strategy proposes *)

LEMMA BestCandidateIs ==
  ASSUME NEW m, NEW d, NEW own \in Seq(Rows)
  PROVE  BestCandidate(m, d, own) \in Candidates
<1> DEFINE P == Measured(d, own)
           key == [j \in DOMAIN own |-> Value(d, own[j])]
<1>1. DOMAIN own = 1..Len(own) /\ Len(own) \in Nat /\ \A j \in 1..Len(own) : own[j] \in Rows
  OBVIOUS
<1>2. CASE P # {} /\ m # "llm_direct"
  <2>1. P \in SUBSET 1..Len(own)
    BY <1>1 DEF Measured
  <2>2. \A j \in P : key[j] \in Int
    BY <1>1, <2>1, RowTypes DEF Value
  <2>3. First(P, key) \in P
    <3> HIDE DEF P, key
    <3> QED
      BY <1>1, <1>2, <2>1, <2>2, FirstIs
  <2>4. Best(d, own) = First(P, key)
    BY DEF Best
  <2>5. Best(d, own) \in 1..Len(own)
    BY <2>1, <2>3, <2>4
  <2>6. own[Best(d, own)] \in Rows
    BY <1>1, <2>5
  <2>7. BestCandidate(m, d, own) = own[Best(d, own)].cand
    BY <1>2 DEF BestCandidate
  <2> QED
    BY <2>6, <2>7, RowTypes
<1>3. CASE P = {} \/ m = "llm_direct"
  BY <1>3, ProposalsAre DEF BestCandidate
<1> QED
  BY <1>2, <1>3

LEMMA SuggestionFields ==
  ASSUME NEW c, NEW h, NEW s, NEW g, g = Suggestion(c, h, s)
  PROVE  g.cand = c /\ g.how = h /\ g.strat = s /\ g.answered = 1
BY DEF Suggestion

LEMMA ReplyFields ==
  ASSUME NEW c, NEW h, NEW s, NEW n, NEW g,
         g = [cand |-> c, how |-> h, strat |-> s, answered |-> n]
  PROVE  g.cand = c /\ g.how = h /\ g.strat = s /\ g.answered = n
OBVIOUS

\* Two memories that agree on all but what a sampling strategy proposed.
Same(s, t) ==
  /\ t.types = s.types /\ t.told = s.told /\ t.last = s.last
  /\ t.calls = s.calls /\ t.billed = s.billed
  /\ s.seen \subseteq t.seen /\ (s.exhausted => t.exhausted)

LEMMA RememberIs ==
  ASSUME NEW s \in Memories, NEW c \in Candidates, NEW t, t = Remember(s, c)
  PROVE  t \in Memories /\ Same(s, t) /\ c \in t.seen
BY DEF Remember, Memories, Same

LEMMA ExhaustedIs ==
  ASSUME NEW s \in Memories, NEW t, t = [s EXCEPT !.exhausted = TRUE]
  PROVE  t \in Memories /\ Same(s, t) /\ t.exhausted
BY DEF Memories, Same

LEMMA AskedIs ==
  ASSUME NEW s \in Memories, NEW t, t = [s EXCEPT !.told = Append(@, Untold)]
  PROVE  /\ t \in Memories /\ t.told = Append(s.told, Untold)
         /\ t.seen = s.seen /\ t.exhausted = s.exhausted /\ t.types = s.types
<1>1. Untold \in Int
  BY DEF Untold
<1>2. Append(s.told, Untold) \in Seq(Int)
  BY <1>1, MemoryTypes
<1> HIDE DEF Untold
<1> QED
  BY <1>2 DEF Memories

LEMMA CalledIs ==
  ASSUME NEW s \in Memories, NEW n \in Nat, NEW t, t = Called(s, n)
  PROVE  /\ t \in Memories /\ t.calls = s.calls + n /\ t.last = IF n > 0 THEN 1 ELSE s.last
         /\ t.billed = s.billed /\ t.told = s.told /\ t.seen = s.seen
         /\ t.exhausted = s.exhausted /\ t.types = s.types
<1> DEFINE c == s.calls + n
           l == IF n > 0 THEN 1 ELSE s.last
<1>1. c \in Nat /\ l \in {0, 1}
  BY MemoryTypes
<1>2. t = [s EXCEPT !.calls = c, !.last = l]
  BY DEF Called
<1> HIDE DEF c, l
<1>3. /\ t \in Memories /\ t.calls = c /\ t.last = l /\ t.billed = s.billed /\ t.told = s.told
      /\ t.seen = s.seen /\ t.exhausted = s.exhausted /\ t.types = s.types
  BY <1>1, <1>2 DEF Memories
<1> QED
  BY <1>3 DEF c, l

\* A memory that agrees with another one knows as much.
LEMMA SameKnows ==
  ASSUME NEW m, NEW d, NEW own \in Seq(Rows), NEW s \in Memories, NEW t \in Memories, Same(s, t),
         m # "real_llm", MemoryOK(m, d, s, own, 0, 0)
  PROVE  MemoryOK(m, d, t, own, 0, 1)
<1>1. \A j \in 1..Len(own) : Knows(m, t, own[j].cand, own[j].how) /\ Learned(m, d, t, own[j])
  BY DEF MemoryOK, Same, Knows, Learned
<1>2. StudyOK(m, d, t, own, 0)
  BY DEF MemoryOK, Same, StudyOK
<1> QED
  BY <1>1, <1>2 DEF MemoryOK, BillOK

\* A proposal for the rows so far, and the strategy's memory after it.
Proposed(m, d, own, g) ==
  /\ g.cand \in Candidates /\ g.how \in Hows /\ g.strat \in Memories /\ g.answered \in Nat
  /\ MemoryOK(m, d, g.strat, own, IF m = "optuna_tpe" THEN 1 ELSE 0, g.answered)
  /\ MayFollow(m, d, own, Len(own), g.cand, g.how)
  /\ Knows(m, g.strat, g.cand, g.how)
  /\ m = "real_llm" /\ g.answered > 0 => g.strat.last = 1

LEMMA Kinds ==
  /\ \A m \in Simulated : m \notin {"random_search", "optuna_tpe", "real_llm"}
  /\ UsesFacts \subseteq Simulated
BY DEF Simulated, UsesFacts

\* A candidate a sampling strategy does not know was not proposed but as a
\* free draw; none of its proposals was {} as long as it is not exhausted.
LEMMA UnknownIsNew ==
  ASSUME NEW m \in Simulated \cup {"random_search"}, NEW d, NEW own \in Seq(Rows),
         NEW s \in Memories, HistoryOK(m, d, own), MemoryOK(m, d, s, own, 0, 0),
         NEW i \in 1..Len(own)
  PROVE  /\ own[i].how = "exhausted" => m = "random_search" /\ s.exhausted
         /\ own[i].how = "exhausted" <=> own[i].cand = Empty
         /\ own[i].cand \notin s.seen => own[i].how \in {"fallback", "exhausted"}
<1>1. Knows(m, s, own[i].cand, own[i].how)
  BY DEF MemoryOK
<1>2. MayFollow(m, d, own, i - 1, own[i].cand, own[i].how)
  BY DEF HistoryOK
<1> QED
  BY <1>1, <1>2 DEF Knows, MayFollow

LEMMA RandomProposes ==
  ASSUME NEW d, NEW own \in Seq(Rows), NEW s \in Memories, HistoryOK("random_search", d, own),
         MemoryOK("random_search", d, s, own, 0, 0), NEW g \in RandomSuggests(s)
  PROVE  Proposed("random_search", d, own, g)
<1> DEFINE m == "random_search"
<1>1. m \in Simulated \cup {"random_search"} /\ m \notin UsesFacts
  BY DEF Simulated, UsesFacts
<1>2. \A i \in 1..Len(own) :
        /\ own[i].how = "exhausted" => s.exhausted
        /\ own[i].how = "exhausted" <=> own[i].cand = Empty
        /\ own[i].cand \notin s.seen => own[i].how \in {"fallback", "exhausted"}
  BY <1>1, UnknownIsNew, SMTT(60)
<1>3. ASSUME NEW c \in Candidates, NEW h \in {"drawn", "exhausted"}, NEW t \in Memories, Same(s, t),
             g = Suggestion(c, h, t), Knows(m, t, c, h), h = "exhausted" <=> c = Empty,
             h = "drawn" => c \notin s.seen /\ ~s.exhausted
      PROVE  Proposed(m, d, own, g)
  <2>1. g.cand = c /\ g.how = h /\ g.strat = t /\ g.answered = 1
    BY <1>3, SuggestionFields
  <2>2. MemoryOK(m, d, t, own, 0, 1)
    BY <1>3, SameKnows
  <2>3. MayFollow(m, d, own, Len(own), c, h)
    BY <1>1, <1>2, <1>3 DEF MayFollow
  <2>4. h \in Hows
    BY DEF Hows
  <2> QED
    BY <1>3, <2>1, <2>2, <2>3, <2>4 DEF Proposed
<1>4. CASE s.exhausted
  <2>1. g = Suggestion(Empty, "exhausted", s)
    BY <1>4 DEF RandomSuggests
  <2>2. Same(s, s) /\ Knows(m, s, Empty, "exhausted")
    BY <1>4 DEF Same, Knows
  <2> QED
    BY <1>3, <2>1, <2>2, ProposalsAre
<1>5. CASE ~s.exhausted
  <2>1. CASE \E c \in Space \ s.seen : g = Suggestion(c, "drawn", Remember(s, c))
    <3>1. PICK c \in Space \ s.seen : g = Suggestion(c, "drawn", Remember(s, c))
      BY <2>1
    <3>2. c \in Candidates /\ c # Empty
      BY <3>1, ProposalsAre
    <3>3. PICK t : t = Remember(s, c)
      OBVIOUS
    <3>4. t \in Memories /\ Same(s, t) /\ c \in t.seen
      BY <3>2, <3>3, RememberIs
    <3>5. Knows(m, t, c, "drawn")
      BY <3>4 DEF Knows
    <3> QED
      BY <1>3, <1>5, <3>1, <3>2, <3>3, <3>4, <3>5
  <2>2. CASE \E c \in s.seen : g = Suggestion(Empty, "exhausted", [s EXCEPT !.exhausted = TRUE])
    <3>1. PICK t : t = [s EXCEPT !.exhausted = TRUE]
      OBVIOUS
    <3>2. t \in Memories /\ Same(s, t) /\ t.exhausted
      BY <3>1, ExhaustedIs
    <3>3. Knows(m, t, Empty, "exhausted")
      BY <3>2 DEF Knows
    <3>4. g = Suggestion(Empty, "exhausted", t)
      BY <2>2, <3>1
    <3> QED
      BY <1>3, <3>2, <3>3, <3>4, ProposalsAre
  <2> QED
    BY <1>5, <2>1, <2>2 DEF RandomSuggests
<1> QED
  BY <1>4, <1>5

LEMMA OptunaProposes ==
  ASSUME NEW d, NEW own \in Seq(Rows), NEW s \in Memories,
         MemoryOK("optuna_tpe", d, s, own, 0, 0), NEW g \in OptunaSuggests(s)
  PROVE  Proposed("optuna_tpe", d, own, g)
<1> DEFINE m == "optuna_tpe"
<1>1. m \notin Simulated \cup {"random_search", "real_llm"} /\ m \notin UsesFacts
  BY DEF Simulated, UsesFacts
<1>2. PICK c \in Space : g = Suggestion(c, "asked", [s EXCEPT !.told = Append(@, Untold)])
  BY DEF OptunaSuggests
<1>3. PICK t : t = [s EXCEPT !.told = Append(@, Untold)]
  OBVIOUS
<1>4. t \in Memories /\ t.told = Append(s.told, Untold)
  BY <1>3, AskedIs
<1>5. g.cand = c /\ g.how = "asked" /\ g.strat = t /\ g.answered = 1
  BY <1>2, <1>3, SuggestionFields
<1>6. StudyOK(m, d, t, own, 1)
  <2>1. StudyOK(m, d, s, own, 0) /\ s.told \in Seq(Int) /\ Len(own) \in Nat
    BY MemoryTypes DEF MemoryOK
  <2>2. Len(s.told) = Len(own)
    BY <2>1 DEF StudyOK
  <2>3. /\ Len(t.told) = Len(own) + 1 /\ t.told[Len(own) + 1] = Untold
        /\ \A j \in 1..Len(own) : t.told[j] = s.told[j]
    BY <1>4, <2>1, <2>2
  <2>4. \A j \in 1..Len(own) : ToldOf(d, s.told[j], own[j])
    BY <2>1, <2>2 DEF StudyOK
  <2> QED
    BY <2>1, <2>3, <2>4 DEF StudyOK
<1>7. MemoryOK(m, d, t, own, 1, 1)
  BY <1>1, <1>6 DEF MemoryOK, Knows, Learned, BillOK
<1>8. MayFollow(m, d, own, Len(own), c, "asked") /\ Knows(m, t, c, "asked")
  BY <1>1 DEF MayFollow, Knows
<1>9. c \in Candidates /\ "asked" \in Hows
  BY ProposalsAre DEF Hows
<1> QED
  BY <1>1, <1>4, <1>5, <1>7, <1>8, <1>9 DEF Proposed

LEMMA RealProposes ==
  ASSUME NEW d, NEW own \in Seq(Rows), NEW s \in Memories,
         MemoryOK("real_llm", d, s, own, 0, 0), NEW g \in RealSuggests(s)
  PROVE  Proposed("real_llm", d, own, g)
<1> DEFINE m == "real_llm"
<1>1. m \notin Simulated \cup {"random_search", "optuna_tpe"} /\ m \notin UsesFacts
  BY DEF Simulated, UsesFacts
<1>2. PICK c \in Candidates, h \in {"reply", "refused"}, n \in Nat :
        g = [cand |-> c, how |-> h, strat |-> Called(s, n), answered |-> n]
  <2>1. MaxTries + 1 \in Nat /\ 1..MaxTries + 1 \subseteq Nat /\ 0..MaxTries \subseteq Nat
    BY StrategyAssumption
  <2> QED
    BY <2>1, ProposalsAre DEF RealSuggests
<1>3. PICK t : t = Called(s, n)
  OBVIOUS
<1>4. /\ t \in Memories /\ t.calls = s.calls + n /\ t.last = IF n > 0 THEN 1 ELSE s.last
      /\ t.billed = s.billed /\ t.told = s.told
  BY <1>3, CalledIs
<1>5. g.cand = c /\ g.how = h /\ g.strat = t /\ g.answered = n
  BY <1>2, <1>3, ReplyFields
<1>6. StudyOK(m, d, t, own, 0)
  BY <1>4 DEF MemoryOK, StudyOK
<1>7. BillOK(m, t, own, n)
  <2>1. t.calls - n = s.calls - 0
    BY <1>4, MemoryTypes
  <2>2. BillOK(m, s, own, 0)
    BY DEF MemoryOK
  <2> QED
    BY <1>4, <2>1, <2>2 DEF BillOK
<1>8. MemoryOK(m, d, t, own, 0, n)
  BY <1>1, <1>6, <1>7 DEF MemoryOK, Knows, Learned
<1>9. MayFollow(m, d, own, Len(own), c, h) /\ Knows(m, t, c, h) /\ h \in Hows
  BY <1>1 DEF MayFollow, Knows, Hows
<1> QED
  BY <1>1, <1>4, <1>5, <1>8, <1>9 DEF Proposed

LEMMA DrawsAre ==
  ASSUME NEW best \in Candidates, NEW s, NEW c \in Draws(best)
  PROVE  c \in Proposals /\ Swapped(s, best, c) \in Proposals
<1>1. c \in Proposals
  <2>1. Space \subseteq Proposals
    BY ProposalsAre
  <2>2. Grid \subseteq Lowest..Highest
    BY StrategyAssumption
  <2> QED
    BY <2>1, <2>2 DEF Draws, Proposals
<1>2. best # Empty => best.type \in Types
  BY ProposalsAre
<1>3. best # Empty => [c EXCEPT !.type = best.type] \in Proposals
  BY <1>1, <1>2 DEF Proposals
<1> QED
  BY <1>1, <1>3 DEF Swapped

LEMMA SimulatedProposes ==
  ASSUME NEW m \in Simulated, NEW d, NEW own \in Seq(Rows), NEW s \in Memories,
         HistoryOK(m, d, own), MemoryOK(m, d, s, own, 0, 0),
         NEW g \in SimulatedSuggests(m, d, s, own)
  PROVE  Proposed(m, d, own, g)
<1> DEFINE best == BestCandidate(m, d, own)
<1>1. m \in Simulated \cup {"random_search"} /\ m \notin {"random_search", "optuna_tpe", "real_llm"}
  BY Kinds
<1>2. \A i \in 1..Len(own) :
        /\ own[i].how # "exhausted" /\ own[i].cand # Empty
        /\ own[i].cand \notin s.seen => own[i].how = "fallback"
  BY <1>1, UnknownIsNew
<1>3. best \in Candidates
  BY BestCandidateIs
<1>4. ASSUME NEW c \in Proposals, NEW h \in {"drawn", "prior", "fallback"}, NEW t \in Memories,
             Same(s, t), g = Suggestion(c, h, t), h # "fallback" => c \in t.seen /\ c \notin s.seen,
             h = "drawn" => c.type \notin s.types
      PROVE  Proposed(m, d, own, g)
  <2>1. g.cand = c /\ g.how = h /\ g.strat = t /\ g.answered = 1
    BY <1>4, SuggestionFields
  <2>2. MemoryOK(m, d, t, own, 0, 1)
    BY <1>1, <1>4, SameKnows
  <2>3. c \in Candidates /\ c # Empty
    BY ProposalsAre
  <2>4. Knows(m, t, c, h)
    BY <1>4 DEF Knows
  <2>5. MayFollow(m, d, own, Len(own), c, h)
    <3>1. \A i \in 1..Len(own) : own[i].cand = c => h = "fallback" \/ own[i].how = "fallback"
      BY <1>2, <1>4
    <3>2. ASSUME NEW i \in 1..Len(own), m \in UsesFacts, d = "nonlinear", h = "drawn",
                 own[i].failed \/ own[i].rejected
          PROVE  own[i].cand.type # c.type
      <4>1. own[i].cand.type \in s.types
        BY <1>2, <3>2 DEF MemoryOK, Learned
      <4> QED
        BY <1>4, <3>2, <4>1
    <3> QED
      BY <1>2, <2>3, <3>1, <3>2 DEF MayFollow
  <2>6. h \in Hows
    BY DEF Hows
  <2> QED
    BY <1>1, <2>1, <2>2, <2>3, <2>4, <2>5, <2>6 DEF Proposed
<1>5. ASSUME NEW c \in Proposals, NEW h \in {"drawn", "prior"}, c \notin s.seen,
             g = Suggestion(c, h, Remember(s, c)), h = "drawn" => c.type \notin s.types
      PROVE  Proposed(m, d, own, g)
  <2>1. PICK t : t = Remember(s, c)
    OBVIOUS
  <2>2. t \in Memories /\ Same(s, t) /\ c \in t.seen
    BY <2>1, ProposalsAre, RememberIs
  <2> QED
    BY <1>4, <1>5, <2>1, <2>2
<1>6. CASE \E c \in Priors \ s.seen : g = Suggestion(c, "prior", Remember(s, c))
  BY <1>5, <1>6, ProposalsAre
<1>7. CASE \E c \in {Swapped(s, best, x) : x \in {y \in Draws(best) : Wanted(s, best, y)}} \ s.seen :
             g = Suggestion(c, "drawn", Remember(s, c))
  <2>1. PICK x \in Draws(best) :
          /\ Wanted(s, best, x) /\ Swapped(s, best, x) \notin s.seen
          /\ g = Suggestion(Swapped(s, best, x), "drawn", Remember(s, Swapped(s, best, x)))
    BY <1>7
  <2>2. Swapped(s, best, x) \in Proposals /\ Swapped(s, best, x).type \notin s.types
    BY <1>3, <2>1, DrawsAre DEF Wanted
  <2> QED
    BY <1>5, <2>1, <2>2
<1>8. CASE \E c \in Space : g = Suggestion(c, "fallback", s)
  <2>1. Same(s, s)
    BY DEF Same
  <2> QED
    BY <1>4, <1>8, <2>1, ProposalsAre
<1> QED
  BY <1>6, <1>7, <1>8 DEF SimulatedSuggests

\* Whatever a strategy proposes, its memory follows from the rows.
LEMMA StrategiesPropose ==
  ASSUME NEW m \in Strategies, NEW d, NEW own \in Seq(Rows), NEW s \in Memories,
         HistoryOK(m, d, own), MemoryOK(m, d, s, own, 0, 0), NEW g \in Suggests(m, d, s, own)
  PROVE  Proposed(m, d, own, g)
<1>1. CASE m = "random_search"
  BY <1>1, RandomProposes DEF Suggests
<1>2. CASE m = "optuna_tpe"
  BY <1>2, OptunaProposes DEF Suggests
<1>3. CASE m = "real_llm"
  BY <1>3, RealProposes DEF Suggests
<1>4. CASE m \in Simulated
  BY <1>4, Kinds, SimulatedProposes DEF Suggests
<1> QED
  BY <1>1, <1>2, <1>3, <1>4 DEF Strategies

-----------------------------------------------------------------------------
(* What a strategy is told *)

LEMMA SequenceOfNumbers ==
  ASSUME NEW n \in Nat, NEW f \in [1..n -> Int]
  PROVE  f \in Seq(Int) /\ Len(f) = n
OBVIOUS

LEMMA ToldIs ==
  ASSUME NEW s \in Memories, NEW d, NEW w \in Rows, NEW t, t = Tell(s, d, w)
  PROVE  /\ t \in Memories /\ Len(t.told) = Len(s.told)
         /\ \A j \in 1..Len(s.told) :
              t.told[j] = IF j = Len(s.told) /\ Value(d, w) # NoMetric THEN Value(d, w)
                          ELSE s.told[j]
<1> DEFINE v == Value(d, w)
           told == [k \in DOMAIN s.told |-> IF k = Len(s.told) /\ v # NoMetric THEN v ELSE s.told[k]]
<1>1. v \in Int
  BY RowTypes DEF Value
<1>2. s.told \in Seq(Int) /\ DOMAIN s.told = 1..Len(s.told) /\ Len(s.told) \in Nat
  BY MemoryTypes
<1>3. t = [s EXCEPT !.told = told]
  BY DEF Tell
<1> HIDE DEF v
<1>4. \A j \in 1..Len(s.told) : told[j] \in Int
  BY <1>1, <1>2
<1>5. told \in Seq(Int) /\ Len(told) = Len(s.told)
  <2>1. told = [k \in 1..Len(s.told) |-> told[k]]
    BY <1>2
  <2>2. told \in [1..Len(s.told) -> Int]
    <3> HIDE DEF told
    <3> QED
      BY <1>4, <2>1
  <2> QED
    BY <1>2, <2>2, SequenceOfNumbers
<1>6. \A j \in 1..Len(s.told) :
        told[j] = IF j = Len(s.told) /\ v # NoMetric THEN v ELSE s.told[j]
  BY <1>2
<1> HIDE DEF told
<1>7. t \in Memories /\ t.told = told
  BY <1>3, <1>5 DEF Memories
<1> QED
  BY <1>5, <1>6, <1>7 DEF v

\* Memory t is s, having learnt from row w.
Learns(m, s, w, t) ==
  /\ t \in Memories /\ s.types \subseteq t.types /\ t.seen = s.seen
  /\ t.exhausted = s.exhausted /\ t.told = s.told
  /\ m \in UsesFacts /\ (w.failed \/ w.rejected) /\ w.cand # Empty => w.cand.type \in t.types

LEMMA LearnedIs ==
  ASSUME NEW m, NEW s \in Memories, NEW w \in Rows, NEW t, t = LearnFailure(s, m, w)
  PROVE  Learns(m, s, w, t)
<1> USE DEF Learns
<1>1. w.cand # Empty => w.cand.type \in Types
  BY RowTypes, ProposalsAre
<1>2. w.cand # Empty => s.types \cup {w.cand.type} \subseteq Types
  BY <1>1, MemoryTypes
<1>3. CASE m \in UsesFacts /\ (w.failed \/ w.rejected) /\ w.cand # Empty
  <2>1. t = [s EXCEPT !.types = s.types \cup {w.cand.type}]
    BY <1>3 DEF LearnFailure
  <2> QED
    BY <1>2, <1>3, <2>1 DEF Memories
<1>4. CASE ~(m \in UsesFacts /\ (w.failed \/ w.rejected) /\ w.cand # Empty)
  BY <1>4 DEF LearnFailure
<1> QED
  BY <1>3, <1>4

LEMMA BilledIs ==
  ASSUME NEW s \in Memories, NEW t, t = Bill(s)
  PROVE  /\ t \in Memories /\ t.billed = s.billed + s.last /\ t.calls = s.calls /\ t.told = s.told
<1>1. s.billed + s.last \in Nat
  BY MemoryTypes
<1> QED
  BY <1>1 DEF Bill, Memories

LEMMA RowTold ==
  ASSUME NEW d \in {"nonlinear", "synthetic"}, NEW w \in Rows, RowOK(w)
  PROVE  Value(d, w) # NoMetric => ToldOf(d, Value(d, w), w)
BY RowTypes DEF Value, ToldOf, RowOK, NoMetric

LEMMA StrategiesObserve ==
  ASSUME NEW m \in Strategies, NEW d \in {"nonlinear", "synthetic"}, NEW own \in Seq(Rows),
         NEW s \in Memories, NEW w \in Rows, RowOK(w),
         MemoryOK(m, d, s, own, IF m = "optuna_tpe" THEN 1 ELSE 0, w.answered),
         Knows(m, s, w.cand, w.how), m = "real_llm" /\ w.answered > 0 => s.last = 1,
         NEW t \in Observes(m, d, s, w)
  PROVE  t \in Memories /\ MemoryOK(m, d, t, Append(own, w), 0, 0)
<1> DEFINE new == Append(own, w)
<1>1. /\ Len(new) = Len(own) + 1 /\ Len(own) \in Nat /\ new[Len(own) + 1] = w
      /\ \A j \in 1..Len(own) : new[j] = own[j]
  BY Appended
<1> HIDE DEF new
<1>2. CASE m = "random_search"
  <2>1. t = s /\ m \notin UsesFacts /\ m # "optuna_tpe" /\ m # "real_llm"
    BY <1>2 DEF Observes, UsesFacts
  <2>2. \A j \in 1..Len(new) : Knows(m, t, new[j].cand, new[j].how) /\ Learned(m, d, t, new[j])
    <3>1. \A j \in 1..Len(own) : Knows(m, t, new[j].cand, new[j].how)
      BY <1>1, <2>1 DEF MemoryOK
    <3>2. \A j \in 1..Len(new) : j \in 1..Len(own) \/ j = Len(own) + 1
      BY <1>1
    <3>3. Knows(m, t, new[Len(own) + 1].cand, new[Len(own) + 1].how)
      BY <1>1, <2>1
    <3> QED
      BY <2>1, <3>1, <3>2, <3>3 DEF Learned
  <2>3. StudyOK(m, d, t, new, 0) /\ BillOK(m, t, new, 0)
    BY <2>1, MemoryTypes DEF MemoryOK, StudyOK, BillOK
  <2> QED
    BY <2>1, <2>2, <2>3 DEF MemoryOK, new
<1>3. CASE m = "optuna_tpe"
  <2>1. m \notin UsesFacts /\ m \notin Simulated \cup {"random_search", "real_llm"}
    BY <1>3 DEF UsesFacts, Simulated
  <2>2. StudyOK(m, d, s, own, 1) /\ s.told \in Seq(Int)
    BY <1>3, MemoryTypes DEF MemoryOK
  <2>3. /\ Len(s.told) = Len(own) + 1 /\ s.told[Len(own) + 1] = Untold
        /\ \A j \in 1..Len(own) : ToldOf(d, s.told[j], own[j])
    <3>1. /\ Len(s.told) = Len(own) + 1
          /\ \A j \in 1..Len(s.told) : IF j <= Len(own) THEN ToldOf(d, s.told[j], own[j])
                                       ELSE s.told[j] = Untold
      BY <1>3, <2>2 DEF StudyOK
    <3>2. Len(own) + 1 \in 1..Len(s.told) /\ ~(Len(own) + 1 <= Len(own))
      BY <1>1, <3>1
    <3>3. s.told[Len(own) + 1] = Untold
      BY <3>1, <3>2
    <3>4. \A j \in 1..Len(own) : j \in 1..Len(s.told) /\ j <= Len(own)
      BY <1>1, <3>1
    <3> QED
      BY <3>1, <3>3, <3>4
  <2>4. /\ t \in Memories /\ Len(t.told) = Len(own) + 1
        /\ \A j \in 1..Len(own) : t.told[j] = s.told[j]
        /\ \/ t.told[Len(own) + 1] = Untold
           \/ Value(d, w) # NoMetric /\ t.told[Len(own) + 1] = Value(d, w)
    <3>1. CASE t = s
      BY <1>1, <2>3, <3>1
    <3>2. CASE t = Tell(s, d, w)
      <4>1. /\ t \in Memories /\ Len(t.told) = Len(s.told)
            /\ \A j \in 1..Len(s.told) :
                 t.told[j] = IF j = Len(s.told) /\ Value(d, w) # NoMetric THEN Value(d, w)
                             ELSE s.told[j]
        BY <3>2, ToldIs
      <4> QED
        BY <1>1, <2>3, <4>1
    <3> QED
      BY <1>3, <3>1, <3>2 DEF Observes
  <2>5. \A j \in 1..Len(new) : ToldOf(d, t.told[j], new[j])
    <3>1. \A j \in 1..Len(own) : ToldOf(d, t.told[j], new[j])
      BY <1>1, <2>3, <2>4
    <3>2. ToldOf(d, t.told[Len(own) + 1], w)
      BY <2>4, RowTold DEF ToldOf
    <3> QED
      BY <1>1, <3>1, <3>2
  <2>6. StudyOK(m, d, t, new, 0)
    BY <1>1, <1>3, <2>4, <2>5 DEF StudyOK
  <2> QED
    BY <2>1, <2>4, <2>6 DEF MemoryOK, Knows, Learned, BillOK, new
<1>4. CASE m = "real_llm"
  <2>1. m \notin UsesFacts /\ m \notin Simulated \cup {"random_search", "optuna_tpe"}
    BY <1>4 DEF UsesFacts, Simulated
  <2>2. t = Bill(s)
    BY <1>4 DEF Observes
  <2>3. t \in Memories /\ t.billed = s.billed + s.last /\ t.calls = s.calls /\ t.told = s.told
    BY <2>2, BilledIs
  <2>4. BillOK(m, s, own, w.answered)
    BY DEF MemoryOK
  <2>5. s.billed \in Nat /\ s.calls \in Nat /\ s.last \in {0, 1} /\ w.answered \in Nat
    BY MemoryTypes, RowTypes
  <2>6. BillOK(m, t, new, 0)
    <3>1. ASSUME t.billed < t.calls PROVE \E j \in 1..Len(new) : new[j].answered > 1
      <4>1. CASE w.answered > 1
        BY <1>1, <4>1
      <4>2. CASE w.answered <= 1
        <5>1. s.billed < s.calls - w.answered
          <6>1. CASE w.answered = 0
            BY <2>3, <2>5, <3>1, <6>1
          <6>2. CASE w.answered = 1
            <7>1. s.last = 1
              BY <1>4, <6>2
            <7> QED
              BY <2>3, <2>5, <3>1, <6>2, <7>1
          <6> QED
            BY <2>5, <4>2, <6>1, <6>2
        <5> QED
          BY <1>1, <1>4, <2>4, <5>1 DEF BillOK
      <4> QED
        BY <2>5, <4>1, <4>2
    <3>2. ASSUME t.billed > t.calls PROVE \E j \in 1..Len(new) : new[j].answered = 0
      <4>1. CASE w.answered = 0
        BY <1>1, <4>1
      <4>2. CASE w.answered > 0
        <5>1. s.billed > s.calls - w.answered
          BY <1>4, <2>3, <2>5, <3>2, <4>2
        <5> QED
          BY <1>1, <1>4, <2>4, <5>1 DEF BillOK
      <4> QED
        BY <2>5, <4>1, <4>2
    <3>3. t.calls - 0 = t.calls
      BY <2>3, <2>5
    <3> QED
      BY <3>1, <3>2, <3>3 DEF BillOK
  <2>7. StudyOK(m, d, t, new, 0)
    BY <1>4, <2>3 DEF MemoryOK, StudyOK
  <2> QED
    BY <2>1, <2>3, <2>6, <2>7 DEF MemoryOK, Knows, Learned, new
<1>5. CASE m \in Simulated
  <2>1. m \notin {"random_search", "optuna_tpe", "real_llm"}
    BY <1>5, Kinds
  <2>2. t = IF d = "nonlinear" THEN LearnFailure(s, m, w) ELSE s
    BY <2>1 DEF Observes
  <2>3. /\ t \in Memories /\ s.types \subseteq t.types /\ t.seen = s.seen
        /\ t.exhausted = s.exhausted /\ t.told = s.told /\ Learned(m, d, t, w)
    <3>1. CASE d = "nonlinear"
      <4>1. t = LearnFailure(s, m, w)
        BY <2>2, <3>1
      <4>2. Learns(m, s, w, t)
        BY <4>1, LearnedIs
      <4> QED
        BY <4>2 DEF Learned, Learns
    <3>2. CASE d # "nonlinear"
      BY <2>2, <3>2 DEF Learned
    <3> QED
      BY <3>1, <3>2
  <2>4. \A j \in 1..Len(own) : Knows(m, t, own[j].cand, own[j].how) /\ Learned(m, d, t, own[j])
    BY <2>3 DEF MemoryOK, Knows, Learned
  <2>5. Knows(m, t, w.cand, w.how)
    BY <2>3 DEF Knows
  <2>6. \A j \in 1..Len(new) : Knows(m, t, new[j].cand, new[j].how) /\ Learned(m, d, t, new[j])
    BY <1>1, <2>3, <2>4, <2>5
  <2>7. StudyOK(m, d, t, new, 0) /\ BillOK(m, t, new, 0)
    BY <2>1, <2>3, MemoryTypes DEF MemoryOK, StudyOK, BillOK
  <2> QED
    BY <2>3, <2>6, <2>7 DEF MemoryOK, new
<1> QED
  BY <1>2, <1>3, <1>4, <1>5 DEF Strategies

-----------------------------------------------------------------------------
(* One more row of a comparison *)

\* A comparison with a proposal for the next row.
Proposing(b, ms, d, me) ==
  /\ me.task \in 1..Len(ms) /\ Len(me.rows) = Len(ms)
  /\ \A k \in 1..Len(ms) : HistoryOK(ms[k], d, me.rows[k])
  /\ \A k \in 1..Len(ms) : k < me.task => Fair(b, me.rows[k])
  /\ \A k \in 1..Len(ms) : k > me.task => me.rows[k] = <<>>
  /\ Len(me.rows[me.task]) = me.attempts
  /\ Cardinality(Trials(me.rows[me.task])) = me.effective
  /\ me.effective < b /\ me.effective <= me.attempts /\ me.attempts < AttemptFactor * b
  /\ Proposed(ms[me.task], d, me.rows[me.task], me)

\* The comparison me with row w added.
AddRow(me, s, executed, w) ==
  [me EXCEPT !.pc = "suggest", !.strat = s, !.rows[me.task] = Append(@, w),
             !.effective = Counted(@, executed), !.attempts = Attempted(@, executed),
             !.metric = NoMetric, !.trained = Empty, !.shared = FALSE]

LEMMA Products ==
  ASSUME NEW b \in Nat
  PROVE  AttemptFactor * b \in Nat
BY CompareAssumption

LEMMA ProposingIs ==
  ASSUME NEW b \in Nat, NEW ms \in Seq(Strategies), NEW d, NEW me \in Comparisons,
         RunOK(b, ms, d, me), me.pc \in Flight
  PROVE  Proposing(b, ms, d, me)
<1>1. me.pc \notin Rest
  BY DEF Flight, Rest
<1>2. Proposed(ms[me.task], d, me.rows[me.task], me)
  BY <1>1, ComparisonTypes DEF RunOK, UnderWay, Proposed
<1> QED
  BY <1>2 DEF RunOK, CountsOK, Proposing

LEMMA RowsAt ==
  ASSUME NEW rows \in Seq(Seq(Rows)), NEW k \in 1..Len(rows)
  PROVE  rows[k] \in Seq(Rows)
OBVIOUS

LEMMA RowsGrow ==
  ASSUME NEW rows \in Seq(Seq(Rows)), NEW k \in 1..Len(rows), NEW w \in Rows,
         NEW new, new = [rows EXCEPT ![k] = Append(@, w)]
  PROVE  /\ new \in Seq(Seq(Rows)) /\ Len(new) = Len(rows) /\ new[k] = Append(rows[k], w)
         /\ \A i \in 1..Len(rows) : i # k => new[i] = rows[i]
<1>1. rows[k] \in Seq(Rows)
  OBVIOUS
<1>2. Append(rows[k], w) \in Seq(Rows)
  BY <1>1, Appended
<1> QED
  BY <1>2

RowAdded(me, s, executed, w, new) ==
  /\ new \in Comparisons /\ new.pc = "suggest" /\ new.strat = s /\ new.task = me.task
  /\ new.effective = IF executed THEN me.effective + 1 ELSE me.effective
  /\ new.attempts = me.attempts + 1 /\ new.metric = NoMetric
  /\ Len(new.rows) = Len(me.rows) /\ new.rows[me.task] = Append(me.rows[me.task], w)
  /\ \A k \in 1..Len(me.rows) : k # me.task => new.rows[k] = me.rows[k]

LEMMA AddRowIs ==
  ASSUME NEW me \in Comparisons, NEW s \in Memories, NEW executed \in BOOLEAN, NEW w \in Rows,
         me.task \in 1..Len(me.rows), NEW new, new = AddRow(me, s, executed, w)
  PROVE  RowAdded(me, s, executed, w, new)
<1> DEFINE rows == [me.rows EXCEPT ![me.task] = Append(@, w)]
           e == IF executed THEN me.effective + 1 ELSE me.effective
           a == me.attempts + 1
<1>1. new = [me EXCEPT !.pc = "suggest", !.strat = s, !.rows = rows, !.effective = e,
                       !.attempts = a, !.metric = NoMetric, !.trained = Empty, !.shared = FALSE]
  BY DEF AddRow, Counted, Attempted
<1>2. /\ rows \in Seq(Seq(Rows)) /\ Len(rows) = Len(me.rows)
      /\ rows[me.task] = Append(me.rows[me.task], w)
      /\ \A k \in 1..Len(me.rows) : k # me.task => rows[k] = me.rows[k]
  BY ComparisonTypes, RowsGrow, SMTT(60)
<1>3. e \in Nat /\ a \in Nat
  BY ComparisonTypes
<1>4. "suggest" \in Flight \cup Rest /\ NoMetric \in Int /\ Empty \in Candidates
  BY ProposalsAre DEF Rest, NoMetric
<1> HIDE DEF rows, e, a
<1>5. new \in Comparisons
  <2>1. PICK u : u = [me EXCEPT !.pc = "suggest", !.strat = s, !.rows = rows, !.effective = e]
    OBVIOUS
  <2>2. u \in Comparisons
    BY <1>2, <1>3, <1>4, <2>1 DEF Comparisons
  <2>3. new = [u EXCEPT !.attempts = a, !.metric = NoMetric, !.trained = Empty, !.shared = FALSE]
    BY <1>1, <2>1 DEF Comparisons
  <2> QED
    BY <1>3, <1>4, <2>2, <2>3 DEF Comparisons
<1>6. /\ new.pc = "suggest" /\ new.strat = s /\ new.task = me.task
      /\ new.effective = e /\ new.attempts = a /\ new.metric = NoMetric /\ new.rows = rows
  BY <1>1, SMTT(60) DEF Comparisons
<1> QED
  BY <1>2, <1>5, <1>6 DEF e, a, RowAdded

\* With one more row that is its proposal's, a comparison stays as it should be.
LEMMA AddRowKeeps ==
  ASSUME NEW b \in Nat, NEW ms \in Seq(Strategies), NEW d \in {"nonlinear", "synthetic"},
         NEW me \in Comparisons, Proposing(b, ms, d, me),
         NEW executed \in BOOLEAN, NEW w \in Rows,
         w.cand = me.cand, w.how = me.how, w.answered = me.answered, RowOK(w),
         Trial(w) <=> executed, executed => w.id = me.attempts,
         NEW s \in Observes(ms[me.task], d, me.strat, w), NEW new, new = AddRow(me, s, executed, w)
  PROVE  new \in Comparisons /\ RunOK(b, ms, d, new) /\ new.pc = "suggest" /\ new.metric = NoMetric
<1> DEFINE k == me.task
           own == me.rows[k]
           m == ms[k]
<1>0. /\ me.rows \in Seq(Seq(Rows)) /\ me.strat \in Memories
      /\ me.attempts \in Nat /\ me.effective \in Nat /\ AttemptFactor * b \in Nat
  BY ComparisonTypes, Products
<1>1. /\ k \in 1..Len(ms) /\ Len(me.rows) = Len(ms)
      /\ own \in Seq(Rows) /\ m \in Strategies /\ me.strat \in Memories
      /\ me.attempts \in Nat /\ me.effective \in Nat /\ AttemptFactor * b \in Nat
  <2>1. k \in 1..Len(ms) /\ Len(me.rows) = Len(ms)
    BY DEF Proposing
  <2>2. own \in Seq(Rows)
    BY <1>0, <2>1, RowsAt
  <2>3. m \in Strategies
    <3> HIDE DEF k
    <3> QED
      BY <2>1
  <2> QED
    BY <1>0, <2>1, <2>2, <2>3
<1>2. /\ Proposed(m, d, own, me) /\ HistoryOK(m, d, own) /\ Len(own) = me.attempts
      /\ Cardinality(Trials(own)) = me.effective
  BY <1>1 DEF Proposing
<1>3. s \in Memories /\ MemoryOK(m, d, s, Append(own, w), 0, 0)
  <2>1. /\ MemoryOK(m, d, me.strat, own, IF m = "optuna_tpe" THEN 1 ELSE 0, w.answered)
        /\ Knows(m, me.strat, w.cand, w.how) /\ (m = "real_llm" /\ w.answered > 0 => me.strat.last = 1)
    BY <1>2 DEF Proposed
  <2> HIDE DEF own, m, k
  <2> QED
    BY <1>1, <2>1, StrategiesObserve DEF k, m
<1>4. /\ new \in Comparisons /\ new.pc = "suggest" /\ new.strat = s /\ new.task = k
      /\ new.effective = IF executed THEN me.effective + 1 ELSE me.effective
      /\ new.attempts = me.attempts + 1 /\ new.metric = NoMetric
      /\ Len(new.rows) = Len(me.rows) /\ new.rows[k] = Append(own, w)
      /\ \A i \in 1..Len(me.rows) : i # k => new.rows[i] = me.rows[i]
  <2>1. RowAdded(me, s, executed, w, new)
    BY <1>1, <1>3, AddRowIs
  <2> QED
    BY <2>1 DEF RowAdded
<1>5. HistoryOK(m, d, Append(own, w))
  <2>1. MayFollow(m, d, own, Len(own), w.cand, w.how)
    BY <1>2 DEF Proposed
  <2> HIDE DEF own, m, k
  <2> QED
    BY <1>1, <1>2, <2>1, HistoryGrows
<1>6. \A i \in 1..Len(ms) : HistoryOK(ms[i], d, new.rows[i])
  BY <1>1, <1>4, <1>5 DEF Proposing
<1>7. \A i \in 1..Len(ms) : (i < k => Fair(b, new.rows[i])) /\ (i > k => new.rows[i] = <<>>)
  BY <1>1, <1>4 DEF Proposing
<1>8. CountsOK(b, new, new.rows[k])
  <2>1. Len(Append(own, w)) = Len(own) + 1
    BY <1>1, Appended
  <2>2. Cardinality(Trials(Append(own, w))) = IF executed THEN me.effective + 1 ELSE me.effective
    BY <1>1, <1>2, TrialsGrow
  <2>3. me.effective < b /\ me.effective <= me.attempts /\ me.attempts < AttemptFactor * b
    BY DEF Proposing
  <2>4. new.pc \notin Flight
    BY <1>4 DEF Flight
  <2> HIDE DEF own, m, k
  <2> QED
    BY <1>1, <1>2, <1>4, <2>1, <2>2, <2>3, <2>4 DEF CountsOK
<1>9. new.pc \in Rest /\ new.pc # "done"
  BY <1>4 DEF Rest
<1>10. UnderWay(m, d, new, new.rows[k])
  BY <1>3, <1>4, <1>9 DEF UnderWay
<1> HIDE DEF own, m
<1>11. RunOK(b, ms, d, new)
  BY <1>1, <1>4, <1>6, <1>7, <1>8, <1>9, <1>10 DEF RunOK, m
<1> QED
  BY <1>4, <1>11

LEMMA FlightIs ==
  ASSUME NEW b \in Nat, NEW ms \in Seq(Strategies), NEW d, NEW me \in Comparisons,
         Proposing(b, ms, d, me), me.pc \in Flight
  PROVE  RunOK(b, ms, d, me)
<1>1. me.pc \notin Rest /\ me.pc # "done"
  BY DEF Flight, Rest
<1>2. me.attempts \in Nat /\ me.effective \in Nat /\ AttemptFactor * b \in Nat
  BY ComparisonTypes, Products
<1>3. UnderWay(ms[me.task], d, me, me.rows[me.task])
  BY <1>1 DEF Proposing, Proposed, UnderWay
<1>4. CountsOK(b, me, me.rows[me.task])
  BY <1>2 DEF Proposing, CountsOK
<1> QED
  BY <1>1, <1>3, <1>4 DEF Proposing, RunOK

\* b is the comparison a at another step of the same trial.
SameTrial(a, b) ==
  /\ b.task = a.task /\ b.strat = a.strat /\ b.rows = a.rows
  /\ b.effective = a.effective /\ b.attempts = a.attempts
  /\ b.cand = a.cand /\ b.how = a.how /\ b.answered = a.answered

LEMMA SameProposing ==
  ASSUME NEW n \in Nat, NEW ms \in Seq(Strategies), NEW d, NEW a \in Comparisons,
         NEW b \in Comparisons, Proposing(n, ms, d, a), SameTrial(a, b)
  PROVE  Proposing(n, ms, d, b)
<1>1. Proposed(ms[b.task], d, b.rows[b.task], b)
  BY DEF SameTrial, Proposing, Proposed
<1> QED
  BY <1>1 DEF SameTrial, Proposing

LEMMA SameRun ==
  ASSUME NEW n \in Nat, NEW ms \in Seq(Strategies), NEW d, NEW a \in Comparisons,
         NEW b \in Comparisons, RunOK(n, ms, d, a), SameTrial(a, b),
         b.pc = a.pc \/ (a.pc \in Flight /\ b.pc \in Flight)
  PROVE  RunOK(n, ms, d, b)
<1>1. CASE b.pc = a.pc
  <2>1. UnderWay(ms[b.task], d, b, b.rows[b.task])
    BY <1>1 DEF SameTrial, RunOK, UnderWay
  <2>2. CountsOK(n, b, b.rows[b.task])
    BY <1>1 DEF SameTrial, RunOK, CountsOK
  <2> QED
    BY <1>1, <2>1, <2>2 DEF SameTrial, RunOK
<1>2. CASE a.pc \in Flight /\ b.pc \in Flight
  BY <1>2, ProposingIs, SameProposing, FlightIs
<1> QED
  BY <1>1, <1>2

\* b is the comparison a, its trial perhaps marked as having shared its place.
Flagged(a, b) ==
  /\ b \in Comparisons /\ SameTrial(a, b) /\ b.pc = a.pc
  /\ b.trained = a.trained /\ b.metric = a.metric /\ (a.shared => b.shared)

LEMMA FlaggedIs ==
  ASSUME NEW a \in Comparisons, NEW b, b = [a EXCEPT !.shared = TRUE]
  PROVE  Flagged(a, b) /\ b.shared
BY DEF Comparisons, Flagged, SameTrial

LEMMA FlaggedSelf ==
  ASSUME NEW a \in Comparisons
  PROVE  Flagged(a, a)
BY DEF Flagged, SameTrial

LEMMA TrialKept ==
  ASSUME NEW d, NEW a \in Comparisons, NEW b, Flagged(a, b), NEW c, NEW m, TrialOK(d, a, c, m),
         NEW c2, NEW m2,
         a.pc \in {"train", "training", "verify"} => c2 = c \/ (c2 \in Accepted /\ b.shared),
         a.pc \in {"verify", "evaluate"} =>
           m2 = m \/ (m2 \in Accepted /\ Score[m2] # NoMetric /\ b.shared)
  PROVE  TrialOK(d, b, c2, m2)
BY DEF Flagged, SameTrial, TrialOK

LEMMA PlaceKept ==
  ASSUME NEW q \in Runs, protocol' = protocol, domain' = domain,
         run'[q].task = run[q].task, run'[q].effective = run[q].effective
  PROVE  Place(q)' = Place(q)
BY DEF Place, Method, Methods

-----------------------------------------------------------------------------
(* The first rows *)

LEMMA NoRows ==
  ASSUME NEW m, NEW d
  PROVE  /\ <<>> \in Seq(Rows) /\ Len(<<>>) = 0 /\ HistoryOK(m, d, <<>>)
         /\ Trials(<<>>) = {} /\ Cardinality(Trials(<<>>)) = 0
         /\ MemoryOK(m, d, NewStrategy, <<>>, 0, 0)
<1>1. Trials(<<>>) = {}
  BY DEF Trials
<1>2. StudyOK(m, d, NewStrategy, <<>>, 0)
  BY NewMemory DEF StudyOK
<1>3. BillOK(m, NewStrategy, <<>>, 0)
  BY NewMemory DEF BillOK
<1> QED
  BY <1>1, <1>2, <1>3, FS_EmptySet DEF HistoryOK, MemoryOK

LEMMA BeginsOK ==
  ASSUME NEW b \in Nat \ {0}, NEW ms \in Seq(Strategies), NEW d, NEW me \in Comparisons,
         me.pc \in {"suggest", "left"}, me.task \in 1..Len(ms), Len(me.rows) = Len(ms),
         me.strat = NewStrategy, me.effective = 0, me.attempts = 0,
         \A k \in 1..Len(ms) : HistoryOK(ms[k], d, me.rows[k]),
         \A k \in 1..Len(ms) : k < me.task => Fair(b, me.rows[k]),
         \A k \in 1..Len(ms) : k >= me.task => me.rows[k] = <<>>
  PROVE  RunOK(b, ms, d, me)
<1>1. me.pc \notin Flight /\ me.pc \in Rest /\ me.pc # "done"
  BY DEF Flight, Rest
<1>2. me.rows[me.task] = <<>>
  OBVIOUS
<1>3. AttemptFactor * b \in Nat
  BY Products
<1>4. CountsOK(b, me, me.rows[me.task])
  BY <1>1, <1>2, <1>3, NoRows DEF CountsOK
<1>5. UnderWay(ms[me.task], d, me, me.rows[me.task])
  BY <1>1, <1>2, NoRows DEF UnderWay
<1> QED
  BY <1>1, <1>4, <1>5 DEF RunOK

LEMMA FreshIs ==
  ASSUME NEW r \in Runs, Methods(r) \in Seq(Strategies), NEW me, me = Fresh(r)
  PROVE  /\ me \in Comparisons /\ me.pc = "suggest" /\ me.task = 1 /\ me.strat = NewStrategy
         /\ me.effective = 0 /\ me.attempts = 0 /\ me.metric = NoMetric
         /\ Len(me.rows) = Len(Methods(r)) /\ \A k \in 1..Len(Methods(r)) : me.rows[k] = <<>>
<1> DEFINE ms == Methods(r)
           rows == [k \in DOMAIN ms |-> <<>>]
<1>1. DOMAIN ms = 1..Len(ms) /\ Len(ms) \in Nat
  OBVIOUS
<1> HIDE DEF ms
<1>2. rows \in Seq(Seq(Rows)) /\ Len(rows) = Len(ms) /\ \A k \in 1..Len(ms) : rows[k] = <<>>
  <2>1. <<>> \in Seq(Rows)
    BY NoRows
  <2> QED
    BY <1>1, <2>1
<1> HIDE DEF rows
<1>3. /\ "suggest" \in Flight \cup Rest /\ NoMetric \in Int /\ Empty \in Candidates
      /\ NewStrategy \in Memories /\ "none" \in Hows
  BY ProposalsAre, NewMemory DEF Rest, NoMetric, Hows
<1>4. me = [pc |-> "suggest", task |-> 1, strat |-> NewStrategy, rows |-> rows, effective |-> 0,
            attempts |-> 0, cand |-> Empty, how |-> "none", answered |-> 0, trained |-> Empty,
            metric |-> NoMetric, shared |-> FALSE]
  BY DEF Fresh, rows, ms
<1>5. me \in Comparisons
  BY <1>2, <1>3, <1>4 DEF Comparisons
<1> QED
  BY <1>2, <1>4, <1>5 DEF ms

LEMMA GoneIs ==
  ASSUME NEW r \in Runs, Methods(r) \in Seq(Strategies), NEW me, me = Gone(r)
  PROVE  /\ me \in Comparisons /\ me.pc = "left" /\ me.task = 1 /\ me.strat = NewStrategy
         /\ me.effective = 0 /\ me.attempts = 0 /\ me.metric = NoMetric
         /\ Len(me.rows) = Len(Methods(r)) /\ \A k \in 1..Len(Methods(r)) : me.rows[k] = <<>>
<1>1. PICK f : f = Fresh(r)
  OBVIOUS
<1>2. /\ f \in Comparisons /\ f.pc = "suggest" /\ f.task = 1 /\ f.strat = NewStrategy
      /\ f.effective = 0 /\ f.attempts = 0 /\ f.metric = NoMetric
      /\ Len(f.rows) = Len(Methods(r)) /\ \A k \in 1..Len(Methods(r)) : f.rows[k] = <<>>
  BY <1>1, FreshIs
<1>3. me = [f EXCEPT !.pc = "left"]
  BY <1>1 DEF Gone
<1>4. "left" \in Flight \cup Rest
  BY DEF Rest
<1>5. me \in Comparisons /\ me.pc = "left" /\ me.task = f.task /\ me.strat = f.strat
      /\ me.effective = f.effective /\ me.attempts = f.attempts /\ me.metric = f.metric
      /\ me.rows = f.rows
  BY <1>2, <1>3, <1>4 DEF Comparisons
<1> QED
  BY <1>2, <1>5

LEMMA Protocol ==
  ASSUME protocol \in Protocols, NEW r \in Runs
  PROVE  Methods(r) \in Seq(Strategies) /\ Methods(r) # <<>> /\ Budget(r) \in Nat \ {0}
BY CompareAssumption DEF Methods, Budget

\* A comparison that starts, or is abandoned, is as it should be.
LEMMA BeginsAreOK ==
  ASSUME protocol \in Protocols, NEW r \in Runs, NEW d, NEW me, me = Fresh(r) \/ me = Gone(r)
  PROVE  me \in Comparisons /\ RunOK(Budget(r), Methods(r), d, me) /\ me.pc \in {"suggest", "left"}
         /\ me.metric = NoMetric
<1>1. Methods(r) \in Seq(Strategies) /\ Methods(r) # <<>> /\ Budget(r) \in Nat \ {0}
  BY Protocol
<1>2. /\ me \in Comparisons /\ me.pc \in {"suggest", "left"} /\ me.task = 1
      /\ me.strat = NewStrategy /\ me.effective = 0 /\ me.attempts = 0 /\ me.metric = NoMetric
      /\ Len(me.rows) = Len(Methods(r)) /\ \A k \in 1..Len(Methods(r)) : me.rows[k] = <<>>
  BY <1>1, FreshIs, GoneIs
<1>3. 1 \in 1..Len(Methods(r))
  BY <1>1
<1>4. RunOK(Budget(r), Methods(r), d, me)
  BY <1>1, <1>2, <1>3, BeginsOK, NoRows
<1> QED
  BY <1>2, <1>4

LEMMA RestingTrial ==
  ASSUME NEW d, NEW me, me.pc \in Rest, me.metric = NoMetric, NEW c, NEW m
  PROVE  TrialOK(d, me, c, m)
BY DEF TrialOK, Flight, Rest

LEMMA CompareStarts ==
  ASSUME Init
  PROVE  CompareInv
<1>1. protocol \in Protocols /\ domain \in {"nonlinear", "synthetic"}
  BY DEF Init
<1>2. configs \in [Places -> Candidates] /\ models \in [Places -> Candidates]
  <2>1. Empty \in Candidates
    BY ProposalsAre
  <2> HIDE DEF Places, Candidates, Empty
  <2> QED
    BY <2>1 DEF Init
<1>3. ASSUME NEW r \in Runs
      PROVE  /\ run[r] \in Comparisons /\ RunOK(Budget(r), Methods(r), domain, run[r])
             /\ run[r].pc = "suggest" /\ run[r].metric = NoMetric
  <2>1. run[r] = Fresh(r)
    BY DEF Init
  <2>2. Methods(r) \in Seq(Strategies)
    BY <1>1, Protocol
  <2> QED
    BY <1>1, <2>1, <2>2, BeginsAreOK, FreshIs
<1>4. run \in [Runs -> Comparisons]
  <2>1. run = [r \in Runs |-> run[r]]
    BY DEF Init
  <2> QED
    BY <1>3, <2>1
<1>5. \A r \in Runs : TrialOK(domain, run[r], configs[Place(r)], models[Place(r)])
  BY <1>3, RestingTrial DEF Rest
<1>6. Overlap
  BY <1>3 DEF Overlap, Working
<1> QED
  BY <1>1, <1>2, <1>3, <1>4, <1>5, <1>6 DEF CompareInv

-----------------------------------------------------------------------------
(* Steps *)

LEMMA PlaceIn ==
  ASSUME CompareInv, NEW r \in Runs, run[r].pc \in Flight
  PROVE  Place(r) \in Places
<1>1. CASE domain = "synthetic"
  BY <1>1 DEF Place, Places
<1>2. CASE domain # "synthetic"
  <2>1. RunOK(Budget(r), Methods(r), domain, run[r]) /\ run[r] \in Comparisons
    BY DEF CompareInv
  <2>2. Methods(r) \in Seq(Strategies) /\ Budget(r) \in Nat \ {0}
    BY Protocol DEF CompareInv
  <2>3. run[r].task \in 1..Len(Methods(r)) /\ run[r].effective < Budget(r)
    BY <2>1 DEF RunOK, CountsOK
  <2>4. run[r].effective \in Nat
    BY <2>1, ComparisonTypes
  <2>5. run[r].task \in DOMAIN Methods(r) /\ run[r].effective \in 0..Budget(r) - 1
    BY <2>2, <2>3, <2>4
  <2>6. Place(r) = <<"cmp", Methods(r)[run[r].task], run[r].effective>>
    BY <1>2 DEF Place, Method
  <2> QED
    BY <2>5, <2>6 DEF Places
<1> QED
  BY <1>1, <1>2

\* What a step of comparison r leaves of the others: they may be marked, and
\* what it writes into their place is a trial's that overlaps with theirs.
Undisturbed(r) ==
  \A q \in Runs \ {r} :
    /\ Flagged(run[q], run'[q])
    /\ run[q].pc \in {"train", "training", "verify"} =>
         \/ configs'[Place(q)] = configs[Place(q)]
         \/ configs'[Place(q)] \in Accepted /\ run'[q].shared
    /\ run[q].pc \in {"verify", "evaluate"} =>
         \/ models'[Place(q)] = models[Place(q)]
         \/ models'[Place(q)] \in Accepted /\ Score[models'[Place(q)]] # NoMetric /\ run'[q].shared
    /\ run'[r].pc \in Working /\ run[q].pc \in Working /\ Place(q) = Place(r)' =>
         run'[q].shared /\ run'[r].shared

LEMMA StepKeeps ==
  ASSUME CompareInv, NEW r \in Runs, protocol' = protocol, domain' = domain,
         configs' \in [Places -> Candidates], models' \in [Places -> Candidates],
         run' \in [Runs -> Comparisons], RunOK(Budget(r), Methods(r), domain, run'[r]),
         TrialOK(domain, run'[r], configs'[Place(r)'], models'[Place(r)']), Undisturbed(r)
  PROVE  CompareInv'
<1>1. \A q \in Runs : Methods(q)' = Methods(q) /\ Budget(q)' = Budget(q)
  BY DEF Methods, Budget
<1>2. Places' = Places
  BY <1>1 DEF Places
<1>3. \A q \in Runs : run[q] \in Comparisons /\ run'[q] \in Comparisons
  BY DEF CompareInv
<1>4. ASSUME NEW q \in Runs \ {r}
      PROVE  Flagged(run[q], run'[q]) /\ Place(q)' = Place(q)
  <2>1. Flagged(run[q], run'[q])
    BY <1>4 DEF Undisturbed
  <2>2. run'[q].task = run[q].task /\ run'[q].effective = run[q].effective
    BY <2>1 DEF Flagged, SameTrial
  <2> QED
    BY <2>1, <2>2, PlaceKept
<1>5. ASSUME NEW q \in Runs
      PROVE  RunOK(Budget(q), Methods(q), domain, run'[q])
  <2>1. CASE q = r
    BY <2>1
  <2>2. CASE q # r
    <3>1. SameTrial(run[q], run'[q]) /\ run'[q].pc = run[q].pc
      BY <1>4, <2>2 DEF Flagged
    <3>2. RunOK(Budget(q), Methods(q), domain, run[q])
      BY DEF CompareInv
    <3>3. Methods(q) \in Seq(Strategies) /\ Budget(q) \in Nat
      BY Protocol DEF CompareInv
    <3> QED
      BY <1>3, <3>1, <3>2, <3>3, SameRun
  <2> QED
    BY <2>1, <2>2
<1>6. ASSUME NEW q \in Runs
      PROVE  TrialOK(domain, run'[q], configs'[Place(q)'], models'[Place(q)'])
  <2>1. CASE q = r
    BY <2>1
  <2>2. CASE q # r
    <3>1. TrialOK(domain, run[q], configs[Place(q)], models[Place(q)])
      BY DEF CompareInv
    <3>2. /\ run[q].pc \in {"train", "training", "verify"} =>
               \/ configs'[Place(q)] = configs[Place(q)]
               \/ configs'[Place(q)] \in Accepted /\ run'[q].shared
          /\ run[q].pc \in {"verify", "evaluate"} =>
               \/ models'[Place(q)] = models[Place(q)]
               \/ models'[Place(q)] \in Accepted /\ Score[models'[Place(q)]] # NoMetric /\ run'[q].shared
      BY <2>2 DEF Undisturbed
    <3>3. TrialOK(domain, run'[q], configs'[Place(q)], models'[Place(q)])
      BY <1>3, <1>4, <2>2, <3>1, <3>2, TrialKept
    <3> QED
      BY <1>4, <2>2, <3>3
  <2> QED
    BY <2>1, <2>2
<1>7. ASSUME NEW p \in Runs, NEW q \in Runs, p # q, run'[p].pc \in Working,
             run'[q].pc \in Working, Place(p)' = Place(q)'
      PROVE  run'[q].shared
  <2>1. CASE p = r
    <3>1. run[q].pc \in Working /\ Place(q) = Place(r)'
      BY <1>4, <1>7, <2>1 DEF Flagged
    <3> QED
      BY <1>7, <2>1, <3>1 DEF Undisturbed
  <2>2. CASE q = r
    <3>1. run[p].pc \in Working /\ Place(p) = Place(r)'
      BY <1>4, <1>7, <2>2 DEF Flagged
    <3> QED
      BY <1>7, <2>2, <3>1 DEF Undisturbed
  <2>3. CASE p # r /\ q # r
    <3>1. run[p].pc \in Working /\ run[q].pc \in Working /\ Place(p) = Place(q)
      BY <1>4, <1>7, <2>3 DEF Flagged
    <3>2. run[q].shared
      BY <1>7, <3>1 DEF CompareInv, Overlap
    <3> QED
      BY <1>4, <2>3, <3>2 DEF Flagged
  <2> QED
    BY <2>1, <2>2, <2>3
<1>8. Overlap'
  BY <1>7 DEF Overlap
<1>9. protocol' \in Protocols /\ domain' \in {"nonlinear", "synthetic"}
  BY DEF CompareInv
<1>10. \A q \in Runs : RunOK(Budget(q)', Methods(q)', domain', run'[q])
  BY <1>1, <1>5
<1> QED
  BY <1>2, <1>6, <1>8, <1>9, <1>10 DEF CompareInv

\* A step that changes only comparison r, and no file.
LEMMA OnlyRun ==
  ASSUME CompareInv, NEW r \in Runs, NEW new \in Comparisons, run' = [run EXCEPT ![r] = new],
         UNCHANGED <<protocol, domain, configs, models>>,
         RunOK(Budget(r), Methods(r), domain, new),
         TrialOK(domain, new, configs[Place(r)'], models[Place(r)']),
         \/ new.pc \notin Working
         \/ /\ run[r].pc \in Working /\ (run[r].shared => new.shared)
            /\ new.task = run[r].task /\ new.effective = run[r].effective
  PROVE  CompareInv'
<1>1. run \in [Runs -> Comparisons] /\ configs \in [Places -> Candidates] /\ models \in [Places -> Candidates]
  BY DEF CompareInv
<1>2. run' \in [Runs -> Comparisons] /\ run'[r] = new /\ \A q \in Runs \ {r} : run'[q] = run[q]
  BY <1>1
<1>3. ASSUME NEW q \in Runs \ {r}, new.pc \in Working, run[q].pc \in Working, Place(q) = Place(r)'
      PROVE  run'[q].shared /\ new.shared
  <2>1. /\ run[r].pc \in Working /\ (run[r].shared => new.shared)
        /\ new.task = run[r].task /\ new.effective = run[r].effective
    BY <1>3
  <2>2. Place(r)' = Place(r)
    BY <1>2, <2>1, PlaceKept
  <2>3. run[q].shared /\ run[r].shared
    BY <1>3, <2>1, <2>2 DEF CompareInv, Overlap
  <2> QED
    BY <1>2, <2>1, <2>3
<1>4. \A q \in Runs \ {r} : Flagged(run[q], run'[q])
  BY <1>1, <1>2, FlaggedSelf
<1>5. Undisturbed(r)
  BY <1>2, <1>3, <1>4 DEF Undisturbed
<1> QED
  BY <1>1, <1>2, <1>5, StepKeeps

\* The row of a proposal or a trial, before what became of it is filled in.
IsNewRow(r, me, executed, w) ==
  /\ w \in Rows /\ w.cand = me.cand /\ w.how = me.how /\ w.answered = me.answered
  /\ w.rejected = FALSE /\ w.failed = FALSE /\ w.metric = NoMetric
  /\ w.hash = me.cand /\ w.shared = me.shared
  /\ (executed => w.id = run[r].attempts)

LEMMA NewRowIs ==
  ASSUME NEW r \in Runs, run[r] \in Comparisons, NEW me \in Comparisons, NEW executed \in BOOLEAN,
         NEW w, w = NewRow(r, me, executed)
  PROVE  IsNewRow(r, me, executed, w)
<1> DEFINE id == RowId(r, executed)
<1>1. id \in Nat /\ (executed => id = run[r].attempts)
  BY ComparisonTypes DEF RowId
<1>2. me.cand \in Candidates /\ me.how \in Hows /\ me.shared \in BOOLEAN /\ me.answered \in Nat
  BY ComparisonTypes
<1>3. w = [id |-> id, cand |-> me.cand, how |-> me.how, rejected |-> FALSE, failed |-> FALSE,
           metric |-> NoMetric, hit |-> FALSE, hash |-> me.cand, shared |-> me.shared,
           answered |-> me.answered]
  BY DEF NewRow
<1>4. NoMetric \in Int
  BY DEF NoMetric
<1> HIDE DEF id
<1>5. w \in Rows
  BY <1>1, <1>2, <1>3, <1>4 DEF Rows
<1> QED
  BY <1>1, <1>3, <1>5 DEF IsNewRow

\* A step that adds a row to comparison r.
LEMMA RowEnds ==
  ASSUME CompareInv, NEW r \in Runs, NEW me \in Comparisons, me.task = run[r].task,
         Proposing(Budget(r), Methods(r), domain, me), NEW executed \in BOOLEAN, NEW w \in Rows,
         w.cand = me.cand, w.how = me.how, w.answered = me.answered, RowOK(w),
         Trial(w) <=> executed, executed => w.id = me.attempts,
         WithRow(r, me, executed, w), protocol' = protocol, domain' = domain,
         configs' = configs, models' = models
  PROVE  CompareInv'
<1>1. Methods(r) \in Seq(Strategies) /\ Budget(r) \in Nat /\ domain \in {"nonlinear", "synthetic"}
  BY Protocol DEF CompareInv
<1>2. Method(r) = Methods(r)[me.task]
  BY DEF Method
<1>3. PICK s \in Observes(Methods(r)[me.task], domain, me.strat, w) :
        run' = [run EXCEPT ![r] = AddRow(me, s, executed, w)]
  <2>1. \E s \in Observes(Method(r), domain, me.strat, w) :
          run' = [run EXCEPT ![r] = AddRow(me, s, executed, w)]
    BY Zenon DEF WithRow, AddRow
  <2> QED
    BY <1>2, <2>1, Zenon
<1>4. PICK new : new = AddRow(me, s, executed, w)
  OBVIOUS
<1>5. /\ new \in Comparisons /\ RunOK(Budget(r), Methods(r), domain, new)
      /\ new.pc = "suggest" /\ new.metric = NoMetric
  BY <1>1, <1>4, AddRowKeeps
<1>6. TrialOK(domain, new, configs[Place(r)'], models[Place(r)'])
  BY <1>5, RestingTrial DEF Rest
<1>7. new.pc \notin Working
  BY <1>5 DEF Working
<1>8. run' = [run EXCEPT ![r] = new]
  BY <1>3, <1>4
<1> HIDE DEF CompareInv, Working
<1> QED
  BY <1>5, <1>6, <1>7, <1>8, OnlyRun

\* The comparison a has made proposal g.
HasProposed(b, ms, d, a, g, me) ==
  /\ me \in Comparisons /\ Proposing(b, ms, d, me) /\ me.pc = a.pc /\ me.task = a.task
  /\ me.attempts = a.attempts /\ me.cand = g.cand /\ me.metric = a.metric

LEMMA SuggestionIs ==
  ASSUME NEW b \in Nat, NEW ms \in Seq(Strategies), NEW d, NEW a \in Comparisons,
         RunOK(b, ms, d, a), a.effective < b, a.attempts < AttemptFactor * b,
         NEW g, Proposed(ms[a.task], d, a.rows[a.task], g),
         NEW me, me = [a EXCEPT !.cand = g.cand, !.how = g.how, !.strat = g.strat,
                                !.answered = g.answered]
  PROVE  HasProposed(b, ms, d, a, g, me)
<1>1. /\ g.cand \in Candidates /\ g.how \in Hows /\ g.strat \in Memories /\ g.answered \in Nat
  BY DEF Proposed
<1>2. /\ me \in Comparisons /\ me.pc = a.pc /\ me.task = a.task /\ me.rows = a.rows
      /\ me.effective = a.effective /\ me.attempts = a.attempts /\ me.metric = a.metric
      /\ me.cand = g.cand /\ me.how = g.how /\ me.strat = g.strat /\ me.answered = g.answered
  BY <1>1 DEF Comparisons
<1>3. Proposed(ms[a.task], d, a.rows[a.task], me)
  BY <1>2 DEF Proposed
<1>4. Proposing(b, ms, d, me)
  BY <1>2, <1>3 DEF Proposing, RunOK, CountsOK
<1> QED
  BY <1>2, <1>4 DEF HasProposed

LEMMA StateTypes ==
  ASSUME CompareInv, NEW r \in Runs
  PROVE  /\ Methods(r) \in Seq(Strategies) /\ Budget(r) \in Nat /\ Budget(r) \in Nat \ {0}
         /\ domain \in {"nonlinear", "synthetic"} /\ run[r] \in Comparisons
         /\ RunOK(Budget(r), Methods(r), domain, run[r])
         /\ TrialOK(domain, run[r], configs[Place(r)], models[Place(r)])
         /\ run \in [Runs -> Comparisons]
         /\ configs \in [Places -> Candidates] /\ models \in [Places -> Candidates]
BY Protocol DEF CompareInv

LEMMA SuggestKeeps ==
  ASSUME CompareInv, NEW r \in Runs, Suggest(r)
  PROVE  CompareInv'
<1> DEFINE b == Budget(r)
           ms == Methods(r)
<1>1. /\ ms \in Seq(Strategies) /\ b \in Nat /\ domain \in {"nonlinear", "synthetic"}
      /\ run[r] \in Comparisons /\ RunOK(b, ms, domain, run[r])
      /\ TrialOK(domain, run[r], configs[Place(r)], models[Place(r)])
  BY StateTypes
<1>2. /\ run[r].pc = "suggest" /\ run[r].effective < b /\ run[r].attempts < AttemptFactor * b
      /\ protocol' = protocol /\ domain' = domain /\ configs' = configs /\ models' = models
  BY DEF Suggest, MoreTrials
<1>3. PICK g \in Suggests(Method(r), domain, run[r].strat, History(r)) :
        LET me == [run[r] EXCEPT !.cand = g.cand, !.how = g.how, !.strat = g.strat,
                                 !.answered = g.answered]
        IN  \/ /\ g.cand \notin Accepted
               /\ WithRow(r, me, FALSE, [NewRow(r, me, FALSE) EXCEPT !.rejected = TRUE])
            \/ /\ g.cand \in Accepted \cap Unbuildable
               /\ WithRow(r, me, TRUE, [NewRow(r, me, TRUE) EXCEPT !.rejected = TRUE, !.failed = TRUE])
            \/ /\ g.cand \in Accepted \ Unbuildable
               /\ run' = [run EXCEPT ![r] = [me EXCEPT !.pc = FirstStep]]
  BY Zenon DEF Suggest
<1>4. PICK me : me = [run[r] EXCEPT !.cand = g.cand, !.how = g.how, !.strat = g.strat,
                                    !.answered = g.answered]
  OBVIOUS
<1>5. \/ /\ g.cand \notin Accepted
         /\ WithRow(r, me, FALSE, [NewRow(r, me, FALSE) EXCEPT !.rejected = TRUE])
      \/ /\ g.cand \in Accepted \cap Unbuildable
         /\ WithRow(r, me, TRUE, [NewRow(r, me, TRUE) EXCEPT !.rejected = TRUE, !.failed = TRUE])
      \/ /\ g.cand \in Accepted \ Unbuildable
         /\ run' = [run EXCEPT ![r] = [me EXCEPT !.pc = FirstStep]]
  BY <1>3, <1>4, Zenon
<1> HIDE DEF b, ms
<1>6. Proposed(ms[run[r].task], domain, run[r].rows[run[r].task], g)
  <2>1. run[r].task \in 1..Len(ms) /\ Len(run[r].rows) = Len(ms)
    BY <1>1 DEF RunOK
  <2>2. run[r].rows[run[r].task] \in Seq(Rows) /\ ms[run[r].task] \in Strategies
    <3>1. PICK k : k = run[r].task
      OBVIOUS
    <3>2. PICK rows : rows = run[r].rows
      OBVIOUS
    <3>3. rows \in Seq(Seq(Rows)) /\ k \in 1..Len(rows) /\ k \in 1..Len(ms)
      BY <1>1, <2>1, <3>1, <3>2, ComparisonTypes
    <3>4. rows[k] \in Seq(Rows)
      BY <3>3, RowsAt
    <3>5. ms[k] \in Strategies
      BY <1>1, <3>3
    <3> QED
      BY <3>1, <3>2, <3>4, <3>5
  <2>3. run[r].strat \in Memories
    BY <1>1, ComparisonTypes
  <2>4. /\ HistoryOK(ms[run[r].task], domain, run[r].rows[run[r].task])
        /\ MemoryOK(ms[run[r].task], domain, run[r].strat, run[r].rows[run[r].task], 0, 0)
    BY <1>1, <1>2, <2>1 DEF RunOK, UnderWay, Rest
  <2>5. g \in Suggests(ms[run[r].task], domain, run[r].strat, run[r].rows[run[r].task])
    BY Zenon DEF Method, History, ms
  <2> QED
    BY <2>2, <2>3, <2>4, <2>5, StrategiesPropose
<1>7. /\ me \in Comparisons /\ Proposing(b, ms, domain, me) /\ me.pc = run[r].pc
      /\ me.task = run[r].task /\ me.attempts = run[r].attempts /\ me.cand = g.cand
      /\ me.metric = run[r].metric
  <2>1. HasProposed(b, ms, domain, run[r], g, me)
    BY <1>1, <1>2, <1>4, <1>6, SuggestionIs, ZenonT(30)
  <2> QED
    BY <2>1 DEF HasProposed
<1>8. CASE g.cand \notin Accepted /\ WithRow(r, me, FALSE, [NewRow(r, me, FALSE) EXCEPT !.rejected = TRUE])
  <2>1. PICK v : v = NewRow(r, me, FALSE)
    OBVIOUS
  <2>2. IsNewRow(r, me, FALSE, v)
    BY <1>1, <1>7, <2>1, NewRowIs
  <2>3. PICK w : w = [v EXCEPT !.rejected = TRUE]
    OBVIOUS
  <2>4. /\ w \in Rows /\ w.cand = me.cand /\ w.how = me.how /\ w.answered = me.answered
        /\ w.rejected = TRUE /\ w.failed = FALSE /\ w.metric = NoMetric /\ w.hash = me.cand
    BY <2>2, <2>3 DEF IsNewRow, Rows
  <2>5. RowOK(w) /\ (Trial(w) <=> FALSE)
    BY <2>4 DEF RowOK, Trial
  <2>6. WithRow(r, me, FALSE, w)
    BY <1>8, <2>1, <2>3, Zenon
  <2> QED
    BY <1>2, <1>7, <2>4, <2>5, <2>6, RowEnds DEF b, ms
<1>9. CASE /\ g.cand \in Accepted \cap Unbuildable
           /\ WithRow(r, me, TRUE, [NewRow(r, me, TRUE) EXCEPT !.rejected = TRUE, !.failed = TRUE])
  <2>1. PICK v : v = NewRow(r, me, TRUE)
    OBVIOUS
  <2>2. IsNewRow(r, me, TRUE, v)
    BY <1>1, <1>7, <2>1, NewRowIs
  <2>3. PICK w : w = [v EXCEPT !.rejected = TRUE, !.failed = TRUE]
    OBVIOUS
  <2>4. /\ w \in Rows /\ w.cand = me.cand /\ w.how = me.how /\ w.answered = me.answered
        /\ w.rejected = TRUE /\ w.failed = TRUE /\ w.metric = NoMetric /\ w.hash = me.cand
        /\ w.id = me.attempts
    BY <1>7, <2>2, <2>3 DEF IsNewRow, Rows
  <2>5. RowOK(w) /\ (Trial(w) <=> TRUE)
    BY <2>4 DEF RowOK, Trial
  <2>6. WithRow(r, me, TRUE, w)
    BY <1>9, <2>1, <2>3, Zenon
  <2> QED
    BY <1>2, <1>7, <2>4, <2>5, <2>6, RowEnds DEF b, ms
<1>10. CASE /\ g.cand \in Accepted \ Unbuildable
            /\ run' = [run EXCEPT ![r] = [me EXCEPT !.pc = FirstStep]]
  <2>1. FirstStep \in {"fit", "configure"} /\ FirstStep \in Flight
        /\ (domain = "synthetic" <=> FirstStep = "fit")
    BY DEF FirstStep, Flight
  <2>2. PICK new : new = [me EXCEPT !.pc = FirstStep]
    OBVIOUS
  <2>3. /\ new \in Comparisons /\ SameTrial(me, new) /\ new.pc = FirstStep
        /\ new.metric = me.metric
    BY <1>7, <2>1, <2>2 DEF Comparisons, SameTrial
  <2>4. RunOK(b, ms, domain, new)
    BY <1>1, <1>7, <2>1, <2>3, SameProposing, FlightIs
  <2>5. run[r].metric = NoMetric
    BY <1>1, <1>2 DEF TrialOK
  <2>6. TrialOK(domain, new, configs[Place(r)'], models[Place(r)'])
    BY <1>1, <1>7, <1>10, <2>1, <2>3, <2>5 DEF TrialOK, SameTrial
  <2>7. new.pc \notin Working
    BY <2>1, <2>3 DEF Working
  <2>8. run' = [run EXCEPT ![r] = new]
    BY <1>10, <2>2
  <2> HIDE DEF CompareInv, Working
  <2> QED
    BY <1>2, <2>3, <2>4, <2>6, <2>7, <2>8, OnlyRun DEF b, ms
<1> QED
  BY <1>5, <1>8, <1>9, <1>10

\* The comparisons, r being me and those that overlap with it marked.
IsMarked(r, me, new) ==
  /\ new \in [Runs -> Comparisons]
  /\ SameTrial(me, new[r]) /\ new[r].pc = me.pc /\ new[r].trained = me.trained
  /\ new[r].metric = me.metric /\ new[r].shared = (Neighbours(r) # {})
  /\ \A q \in Runs \ {r} : /\ Flagged(run[q], new[q])
                           /\ q \in Neighbours(r) => new[q].shared

LEMMA MarkedIs ==
  ASSUME CompareInv, NEW r \in Runs, NEW me \in Comparisons, NEW new, new = Marked(r, me)
  PROVE  IsMarked(r, me, new)
<1>1. \A q \in Runs : run[q] \in Comparisons
  BY DEF CompareInv
<1>2. /\ new[r] \in Comparisons
      /\ SameTrial(me, new[r]) /\ new[r].pc = me.pc /\ new[r].trained = me.trained
      /\ new[r].metric = me.metric /\ new[r].shared = (Neighbours(r) # {})
  <2>1. r \notin Neighbours(r)
    BY DEF Neighbours
  <2>2. PICK b : b = [me EXCEPT !.shared = Neighbours(r) # {}]
    OBVIOUS
  <2>3. /\ b \in Comparisons /\ SameTrial(me, b) /\ b.pc = me.pc /\ b.trained = me.trained
        /\ b.metric = me.metric /\ b.shared = (Neighbours(r) # {})
    BY <2>2 DEF Comparisons, SameTrial
  <2>4. new[r] = b
    BY <2>1, <2>2, Zenon DEF Marked
  <2> QED
    BY <2>1, <2>3, <2>4
<1>3. ASSUME NEW q \in Runs \ {r}
      PROVE  Flagged(run[q], new[q]) /\ (q \in Neighbours(r) => new[q].shared)
  <2>1. CASE q \in Neighbours(r)
    <3>1. PICK b : b = [run[q] EXCEPT !.shared = TRUE]
      OBVIOUS
    <3>2. Flagged(run[q], b) /\ b.shared
      BY <1>1, <3>1, FlaggedIs
    <3>3. new[q] = b
      BY <2>1, <3>1 DEF Marked
    <3> QED
      BY <3>2, <3>3
  <2>2. CASE q \notin Neighbours(r)
    <3>1. new[q] = run[q]
      BY <2>2 DEF Marked
    <3> QED
      BY <1>1, <2>2, <3>1, FlaggedSelf
  <2> QED
    BY <2>1, <2>2
<1>4. new \in [Runs -> Comparisons]
  <2>1. new = [q \in Runs |-> new[q]]
    BY DEF Marked
  <2>2. \A q \in Runs : new[q] \in Comparisons
    BY <1>2, <1>3 DEF Flagged
  <2> QED
    BY <2>1, <2>2
<1> QED
  BY <1>2, <1>3, <1>4 DEF IsMarked

LEMMA Neighbour ==
  ASSUME NEW r \in Runs, NEW q \in Runs \ {r}, Place(q) = Place(r),
         run[q].pc \in Working
  PROVE  q \in Neighbours(r)
BY DEF Neighbours

LEMMA ConfigureKeeps ==
  ASSUME CompareInv, NEW r \in Runs, Configure(r)
  PROVE  CompareInv'
<1> DEFINE p == Place(r)
<1>1. /\ Methods(r) \in Seq(Strategies) /\ Budget(r) \in Nat /\ run[r] \in Comparisons
      /\ RunOK(Budget(r), Methods(r), domain, run[r])
      /\ TrialOK(domain, run[r], configs[p], models[p])
      /\ configs \in [Places -> Candidates] /\ models \in [Places -> Candidates]
  BY StateTypes
<1>2. /\ run[r].pc = "configure" /\ configs' = [configs EXCEPT ![p] = run[r].cand]
      /\ run' = Marked(r, [run[r] EXCEPT !.pc = "train"])
      /\ protocol' = protocol /\ domain' = domain /\ models' = models
  BY DEF Configure
<1>3. run[r].cand \in Accepted /\ domain = "nonlinear" /\ run[r].metric = NoMetric
  BY <1>1, <1>2 DEF TrialOK, Flight
<1>4. PICK me : me = [run[r] EXCEPT !.pc = "train"]
  OBVIOUS
<1>5. /\ me \in Comparisons /\ SameTrial(run[r], me) /\ me.pc = "train"
      /\ me.metric = run[r].metric
  BY <1>1, <1>4 DEF Comparisons, SameTrial, Flight
<1>6. PICK runs : runs = Marked(r, me)
  OBVIOUS
<1>7. PICK new : new = runs[r]
  OBVIOUS
<1>8. /\ run' \in [Runs -> Comparisons] /\ run'[r] = new /\ new \in Comparisons
      /\ SameTrial(me, new) /\ new.pc = "train" /\ new.metric = NoMetric
      /\ new.shared = (Neighbours(r) # {})
      /\ \A q \in Runs \ {r} : Flagged(run[q], run'[q]) /\ (q \in Neighbours(r) => run'[q].shared)
  <2>1. IsMarked(r, me, runs)
    BY <1>5, <1>6, MarkedIs
  <2>2. run' = runs
    BY <1>2, <1>4, <1>6
  <2> QED
    BY <1>3, <1>5, <1>7, <2>1, <2>2 DEF IsMarked
<1>9. SameTrial(run[r], new)
  BY <1>5, <1>8 DEF SameTrial
<1>10. Place(r)' = p /\ p \in Places
  BY <1>2, <1>8, <1>9, PlaceKept, PlaceIn DEF SameTrial, Flight
<1> HIDE DEF p
<1>11. configs' \in [Places -> Candidates] /\ configs'[p] = run[r].cand
  BY <1>1, <1>2, <1>3, <1>10, ProposalsAre
<1>12. RunOK(Budget(r), Methods(r), domain, new)
  BY <1>1, <1>2, <1>8, <1>9, SameRun DEF Flight
<1>13. TrialOK(domain, new, configs'[p], models[p])
  BY <1>3, <1>8, <1>9, <1>11 DEF TrialOK, SameTrial
<1>14. ASSUME NEW q \in Runs \ {r}
       PROVE  /\ run[q].pc \in {"train", "training", "verify"} =>
                   \/ configs'[Place(q)] = configs[Place(q)]
                   \/ configs'[Place(q)] \in Accepted /\ run'[q].shared
              /\ run[q].pc \in Working /\ Place(q) = p => run'[q].shared /\ new.shared
  <2>1. run[q].pc \in Working /\ Place(q) = p => q \in Neighbours(r)
    BY Neighbour DEF p, Working
  <2>2. run[q].pc \in {"train", "training", "verify"} => Place(q) \in Places
    BY PlaceIn DEF Flight
  <2>3. run[q].pc \in {"train", "training", "verify"} /\ Place(q) # p =>
          configs'[Place(q)] = configs[Place(q)]
    BY <1>1, <1>2, <2>2
  <2> QED
    BY <1>3, <1>8, <1>11, <2>1, <2>3 DEF Working
<1>15. Undisturbed(r)
  BY <1>2, <1>8, <1>10, <1>14 DEF Undisturbed
<1> HIDE DEF CompareInv
<1> QED
  BY <1>1, <1>2, <1>8, <1>10, <1>11, <1>12, <1>13, <1>15, StepKeeps

LEMMA StartTrainingKeeps ==
  ASSUME CompareInv, NEW r \in Runs, StartTraining(r)
  PROVE  CompareInv'
<1> DEFINE p == Place(r)
<1>1. /\ Methods(r) \in Seq(Strategies) /\ Budget(r) \in Nat /\ run[r] \in Comparisons
      /\ RunOK(Budget(r), Methods(r), domain, run[r])
      /\ TrialOK(domain, run[r], configs[p], models[p]) /\ run \in [Runs -> Comparisons]
  BY StateTypes
<1>2. /\ run[r].pc = "train" /\ protocol' = protocol /\ domain' = domain
      /\ configs' = configs /\ models' = models
      /\ run' = [run EXCEPT ![r].pc = "training", ![r].trained = configs[p]]
  BY DEF StartTraining
<1>3. /\ configs[p] \in Accepted /\ domain = "nonlinear" /\ run[r].metric = NoMetric
      /\ run[r].cand \in Accepted /\ (~run[r].shared => configs[p] = run[r].cand)
  BY <1>1, <1>2 DEF TrialOK, Flight
<1> HIDE DEF p
<1>4. PICK new : new = [run[r] EXCEPT !.pc = "training", !.trained = configs[p]]
  OBVIOUS
<1>5. /\ new \in Comparisons /\ SameTrial(run[r], new) /\ new.pc = "training"
      /\ new.metric = NoMetric /\ new.trained = configs[p] /\ new.shared = run[r].shared
  BY <1>1, <1>3, <1>4, ProposalsAre DEF Comparisons, SameTrial, Flight
<1>6. run' = [run EXCEPT ![r] = new]
  BY <1>1, <1>2, <1>4
<1>7. RunOK(Budget(r), Methods(r), domain, new)
  BY <1>1, <1>2, <1>5, SameRun DEF Flight
<1>8. Place(r)' = p
  BY <1>1, <1>2, <1>5, <1>6, PlaceKept DEF SameTrial, p
<1>9. TrialOK(domain, new, configs[p], models[p])
  BY <1>3, <1>5 DEF TrialOK, SameTrial
<1>10. /\ run[r].pc \in Working /\ (run[r].shared => new.shared)
       /\ new.task = run[r].task /\ new.effective = run[r].effective
  BY <1>2, <1>5 DEF Working, SameTrial
<1>11. TrialOK(domain, new, configs[Place(r)'], models[Place(r)'])
  BY <1>8, <1>9
<1> HIDE DEF CompareInv
<1> QED
  BY <1>2, <1>5, <1>6, <1>7, <1>10, <1>11, OnlyRun

\* A trial's tool chain ends, its row is the trial's.
LEMMA RecordKeeps ==
  ASSUME CompareInv, NEW r \in Runs, run[r].pc \in Flight, NEW me \in Comparisons,
         SameTrial(run[r], me), NEW failed \in BOOLEAN, Record(r, me, failed),
         protocol' = protocol, domain' = domain, configs' = configs, models' = models,
         me.metric = NoMetric => failed,
         ~me.shared /\ me.metric # NoMetric => me.metric = Score[me.cand],
         ~me.shared => domain = "synthetic" \/ configs[Place(r)] = me.cand
  PROVE  CompareInv'
<1>1. /\ Methods(r) \in Seq(Strategies) /\ Budget(r) \in Nat /\ run[r] \in Comparisons
      /\ RunOK(Budget(r), Methods(r), domain, run[r]) /\ configs \in [Places -> Candidates]
  BY StateTypes
<1>2. Proposing(Budget(r), Methods(r), domain, me)
  BY <1>1, ProposingIs, SameProposing
<1>3. configs[Place(r)] \in Candidates
  BY <1>1, PlaceIn
<1>4. PICK v : v = NewRow(r, me, TRUE)
  OBVIOUS
<1>5. IsNewRow(r, me, TRUE, v)
  BY <1>1, <1>4, NewRowIs
<1>6. PICK hash : hash = IF domain = "synthetic" THEN me.cand ELSE configs[Place(r)]
  OBVIOUS
<1>7. hash \in Candidates /\ me.metric \in Int /\ (~me.shared => hash = me.cand)
  BY <1>3, <1>6, ComparisonTypes
<1>8. PICK hit \in BOOLEAN : hit = (me.metric \notin {NoMetric, NotANumber} /\ me.metric <= Threshold)
  OBVIOUS
<1>9. PICK w : w = [v EXCEPT !.failed = failed, !.metric = me.metric, !.hit = hit, !.hash = hash]
  OBVIOUS
<1>10. /\ w \in Rows /\ w.cand = me.cand /\ w.how = me.how /\ w.answered = me.answered
       /\ w.rejected = FALSE /\ w.failed = failed /\ w.metric = me.metric /\ w.hash = hash
       /\ w.shared = me.shared /\ w.id = me.attempts
  BY <1>5, <1>7, <1>9 DEF IsNewRow, Rows, SameTrial
<1>11. RowOK(w) /\ (Trial(w) <=> TRUE)
  BY <1>7, <1>10 DEF RowOK, Trial
<1>12. WithRow(r, me, TRUE, w)
  BY <1>4, <1>6, <1>8, <1>9, Zenon DEF Record
<1>13. me.task = run[r].task
  BY DEF SameTrial
<1> HIDE DEF CompareInv
<1> QED
  BY <1>2, <1>10, <1>11, <1>12, <1>13, RowEnds

LEMMA VerifyKeeps ==
  ASSUME CompareInv, NEW r \in Runs, Verify(r)
  PROVE  CompareInv'
<1>1. /\ run[r] \in Comparisons /\ TrialOK(domain, run[r], configs[Place(r)], models[Place(r)])
  BY StateTypes
<1>2. /\ run[r].pc = "verify" /\ protocol' = protocol /\ domain' = domain
      /\ configs' = configs /\ models' = models
      /\ IF models[Place(r)] \in Unplotted THEN Record(r, run[r], TRUE)
         ELSE Record(r, [run[r] EXCEPT !.metric = Score[models[Place(r)]]], FALSE)
  BY DEF Verify
<1>3. run[r].pc \in Flight
  BY <1>2 DEF Flight
<1>4. PICK score : score = Score[models[Place(r)]]
  OBVIOUS
<1>5. /\ score \in Int /\ score # NoMetric /\ run[r].metric = Score[run[r].trained]
      /\ ~run[r].shared => /\ run[r].trained = run[r].cand /\ configs[Place(r)] = run[r].cand
                           /\ models[Place(r)] = run[r].cand
  BY <1>1, <1>2, <1>4, CompareAssumption DEF TrialOK
<1>6. CASE models[Place(r)] \in Unplotted
  <2>1. SameTrial(run[r], run[r])
    BY DEF SameTrial
  <2>2. Record(r, run[r], TRUE)
    BY <1>2, <1>6
  <2> HIDE DEF CompareInv
  <2> QED
    BY <1>1, <1>2, <1>3, <1>5, <2>1, <2>2, RecordKeeps
<1>7. CASE models[Place(r)] \notin Unplotted
  <2>1. PICK me : me = [run[r] EXCEPT !.metric = score]
    OBVIOUS
  <2>2. /\ me \in Comparisons /\ SameTrial(run[r], me) /\ me.metric = score
        /\ me.shared = run[r].shared
    BY <1>1, <1>5, <2>1 DEF Comparisons, SameTrial
  <2>3. Record(r, me, FALSE)
    BY <1>2, <1>4, <1>7, <2>1
  <2>4. me.cand = run[r].cand
    BY <2>2 DEF SameTrial
  <2> HIDE DEF CompareInv
  <2> QED
    BY <1>2, <1>3, <1>4, <1>5, <2>2, <2>3, <2>4, RecordKeeps
<1> QED
  BY <1>6, <1>7

LEMMA EvaluateKeeps ==
  ASSUME CompareInv, NEW r \in Runs, Evaluate(r)
  PROVE  CompareInv'
<1>1. /\ run[r] \in Comparisons /\ TrialOK(domain, run[r], configs[Place(r)], models[Place(r)])
  BY StateTypes
<1>2. /\ run[r].pc = "evaluate" /\ protocol' = protocol /\ domain' = domain
      /\ configs' = configs /\ models' = models
      /\ Record(r, [run[r] EXCEPT !.metric = Score[models[Place(r)]]], FALSE)
  BY DEF Evaluate
<1>3. run[r].pc \in Flight
  BY <1>2 DEF Flight
<1>4. PICK score : score = Score[models[Place(r)]]
  OBVIOUS
<1>5. /\ score \in Int /\ score # NoMetric /\ domain = "synthetic"
      /\ ~run[r].shared => models[Place(r)] = run[r].cand
  BY <1>1, <1>2, <1>4, CompareAssumption DEF TrialOK
<1>6. PICK me : me = [run[r] EXCEPT !.metric = score]
  OBVIOUS
<1>7. /\ me \in Comparisons /\ SameTrial(run[r], me) /\ me.metric = score
      /\ me.shared = run[r].shared
  BY <1>1, <1>5, <1>6 DEF Comparisons, SameTrial
<1>8. Record(r, me, FALSE)
  BY <1>2, <1>4, <1>6
<1>9. me.cand = run[r].cand
  BY <1>7 DEF SameTrial
<1> HIDE DEF CompareInv
<1> QED
  BY <1>2, <1>3, <1>4, <1>5, <1>7, <1>8, <1>9, RecordKeeps

LEMMA EndTrainingKeeps ==
  ASSUME CompareInv, NEW r \in Runs, EndTraining(r)
  PROVE  CompareInv'
<1> DEFINE p == Place(r)
<1>1. /\ Methods(r) \in Seq(Strategies) /\ Budget(r) \in Nat /\ run[r] \in Comparisons
      /\ RunOK(Budget(r), Methods(r), domain, run[r])
      /\ TrialOK(domain, run[r], configs[p], models[p]) /\ run \in [Runs -> Comparisons]
      /\ configs \in [Places -> Candidates] /\ models \in [Places -> Candidates]
  BY StateTypes
<1>2. PICK c : c = run[r].trained
  OBVIOUS
<1>3. /\ run[r].pc = "training" /\ protocol' = protocol /\ domain' = domain /\ configs' = configs
      /\ IF Score[c] = NoMetric THEN Record(r, run[r], TRUE) /\ models' = models
         ELSE /\ models' = [models EXCEPT ![p] = c]
              /\ run' = [run EXCEPT ![r].pc = "verify", ![r].metric = Score[c]]
  BY <1>2 DEF EndTraining
<1>4. /\ run[r].metric = NoMetric /\ domain = "nonlinear" /\ run[r].cand \in Accepted
      /\ configs[p] \in Accepted /\ (~run[r].shared => configs[p] = run[r].cand)
      /\ c \in Accepted /\ (~run[r].shared => c = run[r].cand)
  BY <1>1, <1>2, <1>3 DEF TrialOK, Flight
<1>5. run[r].pc \in Flight /\ run[r].pc \in Working
  BY <1>3 DEF Flight, Working
<1>6. CASE Score[c] = NoMetric
  <2>1. SameTrial(run[r], run[r])
    BY DEF SameTrial
  <2>2. Record(r, run[r], TRUE) /\ models' = models
    BY <1>3, <1>6
  <2> HIDE DEF CompareInv
  <2> QED
    BY <1>1, <1>3, <1>4, <1>5, <2>1, <2>2, RecordKeeps
<1>7. CASE Score[c] # NoMetric
  <2>1. PICK score : score = Score[c]
    OBVIOUS
  <2>2. score \in Int
    BY <1>4, <2>1, CompareAssumption
  <2>3. PICK new : new = [run[r] EXCEPT !.pc = "verify", !.metric = score]
    OBVIOUS
  <2>4. /\ new \in Comparisons /\ SameTrial(run[r], new) /\ new.pc = "verify"
        /\ new.metric = score /\ new.trained = c /\ new.shared = run[r].shared
    BY <1>1, <1>2, <2>2, <2>3 DEF Comparisons, SameTrial, Flight
  <2>5. models' = [models EXCEPT ![p] = c] /\ run' = [run EXCEPT ![r] = new]
    BY <1>1, <1>3, <1>7, <2>1, <2>3
  <2>6. /\ run' \in [Runs -> Comparisons] /\ run'[r] = new
        /\ \A q \in Runs \ {r} : run'[q] = run[q]
    BY <1>1, <2>4, <2>5
  <2>7. Place(r)' = p /\ p \in Places
    BY <1>3, <1>5, <2>4, <2>6, PlaceKept, PlaceIn DEF SameTrial
  <2> HIDE DEF p
  <2>8. models' \in [Places -> Candidates] /\ models'[p] = c
    BY <1>1, <1>4, <2>5, <2>7, ProposalsAre
  <2>9. RunOK(Budget(r), Methods(r), domain, new)
    BY <1>1, <1>5, <2>4, SameRun DEF Flight
  <2>10. TrialOK(domain, new, configs[p], models'[p])
    BY <1>4, <1>7, <2>1, <2>4, <2>8 DEF TrialOK, SameTrial
  <2>11. ASSUME NEW q \in Runs \ {r}
         PROVE  /\ Flagged(run[q], run'[q])
                /\ run[q].pc \in {"verify", "evaluate"} =>
                     \/ models'[Place(q)] = models[Place(q)]
                     \/ /\ models'[Place(q)] \in Accepted /\ Score[models'[Place(q)]] # NoMetric
                        /\ run'[q].shared
                /\ run[q].pc \in Working /\ Place(q) = p => run'[q].shared /\ new.shared
    <3>1. run[q].pc \in Working /\ Place(q) = p => run[q].shared /\ run[r].shared
      BY <1>5 DEF CompareInv, Overlap, p
    <3>2. run[q].pc \in {"verify", "evaluate"} => run[q].pc \in Working /\ Place(q) \in Places
      BY PlaceIn DEF Flight, Working
    <3>3. run[q].pc \in {"verify", "evaluate"} /\ Place(q) # p => models'[Place(q)] = models[Place(q)]
      BY <1>1, <2>5, <3>2
    <3>4. Flagged(run[q], run'[q])
      BY <2>6, FlaggedSelf DEF CompareInv
    <3> QED
      BY <1>4, <1>7, <2>4, <2>6, <2>8, <3>1, <3>2, <3>3, <3>4
  <2>12. Undisturbed(r)
    BY <1>3, <2>6, <2>7, <2>11 DEF Undisturbed
  <2> HIDE DEF CompareInv
  <2> QED
    BY <1>1, <1>3, <2>6, <2>7, <2>8, <2>9, <2>10, <2>12, StepKeeps
<1> QED
  BY <1>6, <1>7

LEMMA FitKeeps ==
  ASSUME CompareInv, NEW r \in Runs, Fit(r)
  PROVE  CompareInv'
<1> DEFINE p == Place(r)
<1>1. /\ Methods(r) \in Seq(Strategies) /\ Budget(r) \in Nat /\ run[r] \in Comparisons
      /\ RunOK(Budget(r), Methods(r), domain, run[r])
      /\ TrialOK(domain, run[r], configs[p], models[p])
      /\ configs \in [Places -> Candidates] /\ models \in [Places -> Candidates]
  BY StateTypes
<1>2. PICK c : c = run[r].cand
  OBVIOUS
<1>3. /\ run[r].pc = "fit" /\ protocol' = protocol /\ domain' = domain /\ configs' = configs
      /\ IF Score[c] = NoMetric THEN Record(r, run[r], TRUE) /\ models' = models
         ELSE /\ models' = [models EXCEPT ![p] = c]
              /\ run' = Marked(r, [run[r] EXCEPT !.pc = "evaluate"])
  BY <1>2 DEF Fit
<1>4. run[r].metric = NoMetric /\ domain = "synthetic" /\ c \in Accepted
  BY <1>1, <1>2, <1>3 DEF TrialOK, Flight
<1>5. run[r].pc \in Flight
  BY <1>3 DEF Flight
<1>6. CASE Score[c] = NoMetric
  <2>1. SameTrial(run[r], run[r])
    BY DEF SameTrial
  <2>2. Record(r, run[r], TRUE) /\ models' = models
    BY <1>3, <1>6
  <2> HIDE DEF CompareInv
  <2> QED
    BY <1>1, <1>3, <1>4, <1>5, <2>1, <2>2, RecordKeeps
<1>7. CASE Score[c] # NoMetric
  <2>1. PICK me : me = [run[r] EXCEPT !.pc = "evaluate"]
    OBVIOUS
  <2>2. /\ me \in Comparisons /\ SameTrial(run[r], me) /\ me.pc = "evaluate"
        /\ me.metric = NoMetric
    BY <1>1, <1>4, <2>1 DEF Comparisons, SameTrial, Flight
  <2>3. PICK runs : runs = Marked(r, me)
    OBVIOUS
  <2>4. PICK new : new = runs[r]
    OBVIOUS
  <2>5. run' = runs /\ models' = [models EXCEPT ![p] = c]
    BY <1>3, <1>7, <2>1, <2>3
  <2>6. /\ run' \in [Runs -> Comparisons] /\ run'[r] = new /\ new \in Comparisons
        /\ SameTrial(me, new) /\ new.pc = "evaluate" /\ new.metric = NoMetric
        /\ new.shared = (Neighbours(r) # {})
        /\ \A q \in Runs \ {r} : Flagged(run[q], run'[q]) /\ (q \in Neighbours(r) => run'[q].shared)
    <3>1. IsMarked(r, me, runs)
      BY <2>2, <2>3, MarkedIs
    <3> QED
      BY <2>2, <2>4, <2>5, <3>1 DEF IsMarked
  <2>7. SameTrial(run[r], new)
    BY <2>2, <2>6 DEF SameTrial
  <2>8. Place(r)' = p /\ p \in Places
    BY <1>3, <1>5, <2>6, <2>7, PlaceKept, PlaceIn DEF SameTrial
  <2> HIDE DEF p
  <2>9. models' \in [Places -> Candidates] /\ models'[p] = c
    BY <1>1, <1>4, <2>5, <2>8, ProposalsAre
  <2>10. RunOK(Budget(r), Methods(r), domain, new)
    BY <1>1, <1>5, <2>6, <2>7, SameRun DEF Flight
  <2>11. TrialOK(domain, new, configs[p], models'[p])
    BY <1>2, <1>4, <1>7, <2>6, <2>7, <2>9 DEF TrialOK, SameTrial
  <2>12. ASSUME NEW q \in Runs \ {r}
         PROVE  /\ run[q].pc \in {"verify", "evaluate"} =>
                     \/ models'[Place(q)] = models[Place(q)]
                     \/ /\ models'[Place(q)] \in Accepted /\ Score[models'[Place(q)]] # NoMetric
                        /\ run'[q].shared
                /\ run[q].pc \in Working /\ Place(q) = p => run'[q].shared /\ new.shared
    <3>1. run[q].pc \in Working /\ Place(q) = p => q \in Neighbours(r)
      BY Neighbour DEF p, Working
    <3>2. run[q].pc \in {"verify", "evaluate"} => run[q].pc \in Working /\ Place(q) \in Places
      BY PlaceIn DEF Flight, Working
    <3>3. run[q].pc \in {"verify", "evaluate"} /\ Place(q) # p => models'[Place(q)] = models[Place(q)]
      BY <1>1, <2>5, <3>2
    <3> QED
      BY <1>4, <1>7, <2>6, <2>9, <3>1, <3>2, <3>3
  <2>13. Undisturbed(r)
    BY <1>3, <2>6, <2>8, <2>12 DEF Undisturbed
  <2> HIDE DEF CompareInv
  <2> QED
    BY <1>1, <1>3, <2>6, <2>8, <2>9, <2>10, <2>11, <2>13, StepKeeps
<1> QED
  BY <1>6, <1>7

\* A comparison that rests, and its files untouched.
LEMMA RestKeeps ==
  ASSUME CompareInv, NEW r \in Runs, NEW new \in Comparisons, run' = [run EXCEPT ![r] = new],
         protocol' = protocol, domain' = domain, configs' = configs, models' = models,
         RunOK(Budget(r), Methods(r), domain, new), new.pc \in Rest, new.metric = NoMetric
  PROVE  CompareInv'
<1>1. TrialOK(domain, new, configs[Place(r)'], models[Place(r)'])
  BY RestingTrial
<1>2. new.pc \notin Working
  BY DEF Rest, Working
<1> HIDE DEF CompareInv
<1> QED
  BY <1>1, <1>2, OnlyRun

\* The next method and seed.
NextTaskOK(b, ms, d, a, new) ==
  new \in Comparisons /\ RunOK(b, ms, d, new) /\ new.pc = "suggest" /\ new.metric = a.metric

LEMMA NextTask ==
  ASSUME NEW b \in Nat \ {0}, NEW ms \in Seq(Strategies), NEW d, NEW a \in Comparisons,
         RunOK(b, ms, d, a), a.pc = "suggest", ~(a.effective < b /\ a.attempts < AttemptFactor * b),
         a.task # Len(ms), NEW t \in Nat, t = a.task + 1, NEW s, s = NewStrategy,
         NEW new, new = [a EXCEPT !.task = t, !.strat = s, !.effective = 0, !.attempts = 0]
  PROVE  NextTaskOK(b, ms, d, a, new)
<1>1. /\ a.attempts \in Nat /\ a.effective \in Nat /\ a.task \in Nat /\ AttemptFactor * b \in Nat
      /\ NewStrategy \in Memories
  BY ComparisonTypes, Products, NewMemory
<1>2. /\ new \in Comparisons /\ new.pc = "suggest" /\ new.metric = a.metric /\ new.task = a.task + 1
      /\ new.strat = NewStrategy /\ new.effective = 0 /\ new.attempts = 0 /\ new.rows = a.rows
  <2>1. s \in Memories
    BY <1>1
  <2>2. new \in Comparisons
    BY <2>1 DEF Comparisons
  <2>3. /\ new.pc = a.pc /\ new.metric = a.metric /\ new.task = t
        /\ new.strat = s /\ new.effective = 0 /\ new.attempts = 0 /\ new.rows = a.rows
    BY DEF Comparisons
  <2> QED
    BY <2>2, <2>3
<1>3. /\ a.task \in 1..Len(ms) /\ Len(a.rows) = Len(ms) /\ Len(ms) \in Nat
      /\ \A k \in 1..Len(ms) : HistoryOK(ms[k], d, a.rows[k])
      /\ \A k \in 1..Len(ms) : k < a.task => Fair(b, a.rows[k])
      /\ \A k \in 1..Len(ms) : k > a.task => a.rows[k] = <<>>
  BY DEF RunOK
<1>4. Fair(b, a.rows[a.task])
  BY <1>1 DEF RunOK, CountsOK, Fair
<1>5. new.task \in 1..Len(ms)
  BY <1>2, <1>3
<1>6. /\ \A k \in 1..Len(ms) : k < new.task => Fair(b, new.rows[k])
      /\ \A k \in 1..Len(ms) : k >= new.task => new.rows[k] = <<>>
  BY <1>2, <1>3, <1>4
<1>7. RunOK(b, ms, d, new)
  BY <1>2, <1>3, <1>5, <1>6, BeginsOK
<1> QED
  BY <1>2, <1>7 DEF NextTaskOK

LEMMA LastTask ==
  ASSUME NEW b \in Nat, NEW ms \in Seq(Strategies), NEW d, NEW a \in Comparisons,
         RunOK(b, ms, d, a), a.pc = "suggest", ~(a.effective < b /\ a.attempts < AttemptFactor * b),
         a.task = Len(ms), NEW new, new = [a EXCEPT !.pc = "done"]
  PROVE  new \in Comparisons /\ RunOK(b, ms, d, new) /\ new.pc = "done" /\ new.metric = a.metric
<1>1. a.attempts \in Nat /\ a.effective \in Nat /\ AttemptFactor * b \in Nat
  BY ComparisonTypes, Products
<1>2. "done" \in Flight \cup Rest
  BY DEF Rest
<1>3. /\ new \in Comparisons /\ new.pc = "done" /\ new.metric = a.metric /\ new.task = a.task
      /\ new.strat = a.strat /\ new.effective = a.effective /\ new.attempts = a.attempts
      /\ new.rows = a.rows
  BY <1>2 DEF Comparisons
<1>4. Fair(b, a.rows[a.task])
  BY <1>1 DEF RunOK, CountsOK, Fair
<1>5. \A k \in 1..Len(ms) : Fair(b, new.rows[k])
  BY <1>3, <1>4 DEF RunOK
<1>6. UnderWay(ms[new.task], d, new, new.rows[new.task])
  BY <1>3 DEF RunOK, UnderWay, Rest
<1>7. CountsOK(b, new, new.rows[new.task])
  BY <1>3 DEF RunOK, CountsOK, Flight
<1> QED
  BY <1>3, <1>5, <1>6, <1>7 DEF RunOK

LEMMA EndTaskKeeps ==
  ASSUME CompareInv, NEW r \in Runs, EndTask(r)
  PROVE  CompareInv'
<1> DEFINE b == Budget(r)
           ms == Methods(r)
<1>1. /\ ms \in Seq(Strategies) /\ b \in Nat \ {0} /\ b \in Nat /\ run[r] \in Comparisons
      /\ RunOK(b, ms, domain, run[r])
      /\ TrialOK(domain, run[r], configs[Place(r)], models[Place(r)]) /\ run \in [Runs -> Comparisons]
  BY StateTypes
<1>2. PICK a : a = run[r]
  OBVIOUS
<1>3. /\ a.pc = "suggest" /\ ~(a.effective < b /\ a.attempts < AttemptFactor * b)
      /\ protocol' = protocol /\ domain' = domain /\ configs' = configs /\ models' = models
      /\ run' = [run EXCEPT ![r] =
           IF a.task = Len(ms) THEN [a EXCEPT !.pc = "done"]
           ELSE [a EXCEPT !.task = a.task + 1, !.strat = NewStrategy, !.effective = 0, !.attempts = 0]]
  <2>1. run' = [run EXCEPT ![r] =
           IF run[r].task = Len(ms) THEN [run[r] EXCEPT !.pc = "done"]
           ELSE [run[r] EXCEPT !.task = run[r].task + 1, !.strat = NewStrategy, !.effective = 0,
                               !.attempts = 0]]
    BY Zenon DEF EndTask
  <2> QED
    BY <1>2, <2>1 DEF EndTask, MoreTrials
<1>4. a.metric = NoMetric /\ "done" \in Rest /\ "suggest" \in Rest
  BY <1>1, <1>2, <1>3 DEF TrialOK, Rest
<1> HIDE DEF b, ms
<1>5. CASE a.task = Len(ms)
  <2>1. PICK new : new = [a EXCEPT !.pc = "done"]
    OBVIOUS
  <2>2. new \in Comparisons /\ RunOK(b, ms, domain, new) /\ new.pc = "done" /\ new.metric = a.metric
    BY <1>1, <1>2, <1>3, <1>5, <2>1, LastTask
  <2>3. run' = [run EXCEPT ![r] = new]
    BY <1>3, <1>5, <2>1
  <2> QED
    BY <1>3, <1>4, <2>2, <2>3, RestKeeps, ZenonT(60) DEF b, ms
<1>6. CASE a.task # Len(ms)
  <2>0. PICK t \in Nat : t = a.task + 1
    BY <1>1, <1>2, ComparisonTypes
  <2>1. PICK s : s = NewStrategy
    OBVIOUS
  <2>4. PICK new : new = [a EXCEPT !.task = t, !.strat = s, !.effective = 0, !.attempts = 0]
    OBVIOUS
  <2>2. new \in Comparisons /\ RunOK(b, ms, domain, new) /\ new.pc = "suggest" /\ new.metric = a.metric
    <3>1. /\ RunOK(b, ms, domain, a) /\ a \in Comparisons /\ a.pc = "suggest"
          /\ ~(a.effective < b /\ a.attempts < AttemptFactor * b)
      BY <1>1, <1>2, <1>3
    <3>2. NextTaskOK(b, ms, domain, a, new)
      BY <1>1, <1>6, <2>0, <2>1, <2>4, <3>1, NextTask, ZenonT(40)
    <3> QED
      BY <3>2 DEF NextTaskOK
  <2>3. run' = [run EXCEPT ![r] = new]
    BY <1>3, <1>6, <2>0, <2>1, <2>4
  <2> QED
    BY <1>3, <1>4, <2>2, <2>3, RestKeeps, ZenonT(60) DEF b, ms
<1> QED
  BY <1>5, <1>6

LEMMA LeaveKeeps ==
  ASSUME CompareInv, NEW r \in Runs, Leave(r)
  PROVE  CompareInv'
<1>1. /\ protocol' = protocol /\ domain' = domain /\ configs' = configs /\ models' = models
      /\ run' = [run EXCEPT ![r] = Gone(r)]
  BY DEF Leave
<1>2. PICK new : new = Gone(r)
  OBVIOUS
<1>3. /\ new \in Comparisons /\ RunOK(Budget(r), Methods(r), domain, new)
      /\ new.pc \in {"suggest", "left"} /\ new.metric = NoMetric
  BY <1>2, BeginsAreOK DEF CompareInv
<1>4. new.pc \in Rest /\ run' = [run EXCEPT ![r] = new]
  BY <1>1, <1>2, <1>3 DEF Rest
<1> HIDE DEF CompareInv
<1> QED
  BY <1>1, <1>3, <1>4, RestKeeps

LEMMA FitTimesOutKeeps ==
  ASSUME CompareInv, NEW r \in Runs, FitTimesOut(r)
  PROVE  CompareInv'
<1>1. /\ run[r] \in Comparisons /\ TrialOK(domain, run[r], configs[Place(r)], models[Place(r)])
  BY StateTypes
<1>2. /\ run[r].pc = "fit" /\ Record(r, run[r], TRUE) /\ protocol' = protocol /\ domain' = domain
      /\ configs' = configs /\ models' = models
  BY DEF FitTimesOut
<1>3. run[r].metric = NoMetric /\ domain = "synthetic" /\ run[r].pc \in Flight
  BY <1>1, <1>2 DEF TrialOK, Flight
<1>4. SameTrial(run[r], run[r])
  BY DEF SameTrial
<1> HIDE DEF CompareInv
<1> QED
  BY <1>1, <1>2, <1>3, <1>4, RecordKeeps

\* A model written into place p by somebody else.
LEMMA IntrudeKeeps ==
  ASSUME CompareInv, NEW p \in Places, NEW c \in Accepted, Score[c] # NoMetric, Intrude(p, c)
  PROVE  CompareInv'
<1>1. /\ protocol' = protocol /\ domain' = domain /\ configs' = configs
      /\ models' = [models EXCEPT ![p] = c]
  BY DEF Intrude
<1>2. /\ run \in [Runs -> Comparisons] /\ configs \in [Places -> Candidates]
      /\ models \in [Places -> Candidates]
  BY DEF CompareInv
<1>3. ASSUME NEW q \in Runs
      PROVE  Flagged(run[q], run'[q]) /\ (run[q].pc \in Working /\ Place(q) = p => run'[q].shared)
  <2>1. CASE run[q].pc \in Working /\ Place(q) = p
    <3>1. PICK b : b = [run[q] EXCEPT !.shared = TRUE]
      OBVIOUS
    <3>2. run'[q] = b
      BY <2>1, <3>1 DEF Intrude
    <3> QED
      BY <1>2, <3>1, <3>2, FlaggedIs
  <2>2. CASE ~(run[q].pc \in Working /\ Place(q) = p)
    <3>1. run'[q] = run[q]
      BY <2>2 DEF Intrude
    <3> QED
      BY <1>2, <2>2, <3>1, FlaggedSelf
  <2> QED
    BY <2>1, <2>2
<1>4. run' \in [Runs -> Comparisons]
  <2>1. run' = [q \in Runs |-> run'[q]]
    BY DEF Intrude
  <2>2. \A q \in Runs : run'[q] \in Comparisons
    BY <1>3 DEF Flagged
  <2> QED
    BY <2>1, <2>2
<1>5. \A q \in Runs : Methods(q)' = Methods(q) /\ Budget(q)' = Budget(q)
  BY <1>1 DEF Methods, Budget
<1>6. Places' = Places
  BY <1>5 DEF Places
<1>7. \A q \in Runs : Place(q)' = Place(q)
  <2>1. \A q \in Runs : run'[q].task = run[q].task /\ run'[q].effective = run[q].effective
    BY <1>3 DEF Flagged, SameTrial
  <2> QED
    BY <1>1, <2>1, PlaceKept
<1>8. /\ models' \in [Places -> Candidates] /\ models'[p] = c
      /\ \A o \in Places \ {p} : models'[o] = models[o]
  BY <1>1, <1>2, ProposalsAre
<1>9. ASSUME NEW q \in Runs
      PROVE  RunOK(Budget(q), Methods(q), domain, run'[q])
  <2>1. SameTrial(run[q], run'[q]) /\ run'[q].pc = run[q].pc /\ run'[q] \in Comparisons
    BY <1>3 DEF Flagged
  <2>2. /\ RunOK(Budget(q), Methods(q), domain, run[q]) /\ run[q] \in Comparisons
        /\ Methods(q) \in Seq(Strategies) /\ Budget(q) \in Nat
    BY StateTypes
  <2> QED
    BY <2>1, <2>2, SameRun
<1>10. ASSUME NEW q \in Runs
       PROVE  TrialOK(domain, run'[q], configs[Place(q)], models'[Place(q)])
  <2>1. TrialOK(domain, run[q], configs[Place(q)], models[Place(q)]) /\ run[q] \in Comparisons
    BY StateTypes
  <2>2. run[q].pc \in {"verify", "evaluate"} => run[q].pc \in Working /\ Place(q) \in Places
    BY PlaceIn DEF Flight, Working
  <2>3. run[q].pc \in {"verify", "evaluate"} =>
          \/ models'[Place(q)] = models[Place(q)]
          \/ models'[Place(q)] \in Accepted /\ Score[models'[Place(q)]] # NoMetric /\ run'[q].shared
    BY <1>3, <1>8, <2>2
  <2> QED
    BY <1>3, <2>1, <2>3, TrialKept
<1>11. Overlap'
  <2>1. ASSUME NEW q \in Runs, NEW r \in Runs, q # r, run'[q].pc \in Working,
               run'[r].pc \in Working, Place(q)' = Place(r)'
        PROVE  run'[r].shared
    <3>1. run[q].pc \in Working /\ run[r].pc \in Working /\ Place(q) = Place(r)
      BY <1>3, <1>7, <2>1 DEF Flagged
    <3>2. run[r].shared
      BY <2>1, <3>1 DEF CompareInv, Overlap
    <3> QED
      BY <1>3, <3>2 DEF Flagged
  <2> QED
    BY <2>1 DEF Overlap
<1>12. protocol' \in Protocols /\ domain' \in {"nonlinear", "synthetic"}
  BY <1>1 DEF CompareInv
<1>13. \A q \in Runs : RunOK(Budget(q)', Methods(q)', domain', run'[q])
  BY <1>1, <1>5, <1>9
<1>14. \A q \in Runs : TrialOK(domain', run'[q], configs'[Place(q)'], models'[Place(q)'])
  BY <1>1, <1>7, <1>10
<1>15. configs' \in [Places' -> Candidates] /\ models' \in [Places' -> Candidates]
  BY <1>1, <1>2, <1>6, <1>8
<1> QED
  BY <1>4, <1>11, <1>12, <1>13, <1>14, <1>15 DEF CompareInv

LEMMA ElsewhereIs ==
  ASSUME LateOK, Elsewhere
  PROVE  \E p \in Places, c \in Accepted : Score[c] # NoMetric /\ Intrude(p, c)
<1>1. CASE \E t \in late : LateEnd(t)
  BY <1>1 DEF LateOK, LateEnd
<1>2. CASE \E c \in OtherModels : OtherFit(c)
  <2>1. <<"global">> \in Places
    BY DEF Places
  <2> HIDE DEF Places
  <2> QED
    BY <1>2, <2>1, CompareAssumption DEF OtherFit
<1> QED
  BY <1>1, <1>2 DEF Elsewhere

\* What is known of a tool that is given up.
LEMMA GivenUpIs ==
  ASSUME CompareInv, LateOK, NEW r \in Runs, GivenUp(r), protocol' = protocol
  PROVE  LateOK'
<1>1. Places' = Places
  BY DEF Places, Methods, Budget
<1>2. PICK t : t = Thread(r)
  OBVIOUS
<1>3. /\ run[r].pc \in {"fit", "training"} /\ Score[t.cand] # NoMetric /\ late' = late \cup {t}
  BY <1>2 DEF GivenUp
<1>4. TrialOK(domain, run[r], configs[Place(r)], models[Place(r)])
  BY StateTypes
<1>5. /\ t.by = r /\ t.place = Place(r)
      /\ t.cand = IF domain = "synthetic" THEN run[r].cand ELSE run[r].trained
  BY <1>2 DEF Thread
<1>6. t.cand \in Accepted
  BY <1>3, <1>4, <1>5 DEF TrialOK, Flight
<1>7. t.place \in Places
  BY <1>3, <1>5, PlaceIn DEF Flight
<1> HIDE DEF Places
<1> QED
  BY <1>1, <1>3, <1>5, <1>6, <1>7 DEF LateOK

LEMMA LateKeeps ==
  ASSUME CompareInv, LateOK, [Next]_vars
  PROVE  LateOK'
<1>1. protocol' = protocol
  BY ZenonT(40) DEF Next, Finished, vars, Suggest, Configure, StartTraining, EndTraining, Verify, Fit, Evaluate,
         EndTask, Leave, FitTimesOut, Elsewhere, LateEnd, OtherFit, Intrude
<1>2. late' \subseteq late \/ \E r \in Runs : GivenUp(r)
  BY DEF Next, Finished, vars, Suggest, Configure, StartTraining, EndTraining, Verify, Fit, Evaluate,
         EndTask, Leave, FitTimesOut, Elsewhere, LateEnd, OtherFit
<1>3. CASE late' \subseteq late
  <2>1. Places' = Places
    BY <1>1 DEF Places, Methods, Budget
  <2> HIDE DEF Places
  <2> QED
    BY <1>3, <2>1 DEF LateOK
<1>4. CASE \E r \in Runs : GivenUp(r)
  BY <1>1, <1>4, GivenUpIs
<1> QED
  BY <1>2, <1>3, <1>4, ZenonT(40)

LEMMA CompareSteps ==
  ASSUME CompareInv, LateOK, [Next]_vars
  PROVE  CompareInv'
<1>1. ASSUME NEW r \in Runs,
             \/ Suggest(r) \/ Configure(r) \/ StartTraining(r) \/ EndTraining(r) \/ Verify(r)
             \/ Fit(r) \/ Evaluate(r) \/ EndTask(r) \/ Leave(r) \/ FitTimesOut(r)
      PROVE  CompareInv'
  <2>1. CASE Suggest(r)
    BY <2>1, SuggestKeeps
  <2>2. CASE Configure(r)
    BY <2>2, ConfigureKeeps
  <2>3. CASE StartTraining(r)
    BY <2>3, StartTrainingKeeps
  <2>4. CASE EndTraining(r)
    BY <2>4, EndTrainingKeeps
  <2>5. CASE Verify(r)
    BY <2>5, VerifyKeeps
  <2>6. CASE Fit(r)
    BY <2>6, FitKeeps
  <2>7. CASE Evaluate(r)
    BY <2>7, EvaluateKeeps
  <2>8. CASE EndTask(r)
    BY <2>8, EndTaskKeeps
  <2>9. CASE Leave(r)
    BY <2>9, LeaveKeeps
  <2>10. CASE FitTimesOut(r)
    BY <2>10, FitTimesOutKeeps
  <2> QED
    BY <1>1, <2>1, <2>2, <2>3, <2>4, <2>5, <2>6, <2>7, <2>8, <2>9, <2>10
<1>2. CASE UNCHANGED vars
  <2>1. /\ protocol' = protocol /\ domain' = domain /\ configs' = configs
        /\ models' = models /\ run' = run
    BY <1>2 DEF vars
  <2>2. Places' = Places /\ \A r \in Runs : Place(r)' = Place(r)
    BY <2>1 DEF Places, Place, Method, Methods, Budget
  <2>3. \A r \in Runs : Methods(r)' = Methods(r) /\ Budget(r)' = Budget(r)
    BY <2>1 DEF Methods, Budget
  <2>4. Overlap'
    BY <2>1, <2>2 DEF CompareInv, Overlap
  <2> QED
    BY <2>1, <2>2, <2>3, <2>4 DEF CompareInv
<1>3. CASE Elsewhere
  BY <1>3, ElsewhereIs, IntrudeKeeps
<1> QED
  BY <1>1, <1>2, <1>3 DEF Next, Finished

\* The inductive invariant: what is known of every method's rows, of what a
\* strategy remembers of them, of the trial under way, of the places that
\* trials share and of the tools given up, whatever the comparisons
\* (compare_runner.py:333, tools.py:216).
THEOREM CompareAlways == Spec => [](CompareInv /\ LateOK)
<1>1. Init => CompareInv /\ LateOK
  BY CompareStarts DEF Init, LateOK
<1>2. (CompareInv /\ LateOK) /\ [Next]_vars => (CompareInv /\ LateOK)'
  BY CompareSteps, LateKeeps
<1> QED
  BY <1>1, <1>2, PTL DEF Spec

-----------------------------------------------------------------------------
(* Fair trials *)

LEMMA RunFacts ==
  ASSUME CompareInv, NEW r \in Runs, NEW k \in DOMAIN Methods(r)
  PROVE  /\ k \in 1..Len(Methods(r)) /\ run[r].rows \in Seq(Seq(Rows))
         /\ run[r].rows[k] \in Seq(Rows) /\ DOMAIN run[r].rows[k] = 1..Len(run[r].rows[k])
         /\ HistoryOK(Methods(r)[k], domain, run[r].rows[k])
         /\ \A j \in 1..Len(run[r].rows[k]) : run[r].rows[k][j] \in Rows
<1>1. /\ Methods(r) \in Seq(Strategies) /\ run[r] \in Comparisons
      /\ RunOK(Budget(r), Methods(r), domain, run[r])
  BY StateTypes
<1>2. k \in 1..Len(Methods(r))
  BY <1>1
<1>3. PICK rows \in Seq(Seq(Rows)) : rows = run[r].rows
  BY <1>1, ComparisonTypes
<1>4. k \in 1..Len(rows) /\ HistoryOK(Methods(r)[k], domain, rows[k])
  BY <1>1, <1>2, <1>3 DEF RunOK
<1>5. PICK own \in Seq(Rows) : own = rows[k]
  BY <1>4, RowsAt
<1>6. DOMAIN own = 1..Len(own) /\ \A j \in 1..Len(own) : own[j] \in Rows
  OBVIOUS
<1> QED
  BY <1>2, <1>3, <1>4, <1>5, <1>6

LEMMA TypeOKHolds ==
  ASSUME CompareInv, LateOK
  PROVE  TypeOK
<1>1. ASSUME NEW r \in Runs
      PROVE  /\ run[r].pc \in Executing \cup {"suggest", "done", "left"}
             /\ run[r].task \in DOMAIN Methods(r)
             /\ run[r].effective \in 0..Budget(r) /\ run[r].effective <= run[r].attempts
             /\ run[r].attempts <= AttemptFactor * Budget(r)
             /\ Len(History(r)) = run[r].attempts
             /\ run[r].cand \in Candidates /\ run[r].trained \in Candidates
             /\ run[r].strat.types \subseteq Types /\ run[r].strat.seen \subseteq Candidates
  <2>1. /\ Methods(r) \in Seq(Strategies) /\ Budget(r) \in Nat /\ run[r] \in Comparisons
        /\ RunOK(Budget(r), Methods(r), domain, run[r])
    BY StateTypes
  <2>2. /\ run[r].pc \in Flight \cup Rest /\ run[r].effective \in Nat /\ run[r].attempts \in Nat
        /\ run[r].cand \in Candidates /\ run[r].trained \in Candidates /\ run[r].strat \in Memories
    BY <2>1, ComparisonTypes
  <2>3. run[r].strat.types \subseteq Types /\ run[r].strat.seen \subseteq Candidates
    BY <2>2, MemoryTypes
  <2>4. run[r].task \in 1..Len(Methods(r)) /\ CountsOK(Budget(r), run[r], History(r))
    BY <2>1 DEF RunOK, History
  <2>5. run[r].task \in DOMAIN Methods(r)
    BY <2>1, <2>4
  <2>6. run[r].pc \in Executing \cup {"suggest", "done", "left"}
    BY <2>2 DEF Flight, Rest, Executing
  <2> QED
    BY <2>1, <2>2, <2>3, <2>4, <2>5, <2>6 DEF CountsOK
<1> QED
  BY <1>1 DEF TypeOK, CompareInv, LateOK

LEMMA TrialsFairHolds ==
  ASSUME CompareInv, LateOK
  PROVE  TrialsFair
<1>1. BudgetIsFair
  <2>1. ASSUME NEW r \in Runs, NEW k \in DOMAIN Methods(r), run[r].pc = "done" \/ run[r].task > k
        PROVE  LET own == run[r].rows[k]
                   trials == {j \in DOMAIN own : ~own[j].rejected \/ own[j].failed}
               IN  Cardinality(trials) = Budget(r) \/ Len(own) = AttemptFactor * Budget(r)
    <3>1. RunOK(Budget(r), Methods(r), domain, run[r]) /\ run[r].task \in Nat
      BY StateTypes, ComparisonTypes
    <3>2. k \in 1..Len(Methods(r))
      BY RunFacts
    <3>3. Fair(Budget(r), run[r].rows[k])
      BY <2>1, <3>1, <3>2 DEF RunOK
    <3> QED
      BY <3>3 DEF Fair, Trials, Trial
  <2> QED
    BY <2>1 DEF BudgetIsFair
<1>2. RunIdsExplained
  <2>1. ASSUME NEW r \in Runs, NEW k \in DOMAIN Methods(r),
               NEW i \in DOMAIN run[r].rows[k], NEW j \in DOMAIN run[r].rows[k],
               i < j, run[r].rows[k][i].id = run[r].rows[k][j].id
        PROVE  \/ run[r].rows[k][i].rejected /\ ~run[r].rows[k][i].failed
               \/ run[r].rows[k][j].rejected /\ ~run[r].rows[k][j].failed
    <3>1. PICK own : own = run[r].rows[k]
      OBVIOUS
    <3>2. DOMAIN own = 1..Len(own) /\ own \in Seq(Rows) /\ HistoryOK(Methods(r)[k], domain, own)
      BY <3>1, RunFacts
    <3>3. i \in 1..Len(own) /\ j \in 1..Len(own)
      BY <2>1, <3>1, <3>2
    <3>4. (Trial(own[i]) => own[i].id = i - 1) /\ (Trial(own[j]) => own[j].id = j - 1)
      BY <3>2, <3>3 DEF HistoryOK
    <3>5. ~(Trial(own[i]) /\ Trial(own[j]))
      BY <2>1, <3>1, <3>3, <3>4
    <3> QED
      BY <3>1, <3>5 DEF Trial
  <2> QED
    BY <2>1 DEF RunIdsExplained
<1>3. MetricIsOwn
  <2>1. ASSUME NEW r \in Runs, NEW k \in DOMAIN Methods(r), NEW j \in DOMAIN run[r].rows[k]
        PROVE  RowOK(run[r].rows[k][j])
    BY RunFacts DEF HistoryOK
  <2> QED
    BY <2>1 DEF MetricIsOwn, RowOK
<1> QED
  BY <1>1, <1>2, <1>3, TypeOKHolds DEF TrialsFair

\* Every method of every comparison gets its whole budget of trials or uses up
\* the attempts, executed trials have run_ids of their own, and a row's metric
\* and hash are its candidate's unless, while its trial was at work, another
\* comparison's trial, a tool given up or another run wrote in the same place
\* (compare_runner.py:438, 447, 337, tools.py:216, server.py:1187).
THEOREM TrialsAlwaysFair == Spec => []TrialsFair
<1>1. CompareInv /\ LateOK => TrialsFair
  BY TrialsFairHolds
<1> QED
  BY <1>1, CompareAlways, PTL

-----------------------------------------------------------------------------
(* What strategies learn *)

LEMMA StrategiesLearnHolds ==
  ASSUME CompareInv
  PROVE  StrategiesLearn
<1>1. ASSUME NEW r \in Runs, NEW k \in DOMAIN Methods(r), NEW j \in DOMAIN run[r].rows[k]
      PROVE  MayFollow(Methods(r)[k], domain, run[r].rows[k], j - 1, run[r].rows[k][j].cand,
                       run[r].rows[k][j].how)
  BY RunFacts DEF HistoryOK
<1>2. ASSUME NEW r \in Runs, NEW k \in DOMAIN Methods(r),
             NEW i \in DOMAIN run[r].rows[k], NEW j \in DOMAIN run[r].rows[k], i < j
      PROVE  i \in 1..j - 1
  BY <1>2, RunFacts
<1>3. FailedTypesAvoided
  BY <1>1, <1>2 DEF FailedTypesAvoided, MayFollow
<1>4. RepeatsExplained
  <2>1. ASSUME NEW r \in Runs, NEW k \in DOMAIN Methods(r),
               Methods(r)[k] \in Simulated \cup {"random_search"}, NEW j \in DOMAIN run[r].rows[k]
        PROVE  /\ run[r].rows[k][j].how = "exhausted" <=> run[r].rows[k][j].cand = Empty
               /\ \A i \in 1..j - 1 :
                    /\ run[r].rows[k][i].how = "exhausted" => run[r].rows[k][j].how = "exhausted"
                    /\ run[r].rows[k][i].cand = run[r].rows[k][j].cand =>
                         \/ run[r].rows[k][j].how \in {"exhausted", "fallback"}
                         \/ run[r].rows[k][i].how = "fallback"
    BY <1>1, <2>1 DEF MayFollow
  <2> QED
    BY <1>2, <2>1 DEF RepeatsExplained
<1>5. ToldExplained
  <2>1. ASSUME NEW r \in Runs, NEW j \in DOMAIN run[r].strat.told, run[r].strat.told[j] # Untold
        PROVE  ToldOf(domain, run[r].strat.told[j], History(r)[j])
    <3>1. RunOK(Budget(r), Methods(r), domain, run[r]) /\ run[r].strat \in Memories
      BY StateTypes, ComparisonTypes
    <3>2. PICK told \in Seq(Int) : told = run[r].strat.told
      BY <3>1, MemoryTypes
    <3>3. j \in 1..Len(told)
      BY <2>1, <3>2
    <3>4. PICK n : StudyOK(Methods(r)[run[r].task], domain, run[r].strat, History(r), n)
      BY <3>1 DEF RunOK, UnderWay, MemoryOK, History
    <3>5. IF j <= Len(History(r)) THEN ToldOf(domain, told[j], History(r)[j]) ELSE told[j] = Untold
      BY <3>2, <3>3, <3>4 DEF StudyOK
    <3> QED
      BY <2>1, <3>2, <3>5
  <2> QED
    BY <2>1 DEF ToldExplained, ToldOf
<1> QED
  BY <1>3, <1>4, <1>5 DEF StrategiesLearn

\* Whatever is drawn or replied, a strategy comes back to a failed type or an
\* old candidate, and its study is told a metric, only as explained
\* (compare_runner.py:285, random_search.py:43, optuna_search.py:91).
THEOREM StrategiesAlwaysLearn == Spec => []StrategiesLearn
<1>1. CompareInv => StrategiesLearn
  BY StrategiesLearnHolds
<1> QED
  BY <1>1, CompareAlways, PTL

-----------------------------------------------------------------------------
(* The summary *)

\* The best value of one method and seed.
LEMMA BestIs ==
  ASSUME NEW d \in {"nonlinear", "synthetic"}, NEW own \in Seq(Rows), NEW m, m = Measured(d, own),
         NEW best, best = MethodStats(d, own).best
  PROVE  /\ best = NoMetric <=> m = {}
         /\ best = NotANumber =>
              \E j \in m : Value(d, own[j]) = NotANumber /\ \A i \in m : j <= i
         /\ best \notin {NoMetric, NotANumber} =>
              /\ \E j \in m : best = Value(d, own[j])
              /\ \A j \in m : Value(d, own[j]) # NotANumber => best <= Value(d, own[j])
<1> DEFINE key == [j \in DOMAIN own |-> Value(d, own[j])]
<1>1. DOMAIN own = 1..Len(own) /\ Len(own) \in Nat /\ \A j \in 1..Len(own) : own[j] \in Rows
  OBVIOUS
<1>2. m \in SUBSET 1..Len(own) /\ \A j \in m : Value(d, own[j]) # NoMetric
  BY <1>1 DEF Measured
<1>3. \A j \in m : key[j] = Value(d, own[j]) /\ key[j] \in Int
  BY <1>1, <1>2, RowTypes DEF Value
<1>4. best = IF m = {} THEN NoMetric ELSE Value(d, own[First(m, key)])
  BY DEF MethodStats, Best
<1>5. NoMetric # NotANumber
  BY DEF NoMetric, NotANumber
<1>6. CASE m = {}
  BY <1>4, <1>5, <1>6
<1>7. CASE m # {}
  <2> HIDE DEF key
  <2>1. PICK f : f = First(m, key)
    OBVIOUS
  <2>2. /\ f \in m
        /\ key[Min(m)] = NotANumber => key[f] = NotANumber
        /\ key[Min(m)] # NotANumber =>
             /\ key[f] # NotANumber
             /\ \A j \in m : key[j] # NotANumber => key[f] <= key[j]
    BY <1>1, <1>2, <1>3, <1>7, <2>1, FirstIs
  <2>3. Min(m) \in m /\ \A i \in m : Min(m) <= i
    BY <1>2, <1>7, MinOfPositions
  <2>4. best = key[f] /\ best # NoMetric
    BY <1>2, <1>3, <1>4, <1>7, <2>1, <2>2
  <2>5. best = NotANumber => key[Min(m)] = NotANumber
    BY <2>2, <2>4
  <2>6. best # NotANumber => \A j \in m : key[j] # NotANumber => best <= key[j]
    BY <2>2, <2>4
  <2> QED
    BY <1>3, <1>7, <2>2, <2>3, <2>4, <2>5, <2>6
<1> QED
  BY <1>6, <1>7

\* The rates of one method and seed.
LEMMA RatesAre ==
  ASSUME NEW d, NEW own \in Seq(Rows), NEW stats, stats = MethodStats(d, own)
  PROVE  /\ stats.hits <= stats.effective
         /\ stats.failed > stats.effective => \E j \in DOMAIN own : own[j].rejected /\ own[j].failed
<1> DEFINE E == {j \in DOMAIN own : ~own[j].rejected}
           F == {j \in DOMAIN own : own[j].failed}
           H == {j \in DOMAIN own : ~own[j].rejected /\ own[j].hit}
<1>1. IsFiniteSet(DOMAIN own)
  BY FS_Interval
<1>2. E \subseteq DOMAIN own /\ H \subseteq E /\ F \subseteq DOMAIN own
  OBVIOUS
<1>3. (~ \E j \in DOMAIN own : own[j].rejected /\ own[j].failed) => F \subseteq E
  OBVIOUS
<1>4. stats.effective = Cardinality(E) /\ stats.failed = Cardinality(F) /\ stats.hits = Cardinality(H)
  BY DEF MethodStats
<1> HIDE DEF E, F, H
<1>5. IsFiniteSet(E) /\ IsFiniteSet(F)
  BY <1>1, <1>2, FS_Subset
<1>6. /\ Cardinality(E) \in Nat /\ Cardinality(F) \in Nat
      /\ Cardinality(H) \in Nat /\ Cardinality(H) <= Cardinality(E)
  BY <1>2, <1>5, FS_Subset, FS_CardinalityType
<1>7. F \subseteq E => Cardinality(F) <= Cardinality(E)
  BY <1>5, FS_Subset
<1> QED
  BY <1>3, <1>4, <1>6, <1>7

LEMMA SummaryHolds ==
  ASSUME CompareInv
  PROVE  SummaryExplained
<1>1. domain \in {"nonlinear", "synthetic"}
  BY DEF CompareInv
<1>2. BestExplained
  <2>1. ASSUME NEW r \in Runs, NEW k \in DOMAIN Methods(r)
        PROVE  LET own == run[r].rows[k]
                   m == Measured(domain, own)
                   best == MethodStats(domain, own).best
               IN  /\ best = NoMetric <=> m = {}
                   /\ best = NotANumber =>
                        \E j \in m : Value(domain, own[j]) = NotANumber /\ \A i \in m : j <= i
                   /\ best \notin {NoMetric, NotANumber} =>
                        /\ \E j \in m : best = Value(domain, own[j])
                        /\ \A j \in m : Value(domain, own[j]) # NotANumber => best <= Value(domain, own[j])
    <3>1. PICK own \in Seq(Rows) : own = run[r].rows[k]
      BY RunFacts
    <3>2. PICK m : m = Measured(domain, own)
      OBVIOUS
    <3>3. PICK best : best = MethodStats(domain, own).best
      OBVIOUS
    <3>4. /\ best = NoMetric <=> m = {}
          /\ best = NotANumber =>
               \E j \in m : Value(domain, own[j]) = NotANumber /\ \A i \in m : j <= i
          /\ best \notin {NoMetric, NotANumber} =>
               /\ \E j \in m : best = Value(domain, own[j])
               /\ \A j \in m : Value(domain, own[j]) # NotANumber => best <= Value(domain, own[j])
      BY <1>1, <3>2, <3>3, BestIs
    <3> QED
      BY <3>1, <3>2, <3>3, <3>4, Zenon
  <2> QED
    BY <2>1 DEF BestExplained
<1>3. RatesExplained
  <2>1. ASSUME NEW r \in Runs, NEW k \in DOMAIN Methods(r)
        PROVE  LET own == run[r].rows[k]
                   stats == MethodStats(domain, own)
               IN  /\ stats.hits <= stats.effective
                   /\ stats.failed > stats.effective =>
                        \E j \in DOMAIN own : own[j].rejected /\ own[j].failed
    <3>1. PICK own \in Seq(Rows) : own = run[r].rows[k]
      BY RunFacts
    <3>2. PICK stats : stats = MethodStats(domain, own)
      OBVIOUS
    <3>3. /\ stats.hits <= stats.effective
          /\ stats.failed > stats.effective => \E j \in DOMAIN own : own[j].rejected /\ own[j].failed
      BY <3>2, RatesAre
    <3> QED
      BY <3>1, <3>2, <3>3, Zenon
  <2> QED
    BY <2>1 DEF RatesExplained
<1>4. TokensExplained
  <2>1. ASSUME NEW r \in Runs, Method(r) = "real_llm", run[r].pc \in {"suggest", "done"}
        PROVE  /\ run[r].strat.billed < run[r].strat.calls =>
                    \E j \in DOMAIN History(r) : History(r)[j].answered > 1
               /\ run[r].strat.billed > run[r].strat.calls =>
                    \E j \in DOMAIN History(r) : History(r)[j].answered = 0
    <3>1. /\ RunOK(Budget(r), Methods(r), domain, run[r]) /\ run[r].strat \in Memories
          /\ Methods(r) \in Seq(Strategies)
      BY StateTypes, ComparisonTypes
    <3>2. run[r].pc \in Rest
      BY <2>1 DEF Rest
    <3>3. BillOK(Method(r), run[r].strat, History(r), 0)
      BY <3>1, <3>2 DEF RunOK, UnderWay, MemoryOK, Method, History
    <3>4. run[r].strat.calls - 0 = run[r].strat.calls
      BY <3>1, MemoryTypes
    <3>5. DOMAIN History(r) = 1..Len(History(r))
      <4>1. run[r].task \in DOMAIN Methods(r)
        BY <3>1 DEF RunOK
      <4> QED
        BY <4>1, RunFacts DEF History
    <3> QED
      BY <2>1, <3>3, <3>4, <3>5 DEF BillOK
  <2> QED
    BY <2>1 DEF TokensExplained
<1> QED
  BY <1>2, <1>3, <1>4 DEF SummaryExplained

\* The best value, the rates and the tokens a comparison reports follow from
\* its rows, but for the named exceptions (compare_runner.py:262,
\* evaluation_statistics.py:172, llm_search.py:166).
THEOREM SummaryAlwaysExplained == Spec => []SummaryExplained
<1>1. CompareInv => SummaryExplained
  BY SummaryHolds
<1> QED
  BY <1>1, CompareAlways, PTL

-----------------------------------------------------------------------------
(* Every comparison ends *)

\* What a comparison of n methods with budget b has left to do.
LeftOf(b, n, me) ==
  IF me.pc \in {"done", "left"} THEN 0
  ELSE 8 * (AttemptFactor * b * (1 + n - me.task) - me.attempts) + 8 * (n - me.task) + Weight(me.pc)

LEMMA LeftIs ==
  ASSUME NEW r \in Runs
  PROVE  Left(r) = LeftOf(Budget(r), Len(Methods(r)), run[r])
BY DEF Left, LeftOf, Ended

\* Comparison a, one step nearer to its end, is c.
Advances(a, c) ==
  /\ a.pc \notin {"done", "left"}
  /\ \/ c.pc \in {"done", "left"}
     \/ c.task = a.task /\ c.attempts = a.attempts + 1 /\ c.pc = "suggest"
     \/ a.pc = "suggest" /\ c.pc = "suggest" /\ c.task = a.task + 1 /\ c.attempts = 0
     \/ c.task = a.task /\ c.attempts = a.attempts /\ Weight(c.pc) < Weight(a.pc)

SameWork(a, c) == c.pc = a.pc /\ c.task = a.task /\ c.attempts = a.attempts

LEMMA WeightIs ==
  ASSUME NEW pc \in Flight \cup Rest, pc \notin {"done", "left"}
  PROVE  Weight(pc) \in 1..7
BY DEF Weight, Flight, Rest

LEMMA ProductStep ==
  ASSUME NEW x \in Nat, NEW y \in Nat
  PROVE  x * y \in Nat /\ x * (1 + y) = x * y + x
OBVIOUS

\* Tasks and attempts in their bounds leave a natural number.
LEMMA LeftNat ==
  ASSUME NEW b \in Nat, NEW n \in Nat, NEW a \in Comparisons, a.task \in 1..n,
         a.attempts <= AttemptFactor * b
  PROVE  /\ LeftOf(b, n, a) \in Nat
         /\ a.pc \notin {"done", "left"} =>
              /\ LeftOf(b, n, a) > 0
              /\ LeftOf(b, n, a) = 8 * (AttemptFactor * b * (n - a.task) + AttemptFactor * b - a.attempts)
                                   + 8 * (n - a.task) + Weight(a.pc)
              /\ AttemptFactor * b * (n - a.task) \in Nat
<1>1. PICK x \in Nat : x = AttemptFactor * b
  BY Products
<1>2. PICK y \in Nat : y = n - a.task
  OBVIOUS
<1>3. /\ x * y \in Nat /\ x * (1 + y) = x * y + x
  BY ProductStep
<1>4. a.attempts \in Nat /\ a.task \in Nat /\ a.pc \in Flight \cup Rest
  BY ComparisonTypes
<1>5. CASE a.pc \in {"done", "left"}
  BY <1>5 DEF LeftOf
<1>6. CASE a.pc \notin {"done", "left"}
  <2>1. 1 + n - a.task = 1 + y
    BY <1>2, <1>4
  <2>2. PICK z \in 1..7 : z = Weight(a.pc)
    BY <1>4, <1>6, WeightIs
  <2>3. LeftOf(b, n, a) = 8 * (x * (1 + y) - a.attempts) + 8 * y + z
    BY <1>1, <1>2, <1>6, <2>1, <2>2 DEF LeftOf
  <2>4. PICK p \in Nat : p = x * y
    BY <1>3
  <2>5. PICK q \in Nat : q = x * (1 + y) /\ q = p + x
    BY <1>3, <2>4
  <2>6. LeftOf(b, n, a) = 8 * (q - a.attempts) + 8 * y + z
    BY <2>3, <2>5
  <2>7. LeftOf(b, n, a) = 8 * (p + x - a.attempts) + 8 * y + z
    <3>1. q = p + x
      BY <2>5
    <3> QED
      <4>1. PICK k \in Nat : k = a.attempts
        BY <1>4
      <4>2. LeftOf(b, n, a) = 8 * (q - k) + 8 * y + z
        BY <2>6, <4>1
      <4> QED
        BY <3>1, <4>1, <4>2
  <2>8. LeftOf(b, n, a) \in Nat /\ LeftOf(b, n, a) > 0
    BY <1>1, <1>4, <2>7
  <2> QED
    BY <1>1, <1>2, <1>6, <2>2, <2>4, <2>7, <2>8
<1> QED
  BY <1>5, <1>6

LEMMA LeftDecreases ==
  ASSUME NEW b \in Nat, NEW n \in Nat, NEW a \in Comparisons, NEW c \in Comparisons,
         a.task \in 1..n, a.attempts <= AttemptFactor * b,
         c.task \in 1..n, c.attempts <= AttemptFactor * b, Advances(a, c)
  PROVE  LeftOf(b, n, a) \in Nat /\ LeftOf(b, n, c) \in 0..(LeftOf(b, n, a) - 1)
<1>1. /\ a.attempts \in Nat /\ a.task \in Nat /\ c.attempts \in Nat /\ c.task \in Nat
      /\ a.pc \in Flight \cup Rest /\ c.pc \in Flight \cup Rest
  BY ComparisonTypes
<1>2. PICK x \in Nat : x = AttemptFactor * b
  BY Products
<1>3. a.pc \notin {"done", "left"}
  BY DEF Advances
<1>4. PICK p \in Nat : p = x * (n - a.task)
  BY <1>2, <1>3, LeftNat
<1>5. PICK u \in Nat : u = LeftOf(b, n, a)
  BY LeftNat
<1>6. PICK v \in Nat : v = LeftOf(b, n, c)
  BY LeftNat
<1>7. PICK w \in 1..7 : w = Weight(a.pc)
  BY <1>1, <1>3, WeightIs
<1>8. /\ u > 0
      /\ u = 8 * (p + x - a.attempts) + 8 * (n - a.task) + w
  BY <1>2, <1>3, <1>4, <1>5, <1>7, LeftNat
<1>9. CASE c.pc \in {"done", "left"}
  <2>1. v = 0
    BY <1>6, <1>9 DEF LeftOf
  <2> QED
    BY <1>5, <1>6, <1>8, <2>1
<1>10. CASE c.pc \notin {"done", "left"}
  <2>1. PICK q \in Nat : q = x * (n - c.task)
    BY <1>2, <1>10, LeftNat
  <2>2. PICK z \in 1..7 : z = Weight(c.pc)
    BY <1>1, <1>10, WeightIs
  <2>3. v = 8 * (q + x - c.attempts) + 8 * (n - c.task) + z
    BY <1>2, <1>6, <1>10, <2>1, <2>2, LeftNat
  <2>4. CASE c.task = a.task /\ c.attempts = a.attempts + 1 /\ c.pc = "suggest"
    <3>1. q = p
      BY <1>4, <2>1, <2>4
    <3>2. v = 8 * (p + x - (a.attempts + 1)) + 8 * (n - a.task) + z
      BY <2>3, <2>4, <3>1
    <3>3. v < u
      BY <1>1, <1>8, <3>2
    <3> QED
      BY <1>5, <1>6, <3>3
  <2>5. CASE a.pc = "suggest" /\ c.pc = "suggest" /\ c.task = a.task + 1 /\ c.attempts = 0
    <3>1. p = q + x
      <4>1. PICK y \in Nat : y = n - c.task
        BY <1>1
      <4>2. n - a.task = 1 + y
        BY <1>1, <2>5, <4>1
      <4> QED
        BY <1>4, <2>1, <4>1, <4>2, ProductStep
    <3>2. w = 7 /\ z = 7
      BY <1>7, <2>2, <2>5 DEF Weight
    <3>3. v = 8 * p + 8 * (n - (a.task + 1)) + 7
      BY <2>3, <2>5, <3>1, <3>2
    <3>4. v < u
      BY <1>1, <1>2, <1>8, <3>2, <3>3
    <3> QED
      BY <1>5, <1>6, <3>4
  <2>6. CASE c.task = a.task /\ c.attempts = a.attempts /\ Weight(c.pc) < Weight(a.pc)
    <3>1. q = p /\ z < w
      BY <1>4, <1>7, <2>1, <2>2, <2>6
    <3>2. v = 8 * (p + x - a.attempts) + 8 * (n - a.task) + z
      BY <2>3, <2>6, <3>1
    <3>3. v < u
      BY <1>1, <1>8, <3>1, <3>2
    <3> QED
      BY <1>5, <1>6, <3>3
  <2> QED
    BY <1>10, <2>4, <2>5, <2>6 DEF Advances
<1> QED
  BY <1>9, <1>10

\* A step of comparison r, as its measure sees it.
Goes(r) ==
  /\ protocol' = protocol /\ Advances(run[r], run'[r])
  /\ \A q \in Runs \ {r} : SameWork(run[q], run'[q])

LEMMA GoesDown ==
  ASSUME CompareInv, CompareInv', NEW r \in Runs, Goes(r)
  PROVE  /\ Left(r) \in Nat /\ Left(r)' \in 0..(Left(r) - 1)
         /\ \A q \in Runs \ {r} : Left(q)' = Left(q)
<1>1. \A q \in Runs : Methods(q)' = Methods(q) /\ Budget(q)' = Budget(q)
  BY DEF Goes, Methods, Budget
<1>2. \A q \in Runs : Left(q)' = LeftOf(Budget(q), Len(Methods(q)), run'[q])
  <2>1. ASSUME NEW q \in Runs PROVE Left(q)' = LeftOf(Budget(q)', Len(Methods(q)'), run'[q])
    BY DEF Left, LeftOf, Ended
  <2> QED
    BY <1>1, <2>1
<1>3. ASSUME NEW q \in Runs \ {r}
      PROVE  Left(q)' = Left(q)
  BY <1>2, LeftIs DEF Goes, SameWork, LeftOf
<1>4. /\ Methods(r) \in Seq(Strategies) /\ Budget(r) \in Nat /\ Len(Methods(r)) \in Nat
      /\ run[r] \in Comparisons /\ run'[r] \in Comparisons
      /\ RunOK(Budget(r), Methods(r), domain, run[r])
      /\ RunOK(Budget(r), Methods(r), domain', run'[r])
  <2>1. run[r] \in Comparisons /\ run'[r] \in Comparisons
    BY DEF CompareInv
  <2>2. RunOK(Budget(r)', Methods(r)', domain', run'[r])
    BY DEF CompareInv
  <2>3. Methods(r) \in Seq(Strategies) /\ Len(Methods(r)) \in Nat
    BY StateTypes
  <2> QED
    BY <1>1, <2>1, <2>2, <2>3, StateTypes
<1>5. /\ run[r].task \in 1..Len(Methods(r)) /\ run[r].attempts <= AttemptFactor * Budget(r)
      /\ run'[r].task \in 1..Len(Methods(r)) /\ run'[r].attempts <= AttemptFactor * Budget(r)
  BY <1>4 DEF RunOK, CountsOK
<1>6. Advances(run[r], run'[r])
  BY DEF Goes
<1>7. PICK a : a = run[r]
  OBVIOUS
<1>8. PICK b \in Nat : b = Budget(r)
  BY <1>4
<1>9. PICK n \in Nat : n = Len(Methods(r))
  BY <1>4
<1>10. /\ LeftOf(b, n, run[r]) \in Nat
       /\ LeftOf(b, n, run'[r]) \in 0..(LeftOf(b, n, run[r]) - 1)
  <2>1. ASSUME NEW c, c = run'[r]
        PROVE  LeftOf(b, n, a) \in Nat /\ LeftOf(b, n, c) \in 0..(LeftOf(b, n, a) - 1)
    BY <1>4, <1>5, <1>6, <1>7, <1>8, <1>9, <2>1, LeftDecreases
  <2> QED
    BY <1>7, <2>1
<1> QED
  BY <1>2, <1>3, <1>8, <1>9, <1>10, LeftIs

LEMMA OnlyGoes ==
  ASSUME CompareInv, NEW r \in Runs, NEW new, run' = [run EXCEPT ![r] = new],
         protocol' = protocol, Advances(run[r], new)
  PROVE  Goes(r)
<1>1. run \in [Runs -> Comparisons]
  BY DEF CompareInv
<1>2. run'[r] = new /\ \A q \in Runs \ {r} : run'[q] = run[q]
  BY <1>1
<1> QED
  BY <1>2 DEF Goes, SameWork

LEMMA MarkedGoes ==
  ASSUME CompareInv, NEW r \in Runs, NEW me \in Comparisons, run' = Marked(r, me),
         protocol' = protocol, SameTrial(run[r], me), run[r].pc \notin {"done", "left"},
         Weight(me.pc) < Weight(run[r].pc)
  PROVE  Goes(r)
<1>1. PICK runs : runs = Marked(r, me)
  OBVIOUS
<1>2. IsMarked(r, me, runs)
  BY <1>1, MarkedIs
<1>3. run'[r].pc = me.pc /\ SameTrial(me, run'[r])
  BY <1>1, <1>2 DEF IsMarked
<1>4. Advances(run[r], run'[r])
  BY <1>3 DEF Advances, SameTrial
<1>5. \A q \in Runs \ {r} : SameWork(run[q], run'[q])
  BY <1>1, <1>2 DEF IsMarked, Flagged, SameTrial, SameWork
<1> QED
  BY <1>4, <1>5 DEF Goes

LEMMA RowCounts ==
  ASSUME NEW me \in Comparisons, NEW s, NEW executed, NEW w, NEW new, new = AddRow(me, s, executed, w)
  PROVE  new.pc = "suggest" /\ new.task = me.task /\ new.attempts = me.attempts + 1
<1> DEFINE rows == [me.rows EXCEPT ![me.task] = Append(@, w)]
           e == Counted(me.effective, executed)
           a == me.attempts + 1
<1>1. new = [me EXCEPT !.pc = "suggest", !.strat = s, !.rows = rows, !.effective = e,
                       !.attempts = a, !.metric = NoMetric, !.trained = Empty, !.shared = FALSE]
  BY DEF AddRow, Attempted
<1> HIDE DEF rows, e, a
<1>2. new.pc = "suggest" /\ new.task = me.task /\ new.attempts = a
  BY <1>1, SMTT(60) DEF Comparisons
<1> QED
  BY <1>2 DEF a

LEMMA RowGoes ==
  ASSUME CompareInv, NEW r \in Runs, NEW me \in Comparisons, me.task = run[r].task,
         me.attempts = run[r].attempts, run[r].pc \notin {"done", "left"}, protocol' = protocol,
         NEW executed, NEW w, WithRow(r, me, executed, w)
  PROVE  Goes(r)
<1>1. PICK s : run' = [run EXCEPT ![r] = AddRow(me, s, executed, w)]
  BY Zenon DEF WithRow, AddRow
<1>2. PICK new : new = AddRow(me, s, executed, w)
  OBVIOUS
<1>3. new.pc = "suggest" /\ new.task = me.task /\ new.attempts = me.attempts + 1
  BY <1>2, RowCounts
<1>4. Advances(run[r], new)
  BY <1>3 DEF Advances
<1>5. run' = [run EXCEPT ![r] = new]
  BY <1>1, <1>2
<1> HIDE DEF CompareInv
<1> QED
  BY <1>4, <1>5, OnlyGoes

LEMMA RecordGoes ==
  ASSUME CompareInv, NEW r \in Runs, NEW me \in Comparisons, SameTrial(run[r], me),
         run[r].pc \notin {"done", "left"}, protocol' = protocol, NEW failed, Record(r, me, failed)
  PROVE  Goes(r)
<1>1. \E w : WithRow(r, me, TRUE, w)
  BY Zenon DEF Record
<1>2. me.task = run[r].task /\ me.attempts = run[r].attempts
  BY DEF SameTrial
<1> HIDE DEF CompareInv
<1> QED
  BY <1>1, <1>2, RowGoes

LEMMA Weights ==
  /\ Weight("suggest") = 7 /\ Weight("configure") = 6 /\ Weight("fit") = 6 /\ Weight("train") = 5
  /\ Weight("training") = 4 /\ Weight("verify") = 3 /\ Weight("evaluate") = 3
BY DEF Weight

LEMMA SuggestGoes ==
  ASSUME CompareInv, NEW r \in Runs, Suggest(r)
  PROVE  Goes(r)
<1>1. run[r].pc = "suggest" /\ protocol' = protocol /\ run[r] \in Comparisons
  BY StateTypes DEF Suggest
<1>2. PICK g \in Suggests(Method(r), domain, run[r].strat, History(r)) :
        LET me == [run[r] EXCEPT !.cand = g.cand, !.how = g.how, !.strat = g.strat,
                                 !.answered = g.answered]
        IN  \/ /\ g.cand \notin Accepted
               /\ WithRow(r, me, FALSE, [NewRow(r, me, FALSE) EXCEPT !.rejected = TRUE])
            \/ /\ g.cand \in Accepted \cap Unbuildable
               /\ WithRow(r, me, TRUE, [NewRow(r, me, TRUE) EXCEPT !.rejected = TRUE, !.failed = TRUE])
            \/ /\ g.cand \in Accepted \ Unbuildable
               /\ run' = [run EXCEPT ![r] = [me EXCEPT !.pc = FirstStep]]
  BY Zenon DEF Suggest
<1>3. PICK me : me = [run[r] EXCEPT !.cand = g.cand, !.how = g.how, !.strat = g.strat,
                                    !.answered = g.answered]
  OBVIOUS
<1>4. \/ \E executed, w : WithRow(r, me, executed, w)
      \/ run' = [run EXCEPT ![r] = [me EXCEPT !.pc = FirstStep]]
  BY <1>2, <1>3, Zenon
<1>5. me \in Comparisons /\ me.pc = "suggest" /\ me.task = run[r].task /\ me.attempts = run[r].attempts
  <2>1. Method(r) \in Strategies /\ History(r) \in Seq(Rows)
    <3>1. RunOK(Budget(r), Methods(r), domain, run[r]) /\ Methods(r) \in Seq(Strategies)
      BY StateTypes
    <3>2. run[r].task \in DOMAIN Methods(r)
      BY <3>1 DEF RunOK
    <3> QED
      BY <3>1, <3>2, RunFacts DEF Method, History
  <2>2. PICK own \in Seq(Rows) : own = History(r)
    BY <2>1
  <2>3. run[r].strat \in Memories
    BY <1>1, ComparisonTypes
  <2>4. /\ HistoryOK(Method(r), domain, own) /\ MemoryOK(Method(r), domain, run[r].strat, own, 0, 0)
    BY <1>1, <2>2, StateTypes DEF RunOK, UnderWay, Rest, Method, History
  <2>5. Proposed(Method(r), domain, own, g)
    BY <1>2, <2>1, <2>2, <2>3, <2>4, StrategiesPropose
  <2>6. g.cand \in Candidates /\ g.how \in Hows /\ g.strat \in Memories /\ g.answered \in Nat
    BY <2>5 DEF Proposed
  <2> QED
    BY <1>1, <1>3, <2>6 DEF Comparisons
<1>6. CASE \E executed, w : WithRow(r, me, executed, w)
  BY <1>1, <1>5, <1>6, RowGoes
<1>7. CASE run' = [run EXCEPT ![r] = [me EXCEPT !.pc = FirstStep]]
  <2>1. PICK new : new = [me EXCEPT !.pc = FirstStep]
    OBVIOUS
  <2>2. new.pc = FirstStep /\ new.task = me.task /\ new.attempts = me.attempts
    BY <1>5, <2>1 DEF Comparisons
  <2>3. Weight(FirstStep) = 6
    BY Weights DEF FirstStep
  <2>4. Advances(run[r], new)
    BY <1>1, <1>5, <2>2, <2>3, Weights DEF Advances
  <2>5. run' = [run EXCEPT ![r] = new]
    BY <1>7, <2>1
  <2> HIDE DEF CompareInv
  <2> QED
    BY <1>1, <2>4, <2>5, OnlyGoes
<1> QED
  BY <1>4, <1>6, <1>7

\* The steps of a trial, and the ends of a method and of a comparison.
LEMMA TrialGoes ==
  ASSUME CompareInv, NEW r \in Runs,
         \/ Configure(r) \/ StartTraining(r) \/ EndTraining(r) \/ Verify(r) \/ Fit(r) \/ Evaluate(r)
         \/ FitTimesOut(r)
  PROVE  Goes(r)
<1>1. /\ run[r] \in Comparisons /\ run \in [Runs -> Comparisons]
      /\ TrialOK(domain, run[r], configs[Place(r)], models[Place(r)])
  BY StateTypes
<1>2. SameTrial(run[r], run[r])
  BY DEF SameTrial
<1>3. CASE Configure(r)
  <2>1. PICK me : me = [run[r] EXCEPT !.pc = "train"]
    OBVIOUS
  <2>2. me \in Comparisons /\ SameTrial(run[r], me) /\ me.pc = "train"
    BY <1>1, <2>1 DEF Comparisons, SameTrial, Flight
  <2>3. run[r].pc = "configure" /\ protocol' = protocol /\ run' = Marked(r, me)
    BY <1>3, <2>1 DEF Configure
  <2> HIDE DEF CompareInv
  <2> QED
    BY <2>2, <2>3, Weights, MarkedGoes
<1>4. CASE StartTraining(r)
  <2>1. PICK new : new = [run[r] EXCEPT !.pc = "training", !.trained = configs[Place(r)]]
    OBVIOUS
  <2>2. new.pc = "training" /\ new.task = run[r].task /\ new.attempts = run[r].attempts
    BY <1>1, <2>1 DEF Comparisons
  <2>3. run[r].pc = "train" /\ protocol' = protocol /\ run' = [run EXCEPT ![r] = new]
    BY <1>1, <1>4, <2>1 DEF StartTraining
  <2>4. Advances(run[r], new)
    BY <2>2, <2>3, Weights DEF Advances
  <2> HIDE DEF CompareInv
  <2> QED
    BY <2>3, <2>4, OnlyGoes
<1>5. CASE EndTraining(r)
  <2>1. run[r].pc = "training" /\ protocol' = protocol
    BY <1>5 DEF EndTraining
  <2>2. PICK score : score = Score[run[r].trained]
    OBVIOUS
  <2>3. \/ Record(r, run[r], TRUE)
        \/ run' = [run EXCEPT ![r].pc = "verify", ![r].metric = score]
    BY <1>5, <2>2 DEF EndTraining
  <2>4. CASE Record(r, run[r], TRUE)
    BY <1>1, <1>2, <2>1, <2>4, RecordGoes
  <2>5. CASE run' = [run EXCEPT ![r].pc = "verify", ![r].metric = score]
    <3>1. PICK new : new = [run[r] EXCEPT !.pc = "verify", !.metric = score]
      OBVIOUS
    <3>2. new.pc = "verify" /\ new.task = run[r].task /\ new.attempts = run[r].attempts
      BY <1>1, <3>1 DEF Comparisons
    <3>3. run' = [run EXCEPT ![r] = new]
      BY <1>1, <2>5, <3>1
    <3>4. Advances(run[r], new)
      BY <2>1, <3>2, Weights DEF Advances
    <3> HIDE DEF CompareInv
    <3> QED
      BY <2>1, <3>3, <3>4, OnlyGoes
  <2> QED
    BY <2>3, <2>4, <2>5
<1>6. ASSUME NEW failed, NEW score \in Int, run[r].pc \notin {"done", "left"}, protocol' = protocol,
             Record(r, [run[r] EXCEPT !.metric = score], failed)
      PROVE  Goes(r)
  <2>1. PICK me : me = [run[r] EXCEPT !.metric = score]
    OBVIOUS
  <2>2. me \in Comparisons /\ SameTrial(run[r], me)
    BY <1>1, <2>1 DEF Comparisons, SameTrial
  <2>3. Record(r, me, failed)
    BY <1>6, <2>1
  <2> HIDE DEF CompareInv
  <2> QED
    BY <1>6, <2>2, <2>3, RecordGoes
<1>7. CASE Verify(r)
  <2>1. PICK score : score = Score[models[Place(r)]]
    OBVIOUS
  <2>2. /\ run[r].pc = "verify" /\ protocol' = protocol
        /\ Record(r, run[r], TRUE) \/ Record(r, [run[r] EXCEPT !.metric = score], FALSE)
    BY <1>7, <2>1 DEF Verify
  <2>3. score \in Int
    BY <1>1, <2>1, <2>2, CompareAssumption DEF TrialOK
  <2>4. CASE Record(r, run[r], TRUE)
    BY <1>1, <1>2, <2>2, <2>4, RecordGoes
  <2>5. CASE Record(r, [run[r] EXCEPT !.metric = score], FALSE)
    BY <1>6, <2>2, <2>3, <2>5
  <2> QED
    BY <2>2, <2>4, <2>5
<1>8. CASE Fit(r)
  <2>1. PICK me : me = [run[r] EXCEPT !.pc = "evaluate"]
    OBVIOUS
  <2>2. me \in Comparisons /\ SameTrial(run[r], me) /\ me.pc = "evaluate"
    BY <1>1, <2>1 DEF Comparisons, SameTrial, Flight
  <2>3. /\ run[r].pc = "fit" /\ protocol' = protocol
        /\ Record(r, run[r], TRUE) \/ run' = Marked(r, me)
    BY <1>8, <2>1 DEF Fit
  <2>4. CASE Record(r, run[r], TRUE)
    BY <1>1, <1>2, <2>3, <2>4, RecordGoes
  <2>5. CASE run' = Marked(r, me)
    BY <2>2, <2>3, <2>5, Weights, MarkedGoes
  <2> QED
    BY <2>3, <2>4, <2>5
<1>9. CASE Evaluate(r)
  <2>1. PICK score : score = Score[models[Place(r)]]
    OBVIOUS
  <2>2. /\ run[r].pc = "evaluate" /\ protocol' = protocol
        /\ Record(r, [run[r] EXCEPT !.metric = score], FALSE)
    BY <1>9, <2>1 DEF Evaluate
  <2>3. score \in Int
    BY <1>1, <2>1, <2>2, CompareAssumption DEF TrialOK
  <2> QED
    BY <1>6, <2>2, <2>3
<1>10. CASE FitTimesOut(r)
  <2>1. run[r].pc = "fit" /\ protocol' = protocol /\ Record(r, run[r], TRUE)
    BY <1>10 DEF FitTimesOut
  <2> QED
    BY <1>1, <1>2, <2>1, RecordGoes
<1> QED
  BY <1>3, <1>4, <1>5, <1>7, <1>8, <1>9, <1>10

LEMMA EndsGo ==
  ASSUME CompareInv, NEW r \in Runs, EndTask(r) \/ Leave(r)
  PROVE  Goes(r)
<1>1. /\ run[r] \in Comparisons /\ run \in [Runs -> Comparisons] /\ Methods(r) \in Seq(Strategies)
  BY StateTypes
<1>2. CASE EndTask(r)
  <2>1. run[r].pc = "suggest" /\ protocol' = protocol
    BY <1>2 DEF EndTask
  <2>2. PICK new : new = IF run[r].task = Len(Methods(r)) THEN [run[r] EXCEPT !.pc = "done"]
                         ELSE [run[r] EXCEPT !.task = run[r].task + 1, !.strat = NewStrategy,
                                             !.effective = 0, !.attempts = 0]
    OBVIOUS
  <2>3. run' = [run EXCEPT ![r] = new]
    BY <1>2, <2>2, Zenon DEF EndTask
  <2>4. \/ new.pc = "done"
        \/ new.pc = run[r].pc /\ new.task = run[r].task + 1 /\ new.attempts = 0
    <3>1. CASE run[r].task = Len(Methods(r))
      BY <1>1, <2>2, <3>1 DEF Comparisons
    <3>2. CASE run[r].task # Len(Methods(r))
      <4>1. PICK t : t = run[r].task + 1
        OBVIOUS
      <4>2. new = [run[r] EXCEPT !.task = t, !.strat = NewStrategy, !.effective = 0, !.attempts = 0]
        BY <2>2, <3>2, <4>1
      <4>3. new.pc = run[r].pc /\ new.task = t /\ new.attempts = 0
        BY <1>1, <4>2 DEF Comparisons
      <4> QED
        BY <4>1, <4>3
    <3> QED
      BY <3>1, <3>2
  <2>5. Advances(run[r], new)
    BY <2>1, <2>4 DEF Advances
  <2> HIDE DEF CompareInv
  <2> QED
    BY <2>1, <2>3, <2>5, OnlyGoes
<1>3. CASE Leave(r)
  <2>1. run[r].pc \in Executing /\ protocol' = protocol /\ run' = [run EXCEPT ![r] = Gone(r)]
    BY <1>3 DEF Leave
  <2>2. PICK new : new = Gone(r)
    OBVIOUS
  <2>3. new.pc = "left"
    BY <1>1, <2>2, GoneIs
  <2>4. Advances(run[r], new)
    BY <2>1, <2>3 DEF Advances, Executing
  <2> HIDE DEF CompareInv
  <2> QED
    BY <2>1, <2>2, <2>4, OnlyGoes
<1> QED
  BY <1>2, <1>3

\* What is written elsewhere leaves every comparison what it had to do.
LEMMA ElsewhereStays ==
  ASSUME CompareInv, Elsewhere
  PROVE  \A q \in Runs : Left(q)' = Left(q)
<1>1. /\ protocol' = protocol
      /\ \E p : run' = [q \in Runs |-> IF run[q].pc \in Working /\ Place(q) = p
                                       THEN [run[q] EXCEPT !.shared = TRUE] ELSE run[q]]
  BY DEF Elsewhere, LateEnd, OtherFit, Intrude
<1>2. ASSUME NEW q \in Runs
      PROVE  Left(q)' = Left(q)
  <2>1. run[q] \in Comparisons
    BY StateTypes
  <2>2. PICK b : b = [run[q] EXCEPT !.shared = TRUE]
    OBVIOUS
  <2>3. run'[q] = run[q] \/ run'[q] = b
    BY <1>1, <2>2
  <2>4. SameWork(run[q], run'[q])
    BY <2>1, <2>2, <2>3 DEF Comparisons, SameWork
  <2>5. Methods(q)' = Methods(q) /\ Budget(q)' = Budget(q)
    BY <1>1 DEF Methods, Budget
  <2>6. Left(q)' = LeftOf(Budget(q)', Len(Methods(q)'), run'[q])
    BY DEF Left, LeftOf, Ended
  <2> QED
    BY <2>4, <2>5, <2>6, LeftIs DEF SameWork, LeftOf
<1> QED
  BY <1>2

\* Every step of every comparison leaves it less to do and the others what they
\* had, and tools given up and other runs leave everybody what he had, so every
\* comparison ends, whatever its strategies propose and however its trials and
\* clients behave (compare_runner.py:438).
THEOREM EveryComparisonEnds == Spec => ComparisonsEnd
<1> DEFINE Down == \E r \in Runs : /\ Left(r) \in Nat /\ Left(r)' \in 0..(Left(r) - 1)
                                   /\ \A q \in Runs \ {r} : Left(q)' = Left(q)
           Stays == Elsewhere /\ \A r \in Runs : Left(r)' = Left(r)
<1>1. (CompareInv /\ LateOK) /\ (CompareInv /\ LateOK)' /\ [Next]_vars => [Down \/ Stays]_vars
  <2> SUFFICES ASSUME CompareInv, CompareInv', [Next]_vars, ~UNCHANGED vars PROVE Down \/ Stays
    OBVIOUS
  <2>1. CASE \E r \in Runs :
          \/ Suggest(r) \/ Configure(r) \/ StartTraining(r) \/ EndTraining(r) \/ Verify(r)
          \/ Fit(r) \/ Evaluate(r) \/ EndTask(r) \/ Leave(r) \/ FitTimesOut(r)
    BY <2>1, SuggestGoes, TrialGoes, EndsGo, GoesDown
  <2>2. CASE Elsewhere
    BY <2>2, ElsewhereStays
  <2> QED
    BY <2>1, <2>2 DEF Next, Finished
<1> QED
  BY <1>1, CompareAlways, PTL DEF Spec, ComparisonsEnd

=============================================================================
