---------------------------- MODULE WorkersProofs ----------------------------
(***************************************************************************)
(* Proofs about the workers under the batch graph, for all plans, packages,*)
(* scores, budgets and limits: what the policy promises of the candidates  *)
(* that are executed, that a candidate runs the code that passed for it,   *)
(* whose numbers a published report shows, what a run can spend beyond its *)
(* budget, that every step uses up some of a bounded measure, and that the *)
(* workers implement the batch graph and so keep what it guarantees.       *)
(***************************************************************************)
EXTENDS Workers, TLAPS, FiniteSetTheorems, WellFoundedInduction

-----------------------------------------------------------------------------
(* Least and greatest elements, sequences *)

\* A set of natural numbers that is not empty has a least element.
LEMMA LeastExists ==
  ASSUME NEW T \in SUBSET Nat, T # {}
  PROVE  \E x \in T : \A y \in T : x <= y
<1>1. IsWellFoundedOn(OpToRel(<, Nat), Nat)
  BY NatLessThanWellFounded
<1>2. \E x \in T : \A y \in T : ~ (<<y, x>> \in OpToRel(<, Nat))
  BY <1>1, WFMin, Zenon
<1>3. PICK x \in T : \A y \in T : ~ (<<y, x>> \in OpToRel(<, Nat))
  BY <1>2
<1>4. \A y \in T : ~ (y < x)
  BY <1>3 DEF OpToRel
<1> QED
  BY <1>4

\* Min and Max of positions of a sequence.
LEMMA MinOfPositions ==
  ASSUME NEW S \in SUBSET Nat, S # {}
  PROVE  Min(S) \in S /\ \A y \in S : Min(S) <= y
<1>1. PICK x \in S : \A y \in S : x <= y
  BY LeastExists
<1> QED
  BY <1>1 DEF Min

LEMMA MaxOfPositions ==
  ASSUME NEW n \in Nat, NEW S \in SUBSET 1..n, S # {}
  PROVE  Max(S) \in S /\ \A y \in S : Max(S) >= y
<1> DEFINE T == {m \in Nat : \A y \in S : y <= m}
<1>1. n \in T
  OBVIOUS
<1>2. PICK m \in T : \A x \in T : m <= x
  <2>1. T \in SUBSET Nat /\ T # {}
    BY <1>1
  <2> HIDE DEF T
  <2> QED
    BY <2>1, LeastExists
<1>3. m \in S
  <2>1. SUFFICES ASSUME m \notin S PROVE FALSE
    OBVIOUS
  <2>2. \A y \in S : y <= m - 1
    BY <2>1, <1>2
  <2>3. PICK y \in S : y <= m - 1
    BY <2>2
  <2>4. m - 1 \in T
    BY <2>2, <2>3, <1>2
  <2> QED
    BY <2>4, <1>2
<1>4. \A y \in S : m >= y
  BY <1>2
<1> QED
  BY <1>3, <1>4 DEF Max

LEMMA MaxOfTwo ==
  ASSUME NEW i \in Int, NEW j \in Int
  PROVE  /\ Max({i, j}) \in {i, j} /\ Max({i, j}) >= i /\ Max({i, j}) >= j
<1>1. \E x \in {i, j} : \A y \in {i, j} : x >= y
  <2>1. CASE i >= j
    BY <2>1
  <2>2. CASE ~(i >= j)
    BY <2>2
  <2> QED
    BY <2>1, <2>2
<1> QED
  BY <1>1 DEF Max

IsSeq(s) == s \in Seq({s[k] : k \in DOMAIN s})

LEMMA SeqOver ==
  ASSUME NEW S, NEW s \in Seq(S)
  PROVE  IsSeq(s)
<1>1. Len(s) \in Nat /\ DOMAIN s = 1..Len(s) /\ s = [k \in 1..Len(s) |-> s[k]]
  OBVIOUS
<1>2. \A k \in 1..Len(s) : s[k] \in {s[i] : i \in DOMAIN s}
  BY <1>1
<1> DEFINE R == {s[i] : i \in DOMAIN s}
<1>3. [k \in 1..Len(s) |-> s[k]] \in Seq(R)
  <2>1. \A k \in 1..Len(s) : s[k] \in R
    BY <1>2
  <2> HIDE DEF R
  <2> QED
    BY <2>1, <1>1
<1> QED
  BY <1>1, <1>3 DEF IsSeq

\* A sequence with one element more.
LEMMA AppendShape ==
  ASSUME NEW s, IsSeq(s), NEW e
  PROVE  /\ IsSeq(Append(s, e))
         /\ Len(Append(s, e)) = Len(s) + 1 /\ Len(s) \in Nat
         /\ DOMAIN s = 1..Len(s) /\ DOMAIN Append(s, e) = 1..Len(s) + 1
         /\ \A k \in 1..Len(s) : Append(s, e)[k] = s[k]
         /\ Append(s, e)[Len(s) + 1] = e
<1> DEFINE S == {s[k] : k \in DOMAIN s}  t == Append(s, e)
<1>1. s \in Seq(S \cup {e})
  BY DEF IsSeq
<1>2. /\ Len(t) = Len(s) + 1 /\ Len(s) \in Nat /\ t \in Seq(S \cup {e})
      /\ DOMAIN s = 1..Len(s) /\ DOMAIN t = 1..Len(s) + 1
      /\ \A k \in 1..Len(s) : t[k] = s[k]
      /\ t[Len(s) + 1] = e
  <2> HIDE DEF S
  <2> QED
    BY <1>1
<1>3. IsSeq(t)
  BY <1>2, SeqOver, Zenon
<1> QED
  BY <1>2, <1>3

\* Two sequences, one after the other.
LEMMA ConcatShape ==
  ASSUME NEW s, IsSeq(s), NEW t, IsSeq(t)
  PROVE  /\ IsSeq(s \o t)
         /\ Len(s \o t) = Len(s) + Len(t) /\ Len(s) \in Nat /\ Len(t) \in Nat
         /\ DOMAIN s = 1..Len(s) /\ DOMAIN t = 1..Len(t)
         /\ DOMAIN (s \o t) = 1..Len(s) + Len(t)
         /\ \A k \in 1..Len(s) : (s \o t)[k] = s[k]
         /\ \A k \in 1..Len(t) : (s \o t)[Len(s) + k] = t[k]
<1> DEFINE S == {s[k] : k \in DOMAIN s}  T == {t[k] : k \in DOMAIN t}  u == s \o t
<1>1. s \in Seq(S \cup T) /\ t \in Seq(S \cup T)
  BY DEF IsSeq
<1>2. /\ Len(u) = Len(s) + Len(t) /\ Len(s) \in Nat /\ Len(t) \in Nat /\ u \in Seq(S \cup T)
      /\ DOMAIN s = 1..Len(s) /\ DOMAIN t = 1..Len(t) /\ DOMAIN u = 1..Len(s) + Len(t)
      /\ \A k \in 1..Len(s) : u[k] = s[k]
      /\ \A k \in 1..Len(t) : u[Len(s) + k] = t[k]
  <2> HIDE DEF S, T
  <2> QED
    BY <1>1
<1>3. IsSeq(u)
  BY <1>2, SeqOver, Zenon
<1> QED
  BY <1>2, <1>3

LEMMA ConcatIs ==
  ASSUME NEW s, IsSeq(s), NEW t, IsSeq(t), NEW u, u = s \o t
  PROVE  /\ Len(u) = Len(s) + Len(t) /\ Len(s) \in Nat /\ Len(t) \in Nat
         /\ DOMAIN s = 1..Len(s) /\ DOMAIN t = 1..Len(t)
         /\ DOMAIN u = 1..Len(s) + Len(t)
         /\ \A k \in 1..Len(s) : u[k] = s[k]
         /\ \A k \in 1..Len(t) : u[Len(s) + k] = t[k]
  BY ConcatShape

LEMMA TableIsSeq ==
  ASSUME NEW n \in Nat, NEW f, f = [k \in 1..n |-> f[k]]
  PROVE  IsSeq(f) /\ Len(f) = n
<1> DEFINE R == {f[i] : i \in DOMAIN f}
<1>1. DOMAIN f = 1..n
  BY Zenon
<1>2. \A k \in 1..n : f[k] \in R
  BY <1>1
<1> HIDE DEF R
<1>3. f \in [1..n -> R]
  BY <1>2
<1>4. f \in Seq(R) /\ Len(f) = n
  BY <1>1, <1>3
<1> QED
  BY <1>4 DEF IsSeq, R

LEMMA SameSequence ==
  ASSUME NEW s, IsSeq(s), NEW t, IsSeq(t), Len(s) = Len(t),
         \A k \in 1..Len(s) : s[k] = t[k]
  PROVE  s = t
<1> DEFINE S == {s[k] : k \in DOMAIN s}  T == {t[k] : k \in DOMAIN t}
<1>1. s \in Seq(S \cup T) /\ t \in Seq(S \cup T)
  BY DEF IsSeq
<1> HIDE DEF S, T
<1> QED
  BY <1>1

LEMMA EmptyShape == IsSeq(<<>>) /\ Len(<<>>) = 0 /\ DOMAIN <<>> = {}
  BY DEF IsSeq

-----------------------------------------------------------------------------
(* The inductive invariant *)

\* The shape of the graph's state, of the records and of the terminal record.
GStates ==
  [node : B!Nodes \cup {"end", "aborted"}, status : B!Statuses, error : B!Errors,
   round : 1..Rounds, replans : 0..MaxReplans,
   facts : {"none", "invalid_plan", "human_rejected"},
   steps : 0..RecursionLimit, passes : Nat, calls : Nat]
GraphOK ==
  /\ g \in GStates
  /\ terminal \in B!TerminalRecords \cup {B!NoTerminal}
  /\ IsSeq(outcomes) /\ IsSeq(rounds) /\ Len(outcomes) = K * Len(rounds)
  /\ final = {} \/ \E o \in final : final = {o}

\* The worker's own state, node by node.
Beyond == K * (CodingRepairs + 1)
WorkOK ==
  /\ work = [cand |-> work.cand, attempt |-> work.attempt, used |-> work.used,
             tree |-> work.tree, codes |-> work.codes, done |-> work.done]
  /\ work.cand \in 1..K + 1 /\ work.attempt \in Nat /\ work.used \in Nat
  /\ IsSeq(work.codes) /\ IsSeq(work.done)
  /\ g.node = "idea_plan" =>
       /\ work.cand = 1 /\ work.codes = <<>> /\ work.done = <<>>
       /\ work.used <= work.attempt /\ work.attempt <= PlannerRepairs
  /\ g.node \notin {"idea_plan", "coding", "execution", "aborted"} => work = Fresh
  /\ g.node = "coding" =>
       /\ work.done = <<>> /\ Len(work.codes) = work.cand - 1
       /\ work.attempt <= CodingRepairs /\ (work.cand > K => work.attempt = 0)
       /\ work.used <= (work.cand - 1) * (CodingRepairs + 1) + work.attempt
  /\ g.node = "execution" =>
       /\ work.codes = <<>> /\ Len(work.done) = work.cand - 1
       /\ work.attempt = 0 /\ work.used = 0
  /\ g.node = "aborted" =>
       /\ work.attempt <= PlannerRepairs \/ work.attempt <= CodingRepairs
       /\ work.used <= PlannerRepairs \/ work.used <= Beyond

-----------------------------------------------------------------------------
\* What has been spent when the graph stands at a node: nothing beyond the budget
\* where it was just looked at.
SpentOK ==
  LET looked == Budget + Beyond + 2
  IN  /\ g.node = "idea_plan" =>
           g.calls <= looked + g.replans * (PlannerRepairs + 1)
      /\ g.node \in {"plan_gate", "coding"} => g.calls <= Budget
      /\ g.node \in {"execution", "final_evaluation", "writing"} => g.calls <= Budget + Beyond
      /\ g.node \in {"terminal", "end", "aborted"} =>
           g.calls + work.used <= looked + (MaxReplans + 1) * (PlannerRepairs + 1)

-----------------------------------------------------------------------------
\* The plan a round executes is a reply the policy took, as it was delivered.
TakenFrom(p) ==
  /\ p \in Taken[g.round] \ AnchorRaises
  /\ plan = [raw |-> p.list, list |-> Delivered(p).list, ok |-> plan.ok]
PlanOK ==
  /\ g.node \in {"plan_gate", "coding", "execution"} => \E p \in Plans : TakenFrom(p)
  /\ plan.ok =>
       /\ Len(plan.list) = K
       /\ \A j, k \in Named(plan) : plan.list[j].id = plan.list[k].id => j = k
  /\ g.node \in {"coding", "execution"} => plan.ok

\* The code results are the candidates', in their order, and a generated one that
\* passed holds one package.
CodesFit(codes) ==
  \A j \in DOMAIN codes :
    /\ codes[j].id = ScopedId(j) /\ codes[j].owner = j
    /\ (codes[j].passed /\ codes[j].src = "generated") =>
         \E r \in Packages : /\ FromJson(r, plan.list[j].model)
                             /\ codes[j].tree = Returned(r, plan.list[j].model)
                             /\ StaticClean(codes[j].tree)
CodesOK ==
  /\ g.node = "coding" => CodesFit(work.codes)
  /\ g.node = "execution" => IsSeq(coded) /\ Len(coded) = K /\ CodesFit(coded)
  /\ RunsGatedCode

-----------------------------------------------------------------------------
IsOutcome(o) ==
  /\ o \in [id : {o.id}, cand : {o.cand}, status : {"completed", "failed"},
            class : {o.class}, nmse : Scores \cup {None}, child : {Child(o.id)},
            psd : {o.status = "completed"}, by : {o.by}, source : {o.source}]
  /\ IsId(o.id)
OutcomesOK ==
  /\ \A j \in DOMAIN outcomes : IsOutcome(outcomes[j])
  /\ \A j \in DOMAIN work.done : IsOutcome(work.done[j])

\* Only a run whose numbers agree is completed, and only its end says so.
ClosedOK ==
  /\ g.status = "completed" => g.node \in {"terminal", "end", "aborted"} /\ ~Disputed
  /\ g.node # "end" => terminal = B!NoTerminal
  /\ g.node = "end" => /\ terminal.status = "completed" => g.status = "completed"
                       /\ terminal.hasReport => g.status = "completed"

\* Another final evaluation of the current round needs another pass.
Again ==
  \/ g.node = "idea_plan" /\ g.passes >= g.round
  \/ g.node = "aborted"
  \/ g.passes > g.round
\* The final evaluation's outcome is that of a completed training, or there is none.
FinalFrom(o) ==
  \/ o = NoFinal
  \/ /\ IsOutcome(o)
     /\ \E j \in DOMAIN outcomes : outcomes[j].psd /\ o.id = FinalId(outcomes[j].id)
FinalOK ==
  /\ g.node = "idea_plan" => g.passes >= g.round - 1
  /\ g.node \notin {"idea_plan", "aborted"} => g.passes >= g.round
  /\ g.node = "final_evaluation" => FinalEvaluation
  /\ final # {} => FinalEvaluation
  /\ final # {} /\ g.node \notin {"writing", "terminal", "end"} => Again
  /\ \A o \in final : FinalFrom(o)

\* Whose number is published under a child run id.
PublishedBy(o, child) == o.child = child /\ (o.psd => o.nmse = evidence[child])
Replaced(child) ==
  /\ FinalEvaluation /\ Again
  /\ \E j \in DOMAIN outcomes : outcomes[j].psd /\ Child(FinalId(outcomes[j].id)) = child
EvidenceOK ==
  /\ \A child \in DOMAIN evidence :
       \/ \E j \in DOMAIN outcomes : PublishedBy(outcomes[j], child)
       \/ \E j \in DOMAIN work.done : PublishedBy(work.done[j], child)
       \/ \E o \in final : o # NoFinal /\ PublishedBy(o, child)
       \/ Replaced(child)
  /\ \A j \in DOMAIN outcomes : outcomes[j].psd => outcomes[j].child \in DOMAIN evidence
  /\ \A j \in DOMAIN work.done : work.done[j].psd => work.done[j].child \in DOMAIN evidence
  /\ \A o \in final : o.psd => o.child \in DOMAIN evidence

-----------------------------------------------------------------------------
(* The shape of the state *)

LEMMA Constants ==
  /\ K \in Nat /\ K >= 1 /\ Rounds \in Nat /\ Rounds >= 1 /\ MaxReplans \in Nat
  /\ PlannerRepairs \in Nat /\ CodingRepairs \in Nat /\ Budget \in Nat
  /\ RecursionLimit \in Nat /\ FinalEvaluation \in BOOLEAN /\ Scores \subseteq Int
  BY WorkersAssumption

\* The graph's state after a node.
LEMMA Returns ==
  ASSUME g \in GStates, work.used \in Nat, g.steps < RecursionLimit,
         NEW n \in B!Nodes \cup {"end"}, NEW s \in B!Statuses, NEW e \in B!Errors,
         NEW used \in Nat
  PROVE  /\ Return(n, s, e, used) \in GStates
         /\ Return(n, s, e, used) \in
              [node : {n}, status : {s}, error : {e}, round : {g.round},
               replans : {g.replans}, facts : {g.facts}, steps : {g.steps + 1},
               passes : {g.passes}, calls : {g.calls + work.used + used}]
<1>1. g.steps + 1 \in 0..RecursionLimit /\ g.calls + work.used + used \in Nat
  BY Constants DEF GStates
<1>2. Return(n, s, e, used) \in GStates
  BY <1>1 DEF GStates, Return
<1>3. g \in [node : {g.node}, status : {g.status}, error : {g.error}, round : {g.round},
            replans : {g.replans}, facts : {g.facts}, steps : {g.steps},
            passes : {g.passes}, calls : {g.calls}]
  BY DEF GStates
<1> QED
  BY <1>2, <1>3 DEF Return

\* The graph's state after a rejection.
LEMMA Rejections ==
  ASSUME g \in GStates, work.used \in Nat, g.steps < RecursionLimit,
         NEW n \in B!Nodes, NEW used \in Nat
  PROVE  LET r == Rejection(n, used)
         IN  /\ r \in GStates
             /\ r.round = g.round /\ r.steps = g.steps + 1 /\ r.passes = g.passes
             /\ r.calls = g.calls + work.used + used
             /\ \/ /\ g.replans < MaxReplans /\ r.node = "idea_plan"
                   /\ r.status = "replanning" /\ r.replans = g.replans + 1
                \/ r.node = n /\ r.status = "error" /\ r.replans = g.replans
<1>1. /\ {"idea_plan", n} \subseteq B!Nodes \cup {"end"} /\ "rejected" \in B!Errors
      /\ {"replanning", "error"} \subseteq B!Statuses /\ g.error \in B!Errors
  BY DEF B!Nodes, B!Statuses, B!TerminalStatuses, B!Errors, GStates
<1>2. CASE g.replans < MaxReplans
  <2> DEFINE q == Return("idea_plan", "replanning", g.error, used)
  <2>1. /\ q \in GStates
        /\ q \in [node : {"idea_plan"}, status : {"replanning"}, error : {g.error},
                  round : {g.round}, replans : {g.replans}, facts : {g.facts},
                  steps : {g.steps + 1}, passes : {g.passes},
                  calls : {g.calls + work.used + used}]
    BY <1>1, Returns
  <2>2. Rejection(n, used) = [q EXCEPT !.replans = @ + 1, !.facts = "human_rejected"]
    BY <1>2 DEF Rejection
  <2>3. /\ q \in GStates /\ q.replans = g.replans
        /\ q.replans + 1 \in 0..MaxReplans
    BY <1>2, <2>1, Constants DEF GStates
  <2> HIDE DEF q
  <2>4. Rejection(n, used) \in GStates
    BY <2>2, <2>3 DEF GStates
  <2>5. /\ Rejection(n, used).round = q.round /\ Rejection(n, used).steps = q.steps
        /\ Rejection(n, used).passes = q.passes /\ Rejection(n, used).calls = q.calls
        /\ Rejection(n, used).node = q.node /\ Rejection(n, used).status = q.status
        /\ Rejection(n, used).replans = g.replans + 1
    BY <2>1, <2>2, <2>3
  <2> QED
    BY <2>1, <2>5, <2>4, <1>2
<1>3. CASE ~(g.replans < MaxReplans)
  <2>1. Rejection(n, used) = Return(n, "error", "rejected", used)
    BY <1>3 DEF Rejection
  <2> QED
    BY <2>1, <1>1, Returns
<1> QED
  BY <1>2, <1>3

-----------------------------------------------------------------------------
(* Where each step leads *)

Goes(passes, used) ==
  /\ g' \in GStates
  /\ g'.steps = g.steps + 1 /\ g'.passes = g.passes + passes
  /\ g'.calls = g.calls + work.used + used
To(n, s) == g'.node = n /\ g'.status = s /\ g'.replans = g.replans
RejectedTo(n) ==
  \/ g'.node = "idea_plan" /\ g'.status = "replanning" /\ g'.replans = g.replans + 1
  \/ To(n, "error")

LEMMA Vocabulary ==
  /\ B!Nodes = {"idea_plan", "plan_gate", "coding", "execution",
                "final_evaluation", "writing", "terminal"}
  /\ {"running", "replanning", "next_round", "completed", "budget_exceeded", "error",
      "invalid_plan"} \subseteq B!Statuses
  /\ {"worker", "invalid", "rejected", "budget"} \subseteq B!Errors
  BY DEF B!Nodes, B!Statuses, B!TerminalStatuses, B!Errors

\* A pass of idea_plan ends.
LEMMA IdeaReturns ==
  ASSUME GraphOK, WorkOK, At("idea_plan"),
         NEW n \in {"terminal", "plan_gate"}, NEW s \in {"error", "budget_exceeded", "running"},
         NEW e \in {"worker", "budget", g.error}, NEW used \in 0..1,
         IdeaEnds(Return(n, s, e, used))
  PROVE  Goes(1, used) /\ To(n, s) /\ g'.round = g.round
<1> DEFINE r == Return(n, s, e, used)
<1>1. /\ g \in GStates /\ work.used \in Nat /\ g.steps < RecursionLimit /\ used \in Nat
      /\ n \in B!Nodes \cup {"end"} /\ s \in B!Statuses /\ e \in B!Errors
  BY Vocabulary DEF GraphOK, WorkOK, At, GStates
<1>2. /\ r \in GStates /\ r.node = n /\ r.status = s /\ r.round = g.round
      /\ r.replans = g.replans /\ r.steps = g.steps + 1 /\ r.passes = g.passes
      /\ r.calls = g.calls + work.used + used
  BY <1>1, Returns
<1>3. g' = [r EXCEPT !.passes = @ + 1]
  BY DEF IdeaEnds
<1> HIDE DEF r
<1>4. g' \in GStates /\ g'.passes = g.passes + 1
  BY <1>2, <1>3 DEF GStates
<1>5. /\ g'.node = n /\ g'.status = s /\ g'.round = g.round /\ g'.replans = g.replans
      /\ g'.steps = g.steps + 1 /\ g'.calls = g.calls + work.used + used
  BY <1>2, <1>3 DEF GStates
<1> QED
  BY <1>4, <1>5 DEF Goes, To

LEMMA IdeaRejected ==
  ASSUME GraphOK, WorkOK, At("idea_plan"), IdeaEnds(Rejection("terminal", 1))
  PROVE  Goes(1, 1) /\ RejectedTo("terminal") /\ g'.round = g.round
<1> DEFINE r == Rejection("terminal", 1)
<1>1. g \in GStates /\ work.used \in Nat /\ g.steps < RecursionLimit /\ "terminal" \in B!Nodes
  BY Vocabulary DEF GraphOK, WorkOK, At
<1>2. /\ r \in GStates /\ r.round = g.round
      /\ r.steps = g.steps + 1 /\ r.passes = g.passes /\ r.calls = g.calls + work.used + 1
      /\ \/ r.node = "idea_plan" /\ r.status = "replanning" /\ r.replans = g.replans + 1
         \/ r.node = "terminal" /\ r.status = "error" /\ r.replans = g.replans
  BY <1>1, Rejections
<1>3. g' = [r EXCEPT !.passes = @ + 1]
  BY DEF IdeaEnds
<1> HIDE DEF r
<1>4. g' \in GStates /\ g'.passes = g.passes + 1
  BY <1>2, <1>3 DEF GStates
<1>5. /\ g'.node = r.node /\ g'.status = r.status /\ g'.round = r.round
      /\ g'.replans = r.replans /\ g'.steps = r.steps /\ g'.calls = r.calls
  BY <1>2, <1>3 DEF GStates
<1> QED
  BY <1>2, <1>4, <1>5 DEF Goes, To, RejectedTo

LEMMA MovePlan ==
  ASSUME GraphOK, WorkOK, PlanRaises \/ PlanRefused \/ PlanAccepted
  PROVE  \/ /\ PlanRefused /\ g' = g /\ work.attempt < PlannerRepairs
            /\ work' = [work EXCEPT !.attempt = @ + 1, !.used = @ + 1]
         \/ /\ work' = Fresh /\ g'.round = g.round
            /\ \/ (\E used \in 0..1 : Goes(1, used)) /\ To("terminal", "error")
               \/ PlanAccepted /\ Goes(1, 1) /\ RejectedTo("terminal")
               \/ PlanAccepted /\ Goes(1, 1) /\ To("terminal", "budget_exceeded")
               \/ PlanAccepted /\ Goes(1, 1) /\ To("plan_gate", "running") /\ g'.calls <= Budget
<1>1. CASE PlanRaises
  <2>1. PICK used \in 0..1 : At("idea_plan") /\ IdeaEnds(Return("terminal", "error", "worker", used))
    BY <1>1 DEF PlanRaises
  <2> QED
    BY <2>1, IdeaReturns DEF IdeaEnds
<1>2. CASE PlanRefused
  <2>1. CASE work.attempt < PlannerRepairs
    BY <1>2, <2>1 DEF PlanRefused
  <2>2. CASE ~(work.attempt < PlannerRepairs)
    <3>1. At("idea_plan") /\ IdeaEnds(Return("terminal", "error", "worker", 1))
      BY <1>2, <2>2 DEF PlanRefused
    <3> QED
      BY <3>1, IdeaReturns DEF IdeaEnds
  <2> QED
    BY <2>1, <2>2
<1>3. CASE PlanAccepted
  <2>1. PICK p \in Taken[g.round] \ AnchorRaises : At("idea_plan") /\ PlanReviewed(p)
    BY <1>3 DEF PlanAccepted
  <2>2. CASE IdeaEnds(Rejection("terminal", 1))
    BY <1>3, <2>1, <2>2, IdeaRejected DEF IdeaEnds
  <2>3. CASE /\ g.calls + work.used + 1 > Budget
             /\ IdeaEnds(Return("terminal", "budget_exceeded", "budget", 1))
    BY <1>3, <2>1, <2>3, IdeaReturns DEF IdeaEnds
  <2>4. CASE /\ ~(g.calls + work.used + 1 > Budget)
             /\ IdeaEnds(Return("plan_gate", "running", g.error, 1))
    <3>1. Goes(1, 1) /\ To("plan_gate", "running") /\ g'.round = g.round
      BY <2>1, <2>4, IdeaReturns
    <3>2. g'.calls <= Budget
      <4>1. g.calls \in Nat /\ work.used \in Nat /\ Budget \in Nat
        BY Constants DEF GraphOK, GStates, WorkOK
      <4> QED
        BY <3>1, <2>4, <4>1 DEF Goes
    <3> QED
      BY <1>3, <2>4, <3>1, <3>2 DEF IdeaEnds
  <2> QED
    BY <2>1, <2>2, <2>3, <2>4 DEF PlanReviewed
<1> QED
  BY <1>1, <1>2, <1>3

\* Any other node returns.
LEMMA NodeReturns ==
  ASSUME GraphOK, WorkOK, g.steps < RecursionLimit,
         NEW n \in B!Nodes \cup {"end"}, NEW s \in B!Statuses, NEW e \in B!Errors,
         NEW used \in Nat, g' = Return(n, s, e, used)
  PROVE  Goes(0, used) /\ To(n, s) /\ g'.round = g.round /\ g'.error = e
<1> DEFINE r == Return(n, s, e, used)
<1>1. g \in GStates /\ work.used \in Nat /\ g.passes \in Nat
  BY DEF GraphOK, WorkOK, GStates
<1>2. /\ r \in GStates /\ r.node = n /\ r.status = s /\ r.round = g.round /\ r.error = e
      /\ r.replans = g.replans /\ r.steps = g.steps + 1 /\ r.passes = g.passes
      /\ r.calls = g.calls + work.used + used
  BY <1>1, Returns
<1> HIDE DEF r
<1>3. g' = r
  BY DEF r
<1> QED
  BY <1>1, <1>2, <1>3 DEF Goes, To

LEMMA NodeRejected ==
  ASSUME GraphOK, WorkOK, g.steps < RecursionLimit, NEW n \in B!Nodes, NEW used \in Nat,
         g' = Rejection(n, used)
  PROVE  Goes(0, used) /\ RejectedTo(n) /\ g'.round = g.round
<1> DEFINE r == Rejection(n, used)
<1>1. g \in GStates /\ work.used \in Nat /\ g.passes \in Nat
  BY DEF GraphOK, WorkOK, GStates
<1>2. /\ r \in GStates /\ r.round = g.round
      /\ r.steps = g.steps + 1 /\ r.passes = g.passes /\ r.calls = g.calls + work.used + used
      /\ \/ r.node = "idea_plan" /\ r.status = "replanning" /\ r.replans = g.replans + 1
         \/ r.node = n /\ r.status = "error" /\ r.replans = g.replans
  BY <1>1, Rejections
<1> HIDE DEF r
<1>3. g' = r
  BY DEF r
<1> QED
  BY <1>1, <1>2, <1>3 DEF Goes, To, RejectedTo

LEMMA MoveGate ==
  ASSUME GraphOK, WorkOK, PlanGate
  PROVE  /\ Goes(0, 0) /\ g'.round = g.round /\ work' = Fresh
         /\ \/ plan.ok /\ To("coding", "running")
            \/ g'.node = "idea_plan" /\ g'.status = "replanning" /\ g'.replans = g.replans + 1
            \/ To("terminal", "invalid_plan")
<1>0. /\ g \in GStates /\ work.used \in Nat /\ g.steps < RecursionLimit /\ g.passes \in Nat
      /\ work' = Fresh /\ g.error \in B!Errors /\ 0 \in Nat
  BY DEF GraphOK, WorkOK, PlanGate, At, GStates
<1>1. CASE plan.ok
  <2> DEFINE r == Return("coding", "running", g.error, 0)
  <2>0. "coding" \in B!Nodes \cup {"end"} /\ "running" \in B!Statuses
    BY Vocabulary
  <2>1. /\ r \in GStates /\ r.node = "coding" /\ r.status = "running" /\ r.round = g.round
        /\ r.replans = g.replans /\ r.steps = g.steps + 1 /\ r.passes = g.passes
        /\ r.calls = g.calls + work.used + 0
    BY <1>0, <2>0, Returns
  <2>2. g' = [r EXCEPT !.facts = "none"]
    BY <1>1 DEF PlanGate
  <2> HIDE DEF r
  <2>3. g' \in GStates
    <3>1. r \in GStates
      BY <2>1
    <3> QED
      BY <2>2, <3>1 DEF GStates
  <2>4. /\ g'.node = r.node /\ g'.status = r.status /\ g'.round = r.round
        /\ g'.replans = r.replans /\ g'.steps = r.steps /\ g'.passes = r.passes
        /\ g'.calls = r.calls
    BY <2>1, <2>2 DEF GStates
  <2> QED
    BY <1>0, <1>1, <2>1, <2>3, <2>4 DEF Goes, To
<1>2. CASE ~plan.ok /\ g.replans < MaxReplans
  <2> DEFINE r == Return("idea_plan", "replanning", g.error, 0)
  <2>0. "idea_plan" \in B!Nodes \cup {"end"} /\ "replanning" \in B!Statuses
    BY Vocabulary
  <2>1. /\ r \in GStates /\ r.node = "idea_plan" /\ r.status = "replanning" /\ r.round = g.round
        /\ r.replans = g.replans /\ r.steps = g.steps + 1 /\ r.passes = g.passes
        /\ r.calls = g.calls + work.used + 0
    BY <1>0, <2>0, Returns
  <2>2. g' = [r EXCEPT !.replans = @ + 1, !.facts = "invalid_plan"]
    BY <1>2 DEF PlanGate
  <2> HIDE DEF r
  <2>3. r \in GStates /\ r.replans + 1 \in 0..MaxReplans
    <3>1. g.replans \in 0..MaxReplans
      BY <1>0 DEF GStates
    <3> QED
      BY <3>1, <1>2, <2>1, Constants
  <2>4. g' \in GStates
    BY <2>2, <2>3 DEF GStates
  <2>5. /\ g'.node = r.node /\ g'.status = r.status /\ g'.round = r.round
        /\ g'.replans = r.replans + 1 /\ g'.steps = r.steps /\ g'.passes = r.passes
        /\ g'.calls = r.calls
    BY <2>2, <2>3 DEF GStates
  <2> QED
    BY <1>0, <2>1, <2>4, <2>5 DEF Goes
<1>3. CASE ~plan.ok /\ ~(g.replans < MaxReplans)
  <2>1. g' = Return("terminal", "invalid_plan", "invalid", 0)
    BY <1>3 DEF PlanGate
  <2> QED
    BY <2>1, <1>0, NodeReturns, Vocabulary
<1> QED
  BY <1>1, <1>2, <1>3

LEMMA MoveCoding ==
  ASSUME GraphOK, WorkOK, EndCoding
  PROVE  /\ Goes(0, 0) /\ g'.round = g.round /\ work' = Fresh
         /\ \/ RejectedTo("idea_plan") /\ coded' = coded
            \/ To("execution", "running") /\ coded' = work.codes
<1>0. g.steps < RecursionLimit /\ g.error \in B!Errors /\ 0 \in Nat
  BY DEF GraphOK, EndCoding, At, GStates
<1>1. CASE g' = Rejection("idea_plan", 0) /\ coded' = coded
  BY <1>0, <1>1, NodeRejected, Vocabulary DEF EndCoding
<1>2. CASE g' = Return("execution", "running", g.error, 0) /\ coded' = work.codes
  BY <1>0, <1>2, NodeReturns, Vocabulary DEF EndCoding
<1> QED
  BY <1>1, <1>2 DEF EndCoding

LEMMA MoveRejected ==
  ASSUME GraphOK, WorkOK, ExecuteRejected
  PROVE  /\ Goes(0, 0) /\ g'.round = g.round /\ work' = Fresh
         /\ RejectedTo(IF FinalEvaluation THEN "final_evaluation" ELSE "writing")
<1> DEFINE n == IF FinalEvaluation THEN "final_evaluation" ELSE "writing"
<1>1. g.steps < RecursionLimit /\ 0 \in Nat /\ n \in B!Nodes /\ B!AfterExecution("error") = n
  BY Vocabulary DEF ExecuteRejected, At, B!AfterExecution
<1>2. g' = Rejection(n, 0) /\ work' = Fresh
  BY <1>1 DEF ExecuteRejected
<1> QED
  BY <1>1, <1>2, NodeRejected

LEMMA MoveExecution ==
  ASSUME GraphOK, WorkOK, EndExecution
  PROVE  /\ Goes(0, 0) /\ work' = Fresh
         /\ \/ To("idea_plan", "next_round") /\ g.round < Rounds /\ g'.round = g.round + 1
            \/ /\ To(IF FinalEvaluation THEN "final_evaluation" ELSE "writing", "running")
               /\ g'.round = g.round
<1>0. /\ g \in GStates /\ work.used \in Nat /\ g.steps < RecursionLimit /\ g.passes \in Nat
      /\ g.error \in B!Errors /\ 0 \in Nat
  BY DEF GraphOK, WorkOK, EndExecution, At, GStates
<1>1. CASE g.round < Rounds
  <2> DEFINE r == Return("idea_plan", "next_round", g.error, 0)
  <2>0. "idea_plan" \in B!Nodes \cup {"end"} /\ "next_round" \in B!Statuses
    BY Vocabulary
  <2>1. /\ r \in GStates /\ r.node = "idea_plan" /\ r.status = "next_round" /\ r.round = g.round
        /\ r.replans = g.replans /\ r.steps = g.steps + 1 /\ r.passes = g.passes
        /\ r.calls = g.calls + work.used + 0
    BY <1>0, <2>0, Returns
  <2>2. g' = [r EXCEPT !.round = @ + 1] /\ work' = Fresh
    BY <1>1 DEF EndExecution
  <2> HIDE DEF r
  <2>3. r \in GStates /\ r.round + 1 \in 1..Rounds
    <3>1. g.round \in 1..Rounds
      BY <1>0 DEF GStates
    <3> QED
      BY <3>1, <1>1, <2>1, Constants
  <2>4. g' \in GStates
    BY <2>2, <2>3 DEF GStates
  <2>5. /\ g'.node = r.node /\ g'.status = r.status /\ g'.round = r.round + 1
        /\ g'.replans = r.replans /\ g'.steps = r.steps /\ g'.passes = r.passes
        /\ g'.calls = r.calls
    BY <2>2, <2>3 DEF GStates
  <2> QED
    BY <1>0, <1>1, <2>1, <2>2, <2>4, <2>5 DEF Goes, To
<1>2. CASE ~(g.round < Rounds)
  <2> DEFINE n == IF FinalEvaluation THEN "final_evaluation" ELSE "writing"
  <2>1. n \in B!Nodes /\ B!AfterExecution("running") = n
    BY Vocabulary DEF B!AfterExecution
  <2>2. g' = Return(n, "running", g.error, 0) /\ work' = Fresh
    BY <1>2, <2>1 DEF EndExecution
  <2> QED
    BY <1>0, <2>1, <2>2, NodeReturns, Vocabulary
<1> QED
  BY <1>1, <1>2

LEMMA MoveFinal ==
  ASSUME GraphOK, WorkOK, FinalEvaluate
  PROVE  Goes(0, 0) /\ g'.round = g.round /\ work' = Fresh /\ To("writing", "running")
<1>1. /\ g.steps < RecursionLimit /\ g.error \in B!Errors /\ 0 \in Nat
      /\ g' = Return("writing", "running", g.error, 0) /\ work' = Fresh
  BY DEF GraphOK, WorkOK, FinalEvaluate, At, GStates
<1> QED
  BY <1>1, NodeReturns, Vocabulary

LEMMA MoveWriting ==
  ASSUME GraphOK, WorkOK, WritingFails \/ Write
  PROVE  /\ \E used \in 0..2 : Goes(0, used)
         /\ g'.round = g.round /\ work' = Fresh
         /\ \/ WritingFails /\ To("idea_plan", "error")
            \/ Write /\ RejectedTo("idea_plan")
            \/ Write /\ To("terminal", "completed")
<1>0. /\ g.steps < RecursionLimit /\ g.error \in B!Errors /\ work' = Fresh
      /\ \A a : DraftsUsed(a, Source) \in 0..2
  BY DEF GraphOK, WorkOK, WritingFails, Write, At, GStates, DraftsUsed
<1>1. CASE WritingFails
  <2>1. PICK used \in 0..2 : g' = Return("idea_plan", "error", "worker", used)
    BY <1>0, <1>1 DEF WritingFails
  <2>2. used \in Nat /\ "idea_plan" \in B!Nodes \cup {"end"}
    BY Vocabulary
  <2>3. Goes(0, used) /\ To("idea_plan", "error") /\ g'.round = g.round
    BY <1>0, <2>1, <2>2, NodeReturns, Vocabulary
  <2> QED
    BY <1>0, <1>1, <2>3
<1>2. CASE Write
  <2>1. PICK a \in Drafts : \/ g' = Rejection("idea_plan", DraftsUsed(a, Source))
                            \/ g' = Return("terminal", "completed", g.error, DraftsUsed(a, Source))
    BY <1>2 DEF Write
  <2>2. PICK used \in 0..2 : used = DraftsUsed(a, Source)
    BY <1>0
  <2>3. used \in Nat /\ "idea_plan" \in B!Nodes /\ "terminal" \in B!Nodes \cup {"end"}
    BY Vocabulary
  <2>4. CASE g' = Rejection("idea_plan", used)
    <3>1. Goes(0, used) /\ RejectedTo("idea_plan") /\ g'.round = g.round
      BY <1>0, <2>3, <2>4, NodeRejected
    <3> QED
      BY <1>0, <1>2, <3>1
  <2>5. CASE g' = Return("terminal", "completed", g.error, used)
    <3>1. Goes(0, used) /\ To("terminal", "completed") /\ g'.round = g.round
      BY <1>0, <2>3, <2>5, NodeReturns, Vocabulary
    <3> QED
      BY <1>0, <1>2, <3>1
  <2> QED
    BY <2>1, <2>2, <2>4, <2>5
<1> QED
  BY <1>1, <1>2

LEMMA MoveTerminal ==
  ASSUME GraphOK, WorkOK, Terminal
  PROVE  /\ Goes(0, 0) /\ g'.round = g.round /\ work' = Fresh
         /\ To("end", terminal'.status) /\ terminal' \in B!TerminalRecords
         /\ terminal'.status = "completed" <=> g.status = "completed"
         /\ terminal'.hasReport <=> g.status = "completed"
<1>1. terminal' = B!Published(g.status, g.error, g.status = "completed") /\ g \in GStates
  BY DEF Terminal, GraphOK
<1>2. /\ terminal' \in B!TerminalRecords /\ terminal'.status \in B!TerminalStatuses
      /\ terminal'.status = "completed" <=> g.status = "completed"
      /\ terminal'.hasReport <=> g.status = "completed"
  BY <1>1 DEF B!Published, B!TerminalRecords, B!TerminalStatuses, GStates
<1>3. /\ g.steps < RecursionLimit /\ g.error \in B!Errors /\ 0 \in Nat
      /\ terminal'.status \in B!Statuses
      /\ g' = Return("end", terminal'.status, g.error, 0) /\ work' = Fresh
  BY <1>2 DEF GraphOK, WorkOK, Terminal, At, GStates, B!Statuses
<1> QED
  BY <1>2, <1>3, NodeReturns, Vocabulary

LEMMA MoveAbort ==
  ASSUME GraphOK, WorkOK, Abort
  PROVE  /\ g' \in GStates /\ g'.node = "aborted" /\ g'.status = g.status
         /\ g'.round = g.round /\ g'.passes = g.passes /\ g'.calls = g.calls
         /\ g'.replans = g.replans /\ g'.steps = g.steps /\ work' = work
<1>1. g \in GStates /\ g' = [g EXCEPT !.node = "aborted"] /\ work' = work
  BY DEF GraphOK, Abort
<1>2. g' \in GStates
  BY <1>1 DEF GStates
<1> QED
  BY <1>1, <1>2 DEF GStates

-----------------------------------------------------------------------------
(* The shape is kept *)

LEMMA FreshWork ==
  ASSUME work' = Fresh
  PROVE  WorkOK'
<1>1. /\ IsSeq(work.codes)' /\ IsSeq(work.done)'
      /\ work'.cand = 1 /\ work'.attempt = 0 /\ work'.used = 0
      /\ work'.codes = <<>> /\ work'.done = <<>> /\ Len(<<>>) = 0
  BY EmptyShape DEF Fresh
<1>2. work' = [cand |-> work'.cand, attempt |-> work'.attempt, used |-> work'.used,
               tree |-> work'.tree, codes |-> work'.codes, done |-> work'.done]
  BY DEF Fresh
<1>3. 0 <= PlannerRepairs /\ 0 <= CodingRepairs /\ 0 <= (1 - 1) * (CodingRepairs + 1) + 0
      /\ 1 \in 1..K + 1 /\ ~(1 > K)
  BY Constants
<1> QED
  BY <1>1, <1>2, <1>3 DEF WorkOK

\* The arithmetic of a candidate's attempts.
LEMMA NextCandidate ==
  ASSUME NEW c \in 1..K, NEW used \in Nat, NEW attempt \in Nat, NEW more \in 0..1,
         used <= (c - 1) * (CodingRepairs + 1) + attempt, attempt <= CodingRepairs
  PROVE  /\ used + more <= ((c + 1) - 1) * (CodingRepairs + 1)
         /\ used <= Beyond
<1> DEFINE n == CodingRepairs + 1
<1>1. n \in Nat /\ K \in Nat
  BY Constants
<1>2. ((c + 1) - 1) * n = (c - 1) * n + n
  <2> HIDE DEF n
  <2> QED
    BY <1>1
<1>3. K * n = c * n + (K - c) * n /\ (K - c) * n >= 0
  <2> HIDE DEF n
  <2> QED
    BY <1>1
<1>4. (c + 1) - 1 = c /\ (c - 1) * n \in Nat
  <2> HIDE DEF n
  <2> QED
    BY <1>1
<1>5. used + more <= (c - 1) * n + n
  BY <1>1, <1>4, Constants
<1>6. c * n \in Int /\ K * n \in Int /\ (K - c) * n \in Int
  <2> HIDE DEF n
  <2> QED
    BY <1>1
<1> HIDE DEF n
<1>7. used + more <= c * n /\ used <= K * n
  BY <1>2, <1>3, <1>4, <1>5, <1>6
<1> QED
  BY <1>4, <1>7 DEF n, Beyond

\* One attempt of a candidate, or its end.
LEMMA AttemptWork ==
  ASSUME GraphOK, WorkOK, At("coding"), work.cand <= K, g' = g,
         NEW used \in 0..1, NEW tree,
         \/ AttemptFails(used, tree)
         \/ \E passed \in BOOLEAN : Coded(passed, used, tree)
  PROVE  /\ WorkOK'
         /\ \/ work'.cand = work.cand + 1 /\ work'.attempt = 0
            \/ work'.cand = work.cand /\ work'.attempt = work.attempt + 1
<1>1. /\ work.cand \in 1..K /\ work.attempt \in Nat /\ work.used \in Nat
      /\ IsSeq(work.codes) /\ IsSeq(work.done) /\ work.done = <<>>
      /\ Len(work.codes) = work.cand - 1 /\ work.attempt <= CodingRepairs
      /\ work.used <= (work.cand - 1) * (CodingRepairs + 1) + work.attempt
      /\ g'.node = "coding"
      /\ work \in [cand : {work.cand}, attempt : {work.attempt}, used : {work.used},
                   tree : {work.tree}, codes : {work.codes}, done : {work.done}]
  BY Constants DEF WorkOK, At
<1>0. work.cand \in 1..K /\ work.attempt \in Nat /\ work.used \in Nat /\ used \in 0..1
  BY <1>1
<1>2. CASE \E passed \in BOOLEAN : \E t : Coded(passed, used, t)
  <2>1. PICK e : work' = [work EXCEPT !.cand = @ + 1, !.attempt = 0, !.used = @ + used,
                            !.tree = << >>, !.codes = Append(@, e)]
    BY <1>2 DEF Coded
  <2>2. /\ work' \in [cand : {work.cand + 1}, attempt : {0}, used : {work.used + used},
                      tree : {<< >>}, codes : {Append(work.codes, e)}, done : {work.done}]
    BY <1>1, <2>1
  <2>3. /\ work'.cand = work.cand + 1 /\ work'.attempt = 0 /\ work'.used = work.used + used
        /\ work'.codes = Append(work.codes, e) /\ work'.done = <<>>
        /\ work' = [cand |-> work'.cand, attempt |-> work'.attempt, used |-> work'.used,
                    tree |-> work'.tree, codes |-> work'.codes, done |-> work'.done]
    BY <1>1, <2>2
  <2>4. IsSeq(Append(work.codes, e)) /\ Len(Append(work.codes, e)) = (work.cand + 1) - 1
    BY <1>1, AppendShape
  <2>5. work.used + used <= ((work.cand + 1) - 1) * (CodingRepairs + 1) + 0
    <3>1. work.used + used <= ((work.cand + 1) - 1) * (CodingRepairs + 1)
      BY <1>1, NextCandidate
    <3>2. ((work.cand + 1) - 1) * (CodingRepairs + 1) \in Int
      BY <1>1, Constants, SMTT(60)
    <3> QED
      BY <3>1, <3>2, <1>1
  <2>6. work.cand + 1 \in 1..K + 1 /\ 0 <= CodingRepairs /\ work.used + used \in Nat /\ 0 \in Nat
    BY <1>0, Constants
  <2>7. IsSeq(work'.codes) /\ IsSeq(work'.done)
    BY <2>3, <2>4, EmptyShape
  <2>8. WorkOK'
    BY <1>1, <2>3, <2>4, <2>5, <2>6, <2>7 DEF WorkOK
  <2> QED
    BY <2>3, <2>8
<1>3. CASE ~(\E passed \in BOOLEAN : \E t : Coded(passed, used, t))
  <2>1. /\ work.attempt < CodingRepairs
        /\ work' = [work EXCEPT !.attempt = @ + 1, !.used = @ + used, !.tree = tree]
    BY <1>3 DEF AttemptFails
  <2>2. /\ work' \in [cand : {work.cand}, attempt : {work.attempt + 1}, used : {work.used + used},
                      tree : {tree}, codes : {work.codes}, done : {work.done}]
    BY <1>1, <2>1
  <2>3. /\ work'.cand = work.cand /\ work'.attempt = work.attempt + 1
        /\ work'.used = work.used + used
        /\ work'.codes = work.codes /\ work'.done = <<>>
        /\ work' = [cand |-> work'.cand, attempt |-> work'.attempt, used |-> work'.used,
                    tree |-> work'.tree, codes |-> work'.codes, done |-> work'.done]
    BY <1>1, <2>2
  <2>4. work.used + used <= (work.cand - 1) * (CodingRepairs + 1) + (work.attempt + 1)
    <3>1. (work.cand - 1) * (CodingRepairs + 1) \in Int
      BY <1>1, Constants
    <3> QED
      BY <3>1, <1>1
  <2>5. /\ work.cand \in 1..K + 1 /\ work.attempt + 1 <= CodingRepairs
        /\ work.used + used \in Nat /\ work.attempt + 1 \in Nat /\ ~(work.cand > K)
    <3>1. work.attempt < CodingRepairs
      BY <2>1
    <3> QED
      BY <1>0, <3>1, Constants
  <2>6. IsSeq(work'.codes) /\ IsSeq(work'.done)
    BY <1>1, <2>3, EmptyShape
  <2>7. WorkOK'
    BY <1>1, <2>3, <2>4, <2>5, <2>6 DEF WorkOK
  <2> QED
    BY <2>3, <2>7
<1> QED
  BY <1>2, <1>3

LEMMA CodingWork ==
  ASSUME GraphOK, WorkOK, CodeRegistered \/ CodeAttempt
  PROVE  /\ WorkOK' /\ g' = g /\ At("coding")
         /\ \/ work'.cand = work.cand + 1 /\ work'.attempt = 0
            \/ work'.cand = work.cand /\ work'.attempt = work.attempt + 1
<1>1. At("coding") /\ work.cand <= K /\ g' = g
  BY DEF CodeRegistered, CodeAttempt, CodingIdle
<1>0. 0 \in 0..1 /\ 1 \in 0..1 /\ TRUE \in BOOLEAN
  OBVIOUS
<1>2. \E used \in 0..1 : \E tree :
        \/ AttemptFails(used, tree)
        \/ \E passed \in BOOLEAN : Coded(passed, used, tree)
  <2>1. CASE CodeRegistered
    <3>1. \E passed \in BOOLEAN : Coded(passed, 0, << >>)
      BY <2>1 DEF CodeRegistered
    <3> QED
      BY <3>1, <1>0, Zenon
  <2>2. CASE CodeAttempt
    <3>1. \/ AttemptFails(0, work.tree)
          \/ \E t : AttemptFails(1, t)
          \/ \E t : Coded(TRUE, 1, t)
      BY <2>2 DEF CodeAttempt
    <3> QED
      BY <3>1, <1>0, Zenon
  <2> QED
    BY <2>1, <2>2
<1> QED
  BY <1>1, <1>2, AttemptWork

\* A candidate is executed, or its run is recorded as failed.
LEMMA ExecuteWork ==
  ASSUME GraphOK, WorkOK, Execute
  PROVE  /\ WorkOK' /\ g' = g /\ At("execution")
         /\ work'.cand = work.cand + 1 /\ work'.attempt = 0
         /\ \E o : /\ work'.done = Append(work.done, o)
                   /\ DOMAIN work'.done = 1..work.cand /\ work'.done[work.cand] = o
                   /\ DOMAIN work.done = 1..work.cand - 1
                   /\ \A j \in 1..work.cand - 1 : work'.done[j] = work.done[j]
<1>1. /\ work.cand \in 1..K /\ work.attempt = 0 /\ work.used = 0
      /\ IsSeq(work.codes) /\ IsSeq(work.done) /\ work.codes = <<>>
      /\ Len(work.done) = work.cand - 1
      /\ g' = g /\ g'.node = "execution" /\ At("execution")
      /\ work \in [cand : {work.cand}, attempt : {work.attempt}, used : {work.used},
                   tree : {work.tree}, codes : {work.codes}, done : {work.done}]
  <2>1. At("execution") /\ work.cand <= K /\ g' = g
    BY DEF Execute
  <2>2. work.cand \in 1..K
    BY <2>1, Constants DEF WorkOK
  <2> QED
    BY <2>1, <2>2 DEF WorkOK, At
<1>2. PICK o : work' = [work EXCEPT !.cand = @ + 1, !.done = Append(@, o)]
  BY DEF Execute
<1>3. work' \in [cand : {work.cand + 1}, attempt : {0}, used : {0}, tree : {work.tree},
                 codes : {<<>>}, done : {Append(work.done, o)}]
  BY <1>1, <1>2
<1>4. /\ work'.cand = work.cand + 1 /\ work'.attempt = 0 /\ work'.used = 0
      /\ work'.codes = <<>> /\ work'.done = Append(work.done, o)
      /\ work' = [cand |-> work'.cand, attempt |-> work'.attempt, used |-> work'.used,
                  tree |-> work'.tree, codes |-> work'.codes, done |-> work'.done]
  BY <1>3
<1>5. /\ IsSeq(Append(work.done, o)) /\ Len(Append(work.done, o)) = Len(work.done) + 1
      /\ DOMAIN work.done = 1..Len(work.done)
      /\ DOMAIN Append(work.done, o) = 1..Len(work.done) + 1
      /\ \A k \in 1..Len(work.done) : Append(work.done, o)[k] = work.done[k]
      /\ Append(work.done, o)[Len(work.done) + 1] = o
  BY <1>1, AppendShape
<1>6. Len(work.done) + 1 = work.cand /\ work.cand + 1 \in 1..K + 1
  BY <1>1, Constants
<1>7. (work.cand + 1) - 1 = work.cand
  BY <1>1
<1>8. IsSeq(work'.codes) /\ IsSeq(work'.done) /\ Len(work'.done) = work'.cand - 1
  BY <1>4, <1>5, <1>6, <1>7, EmptyShape
<1>9. WorkOK'
  BY <1>1, <1>4, <1>6, <1>8 DEF WorkOK
<1> QED
  BY <1>1, <1>4, <1>5, <1>6, <1>9

LEMMA RefusedWork ==
  ASSUME GraphOK, WorkOK, g' = g, At("idea_plan"), work.attempt < PlannerRepairs,
         work' = [work EXCEPT !.attempt = @ + 1, !.used = @ + 1]
  PROVE  WorkOK' /\ work'.cand = work.cand /\ work'.attempt = work.attempt + 1
<1>1. /\ work.attempt \in Nat /\ work.used \in Nat /\ work.cand = 1
      /\ IsSeq(work.codes) /\ IsSeq(work.done) /\ work.codes = <<>> /\ work.done = <<>>
      /\ work.used <= work.attempt /\ g'.node = "idea_plan"
      /\ work \in [cand : {work.cand}, attempt : {work.attempt}, used : {work.used},
                   tree : {work.tree}, codes : {work.codes}, done : {work.done}]
  BY DEF WorkOK, At
<1>2. work' \in [cand : {1}, attempt : {work.attempt + 1}, used : {work.used + 1},
                 tree : {work.tree}, codes : {<<>>}, done : {<<>>}]
  BY <1>1
<1>3. /\ work'.cand = 1 /\ work'.attempt = work.attempt + 1 /\ work'.used = work.used + 1
      /\ work'.codes = <<>> /\ work'.done = <<>>
      /\ work' = [cand |-> work'.cand, attempt |-> work'.attempt, used |-> work'.used,
                  tree |-> work'.tree, codes |-> work'.codes, done |-> work'.done]
  BY <1>2
<1>4. /\ work.attempt + 1 \in Nat /\ work.used + 1 \in Nat /\ 1 \in 1..K + 1
      /\ work.used + 1 <= work.attempt + 1 /\ work.attempt + 1 <= PlannerRepairs
  BY <1>1, Constants
<1>5. IsSeq(work'.codes) /\ IsSeq(work'.done)
  BY <1>3, EmptyShape
<1> QED
  BY <1>1, <1>3, <1>4, <1>5 DEF WorkOK

\* In every node the worker's attempts and calls are bounded.
LEMMA WorkBounds ==
  ASSUME GraphOK, WorkOK
  PROVE  /\ work.attempt <= PlannerRepairs \/ work.attempt <= CodingRepairs
         /\ work.used <= PlannerRepairs \/ work.used <= Beyond
<1>0. 0 <= Beyond /\ 0 <= PlannerRepairs
  BY Constants DEF Beyond
<1>1. CASE g.node = "idea_plan"
  BY <1>1, Constants DEF WorkOK
<1>2. CASE g.node \notin {"idea_plan", "coding", "execution", "aborted"}
  BY <1>0, <1>2 DEF WorkOK, Fresh
<1>3. CASE g.node = "coding"
  <2>1. /\ work.cand \in 1..K + 1 /\ work.used \in Nat /\ work.attempt \in Nat
        /\ work.attempt <= CodingRepairs /\ (work.cand > K => work.attempt = 0)
        /\ work.used <= (work.cand - 1) * (CodingRepairs + 1) + work.attempt
    BY <1>3 DEF WorkOK
  <2>2. CASE work.cand \in 1..K
    <3>1. work.used <= Beyond
      BY <2>1, <2>2, NextCandidate
    <3> QED
      BY <2>1, <3>1
  <2>3. CASE work.cand = K + 1
    <3>1. work.attempt = 0 /\ (K + 1) - 1 = K /\ K * (CodingRepairs + 1) + 0 = K * (CodingRepairs + 1)
      BY <2>1, <2>3, Constants
    <3>2. work.used <= Beyond
      BY <2>1, <2>3, <3>1 DEF Beyond
    <3> QED
      BY <2>1, <3>2
  <2>4. work.cand \in 1..K \/ work.cand = K + 1
    <3>1. work.cand \in 1..K + 1
      BY <2>1
    <3> QED
      BY <3>1, Constants
  <2> QED
    BY <2>2, <2>3, <2>4, Zenon
<1>4. CASE g.node = "execution"
  BY <1>0, <1>4 DEF WorkOK
<1>5. CASE g.node = "aborted"
  BY <1>5 DEF WorkOK
<1> QED
  BY <1>1, <1>2, <1>3, <1>4, <1>5

LEMMA AbortedWork ==
  ASSUME GraphOK, WorkOK, Abort
  PROVE  WorkOK'
<1>1. work' = work /\ g'.node = "aborted"
  BY MoveAbort
<1>2. WorkOK /\ (work.attempt <= PlannerRepairs \/ work.attempt <= CodingRepairs)
             /\ (work.used <= PlannerRepairs \/ work.used <= Beyond)
  BY WorkBounds
<1> QED
  BY <1>1, <1>2 DEF WorkOK

LEMMA WorkStep ==
  ASSUME GraphOK, WorkOK, [Next]_vars
  PROVE  WorkOK' /\ g' \in GStates
<1>0. g \in GStates
  BY DEF GraphOK
<1>1. CASE PlanRaises \/ PlanRefused \/ PlanAccepted
  <2>1. CASE /\ g' = g /\ work.attempt < PlannerRepairs
             /\ work' = [work EXCEPT !.attempt = @ + 1, !.used = @ + 1] /\ At("idea_plan")
    BY <1>0, <2>1, RefusedWork
  <2>2. CASE work' = Fresh /\ g' \in GStates
    BY <2>2, FreshWork
  <2>3. At("idea_plan")
    BY <1>1 DEF PlanRaises, PlanRefused, PlanAccepted
  <2> QED
    BY <1>1, <2>1, <2>2, <2>3, MovePlan DEF Goes
<1>2. CASE CodeRegistered \/ CodeAttempt
  BY <1>0, <1>2, CodingWork
<1>3. CASE Execute
  BY <1>0, <1>3, ExecuteWork
<1>4. CASE Abort
  BY <1>4, AbortedWork, MoveAbort
<1>5. CASE PlanGate
  BY <1>5, MoveGate, FreshWork DEF Goes
<1>6. CASE EndCoding
  BY <1>6, MoveCoding, FreshWork DEF Goes
<1>7. CASE ExecuteRejected
  BY <1>7, MoveRejected, FreshWork DEF Goes
<1>8. CASE EndExecution
  BY <1>8, MoveExecution, FreshWork DEF Goes
<1>9. CASE FinalEvaluate
  BY <1>9, MoveFinal, FreshWork DEF Goes
<1>10. CASE WritingFails \/ Write
  BY <1>10, MoveWriting, FreshWork DEF Goes
<1>11. CASE Terminal
  BY <1>11, MoveTerminal, FreshWork DEF Goes
<1>12. CASE UNCHANGED vars
  BY <1>0, <1>12 DEF vars, WorkOK
<1> QED
  BY <1>1, <1>2, <1>3, <1>4, <1>5, <1>6, <1>7, <1>8, <1>9, <1>10, <1>11, <1>12
  DEF Next, Finished

LEMMA GraphStep ==
  ASSUME GraphOK, WorkOK, [Next]_vars
  PROVE  GraphOK'
<1>1. g' \in GStates
  BY WorkStep
<1>2. CASE UNCHANGED <<outcomes, rounds, final, terminal>>
  BY <1>1, <1>2 DEF GraphOK
<1>3. CASE EndExecution
  <2>1. /\ IsSeq(outcomes) /\ IsSeq(rounds) /\ Len(outcomes) = K * Len(rounds)
        /\ IsSeq(work.done) /\ Len(work.done) = K /\ Len(rounds) \in Nat
    <3>1. work.cand = K + 1 /\ Len(work.done) = work.cand - 1 /\ IsSeq(work.done)
      BY <1>3, Constants DEF EndExecution, At, WorkOK
    <3>2. IsSeq(rounds) => Len(rounds) \in Nat
      BY DEF IsSeq
    <3> QED
      BY <3>1, <3>2, Constants DEF GraphOK
  <2>2. IsSeq(outcomes \o work.done) /\ Len(outcomes \o work.done) = Len(outcomes) + K
    BY <2>1, ConcatShape
  <2>3. IsSeq(Append(rounds, g.round)) /\ Len(Append(rounds, g.round)) = Len(rounds) + 1
    BY <2>1, AppendShape
  <2>4. K * Len(rounds) + K = K * (Len(rounds) + 1)
    BY <2>1, Constants
  <2>5. /\ outcomes' = outcomes \o work.done /\ rounds' = Append(rounds, g.round)
        /\ final' = final /\ terminal' = terminal
    BY <1>3 DEF EndExecution
  <2>6. Len(outcomes') = K * Len(rounds')
    BY <2>1, <2>2, <2>3, <2>4, <2>5
  <2> QED
    BY <1>1, <2>2, <2>3, <2>5, <2>6 DEF GraphOK
<1>4. CASE FinalEvaluate
  <2>1. \E o : final' = {o}
    BY <1>4 DEF FinalEvaluate
  <2>2. \E o \in final' : final' = {o}
    BY <2>1
  <2>3. UNCHANGED <<outcomes, rounds, terminal>>
    BY <1>4 DEF FinalEvaluate, search
  <2> QED
    BY <1>1, <2>2, <2>3 DEF GraphOK
<1>5. CASE Terminal
  <2>1. UNCHANGED <<outcomes, rounds, final>>
    BY <1>5, SMTT(60) DEF Terminal, search
  <2> QED
    BY <1>1, <1>5, <2>1, MoveTerminal DEF GraphOK
<1>6. \/ UNCHANGED <<outcomes, rounds, final, terminal>>
      \/ EndExecution \/ FinalEvaluate \/ Terminal
  BY DEF Next, vars, Finished, PlanRaises, PlanRefused, PlanAccepted, PlanReviewed, IdeaEnds,
         Idle, PlanGate, CodeRegistered, CodeAttempt, CodingIdle, EndCoding, ExecuteRejected,
         Execute, WritingFails, Write, Abort, search
<1> QED
  BY <1>2, <1>3, <1>4, <1>5, <1>6

LEMMA ShapeInit ==
  ASSUME Init
  PROVE  GraphOK /\ WorkOK
<1>1. g \in GStates
  BY Vocabulary, Constants DEF Init, GStates, B!Statuses, B!Errors
<1>2. /\ IsSeq(outcomes) /\ IsSeq(rounds) /\ Len(outcomes) = K * Len(rounds)
  <2>1. outcomes = <<>> /\ rounds = <<>>
    BY DEF Init
  <2>2. K * 0 = 0
    BY Constants
  <2> QED
    BY <2>1, <2>2, EmptyShape
<1>3. GraphOK
  BY <1>1, <1>2 DEF GraphOK, Init
<1>4. WorkOK
  <2>1. work = Fresh /\ g.node = "idea_plan"
    BY DEF Init
  <2>2. /\ work = [cand |-> 1, attempt |-> 0, used |-> 0, tree |-> << >>, codes |-> <<>>,
                   done |-> <<>>]
        /\ 1 \in 1..K + 1 /\ 0 <= PlannerRepairs
    BY <2>1, Constants DEF Fresh
  <2> QED
    BY <2>1, <2>2, EmptyShape DEF WorkOK
<1> QED
  BY <1>3, <1>4

\* The graph's state, the records and each worker's own state keep their shape.
THEOREM ShapeHolds == Spec => [](GraphOK /\ WorkOK)
<1>1. Init => GraphOK /\ WorkOK
  BY ShapeInit
<1>2. GraphOK /\ WorkOK /\ [Next]_vars => (GraphOK /\ WorkOK)'
  BY WorkStep, GraphStep
<1> QED
  BY <1>1, <1>2, PTL DEF Spec

-----------------------------------------------------------------------------
(* What a run can spend *)

\* The calls of the passes that replans may add.
Passes(n) == n * (PlannerRepairs + 1)
LEMMA PassesAdd ==
  ASSUME NEW n \in 0..MaxReplans
  PROVE  /\ Passes(n) \in Nat /\ Passes(n + 1) \in Nat /\ Passes(MaxReplans + 1) \in Nat
         /\ Passes(n + 1) = Passes(n) + PlannerRepairs + 1
         /\ Passes(n + 1) <= Passes(MaxReplans + 1)
<1> DEFINE r == PlannerRepairs + 1
<1>1. r \in Nat /\ MaxReplans \in Nat
  BY Constants
<1>2. (n + 1) * r = n * r + r /\ n * r \in Nat /\ (n + 1) * r \in Nat
  <2> HIDE DEF r
  <2> QED
    BY <1>1
<1>3. /\ (MaxReplans + 1) * r = (n + 1) * r + (MaxReplans - n) * r
      /\ (MaxReplans - n) * r \in Nat
  <2> HIDE DEF r
  <2> QED
    BY <1>1
<1> QED
  BY <1>2, <1>3, Constants DEF Passes

SpentStated ==
  LET looked == Budget + Beyond + 2
  IN  /\ g.node = "idea_plan" => g.calls <= looked + Passes(g.replans)
      /\ g.node \in {"plan_gate", "coding"} => g.calls <= Budget
      /\ g.node \in {"execution", "final_evaluation", "writing"} => g.calls <= Budget + Beyond
      /\ g.node \in {"terminal", "end", "aborted"} =>
           g.calls + work.used <= looked + Passes(MaxReplans + 1)
LEMMA SpentSame == SpentOK <=> SpentStated
  BY DEF SpentOK, SpentStated, Passes

\* A step that ends a node starts the next one's worker afresh.
LEMMA SpentAt ==
  ASSUME GraphOK, WorkOK, SpentOK, [Next]_vars
  PROVE  SpentOK'
<1> DEFINE looked == Budget + Beyond + 2  r == g.replans  top == Passes(MaxReplans + 1)
<1>0. /\ g \in GStates /\ g' \in GStates /\ WorkOK'
  BY WorkStep DEF GraphOK
<1>1. /\ g.calls \in Nat /\ g'.calls \in Nat /\ work.used \in Nat /\ work'.used \in Nat
      /\ Budget \in Nat /\ Beyond \in Nat /\ PlannerRepairs \in Nat /\ MaxReplans \in Nat
      /\ r \in 0..MaxReplans /\ g'.replans \in 0..MaxReplans
  <2>1. Beyond \in Nat
    BY Constants DEF Beyond
  <2>2. work.used \in Nat /\ work'.used \in Nat
    BY <1>0 DEF WorkOK
  <2> QED
    BY <1>0, <2>1, <2>2, Constants DEF GStates
<1>2. /\ Passes(r) \in Nat /\ Passes(r + 1) \in Nat /\ top \in Nat
      /\ Passes(r + 1) = Passes(r) + PlannerRepairs + 1 /\ Passes(r + 1) <= top
  BY <1>1, PassesAdd
<1>3. SpentStated
  BY SpentSame
<1>4. Fresh.used = 0
  BY DEF Fresh
<1>5. CASE PlanRaises \/ PlanRefused \/ PlanAccepted
  <2>1. g.node = "idea_plan" /\ work.used <= PlannerRepairs /\ g.calls <= looked + Passes(r)
    <3>1. g.node = "idea_plan"
      BY <1>5 DEF PlanRaises, PlanRefused, PlanAccepted, At
    <3>2. work.used <= work.attempt /\ work.attempt <= PlannerRepairs /\ work.attempt \in Nat
      BY <3>1 DEF WorkOK
    <3> QED
      BY <3>1, <3>2, <1>1, <1>3 DEF SpentStated
  <2>2. CASE g' = g
    <3>1. SpentStated'
      BY <1>3, <2>1, <2>2 DEF SpentStated
    <3> QED
      BY <3>1, SpentSame, PTL
  <2>3. CASE /\ work' = Fresh
             /\ \E used \in 0..1 : g'.calls = g.calls + work.used + used
             /\ \/ g'.node = "idea_plan" /\ g'.replans = r + 1
                \/ g'.node = "terminal"
                \/ g'.node = "plan_gate" /\ g'.calls <= Budget
    <3>1. g'.calls <= looked + Passes(r + 1) /\ work'.used = 0
      BY <1>1, <1>2, <1>4, <2>1, <2>3
    <3>2. SpentStated'
      BY <1>1, <1>2, <2>3, <3>1 DEF SpentStated
    <3> QED
      BY <3>2, SpentSame, PTL
  <2> QED
    BY <1>5, <2>2, <2>3, MovePlan DEF Goes, To, RejectedTo
<1>6. CASE CodeRegistered \/ CodeAttempt \/ Execute
  <2>1. g' = g /\ g.node \in {"coding", "execution"}
    BY <1>6, CodingWork, ExecuteWork DEF At
  <2>2. SpentStated'
    BY <1>3, <2>1 DEF SpentStated
  <2> QED
    BY <2>2, SpentSame, PTL
<1>7. CASE PlanGate \/ EndCoding \/ ExecuteRejected \/ EndExecution \/ FinalEvaluate
  <2>1. /\ work' = Fresh /\ g'.calls = g.calls + work.used
        /\ g'.node \in {"idea_plan", "coding", "execution", "final_evaluation", "writing", "terminal"}
        /\ g'.node \in {"coding", "terminal"} => PlanGate
    <3>1. Goes(0, 0) => g'.calls = g.calls + work.used
      BY <1>1 DEF Goes
    <3> QED
      BY <1>7, <3>1, MoveGate, MoveCoding, MoveRejected, MoveExecution, MoveFinal DEF To, RejectedTo
  <2>2. g.calls + work.used <= Budget + Beyond /\ (PlanGate => g.calls + work.used <= Budget)
    <3>1. CASE g.node \in {"plan_gate", "execution", "final_evaluation"}
      <4>1. work.used = 0
        BY <3>1 DEF WorkOK, Fresh
      <4>2. PlanGate => g.node = "plan_gate"
        BY DEF PlanGate, At
      <4> QED
        BY <1>1, <1>3, <3>1, <4>1, <4>2 DEF SpentStated
    <3>2. CASE g.node = "coding"
      <4>1. work.cand = K + 1
        BY <1>7, <3>2, Constants DEF WorkOK, EndCoding, PlanGate, ExecuteRejected, EndExecution,
                                    FinalEvaluate, At
      <4>2. work.used <= (work.cand - 1) * (CodingRepairs + 1) + 0
        BY <3>2, <4>1, Constants, SMTT(60) DEF WorkOK
      <4>3. (K + 1) - 1 = K /\ K * (CodingRepairs + 1) + 0 = K * (CodingRepairs + 1)
        BY Constants
      <4>4. work.used <= Beyond
        BY <4>1, <4>2, <4>3 DEF Beyond
      <4>5. ~PlanGate
        BY <3>2 DEF PlanGate, At
      <4> QED
        BY <1>1, <1>3, <3>2, <4>4, <4>5 DEF SpentStated
    <3>3. g.node \in {"plan_gate", "execution", "final_evaluation", "coding"}
      BY <1>7 DEF EndCoding, PlanGate, ExecuteRejected, EndExecution, FinalEvaluate, At
    <3> QED
      BY <3>1, <3>2, <3>3
  <2>3. Passes(g'.replans) \in Nat
    BY <1>1, PassesAdd
  <2>4. SpentStated'
    BY <1>1, <1>2, <1>4, <2>1, <2>2, <2>3 DEF SpentStated
  <2> QED
    BY <2>4, SpentSame, PTL
<1>8. CASE WritingFails \/ Write
  <2>1. PICK used \in 0..2 : g'.calls = g.calls + work.used + used
    BY <1>8, MoveWriting DEF Goes
  <2>2. work' = Fresh /\ g'.node \in {"idea_plan", "terminal"}
    BY <1>8, MoveWriting DEF To, RejectedTo
  <2>3. g.node = "writing" /\ work.used = 0
    BY <1>8 DEF WritingFails, Write, At, WorkOK, Fresh
  <2>4. Passes(g'.replans) \in Nat
    BY <1>1, PassesAdd
  <2>5. SpentStated'
    BY <1>1, <1>2, <1>3, <1>4, <2>1, <2>2, <2>3, <2>4 DEF SpentStated
  <2> QED
    BY <2>5, SpentSame, PTL
<1>9. CASE Terminal
  <2>1. work' = Fresh /\ g'.node = "end" /\ g'.calls = g.calls + work.used + 0 /\ g.node = "terminal"
    BY <1>9, MoveTerminal DEF Goes, To, Terminal, At
  <2>2. SpentStated'
    BY <1>1, <1>2, <1>3, <1>4, <2>1 DEF SpentStated
  <2> QED
    BY <2>2, SpentSame, PTL
<1>10. CASE Abort
  <2>1. g'.node = "aborted" /\ g'.calls = g.calls /\ work' = work
    BY <1>10, MoveAbort
  <2>2. g.node \in B!Nodes
    BY <1>10 DEF Abort
  <2>3. g.calls + work.used <= looked + top
    <3>1. CASE g.node = "idea_plan"
      <4>1. work.used <= PlannerRepairs /\ g.calls <= looked + Passes(r)
        <5>1. work.used <= work.attempt /\ work.attempt <= PlannerRepairs /\ work.attempt \in Nat
          BY <3>1 DEF WorkOK
        <5> QED
          BY <3>1, <5>1, <1>1, <1>3 DEF SpentStated
      <4> QED
        BY <1>1, <1>2, <4>1
    <3>2. CASE g.node = "coding"
      <4>1. g.calls <= Budget
        BY <3>2, <1>3 DEF SpentStated
      <4>2. work.used <= PlannerRepairs \/ work.used <= Beyond
        BY WorkBounds
      <4> QED
        BY <1>1, <1>2, <4>1, <4>2
    <3>3. CASE g.node \in {"plan_gate", "execution", "final_evaluation", "writing"}
      <4>1. work.used = 0
        BY <3>3 DEF WorkOK, Fresh
      <4> QED
        BY <1>1, <1>2, <1>3, <3>3, <4>1 DEF SpentStated
    <3>4. CASE g.node = "terminal"
      BY <3>4, <1>3 DEF SpentStated
    <3> QED
      BY <2>2, <3>1, <3>2, <3>3, <3>4, Vocabulary
  <2>4. SpentStated'
    BY <2>1, <2>3 DEF SpentStated
  <2> QED
    BY <2>4, SpentSame, PTL
<1>11. CASE UNCHANGED vars
  BY <1>11 DEF vars, SpentOK
<1> QED
  BY <1>5, <1>6, <1>7, <1>8, <1>9, <1>10, <1>11 DEF Next, Finished

\* The calls of a run stay within its budget and what may follow the last look.
LEMMA SpentEnough ==
  ASSUME GraphOK, WorkOK, SpentOK
  PROVE  OverspendBounded
<1> DEFINE looked == Budget + Beyond + 2  r == g.replans  top == Passes(MaxReplans + 1)
<1>1. /\ g.calls \in Nat /\ work.used \in Nat /\ Budget \in Nat /\ Beyond \in Nat
      /\ PlannerRepairs \in Nat /\ r \in 0..MaxReplans
  <2>1. Beyond \in Nat
    BY Constants DEF Beyond
  <2>2. work.used \in Nat
    BY DEF WorkOK
  <2> QED
    BY <2>1, <2>2, Constants DEF GraphOK, GStates
<1>2. /\ Passes(r) \in Nat /\ Passes(r + 1) \in Nat /\ top \in Nat
      /\ Passes(r + 1) = Passes(r) + PlannerRepairs + 1 /\ Passes(r + 1) <= top
  BY <1>1, PassesAdd
<1>3. SpentStated
  BY SpentSame
<1>4. g.calls + work.used <= looked + top
  <2>1. CASE g.node = "idea_plan"
    <3>1. work.used <= work.attempt /\ work.attempt <= PlannerRepairs /\ work.attempt \in Nat
      BY <2>1 DEF WorkOK
    <3>2. g.calls <= looked + Passes(r)
      BY <2>1, <1>3 DEF SpentStated
    <3> QED
      BY <1>1, <1>2, <3>1, <3>2
  <2>2. CASE g.node = "coding"
    <3>1. g.calls <= Budget
      BY <2>2, <1>3 DEF SpentStated
    <3>2. work.used <= PlannerRepairs \/ work.used <= Beyond
      BY WorkBounds
    <3> QED
      BY <1>1, <1>2, <3>1, <3>2
  <2>3. CASE g.node \in {"plan_gate", "execution", "final_evaluation", "writing"}
    <3>1. work.used = 0
      BY <2>3 DEF WorkOK, Fresh
    <3> QED
      BY <1>1, <1>2, <1>3, <2>3, <3>1 DEF SpentStated
  <2>4. CASE g.node \in {"terminal", "end", "aborted"}
    BY <2>4, <1>3 DEF SpentStated
  <2> QED
    BY <2>1, <2>2, <2>3, <2>4, Vocabulary DEF GraphOK, GStates
<1> QED
  BY <1>4 DEF OverspendBounded, Beyond, Passes

LEMMA SpentInit ==
  ASSUME Init
  PROVE  SpentOK
<1>1. g.node = "idea_plan" /\ g.calls = 0 /\ g.replans = 0
  BY DEF Init
<1>2. Passes(0) \in Nat /\ Beyond \in Nat
  BY PassesAdd, Constants DEF Beyond
<1>3. SpentStated
  BY <1>1, <1>2, Constants DEF SpentStated
<1> QED
  BY <1>3, SpentSame

-----------------------------------------------------------------------------
(* Every step uses up some of what is left *)

\* What the worker of the node can still do.
Rest ==
  (IF g.node = "idea_plan" THEN PlannerRepairs
   ELSE (K + 1 - work.cand) * (CodingRepairs + 1)) - work.attempt
MostRest == PlannerRepairs + (K + 1) * (CodingRepairs + 1)
Stopped == g.node \in {"end", "aborted"}

LEMMA Products ==
  ASSUME NEW c \in 1..K + 1
  PROVE  LET n == CodingRepairs + 1
         IN  /\ (K + 1 - c) * n \in 0..(K + 1) * n /\ (K + 1) * n \in Nat
             /\ c <= K => (K + 1 - c) * n = (K + 1 - (c + 1)) * n + n
             /\ c <= K => (K + 1 - c) * n >= n
<1> DEFINE n == CodingRepairs + 1
<1>1. n \in Nat /\ K \in Nat
  BY Constants
<1> HIDE DEF n
<1>2. (K + 1) * n \in Nat /\ (K + 1 - c) * n \in Nat /\ c * n \in Nat
  BY <1>1
<1>3. (K + 1) * n = (K + 1 - c) * n + c * n
  BY <1>1
<1>4. (K + 1 - c) * n = (K + 1 - (c + 1)) * n + n
  BY <1>1
<1>5. c <= K => (K + 1 - (c + 1)) * n \in Nat
  BY <1>1
<1>6. (K + 1 - c) * n \in 0..(K + 1) * n
  BY <1>2, <1>3
<1>7. c <= K => (K + 1 - c) * n >= n
  BY <1>1, <1>4, <1>5
<1> QED
  BY <1>2, <1>4, <1>6, <1>7 DEF n

LEMMA RestBounded ==
  ASSUME GraphOK, WorkOK, ~Stopped
  PROVE  Rest \in 0..MostRest
<1> DEFINE n == CodingRepairs + 1
<1>1. work.cand \in 1..K + 1 /\ work.attempt \in Nat
  BY DEF WorkOK
<1>2. /\ (K + 1 - work.cand) * n \in 0..(K + 1) * n /\ (K + 1) * n \in Nat
      /\ work.cand <= K => (K + 1 - work.cand) * n >= n
  BY <1>1, Products
<1>3. CASE g.node = "idea_plan"
  <2>1. work.attempt <= PlannerRepairs
    BY <1>3 DEF WorkOK
  <2>2. Rest = PlannerRepairs - work.attempt
    BY <1>3 DEF Rest
  <2> QED
    BY <1>1, <1>2, <2>1, <2>2, Constants DEF MostRest
<1>4. CASE g.node # "idea_plan"
  <2>1. Rest = (K + 1 - work.cand) * n - work.attempt
    BY <1>4 DEF Rest
  <2>2. CASE work.attempt = 0
    BY <1>1, <1>2, <2>1, <2>2, Constants DEF MostRest
  <2>3. CASE work.attempt # 0
    <3>1. g.node = "coding"
      BY <1>4, <2>3 DEF WorkOK, Stopped, Fresh
    <3>2. work.attempt <= CodingRepairs /\ ~(work.cand > K)
      BY <2>3, <3>1 DEF WorkOK
    <3>3. work.cand <= K
      BY <1>1, <3>2, Constants
    <3> QED
      BY <1>1, <1>2, <2>1, <3>2, <3>3, Constants DEF MostRest
  <2> QED
    BY <2>2, <2>3
<1> QED
  BY <1>3, <1>4

LEMMA RestBounds == GraphOK /\ WorkOK /\ ~Stopped => Rest \in 0..MostRest
  BY RestBounded

\* What is left of a run, with the products named.
Steps(n) == (RecursionLimit - n) * (1 + MostRest)
LEMMA LeftSays ==
  /\ Left = IF Stopped THEN 0 ELSE 1 + Steps(g.steps) + Rest
  /\ Left' = IF Stopped' THEN 0 ELSE 1 + Steps(g'.steps) + Rest'
<1>1. 1 + PlannerRepairs + (K + 1) * (CodingRepairs + 1) = 1 + MostRest
  <2>1. (K + 1) * (CodingRepairs + 1) \in Nat
    BY Constants
  <2> QED
    BY <2>1, Constants DEF MostRest
<1> DEFINE x == (IF g.node = "idea_plan" THEN PlannerRepairs
                 ELSE (K + 1 - work.cand) * (CodingRepairs + 1))
           y == (IF g'.node = "idea_plan" THEN PlannerRepairs
                 ELSE (K + 1 - work'.cand) * (CodingRepairs + 1))
<1>2. /\ Left = IF g.node \in {"end", "aborted"} THEN 0
                ELSE 1 + (RecursionLimit - g.steps) * (1 + MostRest) + x - work.attempt
      /\ Left' = IF g'.node \in {"end", "aborted"} THEN 0
                 ELSE 1 + (RecursionLimit - g'.steps) * (1 + MostRest) + y - work'.attempt
  BY <1>1 DEF Left
<1> QED
  BY <1>2 DEF Steps, Rest, Stopped

LEMMA StepsDrop ==
  ASSUME NEW n \in 0..RecursionLimit, n < RecursionLimit
  PROVE  Steps(n) = Steps(n + 1) + 1 + MostRest /\ Steps(n + 1) \in Nat /\ MostRest \in Nat
<1>1. MostRest \in Nat
  BY Constants DEF MostRest
<1> DEFINE m == 1 + MostRest
<1>2. m \in Nat
  BY <1>1
<1>3. (RecursionLimit - n) * m = (RecursionLimit - (n + 1)) * m + m
      /\ (RecursionLimit - (n + 1)) * m \in Nat
  <2> HIDE DEF m
  <2> QED
    BY <1>2, Constants
<1> QED
  BY <1>1, <1>2, <1>3 DEF Steps

\* A step that ends a node.
LEMMA NodeUses ==
  ASSUME GraphOK, WorkOK, GraphOK', WorkOK', ~Stopped, g.steps < RecursionLimit,
         g'.steps = g.steps + 1
  PROVE  Left' \in 0..(Left - 1)
<1>1. Rest \in 0..MostRest
  BY RestBounded
<1>2. Left = 1 + Steps(g.steps) + Rest
  BY LeftSays
<1>3. /\ Steps(g.steps) = Steps(g.steps + 1) + 1 + MostRest
      /\ Steps(g.steps + 1) \in Nat /\ MostRest \in Nat
  <2>1. g.steps \in 0..RecursionLimit
    BY DEF GraphOK, GStates
  <2> QED
    BY <2>1, StepsDrop
<1>4. CASE Stopped'
  <2>1. Left' = 0
    BY <1>4, LeftSays
  <2> QED
    BY <2>1, <1>1, <1>2, <1>3
<1>5. CASE ~Stopped'
  <2>1. Left' = 1 + Steps(g.steps + 1) + Rest'
    BY <1>5, LeftSays
  <2>2. Rest' \in 0..MostRest
    <3>1. (GraphOK /\ WorkOK /\ ~Stopped => Rest \in 0..MostRest)'
      BY RestBounds, PTL
    <3> QED
      BY <3>1, <1>5 DEF MostRest
  <2> QED
    BY <2>1, <2>2, <1>1, <1>2, <1>3
<1> QED
  BY <1>4, <1>5

\* A step within a node.
LEMMA AttemptUses ==
  ASSUME GraphOK, WorkOK, ~Stopped, GraphOK', WorkOK', g' = g, Rest' < Rest
  PROVE  Left' \in 0..(Left - 1)
<1>1. ~Stopped'
  BY DEF Stopped
<1>2. Left = 1 + Steps(g.steps) + Rest /\ Left' = 1 + Steps(g.steps) + Rest'
  BY <1>1, LeftSays
<1>3. Rest \in 0..MostRest /\ Rest' \in 0..MostRest
  <2>1. (GraphOK /\ WorkOK /\ ~Stopped => Rest \in 0..MostRest)'
    BY RestBounds, PTL
  <2> QED
    BY <2>1, <1>1, RestBounds DEF MostRest
<1>4. Steps(g.steps) \in Nat
  <2>1. RecursionLimit - g.steps \in Nat
    BY Constants DEF GraphOK, GStates
  <2>2. 1 + MostRest \in Nat
    BY Constants DEF MostRest
  <2> DEFINE a == RecursionLimit - g.steps  b == 1 + MostRest
  <2>3. a * b \in Nat
    <3>1. a \in Nat /\ b \in Nat
      BY <2>1, <2>2
    <3> HIDE DEF a, b
    <3> QED
      BY <3>1
  <2> QED
    BY <2>3 DEF Steps
<1>5. MostRest \in Nat
  BY Constants DEF MostRest
<1> QED
  BY <1>2, <1>3, <1>4, <1>5

\* A step within a node uses up an attempt or a candidate.
LEMMA RestDrops ==
  ASSUME GraphOK, WorkOK, g' = g,
         \/ /\ g.node = "idea_plan" /\ work'.attempt = work.attempt + 1
         \/ /\ g.node = "coding" /\ work.cand <= K
            /\ \/ work'.cand = work.cand + 1 /\ work'.attempt = 0
               \/ work'.cand = work.cand /\ work'.attempt = work.attempt + 1
         \/ /\ g.node = "execution" /\ work.cand <= K
            /\ work'.cand = work.cand + 1 /\ work'.attempt = 0
  PROVE  Rest' < Rest
<1> DEFINE n == CodingRepairs + 1
<1>1. work.cand \in 1..K + 1 /\ work.attempt \in Nat /\ n \in Nat
  BY Constants DEF WorkOK
<1>2. CASE g.node = "idea_plan"
  BY <1>1, <1>2, Constants DEF Rest
<1>3. CASE g.node \in {"coding", "execution"}
  <2>0. work.cand <= K /\ g.node # "idea_plan" /\ g'.node # "idea_plan"
    BY <1>3
  <2>1. /\ (K + 1 - work.cand) * n = (K + 1 - (work.cand + 1)) * n + n
        /\ (K + 1 - work.cand) * n \in Nat
    BY <1>1, <2>0, Products
  <2>2. /\ Rest = (K + 1 - work.cand) * n - work.attempt
        /\ Rest' = (K + 1 - work'.cand) * n - work'.attempt
    BY <2>0 DEF Rest
  <2>3. work.attempt <= CodingRepairs
    BY <1>3, Constants DEF WorkOK
  <2>4. CASE work'.cand = work.cand + 1 /\ work'.attempt = 0
    <3>1. (K + 1 - (work.cand + 1)) * n \in Int
      BY <1>1, Constants
    <3> QED
      BY <1>1, <2>1, <2>2, <2>3, <2>4, <3>1, Constants
  <2>5. CASE work'.cand = work.cand /\ work'.attempt = work.attempt + 1
    <3>1. Rest' = (K + 1 - work.cand) * n - (work.attempt + 1)
      BY <2>2, <2>5
    <3> HIDE DEF n
    <3> QED
      BY <1>1, <2>1, <2>2, <3>1
  <2> QED
    BY <1>3, <2>4, <2>5
<1> QED
  BY <1>2, <1>3

LEMMA EveryStepUses ==
  ASSUME GraphOK, WorkOK, GraphOK', WorkOK', Next, ~UNCHANGED vars
  PROVE  Left' \in 0..(Left - 1)
<1>1. CASE PlanRaises \/ PlanRefused \/ PlanAccepted
  <2>1. At("idea_plan")
    BY <1>1 DEF PlanRaises, PlanRefused, PlanAccepted
  <2>2. ~Stopped /\ g.steps < RecursionLimit
    BY <2>1 DEF Stopped, At
  <2>3. CASE /\ g' = g /\ work.attempt < PlannerRepairs
             /\ work' = [work EXCEPT !.attempt = @ + 1, !.used = @ + 1]
    <3>1. work'.attempt = work.attempt + 1
      BY <2>1, <2>3, RefusedWork
    <3> QED
      BY <2>1, <2>2, <2>3, <3>1, RestDrops, AttemptUses DEF At
  <2>4. CASE g'.steps = g.steps + 1
    BY <2>2, <2>4, NodeUses
  <2> QED
    BY <1>1, <2>3, <2>4, MovePlan DEF Goes
<1>2. CASE CodeRegistered \/ CodeAttempt \/ Execute
  <2>1. /\ g' = g /\ work.cand <= K
        /\ \/ g.node = "coding" /\ \/ work'.cand = work.cand + 1 /\ work'.attempt = 0
                                   \/ work'.cand = work.cand /\ work'.attempt = work.attempt + 1
           \/ g.node = "execution" /\ work'.cand = work.cand + 1 /\ work'.attempt = 0
    <3>1. work.cand <= K
      BY <1>2 DEF CodeRegistered, CodeAttempt, Execute
    <3> QED
      BY <1>2, <3>1, CodingWork, ExecuteWork DEF At
  <2>2. ~Stopped
    BY <2>1 DEF Stopped
  <2>3. Rest' < Rest
    BY <2>1, RestDrops
  <2> QED
    BY <2>1, <2>2, <2>3, AttemptUses
<1>3. CASE PlanGate \/ EndCoding \/ ExecuteRejected \/ EndExecution \/ FinalEvaluate
             \/ WritingFails \/ Write \/ Terminal
  <2>1. g'.steps = g.steps + 1
    BY <1>3, MoveGate, MoveCoding, MoveRejected, MoveExecution, MoveFinal, MoveWriting,
       MoveTerminal DEF Goes
  <2>2. ~Stopped /\ g.steps < RecursionLimit
    BY <1>3 DEF Stopped, At, PlanGate, EndCoding, ExecuteRejected, EndExecution, FinalEvaluate,
                WritingFails, Write, Terminal
  <2> QED
    BY <2>1, <2>2, NodeUses
<1>4. CASE Abort
  <2>1. g'.node = "aborted" /\ g.node \in B!Nodes
    BY <1>4, MoveAbort DEF Abort
  <2>2. Stopped' /\ ~Stopped
    BY <2>1, Vocabulary DEF Stopped
  <2>3. Left' = 0 /\ Left = 1 + Steps(g.steps) + Rest
    BY <2>2, LeftSays
  <2>4. Rest \in 0..MostRest /\ MostRest \in Nat
    BY <2>2, RestBounded, Constants DEF MostRest
  <2>5. Steps(g.steps) \in Nat
    <3>1. RecursionLimit - g.steps \in Nat
      BY Constants DEF GraphOK, GStates
    <3> DEFINE a == RecursionLimit - g.steps  b == 1 + MostRest
    <3>2. a * b \in Nat
      <4>1. a \in Nat /\ b \in Nat
        BY <3>1, <2>4
      <4> HIDE DEF a, b
      <4> QED
        BY <4>1
    <3> QED
      BY <3>2 DEF Steps
  <2> QED
    BY <2>3, <2>4, <2>5
<1> QED
  BY <1>1, <1>2, <1>3, <1>4 DEF Next, Finished

\* Planner repairs, coding attempts, candidates, nodes: whatever the workers do, a
\* bounded measure falls with every step, so no run of the workers goes on for ever.
THEOREM WorkersEnd == Spec => RunEnds
<1>1. GraphOK /\ WorkOK /\ (GraphOK /\ WorkOK)' /\ [Next]_vars => [Left' \in 0..(Left - 1)]_vars
  BY EveryStepUses
<1>2. Spec => [](GraphOK /\ WorkOK)
  BY ShapeHolds
<1> QED
  BY <1>1, <1>2, PTL DEF Spec, RunEnds

-----------------------------------------------------------------------------
(* The projection of a registered candidate to its parameter budget *)

Sizes == [Fields -> Int]
Grown(s, f) == [s EXCEPT ![f] = @ + 1]

\* What a projection has done to a size so far: no field has grown, and if the
\* result fits, some field it has cut could not be one larger.
Tight(model, limit, s, t) ==
  /\ t \in Sizes
  /\ \A f \in Fields : t[f] <= s[f]
  /\ Estimate(model, t) <= limit /\ t # s =>
       \E f \in Fields : t[f] < s[f] /\ ~(Estimate(model, Grown(t, f)) <= limit)

LEMMA ShrinkTight ==
  ASSUME NEW model, NEW limit, NEW s \in Sizes, NEW t, Tight(model, limit, s, t),
         NEW f \in Fields
  PROVE  Tight(model, limit, s, Shrink(model, limit, t, f))
<1> DEFINE u == Shrink(model, limit, t, f)
           fits == {v \in Least(f)..t[f] : Estimate(model, [t EXCEPT ![f] = v]) <= limit}
<1>1. t \in Sizes /\ s \in Sizes /\ Least(f) \in 1..2 /\ t[f] \in Int
  BY DEF Tight, Least, Sizes
<1>2. CASE Estimate(model, t) <= limit \/ t[f] <= Least(f)
  <2>1. u = t
    BY <1>2 DEF Shrink
  <2> QED
    BY <2>1
<1>3. CASE ~(Estimate(model, t) <= limit \/ t[f] <= Least(f))
  <2>1. u = [t EXCEPT ![f] = IF fits = {} THEN Least(f) ELSE Max(fits)]
    BY <1>3 DEF Shrink
  <2>2. t[f] \in Nat /\ Least(f) < t[f]
    BY <1>1, <1>3
  <2>3. t[f] \notin fits
    <3>1. [t EXCEPT ![f] = t[f]] = t
      BY <1>1 DEF Sizes
    <3> QED
      BY <1>3, <3>1
  <2>4. CASE fits = {}
    <3>1. u = [t EXCEPT ![f] = Least(f)]
      BY <2>1, <2>4
    <3>2. ~(Estimate(model, u) <= limit)
      <4>1. Least(f) \in Least(f)..t[f]
        BY <1>1, <2>2
      <4>2. Least(f) \notin fits
        BY <2>4
      <4> QED
        BY <3>1, <4>1, <4>2
    <3>3. u \in Sizes /\ \A h \in Fields : u[h] <= t[h]
      BY <1>1, <2>2, <3>1 DEF Sizes
    <3>4. \A h \in Fields : u[h] <= s[h]
      BY <1>1, <3>3 DEF Tight, Sizes
    <3> QED
      BY <3>2, <3>3, <3>4 DEF Tight
  <2>5. CASE fits # {}
    <3> DEFINE v == Max(fits)
    <3>1. v \in fits /\ \A y \in fits : v >= y
      <4>1. fits \in SUBSET (1..t[f])
        BY <1>1
      <4> HIDE DEF fits
      <4> QED
        BY <2>2, <2>5, <4>1, MaxOfPositions
    <3>2. v \in Least(f)..t[f] /\ v # t[f]
      BY <2>3, <3>1
    <3>3. v \in Int /\ v < t[f] /\ v + 1 \in Least(f)..t[f] /\ ~(v >= v + 1)
      BY <1>1, <2>2, <3>2
    <3>4. u = [t EXCEPT ![f] = v]
      BY <2>1, <2>5
    <3>5. v + 1 \notin fits
      <4> HIDE DEF v, fits
      <4> QED
        BY <3>1, <3>3
    <3>6. ~(Estimate(model, [t EXCEPT ![f] = v + 1]) <= limit)
      BY <3>3, <3>5
    <3> HIDE DEF v, fits, u
    <3>7. Grown(u, f) = [t EXCEPT ![f] = v + 1]
      BY <1>1, <3>4 DEF Grown, Sizes
    <3>8. u \in Sizes /\ u[f] = v /\ \A h \in Fields : u[h] <= t[h]
      BY <1>1, <3>3, <3>4 DEF Sizes
    <3>9. /\ u \in Sizes
          /\ \A h \in Fields : u[h] <= s[h]
          /\ u[f] < s[f]
      BY <1>1, <3>3, <3>8 DEF Tight, Sizes
    <3>10. ~(Estimate(model, Grown(u, f)) <= limit)
      BY <3>6, <3>7
    <3>11. Tight(model, limit, s, u)
      BY <3>9, <3>10 DEF Tight
    <3> QED
      BY <3>11 DEF u
  <2> QED
    BY <2>4, <2>5
<1> QED
  BY <1>2, <1>3

LEMMA ProjectedTight ==
  ASSUME NEW model, NEW limit, NEW s \in Sizes
  PROVE  Tight(model, limit, s, Projected(model, s, limit))
<1> DEFINE order == FieldOrder(model)
           cut(t, k) == IF k <= Len(order) THEN Shrink(model, limit, t, order[k]) ELSE t
<1>1. ASSUME NEW t, Tight(model, limit, s, t), NEW k \in 1..4
      PROVE  Tight(model, limit, s, cut(t, k))
  <2>1. CASE k <= Len(order)
    <3>1. order[k] \in Fields
      BY <2>1 DEF FieldOrder, Fields
    <3>2. Tight(model, limit, s, Shrink(model, limit, t, order[k]))
      BY <1>1, <3>1, ShrinkTight
    <3> QED
      BY <2>1, <3>2
  <2>2. CASE ~(k <= Len(order))
    BY <1>1, <2>2
  <2> QED
    BY <2>1, <2>2
<1>2. Tight(model, limit, s, s)
  BY DEF Tight, Sizes
<1>3. Projected(model, s, limit) = cut(cut(cut(cut(s, 1), 2), 3), 4)
  BY DEF Projected
<1> HIDE DEF cut
<1>4. Tight(model, limit, s, cut(s, 1))
  BY <1>1, <1>2
<1>5. Tight(model, limit, s, cut(cut(s, 1), 2))
  BY <1>1, <1>4
<1>6. Tight(model, limit, s, cut(cut(cut(s, 1), 2), 3))
  BY <1>1, <1>5
<1>7. Tight(model, limit, s, cut(cut(cut(cut(s, 1), 2), 3), 4))
  BY <1>1, <1>6
<1> QED
  BY <1>3, <1>7

-----------------------------------------------------------------------------
(* The candidates that are delivered *)

PolicyConstants ==
  /\ {ParamCeiling, EpochCeiling, GeneratedCeiling, Screening, Default} \subseteq Nat
  /\ ParamCeiling >= 1 /\ EpochCeiling >= 1 /\ GeneratedCeiling >= 1
  /\ HFLimit \in Nat /\ MinGenerated \in Nat
LEMMA PolicyNumbers == PolicyConstants
  BY PolicyAssumption DEF PolicyConstants

\* What the policy makes of a candidate: its kind is kept, its ceilings are the
\* run's, and a registered one is projected.
LEMMA NormalizedFields ==
  ASSUME NEW c, IsCandidate(c)
  PROVE  LET d == Normalized(c)
         IN  /\ d \in [id : {c.id}, src : {c.src}, model : {c.model}, size : Sizes,
                       epochs : [form : {"int", "text", "absent"}, n : Int],
                       budget : [params : Int, epochs : Int], refs : {c.refs}, cite : {c.cite}]
             /\ d.budget.params <= ParamCeiling
             /\ d.budget.epochs <= IF c.src = "generated" THEN GeneratedCeiling ELSE EpochCeiling
             /\ c.src = "generated" => d.size = c.size
             /\ c.src = "registered" /\ c.model \in Catalog =>
                  Tight(c.model, d.budget.params, c.size, d.size)
<1> DEFINE d == Normalized(c)
           b == [params |-> Min2(Max2(1, c.budget.params), ParamCeiling),
                 epochs |-> Min2(Max2(1, c.budget.epochs),
                                 IF c.src = "generated" THEN GeneratedCeiling ELSE EpochCeiling)]
           z == IF c.src = "registered" /\ c.model \in Catalog
                THEN Projected(c.model, c.size, b.params) ELSE c.size
           e == IF c.src = "registered" THEN Validated(c.model, c.epochs) ELSE c.epochs
<1>1. /\ c \in [id : {c.id}, src : {c.src}, model : {c.model}, size : {c.size},
                epochs : {c.epochs}, budget : {c.budget}, refs : {c.refs}, cite : {c.cite}]
      /\ c.src \in {"generated", "registered"} /\ c.size \in Sizes
      /\ c.epochs \in [form : {"int", "text", "absent"}, n : Int]
      /\ c.budget \in [params : Int, epochs : Int]
  BY DEF IsCandidate, Sizes
<1>2. d = [c EXCEPT !.budget = b, !.size = z, !.epochs = e]
  BY <1>1 DEF Normalized
<1>3. /\ b \in [params : Int, epochs : Int]
      /\ b.params <= ParamCeiling
      /\ b.epochs <= IF c.src = "generated" THEN GeneratedCeiling ELSE EpochCeiling
  <2>1. c.budget.params \in Int /\ c.budget.epochs \in Int
    BY <1>1
  <2>2. \A i \in Int, j \in Nat : Min2(Max2(1, i), j) \in Int /\ Min2(Max2(1, i), j) <= j
    BY DEF Min2, Max2
  <2>3. ParamCeiling \in Nat /\ (IF c.src = "generated" THEN GeneratedCeiling ELSE EpochCeiling) \in Nat
    BY PolicyNumbers DEF PolicyConstants
  <2> QED
    BY <2>1, <2>2, <2>3
<1>4. e \in [form : {"int", "text", "absent"}, n : Int]
  BY <1>1, PolicyNumbers DEF Validated, PolicyConstants
<1>5. c.src = "registered" /\ c.model \in Catalog => Tight(c.model, b.params, c.size, z)
  BY <1>1, ProjectedTight
<1>6. z \in Sizes
  <2>1. CASE c.src = "registered" /\ c.model \in Catalog
    BY <1>5, <2>1 DEF Tight
  <2>2. CASE ~(c.src = "registered" /\ c.model \in Catalog)
    BY <1>1, <2>2
  <2> QED
    BY <2>1, <2>2
<1> HIDE DEF b, z, e
<1>7. d \in [id : {c.id}, src : {c.src}, model : {c.model}, size : {z}, epochs : {e},
             budget : {b}, refs : {c.refs}, cite : {c.cite}]
  BY <1>1, <1>2
<1>8. d.size = z /\ d.budget = b /\ d.epochs = e
  BY <1>7
<1>9. c.src = "generated" => z = c.size
  BY DEF z
<1> QED
  BY <1>3, <1>4, <1>5, <1>6, <1>7, <1>8, <1>9

\* A delivered plan is the normalized reply, but for its references and its anchor.
LEMMA DeliveredFields ==
  ASSUME NEW p \in Plans
  PROVE  LET list == Delivered(p).list
         IN  /\ Len(p.list) \in Nat /\ DOMAIN p.list = 1..Len(p.list)
             /\ DOMAIN list = DOMAIN p.list /\ Len(list) = Len(p.list)
             /\ DOMAIN NormalizedList(p) = DOMAIN p.list
             /\ \A k \in DOMAIN list :
                  LET d == NormalizedList(p)[k]
                  IN  /\ IsCandidate(p.list[k]) /\ d = Normalized(p.list[k])
                      /\ list[k].id = p.list[k].id
                      /\ IsAnchor(k) => list[k].src = "registered"
                      /\ ~IsAnchor(k) => /\ list[k].src = d.src /\ list[k].model = d.model
                                         /\ list[k].size = d.size /\ list[k].epochs = d.epochs
                                         /\ list[k].budget = d.budget
<1> DEFINE n == NormalizedList(p)
           clean == [k \in DOMAIN n |-> CanonicalCandidate(n[k], Context)]
           q == CanonicalPlan([p EXCEPT !.list = n], Context)
<1>1. /\ p \in [complete : BOOLEAN, cites : {p.cites}, list : {p.list}]
      /\ p.list \in Seq({p.list[k] : k \in DOMAIN p.list})
      /\ \A k \in DOMAIN p.list : IsCandidate(p.list[k])
  BY WorkersAssumption DEF IsPlan, Range
<1>2. Len(p.list) \in Nat /\ DOMAIN p.list = 1..Len(p.list)
  BY <1>1
<1>3. /\ DOMAIN n = DOMAIN p.list
      /\ \A k \in DOMAIN p.list : n[k] = Normalized(p.list[k])
  BY DEF NormalizedList
<1>4. \A k \in DOMAIN p.list :
        n[k] \in [id : {p.list[k].id}, src : {n[k].src}, model : {n[k].model},
                  size : {n[k].size}, epochs : {n[k].epochs}, budget : {n[k].budget},
                  refs : {n[k].refs}, cite : {n[k].cite}]
  <2> SUFFICES ASSUME NEW k \in DOMAIN p.list
               PROVE  n[k] \in [id : {p.list[k].id}, src : {n[k].src}, model : {n[k].model},
                                size : {n[k].size}, epochs : {n[k].epochs},
                                budget : {n[k].budget}, refs : {n[k].refs}, cite : {n[k].cite}]
    OBVIOUS
  <2> DEFINE c == p.list[k]
  <2>1. IsCandidate(c) /\ n[k] = Normalized(c)
    BY <1>1, <1>3
  <2>2. Normalized(c) \in [id : {c.id}, src : {c.src}, model : {c.model}, size : Sizes,
                           epochs : [form : {"int", "text", "absent"}, n : Int],
                           budget : [params : Int, epochs : Int], refs : {c.refs}, cite : {c.cite}]
    BY <2>1, NormalizedFields
  <2> HIDE DEF c, n
  <2>3. n[k] \in [id : {c.id}, src : {n[k].src}, model : {n[k].model},
                  size : {n[k].size}, epochs : {n[k].epochs},
                  budget : {n[k].budget}, refs : {n[k].refs}, cite : {n[k].cite}]
    BY <2>1, <2>2
  <2> QED
    BY <2>3 DEF c
<1>5. q.list = clean
  <2>1. [p EXCEPT !.list = n].list = n
    BY <1>1
  <2>2. [p EXCEPT !.list = n] \in [complete : BOOLEAN, cites : {p.cites}, list : {n}]
    BY <1>1
  <2> HIDE DEF n
  <2> QED
    BY <2>1, <2>2 DEF CanonicalPlan
<1>6. /\ DOMAIN clean = DOMAIN p.list
      /\ \A k \in DOMAIN p.list :
           /\ clean[k].id = p.list[k].id /\ clean[k].src = n[k].src
           /\ clean[k].model = n[k].model /\ clean[k].size = n[k].size
           /\ clean[k].epochs = n[k].epochs /\ clean[k].budget = n[k].budget
           /\ DOMAIN clean[k] = {"id", "src", "model", "size", "epochs", "budget", "refs", "cite"}
  <2> HIDE DEF n
  <2> QED
    BY <1>3, <1>4 DEF CanonicalCandidate
<1>7. \A k \in DOMAIN p.list : IsAnchor(k) <=> AnchorApplies(g.round) /\ k = 1
  BY DEF IsAnchor
<1>8. CASE ~AnchorApplies(g.round)
  <2>1. Delivered(p).list = clean
    BY <1>5, <1>8 DEF Delivered
  <2>2. Len(clean) = Len(p.list)
    <3> HIDE DEF clean
    <3> QED
      BY <1>2, <1>6
  <2> HIDE DEF clean, n
  <2> QED
    BY <1>1, <1>2, <1>3, <1>6, <1>7, <1>8, <2>1, <2>2 DEF n
<1>9. CASE AnchorApplies(g.round)
  <2> DEFINE a == CHOOSE a \in Anchor : TRUE
             anchored == [clean[1] EXCEPT !.src = "registered", !.model = a.model,
                            !.size = a.size, !.epochs = Validated(a.model, a.epochs),
                            !.budget = a.budget]
             list == Delivered(p).list
  <2>1. Delivered(p) = [q EXCEPT !.list = WithAnchor(@)]
    BY <1>9 DEF Delivered
  <2>2. "list" \in DOMAIN q
    <3>1. [p EXCEPT !.list = n] \in [complete : BOOLEAN, cites : {p.cites}, list : {n}]
      BY <1>1
    <3> HIDE DEF n
    <3> QED
      BY <3>1 DEF CanonicalPlan
  <2>3. list = WithAnchor(clean)
    <3> HIDE DEF q, clean
    <3> QED
      BY <1>5, <2>1, <2>2
  <2>4. WithAnchor(clean) = [clean EXCEPT ![1] = anchored]
    <3> HIDE DEF clean, n, q
    <3> QED
      BY DEF WithAnchor
  <2> HIDE DEF anchored, list, q
  <2>5. /\ DOMAIN list = DOMAIN p.list
        /\ \A k \in DOMAIN p.list : k # 1 => list[k] = clean[k]
        /\ 1 \in DOMAIN p.list => list[1] = anchored
    <3> HIDE DEF clean
    <3> QED
      BY <1>6, <2>3, <2>4
  <2>6. 1 \in DOMAIN p.list => anchored.id = p.list[1].id /\ anchored.src = "registered"
    <3> HIDE DEF clean, a
    <3> QED
      BY <1>6 DEF anchored
  <2>7. Len(list) = Len(p.list)
    <3>1. DOMAIN list = 1..Len(p.list) /\ list = [k \in 1..Len(p.list) |-> list[k]]
      <4> HIDE DEF clean
      <4> QED
        BY <1>2, <1>6, <2>3, <2>4
    <3> QED
      BY <1>2, <3>1
  <2> HIDE DEF clean, n
  <2>8. ASSUME NEW k \in DOMAIN p.list
        PROVE  /\ list[k].id = p.list[k].id
               /\ IsAnchor(k) => list[k].src = "registered"
               /\ ~IsAnchor(k) => /\ list[k].src = n[k].src /\ list[k].model = n[k].model
                                  /\ list[k].size = n[k].size /\ list[k].epochs = n[k].epochs
                                  /\ list[k].budget = n[k].budget
    <3>1. CASE k = 1
      BY <1>7, <1>9, <2>5, <2>6, <3>1
    <3>2. CASE k # 1
      BY <1>6, <1>7, <2>5, <3>2
    <3> QED
      BY <3>1, <3>2
  <2> QED
    BY <1>1, <1>2, <1>3, <2>5, <2>7, <2>8 DEF list, n
<1> QED
  BY <1>8, <1>9

-----------------------------------------------------------------------------
(* The plan that is executed *)

LEMMA TakenStays ==
  ASSUME NEW p, TakenFrom(p), g'.round = g.round, plan' = plan
  PROVE  TakenFrom(p)'
  BY DEF TakenFrom, Taken, AnchorRaises, AnchorApplies, Delivered

LEMMA PlanInit == Init => PlanOK
  BY DEF Init, PlanOK, NoPlan

\* A plan is accepted, or what was accepted stays until the round has executed it.
LEMMA PlanAcceptedOK ==
  ASSUME GraphOK, WorkOK, PlanOK, PlanAccepted
  PROVE  PlanOK'
<1>1. PICK p \in Taken[g.round] \ AnchorRaises : PlanReviewed(p)
  BY DEF PlanAccepted
<1>2. CASE IdeaEnds(Rejection("terminal", 1)) /\ plan' = plan
  <2>1. g'.node \in {"idea_plan", "terminal"}
    BY <1>2, IdeaRejected DEF PlanAccepted, RejectedTo, To
  <2> QED
    BY <1>2, <2>1 DEF PlanOK, Named
<1>3. CASE plan' = [raw |-> p.list, list |-> Delivered(p).list,
                    ok |-> GateAdmits(Delivered(p), K, g.round, KnownFacts, Context)]
  <2>1. /\ g'.node \in {"idea_plan", "terminal", "plan_gate"} /\ g'.round = g.round
    <3>1. g.node = "idea_plan"
      BY DEF PlanAccepted, At
    <3> QED
      BY <3>1, MovePlan DEF To, RejectedTo
  <2>2. p \in Plans /\ TakenFrom(p)'
    <3>1. Taken[g.round]' = Taken[g.round] /\ AnchorRaises' = AnchorRaises
      BY <2>1 DEF Taken, AnchorRaises, AnchorApplies
    <3>2. Delivered(p)' = Delivered(p)
      BY <2>1 DEF Delivered, AnchorApplies
    <3>3. plan' = [raw |-> p.list, list |-> Delivered(p).list, ok |-> plan'.ok]
      BY <1>3
    <3>4. p \in Plans
      BY <1>1 DEF Taken, GraphOK, GStates
    <3> QED
      BY <1>1, <3>1, <3>2, <3>3, <3>4 DEF TakenFrom
  <2>3. plan'.ok => /\ Len(plan'.list) = K
                    /\ \A j, k \in Named(plan)' : plan'.list[j].id = plan'.list[k].id => j = k
    <3>1. plan'.list = Delivered(p).list
      BY <1>3
    <3>2. plan'.ok => GateAdmits(Delivered(p), K, g.round, KnownFacts, Context)
      BY <1>3
    <3>3. Named(plan)' = Named(Delivered(p))
      BY <3>1 DEF Named
    <3> QED
      BY <3>1, <3>2, <3>3 DEF GateAdmits
  <2> QED
    BY <2>1, <2>2, <2>3 DEF PlanOK
<1> QED
  BY <1>1, <1>2, <1>3 DEF PlanReviewed

LEMMA PlanStep ==
  ASSUME GraphOK, WorkOK, PlanOK, [Next]_vars
  PROVE  PlanOK'
<1> DEFINE Gates == {"plan_gate", "coding", "execution"}
<1>1. CASE g' = g /\ plan' = plan
  <2>1. \A p : TakenFrom(p) => TakenFrom(p)'
    BY <1>1, TakenStays
  <2> QED
    BY <1>1, <2>1 DEF PlanOK, Named
<1>2. CASE plan' = plan /\ g'.node \notin Gates
  BY <1>2 DEF PlanOK, Named
<1>3. CASE /\ plan' = plan /\ g.node \in Gates /\ g'.round = g.round
           /\ g'.node \in {"coding", "execution"} => plan.ok
  <2>1. \A p : TakenFrom(p) => TakenFrom(p)'
    BY <1>3, TakenStays
  <2> QED
    BY <1>3, <2>1 DEF PlanOK, Named
<1>4. CASE PlanAccepted
  BY <1>4, PlanAcceptedOK
<1>5. CASE (PlanRaises \/ PlanRefused) /\ ~PlanAccepted
  <2>1. plan' = plan
    BY <1>5 DEF PlanRaises, PlanRefused
  <2>2. g' = g \/ g'.node = "terminal"
    BY <1>5, MovePlan DEF To
  <2> QED
    BY <1>1, <1>2, <2>1, <2>2
<1>6. CASE PlanGate
  <2>1. plan' = plan /\ g.node = "plan_gate" /\ g'.round = g.round
    BY <1>6, MoveGate DEF PlanGate, At
  <2>2. (g'.node = "coding" /\ plan.ok) \/ g'.node \notin Gates
    BY <1>6, MoveGate DEF To
  <2> QED
    BY <1>2, <1>3, <2>1, <2>2
<1>7. CASE EndCoding
  <2>1. plan' = plan /\ g.node = "coding" /\ g'.round = g.round
    BY <1>7, MoveCoding DEF EndCoding, At
  <2>2. plan.ok
    BY <2>1 DEF PlanOK
  <2> QED
    BY <1>3, <2>1, <2>2
<1>8. CASE CodeRegistered \/ CodeAttempt \/ Execute \/ Finished \/ UNCHANGED vars
  BY <1>1, <1>8 DEF CodeRegistered, CodeAttempt, CodingIdle, Execute, Finished, vars
<1>9. CASE ExecuteRejected \/ EndExecution \/ FinalEvaluate \/ WritingFails \/ Write \/ Terminal \/ Abort
  <2>1. plan' = plan
    BY <1>9 DEF ExecuteRejected, EndExecution, FinalEvaluate, WritingFails, Write, Terminal, Abort
  <2>2. g'.node \notin Gates
    BY <1>9, MoveRejected, MoveExecution, MoveFinal, MoveWriting, MoveTerminal, MoveAbort
       DEF To, RejectedTo
  <2> QED
    BY <1>2, <2>1, <2>2
<1> QED
  BY <1>4, <1>5, <1>6, <1>7, <1>8, <1>9 DEF Next

\* What a plan past the gate is.
LEMMA Executed ==
  ASSUME GraphOK, PlanOK, Gated
  PROVE  /\ Len(plan.list) = K
         /\ \A j, k \in Named(plan) : plan.list[j].id = plan.list[k].id => j = k
         /\ \E p \in Plans : /\ ApplyRunPolicy(p, g.round) /\ ~Breaks(p)
                             /\ plan.raw = p.list /\ plan.list = Delivered(p).list
<1>1. plan.ok /\ \E p \in Plans : TakenFrom(p)
  BY DEF PlanOK, Gated
<1>2. PICK p \in Plans : TakenFrom(p)
  BY <1>1
<1>3. g.round \in 1..Rounds
  BY DEF GraphOK, GStates
<1>4. ApplyRunPolicy(p, g.round) /\ ~Breaks(p)
  BY <1>2, <1>3 DEF TakenFrom, Taken
<1>5. plan.raw = p.list /\ plan.list = Delivered(p).list
  BY <1>2 DEF TakenFrom
<1> QED
  BY <1>1, <1>4, <1>5 DEF PlanOK

\* Of one candidate past the gate that is not the anchor.
LEMMA ExecutedCandidate ==
  ASSUME GraphOK, PlanOK, Gated, NEW k \in DOMAIN plan.list, ~IsAnchor(k)
  PROVE  LET c == plan.list[k]  r == plan.raw[k]
         IN  /\ IsCandidate(r) /\ c.src = r.src /\ c.model = r.model /\ c.size \in Sizes
             /\ c.epochs \in [form : {"int", "text", "absent"}, n : Int]
             /\ c.budget \in [params : Int, epochs : Int]
             /\ c.budget.params <= ParamCeiling
             /\ c.budget.epochs <= IF c.src = "generated" THEN GeneratedCeiling ELSE EpochCeiling
             /\ Epochs(c) <= c.budget.epochs
             /\ c.src = "registered" =>
                  /\ ValidOverrides(c.model, c.size, c.epochs, c.budget.params)
                  /\ Tight(c.model, c.budget.params, r.size, c.size)
<1>1. PICK p \in Plans : /\ ApplyRunPolicy(p, g.round)
                         /\ plan.raw = p.list /\ plan.list = Delivered(p).list
  BY Executed
<1> DEFINE c == plan.list[k]  r == plan.raw[k]  d == Normalized(r)
<1>2. /\ k \in DOMAIN p.list /\ IsCandidate(r) /\ NormalizedList(p)[k] = d
      /\ k \in DOMAIN NormalizedList(p)
      /\ c.src = d.src /\ c.model = d.model /\ c.size = d.size
      /\ c.epochs = d.epochs /\ c.budget = d.budget
  BY <1>1, DeliveredFields
<1>3. PolicyAdmits(d)
  BY <1>1, <1>2 DEF ApplyRunPolicy
<1> HIDE DEF c, r
<1>4. /\ d \in [id : {r.id}, src : {r.src}, model : {r.model}, size : Sizes,
                epochs : [form : {"int", "text", "absent"}, n : Int],
                budget : [params : Int, epochs : Int], refs : {r.refs}, cite : {r.cite}]
      /\ d.budget.params <= ParamCeiling
      /\ d.budget.epochs <= IF r.src = "generated" THEN GeneratedCeiling ELSE EpochCeiling
      /\ r.src = "registered" /\ r.model \in Catalog =>
           Tight(r.model, d.budget.params, r.size, d.size)
  BY <1>2, NormalizedFields
<1> HIDE DEF d
<1>5. /\ d.src = r.src /\ d.model = r.model /\ d.size \in Sizes
      /\ d.epochs \in [form : {"int", "text", "absent"}, n : Int]
      /\ d.budget \in [params : Int, epochs : Int]
  BY <1>4
<1>6. c.src = "registered" => r.model \in Catalog
                              /\ ValidOverrides(c.model, c.size, c.epochs, c.budget.params)
  BY <1>2, <1>3, <1>5 DEF PolicyAdmits
<1>7. Epochs(c) <= c.budget.epochs
  BY <1>2, <1>3 DEF PolicyAdmits, Epochs
<1> QED
  BY <1>2, <1>4, <1>5, <1>6, <1>7 DEF c, r

LEMMA EpochsAre ==
  ASSUME GraphOK, PlanOK
  PROVE  EpochsExplained
<1> SUFFICES ASSUME Gated, NEW k \in DOMAIN plan.list, ~IsAnchor(k)
             PROVE  LET c == plan.list[k]
                        ceiling == IF c.src = "generated" THEN GeneratedCeiling ELSE EpochCeiling
                    IN  Trains(c) > ceiling => c.src = "generated" /\ c.epochs.form # "int"
  BY DEF EpochsExplained
<1> DEFINE c == plan.list[k]
           ceiling == IF c.src = "generated" THEN GeneratedCeiling ELSE EpochCeiling
<1>1. /\ c.src = plan.raw[k].src /\ IsCandidate(plan.raw[k])
      /\ c.epochs \in [form : {"int", "text", "absent"}, n : Int]
      /\ c.budget \in [params : Int, epochs : Int]
      /\ c.budget.epochs <= ceiling /\ Epochs(c) <= c.budget.epochs
      /\ c.src = "registered" => ValidOverrides(c.model, c.size, c.epochs, c.budget.params)
  BY ExecutedCandidate
<1>2. c.src \in {"generated", "registered"}
  BY <1>1 DEF IsCandidate
<1> HIDE DEF c
<1>3. ceiling \in Nat /\ c.budget.epochs \in Int /\ c.epochs.n \in Int
      /\ c.epochs.form \in {"int", "text", "absent"}
  BY <1>1, PolicyNumbers DEF PolicyConstants
<1>4. CASE c.epochs.form = "int"
  BY <1>1, <1>3, <1>4 DEF Epochs, Trains, c
<1>5. CASE c.src = "registered" /\ c.epochs.form # "int"
  <2>1. c.epochs.form # "text"
    BY <1>1, <1>5 DEF ValidOverrides, ValidFields
  <2>2. Trains(c) = 0
    BY <1>3, <1>5, <2>1 DEF Trains
  <2> QED
    BY <1>3, <2>2 DEF c
<1>6. CASE c.src = "generated" /\ c.epochs.form # "int"
  BY <1>6 DEF c
<1> QED
  BY <1>2, <1>4, <1>5, <1>6 DEF c

LEMMA BudgetIs ==
  ASSUME GraphOK, PlanOK
  PROVE  BudgetHolds
<1> SUFFICES ASSUME Gated, NEW k \in DOMAIN plan.list, plan.list[k].src = "registered", ~IsAnchor(k)
             PROVE  LET c == plan.list[k]
                        cut == {f \in DOMAIN c.size : c.size[f] # plan.raw[k].size[f]}
                    IN  /\ Estimate(c.model, c.size) <= c.budget.params
                        /\ c.budget.params <= ParamCeiling
                        /\ \A f \in cut : c.size[f] < plan.raw[k].size[f]
                        /\ cut # {} => \E f \in cut :
                             ~(Estimate(c.model, [c.size EXCEPT ![f] = @ + 1]) <= c.budget.params)
  BY DEF BudgetHolds
<1> DEFINE c == plan.list[k]  r == plan.raw[k]
           cut == {f \in DOMAIN c.size : c.size[f] # r.size[f]}
<1>1. /\ IsCandidate(r) /\ c.size \in Sizes /\ c.budget.params <= ParamCeiling
      /\ ValidOverrides(c.model, c.size, c.epochs, c.budget.params)
      /\ Tight(c.model, c.budget.params, r.size, c.size)
  BY ExecutedCandidate
<1>2. r.size \in Sizes
  BY <1>1 DEF IsCandidate, Sizes
<1>3. Estimate(c.model, c.size) <= c.budget.params
  BY <1>1 DEF ValidOverrides
<1> HIDE DEF c, r
<1>4. DOMAIN c.size = Fields /\ \A f \in Fields : c.size[f] \in Int /\ r.size[f] \in Int
  BY <1>1, <1>2 DEF Sizes
<1>5. \A f \in cut : c.size[f] < r.size[f]
  BY <1>1, <1>4 DEF Tight
<1>6. cut # {} => \E f \in cut :
        ~(Estimate(c.model, [c.size EXCEPT ![f] = @ + 1]) <= c.budget.params)
  <2>1. SUFFICES ASSUME cut # {}
                 PROVE  \E f \in cut :
                          ~(Estimate(c.model, [c.size EXCEPT ![f] = @ + 1]) <= c.budget.params)
    OBVIOUS
  <2>2. c.size # r.size
    BY <2>1
  <2>3. PICK f \in Fields : /\ c.size[f] < r.size[f]
                            /\ ~(Estimate(c.model, Grown(c.size, f)) <= c.budget.params)
    BY <1>1, <1>3, <2>2 DEF Tight
  <2>4. f \in cut
    BY <1>4, <2>3
  <2> QED
    BY <2>3, <2>4 DEF Grown
<1> QED
  BY <1>1, <1>3, <1>5, <1>6 DEF c, r

\* The mix of a round: what the anchor replaces is one candidate.
LEMMA MixIs ==
  ASSUME GraphOK, PlanOK
  PROVE  MixExplained
<1> DEFINE rest == {k \in DOMAIN plan.list : ~IsAnchor(k)}
           limit == IF g.round \in HFRounds THEN HFLimit ELSE 0
           first == IF AnchorApplies(g.round) /\ plan.raw[1].src = "generated" THEN 1 ELSE 0
<1> SUFFICES ASSUME Gated
             PROVE  /\ HFRounds # {} => Cardinality(HighFidelity(plan.list) \cap rest) <= limit
                    /\ Cardinality(Generated(plan.list)) + first >= MinGenerated
  BY DEF MixExplained
<1>1. PICK p \in Plans : /\ ApplyRunPolicy(p, g.round)
                         /\ plan.raw = p.list /\ plan.list = Delivered(p).list
  BY Executed
<1> DEFINE n == NormalizedList(p)  H == HighFidelity(n)  G == Generated(n)
<1>2. /\ HFRounds # {} => Cardinality(H) <= limit
      /\ Cardinality(G) >= MinGenerated
  BY <1>1 DEF ApplyRunPolicy, MixAdmits
<1>3. /\ DOMAIN plan.list = DOMAIN n /\ DOMAIN n = 1..Len(p.list) /\ Len(p.list) \in Nat
      /\ \A k \in DOMAIN plan.list :
           /\ IsCandidate(p.list[k]) /\ n[k] = Normalized(p.list[k])
           /\ IsAnchor(k) => plan.list[k].src = "registered"
           /\ ~IsAnchor(k) => plan.list[k].src = n[k].src /\ plan.list[k].epochs = n[k].epochs
  BY <1>1, DeliveredFields
<1>4. \A k \in DOMAIN n : n[k].src = plan.raw[k].src
  BY <1>1, <1>3, NormalizedFields
<1>5. IsFiniteSet(H) /\ IsFiniteSet(G)
  <2>1. IsFiniteSet(DOMAIN n)
    BY <1>3, FS_Interval
  <2>2. H \subseteq DOMAIN n /\ G \subseteq DOMAIN n
    BY DEF HighFidelity, Generated
  <2> QED
    BY <2>1, <2>2, FS_Subset
<1>6. HighFidelity(plan.list) \cap rest \subseteq H
  BY <1>3 DEF HighFidelity, Epochs
<1>7. Cardinality(HighFidelity(plan.list) \cap rest) <= Cardinality(H)
      /\ Cardinality(HighFidelity(plan.list) \cap rest) \in Nat /\ Cardinality(H) \in Nat
  <2>1. IsFiniteSet(HighFidelity(plan.list) \cap rest)
        /\ Cardinality(HighFidelity(plan.list) \cap rest) <= Cardinality(H)
    <3> HIDE DEF H, rest
    <3> QED
      BY <1>5, <1>6, FS_Subset
  <2> QED
    BY <1>5, <2>1, FS_CardinalityType
<1>8. limit \in Nat /\ MinGenerated \in Nat /\ Cardinality(G) \in Nat
  BY <1>5, PolicyNumbers, FS_CardinalityType DEF PolicyConstants
<1>9. Cardinality(Generated(plan.list)) + first >= MinGenerated
  <2>1. CASE ~AnchorApplies(g.round)
    <3>1. Generated(plan.list) = G
      BY <1>3, <2>1 DEF Generated, IsAnchor
    <3> HIDE DEF G
    <3> QED
      BY <1>2, <1>8, <2>1, <3>1
  <2>2. CASE AnchorApplies(g.round)
    <3>1. Generated(plan.list) = G \ {1}
      BY <1>3, <2>2 DEF Generated, IsAnchor
    <3>2. 1 \in G => first = 1
      BY <1>4, <2>2 DEF Generated
    <3>3. first \in 0..1
      OBVIOUS
    <3>4. 1 \in G => Cardinality(G \ {1}) = Cardinality(G) - 1
      <4>1. IsFiniteSet(G)
        BY <1>5
      <4> HIDE DEF G
      <4> QED
        BY <4>1, FS_RemoveElement
    <3>5. 1 \notin G => G \ {1} = G
      <4> HIDE DEF G
      <4> QED
        OBVIOUS
    <3>6. Cardinality(G) >= MinGenerated /\ Cardinality(G) \in Nat /\ MinGenerated \in Nat
      BY <1>2, <1>8
    <3> HIDE DEF G, first
    <3>7. CASE 1 \in G
      <4>1. first = 1 /\ Cardinality(Generated(plan.list)) = Cardinality(G) - 1
        BY <3>1, <3>2, <3>4, <3>7
      <4> QED
        BY <3>6, <4>1
    <3>8. CASE 1 \notin G
      <4>1. first \in 0..1 /\ Generated(plan.list) = G
        BY <3>1, <3>3, <3>5, <3>8
      <4> QED
        BY <3>6, <4>1
    <3> QED
      BY <3>7, <3>8
  <2> QED
    BY <2>1, <2>2
<1> HIDE DEF H, G, rest, limit, first
<1> QED
  BY <1>2, <1>7, <1>8, <1>9

-----------------------------------------------------------------------------
(* The outcomes *)

LEMMA TypeIs ==
  ASSUME GraphOK, WorkOK, \A j \in DOMAIN outcomes : IsOutcome(outcomes[j])
  PROVE  TypeOK
<1>1. /\ work.attempt \in Nat /\ work.used \in Nat /\ work.cand \in 1..K + 1
      /\ work.attempt <= PlannerRepairs \/ work.attempt <= CodingRepairs
      /\ work.used <= PlannerRepairs \/ work.used <= Beyond
  BY WorkBounds DEF WorkOK
<1>2. PlannerRepairs \in Nat /\ CodingRepairs \in Nat /\ Beyond \in Nat
  BY Constants DEF Beyond
<1>3. work.attempt \in 0..Max({PlannerRepairs, CodingRepairs})
  <2>1. /\ Max({PlannerRepairs, CodingRepairs}) \in {PlannerRepairs, CodingRepairs}
        /\ Max({PlannerRepairs, CodingRepairs}) >= PlannerRepairs
        /\ Max({PlannerRepairs, CodingRepairs}) >= CodingRepairs
    BY <1>2, MaxOfTwo
  <2> QED
    BY <1>1, <1>2, <2>1
<1>4. work.used \in 0..Max({PlannerRepairs, Beyond})
  <2>1. /\ Max({PlannerRepairs, Beyond}) \in {PlannerRepairs, Beyond}
        /\ Max({PlannerRepairs, Beyond}) >= PlannerRepairs
        /\ Max({PlannerRepairs, Beyond}) >= Beyond
    BY <1>2, MaxOfTwo
  <2> QED
    BY <1>1, <1>2, <2>1
<1>5. Cardinality(final) <= 1
  <2>1. CASE final = {}
    BY <2>1, FS_EmptySet
  <2>2. CASE \E o \in final : final = {o}
    <3>1. PICK o \in final : final = {o}
      BY <2>2
    <3>2. Cardinality({o}) = 1
      BY FS_Singleton
    <3> QED
      BY <3>1, <3>2
  <2> QED
    BY <2>1, <2>2 DEF GraphOK
<1>6. \A j \in DOMAIN outcomes : outcomes[j].nmse \in Scores \cup {None}
  BY DEF IsOutcome
<1>7. /\ g.node \in B!Nodes \cup {"end", "aborted"} /\ g.round \in 1..Rounds
      /\ g.steps \in 0..RecursionLimit /\ g.calls \in Nat
      /\ Len(outcomes) = K * Len(rounds)
      /\ terminal \in B!TerminalRecords \cup {B!NoTerminal}
  BY DEF GraphOK, GStates
<1> QED
  BY <1>1, <1>3, <1>4, <1>5, <1>6, <1>7 DEF TypeOK, Beyond

\* What _execution_worker makes of a candidate is an outcome under its id.
LEMMA OutcomeIs ==
  ASSUME NEW id, IsId(id), NEW c, NEW status \in {"completed", "failed"}, NEW class,
         NEW nmse \in Scores \cup {None}, NEW by
  PROVE  LET o == Outcome(id, c, status, class, nmse, by)
         IN  /\ IsOutcome(o) /\ o.id = id /\ o.cand = c /\ o.by = by
             /\ o.status = status /\ o.nmse = nmse /\ o.child = Child(id)
             /\ o.psd <=> status = "completed"
  BY DEF Outcome, IsOutcome

LEMMA TrainingIs ==
  ASSUME NEW id, IsId(id), NEW c, NEW code, NEW o \in Trainings(id, c, code),
         NEW p \in Remembered(o)
  PROVE  /\ IsOutcome(o) /\ o.id = id /\ o.cand = c /\ o.by = code.owner
         /\ IsOutcome(p) /\ p.id = id /\ p.cand = c /\ p.by = code.owner
         /\ p.child = o.child /\ (p.psd => p = o /\ o.psd)
<1>1. \E status \in {"completed", "failed"}, nmse \in Scores \cup {None} :
        \E class : o = Outcome(id, c, status, class, nmse, code.owner)
  BY Zenon DEF Trainings
<1>2. PICK status \in {"completed", "failed"}, nmse \in Scores \cup {None} :
        \E class : o = Outcome(id, c, status, class, nmse, code.owner)
  BY <1>1
<1>3. PICK class : o = Outcome(id, c, status, class, nmse, code.owner)
  BY <1>2
<1>4. /\ IsOutcome(o) /\ o.id = id /\ o.cand = c /\ o.by = code.owner /\ o.child = Child(id)
  BY <1>3, OutcomeIs
<1>5. CASE p = o
  BY <1>4, <1>5
<1>6. CASE p = Outcome(o.id, o.cand, "failed", "error", None, o.by)
  <2>1. /\ IsOutcome(p) /\ p.id = o.id /\ p.cand = o.cand /\ p.by = o.by
        /\ p.child = Child(o.id) /\ ~p.psd
    BY <1>4, <1>6, OutcomeIs
  <2> QED
    BY <1>4, <2>1
<1> QED
  BY <1>5, <1>6 DEF Remembered

\* A publication changes what one child run id holds.
LEMMA Publishes ==
  ASSUME NEW o, Publish(o), o.psd
  PROVE  /\ DOMAIN evidence' = DOMAIN evidence \cup {o.child}
         /\ evidence'[o.child] = o.nmse
         /\ \A child \in DOMAIN evidence \ {o.child} : evidence'[child] = evidence[child]
  BY DEF Publish

LEMMA ScopedIsId ==
  ASSUME NEW x, IsId(x), NEW r \in Nat
  PROVE  IsId(Scoped(x, r))
<1>1. x \in [tags : Seq(Nat), name : {x.name}, final : Nat]
  BY DEF IsId
<1>2. CASE Scoped(x, r) = x
  BY <1>2
<1>3. CASE Scoped(x, r) = [x EXCEPT !.tags = <<r>> \o @]
  <2>1. <<r>> \o x.tags \in Seq(Nat)
    BY <1>1
  <2>2. Scoped(x, r) \in [tags : Seq(Nat), name : {x.name}, final : Nat]
    BY <1>1, <1>3, <2>1
  <2> QED
    BY <2>2 DEF IsId
<1> QED
  BY <1>2, <1>3 DEF Scoped

LEMMA ScopedIds ==
  ASSUME GraphOK, PlanOK, Gated, NEW k \in 1..K
  PROVE  /\ DOMAIN plan.list = 1..K /\ IsId(plan.list[k].id) /\ IsId(ScopedId(k))
<1>1. PICK p \in Plans : plan.list = Delivered(p).list
  BY Executed
<1>2. Len(plan.list) = K
  BY Executed
<1>3. DOMAIN plan.list = 1..K
  BY <1>1, <1>2, DeliveredFields
<1>4. plan.list[k].id = p.list[k].id /\ IsCandidate(p.list[k])
  <2>1. k \in DOMAIN Delivered(p).list
    BY <1>1, <1>3
  <2>2. Delivered(p).list[k].id = p.list[k].id /\ IsCandidate(p.list[k])
    BY <2>1, DeliveredFields
  <2> QED
    BY <1>1, <2>2
<1>5. IsId(plan.list[k].id)
  BY <1>4 DEF IsCandidate
<1>6. g.round \in Nat
  BY SMTT(60) DEF GraphOK, GStates
<1> QED
  BY <1>3, <1>5, <1>6, ScopedIsId DEF ScopedId

\* What executing a candidate adds: an outcome under its id, and at most its number.
LEMMA ExecuteGives ==
  ASSUME GraphOK, WorkOK, PlanOK, Execute
  PROVE  LET id == ScopedId(work.cand)
             code == CodeOf(work.cand)
             o == work'.done[work.cand]
         IN  /\ IsOutcome(o) /\ o.id = id /\ o.by = code.owner
             /\ \/ evidence' = evidence /\ ~o.psd
                \/ \E t : /\ IsOutcome(t) /\ t.id = id /\ t.psd /\ Publish(t)
                          /\ o.child = t.child /\ (o.psd => o = t)
<1> DEFINE id == ScopedId(work.cand)  code == CodeOf(work.cand)
<1>1. /\ work.cand \in 1..K /\ IsSeq(work.done) /\ Len(work.done) = work.cand - 1
      /\ Gated
      /\ work \in [cand : {work.cand}, attempt : {work.attempt}, used : {work.used},
                   tree : {work.tree}, codes : {work.codes}, done : {work.done}]
  <2>1. At("execution") /\ work.cand <= K
    BY DEF Execute
  <2>2. work.cand \in 1..K
    BY <2>1, Constants DEF WorkOK
  <2> QED
    BY <2>1, <2>2 DEF WorkOK, At, Gated
<1>2. ASSUME NEW x, work' = [work EXCEPT !.cand = @ + 1, !.done = Append(@, x)]
      PROVE  work'.done[work.cand] = x
  <2>1. work'.done = Append(work.done, x)
    BY <1>1, <1>2
  <2>2. Append(work.done, x)[Len(work.done) + 1] = x
    BY <1>1, AppendShape
  <2>3. Len(work.done) + 1 = work.cand
    BY <1>1
  <2> QED
    BY <2>1, <2>2, <2>3
<1>3. IsId(id)
  BY <1>1, ScopedIds
<1>4. CASE /\ work' = [work EXCEPT !.cand = @ + 1, !.done =
                         Append(@, Outcome(id, Cand, "failed", "coding_error", None, code.owner))]
           /\ evidence' = evidence
  <2> DEFINE o == Outcome(id, Cand, "failed", "coding_error", None, code.owner)
  <2>1. work'.done[work.cand] = o
    BY <1>2, <1>4
  <2> HIDE DEF id, code
  <2>2. IsOutcome(o) /\ o.id = id /\ o.by = code.owner /\ ~o.psd
    BY <1>3, OutcomeIs
  <2> QED
    BY <1>4, <2>1, <2>2 DEF id, code
<1>5. CASE \E o \in Trainings(id, Cand, code) :
             Publish(o) /\ \E p \in Remembered(o) :
               work' = [work EXCEPT !.cand = @ + 1, !.done = Append(@, p)]
  <2>1. PICK t \in Trainings(id, Cand, code) :
          Publish(t) /\ \E p \in Remembered(t) :
               work' = [work EXCEPT !.cand = @ + 1, !.done = Append(@, p)]
    BY <1>5
  <2>2. PICK p \in Remembered(t) : work' = [work EXCEPT !.cand = @ + 1, !.done = Append(@, p)]
    BY <2>1
  <2>3. work'.done[work.cand] = p
    BY <1>2, <2>2
  <2> HIDE DEF id, code
  <2>4. /\ IsOutcome(t) /\ t.id = id /\ IsOutcome(p) /\ p.id = id /\ p.by = code.owner
        /\ p.child = t.child /\ (p.psd => p = t /\ t.psd)
    BY <1>3, TrainingIs
  <2>5. CASE t.psd
    BY <2>1, <2>3, <2>4, <2>5 DEF id, code
  <2>6. CASE ~t.psd
    <3>1. evidence' = evidence /\ ~p.psd
      BY <2>1, <2>4, <2>6 DEF Publish
    <3> QED
      BY <2>3, <2>4, <3>1 DEF id, code
  <2> QED
    BY <2>5, <2>6
<1> QED
  BY <1>4, <1>5 DEF Execute

\* Only executing a candidate, the end of a round and the final evaluation change
\* results.
LEMMA ResultsStay ==
  ASSUME GraphOK, WorkOK, [Next]_vars
  PROVE  \/ Execute /\ outcomes' = outcomes /\ final' = final
         \/ EndExecution /\ final' = final /\ evidence' = evidence
         \/ FinalEvaluate /\ outcomes' = outcomes /\ work'.done = work.done
         \/ /\ outcomes' = outcomes /\ final' = final /\ evidence' = evidence
            /\ work'.done = work.done
<1>0. WorkOK'
  BY WorkStep
<1>1. \/ Execute \/ EndExecution
      \/ FinalEvaluate /\ outcomes' = outcomes
      \/ outcomes' = outcomes /\ final' = final /\ evidence' = evidence
  BY DEF Next, vars, Finished, PlanRaises, PlanRefused, PlanAccepted, PlanReviewed, IdeaEnds,
         Idle, PlanGate, CodeRegistered, CodeAttempt, CodingIdle, EndCoding, ExecuteRejected,
         FinalEvaluate, WritingFails, Write, Terminal, Abort, search
<1>2. Execute => outcomes' = outcomes /\ final' = final
  BY DEF Execute, search
<1>3. EndExecution => final' = final /\ evidence' = evidence
  BY DEF EndExecution
<1>4. ASSUME ~Execute, ~EndExecution
      PROVE  work'.done = work.done
  <2>1. CASE work' = Fresh /\ g.node \notin {"execution", "aborted"}
    <3>1. work.done = <<>> /\ work'.done = <<>>
      BY <2>1 DEF WorkOK, Fresh
    <3> QED
      BY <3>1
  <2>2. CASE work' = work
    BY <2>2
  <2>3. CASE PlanRaises \/ PlanRefused \/ PlanAccepted
    <3>1. g.node = "idea_plan"
      BY <2>3 DEF PlanRaises, PlanRefused, PlanAccepted, At
    <3>2. work' = Fresh \/ g' = g
      BY <2>3, MovePlan
    <3>3. CASE work' = Fresh
      BY <2>1, <3>1, <3>3
    <3>4. CASE g' = g
      <4>1. work.done = <<>> /\ work'.done = <<>>
        BY <1>0, <3>1, <3>4 DEF WorkOK
      <4> QED
        BY <4>1
    <3> QED
      BY <3>2, <3>3, <3>4
  <2>4. CASE CodeRegistered \/ CodeAttempt
    <3>1. WorkOK' /\ g' = g /\ g.node = "coding"
      BY <2>4, CodingWork DEF At
    <3>2. work.done = <<>> /\ work'.done = <<>>
      BY <3>1 DEF WorkOK
    <3> QED
      BY <3>2
  <2>5. CASE ExecuteRejected
    <3>1. work.cand = 1 /\ g.node = "execution" /\ work' = Fresh
      BY <2>5 DEF ExecuteRejected, At
    <3>2. IsSeq(work.done) /\ Len(work.done) = 0
      BY <3>1 DEF WorkOK
    <3>3. work.done = <<>>
      BY <3>2 DEF IsSeq
    <3> QED
      BY <3>1, <3>3 DEF Fresh
  <2>6. CASE PlanGate \/ EndCoding \/ FinalEvaluate \/ WritingFails \/ Write \/ Terminal
    <3>1. g.node \notin {"execution", "aborted"}
      BY <2>6 DEF PlanGate, EndCoding, FinalEvaluate, WritingFails, Write, Terminal, At
    <3>2. work' = Fresh
      BY <2>6, MoveGate, MoveCoding, MoveFinal, MoveWriting, MoveTerminal
    <3> QED
      BY <2>1, <3>1, <3>2
  <2>7. CASE Abort \/ Finished \/ UNCHANGED vars
    BY <2>7 DEF Abort, Finished, vars
  <2> QED
    BY <1>4, <2>3, <2>4, <2>5, <2>6, <2>7 DEF Next
<1>5. FinalEvaluate => ~Execute /\ ~EndExecution
  BY DEF FinalEvaluate, Execute, EndExecution, At
<1> QED
  BY <1>1, <1>2, <1>3, <1>4, <1>5

\* The end of a round puts its results behind the earlier ones.
LEMMA RoundAdded ==
  ASSUME GraphOK, WorkOK, EndExecution
  PROVE  /\ DOMAIN outcomes = 1..Len(outcomes) /\ DOMAIN work.done = 1..Len(work.done)
         /\ Len(outcomes) \in Nat /\ Len(work.done) \in Nat
         /\ DOMAIN outcomes' = 1..Len(outcomes) + Len(work.done)
         /\ \A k \in 1..Len(outcomes) : outcomes'[k] = outcomes[k]
         /\ \A k \in 1..Len(work.done) : outcomes'[Len(outcomes) + k] = work.done[k]
<1>1. IsSeq(outcomes) /\ IsSeq(work.done)
  BY DEF GraphOK, WorkOK
<1>2. outcomes' = outcomes \o work.done
  BY DEF EndExecution
<1> QED
  BY <1>1, <1>2, ConcatIs

LEMMA OutcomesInit == Init => OutcomesOK
  BY DEF Init, Fresh, OutcomesOK

LEMMA OutcomesStep ==
  ASSUME GraphOK, WorkOK, PlanOK, OutcomesOK, [Next]_vars
  PROVE  OutcomesOK'
<1>1. CASE outcomes' = outcomes /\ work'.done = work.done
  BY <1>1 DEF OutcomesOK
<1>2. CASE Execute /\ outcomes' = outcomes
  <2>1. /\ DOMAIN work'.done = 1..work.cand /\ DOMAIN work.done = 1..work.cand - 1
        /\ \A j \in 1..work.cand - 1 : work'.done[j] = work.done[j]
    BY <1>2, ExecuteWork
  <2>2. IsOutcome(work'.done[work.cand]) /\ work.cand \in Nat
    BY <1>2, ExecuteGives DEF WorkOK
  <2>3. \A j \in DOMAIN work'.done : j = work.cand \/ j \in 1..work.cand - 1
    BY <2>1, <2>2
  <2>4. \A j \in DOMAIN work'.done : IsOutcome(work'.done[j])
    BY <2>1, <2>2, <2>3 DEF OutcomesOK
  <2> QED
    BY <1>2, <2>4 DEF OutcomesOK
<1>3. CASE EndExecution
  <2>1. outcomes' = outcomes \o work.done /\ work'.done = <<>>
    BY <1>3 DEF EndExecution, Fresh
  <2>2. /\ DOMAIN outcomes = 1..Len(outcomes) /\ DOMAIN work.done = 1..Len(work.done)
        /\ Len(outcomes) \in Nat /\ Len(work.done) \in Nat
        /\ DOMAIN outcomes' = 1..Len(outcomes) + Len(work.done)
        /\ \A k \in 1..Len(outcomes) : outcomes'[k] = outcomes[k]
        /\ \A k \in 1..Len(work.done) : outcomes'[Len(outcomes) + k] = work.done[k]
    BY <1>3, RoundAdded
  <2>3. ASSUME NEW j \in DOMAIN outcomes'
        PROVE  IsOutcome(outcomes'[j])
    <3>1. CASE j \in 1..Len(outcomes)
      BY <2>2, <3>1 DEF OutcomesOK
    <3>2. CASE j \notin 1..Len(outcomes)
      <4>1. j - Len(outcomes) \in 1..Len(work.done) /\ j = Len(outcomes) + (j - Len(outcomes))
        BY <2>2, <2>3, <3>2
      <4> QED
        BY <2>2, <4>1 DEF OutcomesOK
    <3> QED
      BY <3>1, <3>2
  <2> QED
    BY <2>1, <2>3, EmptyShape DEF OutcomesOK
<1> QED
  BY <1>1, <1>2, <1>3, ResultsStay

-----------------------------------------------------------------------------
PolicyInv == GraphOK /\ WorkOK /\ SpentOK /\ PlanOK /\ OutcomesOK

LEMMA PolicyInductive == Spec => []PolicyInv
<1>1. Init => PolicyInv
  BY ShapeInit, SpentInit, PlanInit, OutcomesInit DEF PolicyInv
<1>2. PolicyInv /\ [Next]_vars => PolicyInv'
  BY WorkStep, GraphStep, SpentAt, PlanStep, OutcomesStep DEF PolicyInv
<1> QED
  BY <1>1, <1>2, PTL DEF Spec

\* Whatever plans, repairs, reviews and anchors a run has: the epochs, the mix of a
\* round and the parameters of what it executes keep the policy it was started with,
\* but for the anchor and for epochs that are no integer, and the calls it makes
\* beyond its budget are bounded. It says nothing of the references of a candidate.
THEOREM PolicyKept == Spec => []PolicyHolds
<1>1. PolicyInv => PolicyHolds
  BY TypeIs, EpochsAre, MixIs, BudgetIs, SpentEnough DEF PolicyInv, PolicyHolds, OutcomesOK
<1> QED
  BY <1>1, PolicyInductive, PTL

-----------------------------------------------------------------------------
(* The code that is executed *)

\* The package of a model that is written whole.
Packaged(tree, model) ==
  \E r \in Packages : FromJson(r, model) /\ tree = Returned(r, model) /\ StaticClean(tree)

LEMMA CodingAdds ==
  ASSUME GraphOK, WorkOK, PlanOK, CodeRegistered \/ CodeAttempt
  PROVE  \/ work'.codes = work.codes
         \/ \E passed, tree :
              /\ work'.codes = Append(work.codes,
                   [id |-> ScopedId(work.cand), owner |-> work.cand, src |-> Cand.src,
                    passed |-> passed, tree |-> tree])
              /\ passed /\ Cand.src = "generated" => Packaged(tree, Cand.model)
<1>1. /\ work.cand \in 1..K /\ Gated
      /\ work \in [cand : {work.cand}, attempt : {work.attempt}, used : {work.used},
                   tree : {work.tree}, codes : {work.codes}, done : {work.done}]
  <2>1. At("coding") /\ work.cand <= K
    BY DEF CodeRegistered, CodeAttempt
  <2>2. work.cand \in 1..K
    BY <2>1, Constants DEF WorkOK
  <2> QED
    BY <2>1, <2>2 DEF WorkOK, At, Gated
<1> DEFINE Result(passed, tree) ==
             [id |-> ScopedId(work.cand), owner |-> work.cand, src |-> Cand.src,
              passed |-> passed, tree |-> tree]
<1>2. ASSUME NEW passed, NEW used, NEW tree, Coded(passed, used, tree)
      PROVE  work'.codes = Append(work.codes, Result(passed, tree))
  <2> DEFINE e == Result(passed, tree)
  <2>1. work' = [work EXCEPT !.cand = @ + 1, !.attempt = 0, !.used = @ + used,
                             !.tree = << >>, !.codes = Append(@, e)]
    BY <1>2 DEF Coded
  <2> HIDE DEF e
  <2>2. work'.codes = Append(work.codes, e)
    BY <1>1, <2>1
  <2> QED
    BY <2>2 DEF e
<1>3. ASSUME NEW used, NEW tree, AttemptFails(used, tree)
      PROVE  work'.codes = work.codes \/ work'.codes = Append(work.codes, Result(FALSE, << >>))
  <2>1. CASE work' = [work EXCEPT !.attempt = @ + 1, !.used = @ + used, !.tree = tree]
    <3>1. work'.codes = work.codes
      BY <1>1, <2>1
    <3> QED
      BY <3>1
  <2>2. CASE Coded(FALSE, used, << >>)
    BY <1>2, <2>2
  <2> QED
    BY <1>3, <2>1, <2>2 DEF AttemptFails
<1>4. CASE CodeRegistered
  <2>1. Cand.src = "registered" /\ \E passed : Coded(passed, 0, << >>)
    BY <1>4 DEF CodeRegistered
  <2>2. PICK passed : Coded(passed, 0, << >>)
    BY <2>1
  <2>3. work'.codes = Append(work.codes, Result(passed, << >>))
    BY <1>2, <2>2
  <2> QED
    BY <2>1, <2>3
<1>5. CASE CodeAttempt
  <2>1. Cand.src = "generated"
    BY <1>5 DEF CodeAttempt
  <2>2. CASE \E used, tree : AttemptFails(used, tree)
    <3>1. work'.codes = work.codes \/ work'.codes = Append(work.codes, Result(FALSE, << >>))
      BY <1>3, <2>2
    <3> QED
      BY <3>1
  <2>3. CASE \E r \in Packages : \E files \in Files[r][Cand.model] :
               Written(files) = files /\ Coded(TRUE, 1, Apply(files))
    <3>0. PICK r \in Packages : \E files \in Files[r][Cand.model] :
            Written(files) = files /\ Coded(TRUE, 1, Apply(files))
      BY <2>3
    <3>1. PICK files \in Files[r][Cand.model] :
            Written(files) = files /\ Coded(TRUE, 1, Apply(files))
      BY <3>0
    <3>2. work'.codes = Append(work.codes, Result(TRUE, files))
      BY <1>2, <3>1 DEF Apply
    <3>3. Cand.model \in {c.model : c \in UNION {Range(p.list) : p \in Plans}}
      <4>1. PICK p \in Plans : plan.raw = p.list /\ plan.list = Delivered(p).list
        BY <1>1, Executed
      <4>2. DOMAIN plan.list = 1..K
        BY <1>1, ScopedIds
      <4>3. /\ work.cand \in DOMAIN p.list
            /\ IsAnchor(work.cand) => plan.list[work.cand].src = "registered"
        <5>1. work.cand \in DOMAIN Delivered(p).list
          BY <1>1, <4>1, <4>2
        <5>2. /\ DOMAIN Delivered(p).list = DOMAIN p.list
              /\ IsAnchor(work.cand) => Delivered(p).list[work.cand].src = "registered"
          BY <5>1, DeliveredFields
        <5> QED
          BY <4>1, <5>1, <5>2
      <4>4. ~IsAnchor(work.cand)
        BY <2>1, <4>3 DEF Cand
      <4>5. plan.list[work.cand].model = p.list[work.cand].model
        BY <1>1, <4>1, <4>2, <4>4, ExecutedCandidate
      <4> QED
        BY <4>3, <4>5 DEF Cand, Range
    <3>4. Files[r][Cand.model] = IF FromJson(r, Cand.model) /\ StaticClean(Returned(r, Cand.model))
                                 THEN {Returned(r, Cand.model)} ELSE {}
      BY <3>1, <3>3 DEF Files
    <3>5. Packaged(files, Cand.model)
      BY <3>1, <3>4 DEF Packaged
    <3> QED
      BY <3>2, <3>5
  <2> QED
    BY <1>5, <2>2, <2>3, Zenon DEF CodeAttempt
<1> QED
  BY <1>4, <1>5

LEMMA FitStays ==
  ASSUME NEW codes, CodesFit(codes), plan' = plan, g'.round = g.round
  PROVE  CodesFit(codes)'
  BY DEF CodesFit, ScopedId

LEMMA ScopedStays ==
  ASSUME plan' = plan, g'.round = g.round, NEW j
  PROVE  ScopedId(j)' = ScopedId(j)
  BY DEF ScopedId

\* The code that is executed for a candidate is the one that passed for its id.
LEMMA CodeOfIs ==
  ASSUME GraphOK, WorkOK, PlanOK, Gated, IsSeq(coded), Len(coded) = K, CodesFit(coded),
         NEW k \in 1..K
  PROVE  LET m == CodeOf(k).owner
         IN  \/ m = k
             \/ /\ plan.list[k].id # plan.list[m].id \/ plan.list[k].id.name = ""
                /\ ScopedId(k) = ScopedId(m)
<1> DEFINE S == {j \in DOMAIN coded : coded[j].id = ScopedId(k)}  m == Max(S)
<1>1. DOMAIN coded = 1..K
  BY DEF IsSeq
<1>2. k \in S /\ S \in SUBSET (1..K)
  BY <1>1 DEF CodesFit
<1>3. m \in S
  <2> HIDE DEF S
  <2> QED
    BY <1>2, Constants, MaxOfPositions
<1>4. m \in 1..K /\ CodeOf(k).owner = m /\ ScopedId(m) = ScopedId(k)
  BY <1>1, <1>3 DEF CodesFit, CodeOf
<1> HIDE DEF m, S
<1>5. DOMAIN plan.list = 1..K
  BY ScopedIds
<1>6. CASE plan.list[k].id = plan.list[m].id
  <2>1. CASE k \in Named(plan) /\ m \in Named(plan)
    <3>1. k = m
      BY <1>6, <2>1, Executed
    <3> QED
      BY <1>4, <3>1
  <2>2. CASE ~(k \in Named(plan) /\ m \in Named(plan))
    <3>1. plan.list[k].id = [tags |-> <<>>, name |-> "", final |-> 0]
      BY <1>4, <1>5, <1>6, <2>2 DEF Named
    <3>2. plan.list[k].id.name = ""
      <4>1. ASSUME NEW x, x = [tags |-> <<>>, name |-> "", final |-> 0]
            PROVE  x.name = ""
        BY <4>1
      <4> QED
        BY <3>1, <4>1
    <3> QED
      BY <1>4, <3>2
  <2> QED
    BY <2>1, <2>2
<1>7. CASE plan.list[k].id # plan.list[m].id
  BY <1>4, <1>7
<1> QED
  BY <1>6, <1>7

LEMMA CodesInit == Init => CodesOK
  BY DEF Init, Fresh, CodesOK, RunsGatedCode

LEMMA CodesStep ==
  ASSUME GraphOK, WorkOK, PlanOK, CodesOK, [Next]_vars
  PROVE  CodesOK'
<1>1. CASE CodeRegistered \/ CodeAttempt
  <2>1. /\ WorkOK' /\ g' = g /\ g.node = "coding" /\ plan' = plan /\ IsSeq(work.codes)
        /\ Len(work.codes) = work.cand - 1 /\ work.cand \in Nat
    <3>1. WorkOK' /\ g' = g /\ g.node = "coding"
      BY <1>1, CodingWork DEF At
    <3>2. plan' = plan
      BY <1>1 DEF CodeRegistered, CodeAttempt, CodingIdle
    <3>3. IsSeq(work.codes) /\ Len(work.codes) = work.cand - 1 /\ work.cand \in Nat
      BY <3>1 DEF WorkOK
    <3> QED
      BY <3>1, <3>2, <3>3
  <2>2. work'.done = <<>>
    BY <2>1 DEF WorkOK
  <2>3. CodesFit(work'.codes)
    <3>1. CASE work'.codes = work.codes
      BY <2>1, <3>1 DEF CodesOK
    <3>2. CASE \E passed, tree :
              /\ work'.codes = Append(work.codes,
                   [id |-> ScopedId(work.cand), owner |-> work.cand, src |-> Cand.src,
                    passed |-> passed, tree |-> tree])
              /\ passed /\ Cand.src = "generated" => Packaged(tree, Cand.model)
      <4>1. PICK passed, tree :
              /\ work'.codes = Append(work.codes,
                   [id |-> ScopedId(work.cand), owner |-> work.cand, src |-> Cand.src,
                    passed |-> passed, tree |-> tree])
              /\ passed /\ Cand.src = "generated" => Packaged(tree, Cand.model)
        BY <3>2
      <4> DEFINE e == [id |-> ScopedId(work.cand), owner |-> work.cand, src |-> Cand.src,
                       passed |-> passed, tree |-> tree]
                 codes == work.codes
      <4>2. /\ e.id = ScopedId(work.cand) /\ e.owner = work.cand
            /\ (e.passed /\ e.src = "generated") => Packaged(e.tree, Cand.model)
        BY <4>1
      <4>3. work'.codes = Append(codes, e)
        BY <4>1
      <4>4. IsSeq(codes) /\ Len(codes) = work.cand - 1
        BY <2>1
      <4> HIDE DEF e, codes
      <4>5. /\ DOMAIN codes = 1..Len(codes) /\ DOMAIN Append(codes, e) = 1..Len(codes) + 1
            /\ \A j \in 1..Len(codes) : Append(codes, e)[j] = codes[j]
            /\ Append(codes, e)[Len(codes) + 1] = e
        BY <4>4, AppendShape
      <4>6. CodesFit(codes)
        BY <2>1 DEF CodesOK, codes
      <4>7. ASSUME NEW j \in DOMAIN work'.codes
            PROVE  /\ work'.codes[j].id = ScopedId(j) /\ work'.codes[j].owner = j
                   /\ (work'.codes[j].passed /\ work'.codes[j].src = "generated") =>
                        Packaged(work'.codes[j].tree, plan.list[j].model)
        <5>1. CASE j = work.cand
          <6>1. work'.codes[j] = e
            BY <2>1, <4>3, <4>4, <4>5, <5>1
          <6> QED
            BY <4>2, <5>1, <6>1 DEF Cand
        <5>2. CASE j # work.cand
          <6>1. j \in DOMAIN codes /\ work'.codes[j] = codes[j]
            BY <2>1, <4>3, <4>4, <4>5, <5>2
          <6> QED
            BY <4>6, <6>1 DEF CodesFit, Packaged
        <5> QED
          BY <5>1, <5>2
      <4> QED
        BY <4>7 DEF CodesFit, Packaged
    <3> QED
      BY <1>1, <3>1, <3>2, CodingAdds
  <2>4. \A codes : CodesFit(codes) => CodesFit(codes)'
    BY <2>1, FitStays
  <2>5. CodesFit(work.codes)'
    BY <2>1, <2>3 DEF CodesFit, ScopedId
  <2>6. RunsGatedCode'
    BY <2>2, EmptyShape DEF RunsGatedCode
  <2> QED
    BY <2>1, <2>5, <2>6 DEF CodesOK, CodesFit
<1>2. CASE EndCoding
  <2>1. /\ g.node = "coding" /\ work.cand = K + 1 /\ g'.round = g.round /\ plan' = plan
        /\ IsSeq(work.codes) /\ Len(work.codes) = K /\ work' = Fresh
        /\ CodesFit(work.codes)
    <3>1. g.node = "coding" /\ work.cand > K /\ plan' = plan
      BY <1>2 DEF EndCoding, At
    <3>2. work.cand = K + 1
      BY <3>1, Constants DEF WorkOK
    <3> QED
      BY <1>2, <3>1, <3>2, MoveCoding, Constants DEF WorkOK, CodesOK
  <2>2. (g'.node = "execution" /\ coded' = work.codes) \/ g'.node = "idea_plan"
    BY <1>2, <2>1, MoveCoding DEF To, RejectedTo
  <2>3. g'.node = "execution" => IsSeq(coded') /\ Len(coded') = K /\ CodesFit(coded)'
    BY <2>1, <2>2, FitStays DEF CodesFit, ScopedId
  <2>4. RunsGatedCode'
    BY <2>1, EmptyShape DEF RunsGatedCode, Fresh
  <2> QED
    BY <2>2, <2>3, <2>4 DEF CodesOK, CodesFit
<1>3. CASE Execute
  <2>1. /\ g' = g /\ g.node = "execution" /\ plan' = plan /\ coded' = coded
        /\ DOMAIN work'.done = 1..work.cand /\ DOMAIN work.done = 1..work.cand - 1
        /\ \A j \in 1..work.cand - 1 : work'.done[j] = work.done[j]
        /\ work.cand \in 1..K
    <3>1. /\ g' = g /\ At("execution")
          /\ DOMAIN work'.done = 1..work.cand /\ DOMAIN work.done = 1..work.cand - 1
          /\ \A j \in 1..work.cand - 1 : work'.done[j] = work.done[j]
      BY <1>3, ExecuteWork
    <3>2. plan' = plan /\ coded' = coded /\ work.cand <= K
      BY <1>3 DEF Execute
    <3>3. work.cand \in 1..K
      BY <3>2, Constants DEF WorkOK
    <3> QED
      BY <3>1, <3>2, <3>3 DEF At
  <2>2. work'.done[work.cand].by = CodeOf(work.cand).owner
    BY <1>3, ExecuteGives
  <2>3. IsSeq(coded) /\ Len(coded) = K /\ CodesFit(coded) /\ Gated
    BY <2>1 DEF CodesOK, Gated
  <2>4. LET m == CodeOf(work.cand).owner
        IN  \/ m = work.cand
            \/ /\ plan.list[work.cand].id # plan.list[m].id \/ plan.list[work.cand].id.name = ""
               /\ ScopedId(work.cand) = ScopedId(m)
    BY <2>1, <2>3, CodeOfIs
  <2>5. ASSUME NEW j \in DOMAIN work'.done
        PROVE  LET o == work'.done[j]
               IN  \/ o.by = j
                   \/ /\ plan.list[j].id # plan.list[o.by].id \/ plan.list[j].id.name = ""
                      /\ ScopedId(j) = ScopedId(o.by)
    <3>1. CASE j = work.cand
      BY <2>2, <2>4, <3>1
    <3>2. CASE j # work.cand
      <4>1. j \in DOMAIN work.done /\ work'.done[j] = work.done[j]
        BY <2>1, <3>2
      <4> QED
        BY <4>1 DEF CodesOK, RunsGatedCode
    <3> QED
      BY <3>1, <3>2
  <2>6. RunsGatedCode'
    BY <2>1, <2>5, ScopedStays DEF RunsGatedCode, ScopedId
  <2>7. CodesFit(coded)'
    BY <2>1, <2>3 DEF CodesFit, ScopedId
  <2> QED
    BY <2>1, <2>3, <2>6, <2>7 DEF CodesOK
<1>4. CASE /\ work'.done = work.done /\ plan' = plan /\ g'.round = g.round
           /\ g'.node = "coding" => work'.codes = <<>>
           /\ g'.node # "execution"
  <2>1. RunsGatedCode'
    BY <1>4 DEF CodesOK, RunsGatedCode, ScopedId
  <2>2. CASE g'.node = "coding"
    <3>1. work'.codes = <<>>
      BY <1>4, <2>2
    <3>2. CodesFit(work.codes)'
      BY <3>1, EmptyShape DEF CodesFit
    <3> QED
      BY <2>1, <2>2, <3>2 DEF CodesOK, CodesFit
  <2>3. CASE g'.node # "coding"
    BY <1>4, <2>1, <2>3 DEF CodesOK
  <2> QED
    BY <2>2, <2>3
<1>5. CASE work' = Fresh /\ g'.node \notin {"coding", "execution"}
  <2>1. RunsGatedCode'
    BY <1>5, EmptyShape DEF RunsGatedCode, Fresh
  <2> QED
    BY <1>5, <2>1 DEF CodesOK
<1>6. CASE PlanRaises \/ PlanRefused \/ PlanAccepted
  <2>1. CASE work' = Fresh
    <3>1. g'.node \notin {"coding", "execution"}
      <4>1. g.node = "idea_plan"
        BY <1>6 DEF PlanRaises, PlanRefused, PlanAccepted, At
      <4> QED
        BY <1>6, <4>1, MovePlan DEF To, RejectedTo
    <3> QED
      BY <1>5, <2>1, <3>1
  <2>2. CASE PlanRefused /\ g' = g
    <3>1. g.node = "idea_plan" /\ plan' = plan /\ WorkOK'
      BY <2>2, WorkStep DEF PlanRefused, At, Next
    <3>2. work'.done = work.done
      BY <2>2, <3>1 DEF WorkOK
    <3> QED
      BY <1>4, <2>2, <3>1, <3>2
  <2> QED
    BY <1>6, <2>1, <2>2, MovePlan
<1>7. CASE PlanGate
  <2>1. g'.round = g.round /\ work' = Fresh /\ plan' = plan /\ g.node = "plan_gate"
    BY <1>7, MoveGate DEF PlanGate, At
  <2>2. g'.node # "execution"
    BY <1>7, MoveGate DEF To
  <2>3. work.done = <<>>
    BY <2>1 DEF WorkOK, Fresh
  <2> QED
    BY <1>4, <2>1, <2>2, <2>3 DEF Fresh
<1>8. CASE ExecuteRejected \/ EndExecution \/ FinalEvaluate \/ WritingFails \/ Write \/ Terminal
  BY <1>5, <1>8, MoveRejected, MoveExecution, MoveFinal, MoveWriting, MoveTerminal
     DEF To, RejectedTo
<1>9. CASE Abort
  <2>1. plan' = plan /\ work' = work /\ g'.round = g.round /\ g'.node = "aborted"
    BY <1>9, MoveAbort DEF Abort
  <2> QED
    BY <1>4, <2>1
<1>10. CASE Finished \/ UNCHANGED vars
  <2>1. UNCHANGED <<g, plan, work, coded>>
    BY <1>10 DEF Finished, vars
  <2> QED
    BY <2>1 DEF CodesOK, RunsGatedCode, CodesFit, ScopedId
<1> QED
  BY <1>1, <1>2, <1>3, <1>6, <1>7, <1>8, <1>9, <1>10 DEF Next

\* What is executed for a candidate is the code that passed for it, and its worktree
\* holds that package alone, whatever repairs, prefixes and replans came before.
THEOREM GatedCodeRuns == Spec => []CodeIsGated
<1>1. Init => CodesOK
  BY CodesInit
<1>2. PolicyInv /\ CodesOK /\ [Next]_vars => CodesOK'
  BY CodesStep DEF PolicyInv
<1>3. CodesOK => CodeIsGated
  BY DEF CodesOK, CodesFit, CodeIsGated, TreeIsPackage
<1> QED
  BY <1>1, <1>2, <1>3, PolicyInductive, PTL DEF Spec

-----------------------------------------------------------------------------
(* What the report says *)

\* Among the entries of a sequence some are least.
LEMMA LeastEntry ==
  ASSUME NEW f, NEW n \in Nat, \A k \in 1..n : f[k] \in Int,
         NEW S \in SUBSET (1..n), S # {}
  PROVE  \E k \in S : \A j \in S : f[k] <= f[j]
<1> DEFINE P(m) == \A U \in SUBSET (1..m) : U # {} => \E k \in U : \A j \in U : f[k] <= f[j]
           Bad == {m \in 0..n : ~P(m)}
<1>1. SUFFICES ASSUME Bad # {} PROVE FALSE
  <2>1. P(n)
    BY <1>1
  <2> QED
    BY <2>1
<1>2. PICK m \in Bad : \A i \in Bad : m <= i
  <2>1. Bad \in SUBSET Nat
    OBVIOUS
  <2> HIDE DEF Bad
  <2> QED
    BY <1>1, <2>1, LeastExists
<1>3. m \in 0..n /\ ~P(m)
  BY <1>2
<1>4. PICK U \in SUBSET (1..m) : U # {} /\ ~ \E k \in U : \A j \in U : f[k] <= f[j]
  BY <1>3
<1>5. m >= 1 /\ m \in 1..n
  <2>1. PICK k \in U : k \in 1..m
    BY <1>4
  <2>2. m \in 0..n
    BY <1>3
  <2> HIDE DEF P
  <2> QED
    BY <2>1, <2>2
<1>6. P(m - 1)
  <2>1. m - 1 \notin Bad
    <3> HIDE DEF Bad
    <3> QED
      BY <1>2, <1>5
  <2> HIDE DEF P
  <2> QED
    BY <1>5, <2>1
<1>7. CASE m \notin U
  <2>1. U \in SUBSET (1..m - 1)
    BY <1>5, <1>7
  <2> QED
    BY <1>4, <1>6, <2>1
<1>8. CASE U = {m}
  BY <1>4, <1>5, <1>8
<1>9. CASE m \in U /\ U # {m}
  <2> DEFINE V == U \ {m}
  <2>1. V \in SUBSET (1..m - 1) /\ V # {}
    BY <1>5, <1>9
  <2>2. PICK k \in V : \A j \in V : f[k] <= f[j]
    BY <1>6, <2>1
  <2>3. CASE f[k] <= f[m]
    BY <1>4, <1>9, <2>2, <2>3
  <2>4. CASE ~(f[k] <= f[m])
    <3>1. \A j \in U : f[j] \in Int
      BY <1>3
    <3>2. \A j \in V : f[m] <= f[j]
      BY <1>9, <2>2, <2>4, <3>1
    <3> QED
      BY <1>4, <1>9, <3>1, <3>2
  <2> QED
    BY <2>3, <2>4
<1> QED
  BY <1>7, <1>8, <1>9

\* The best outcome is one of the completed ones.
LEMMA BestIs ==
  ASSUME GraphOK, OutcomesOK, NEW best \in BestOutcome(outcomes)
  PROVE  /\ \E j \in DOMAIN outcomes : outcomes[j] = best /\ best.psd /\ IsOutcome(best)
         /\ best.nmse # None
         /\ \A j \in DOMAIN outcomes :
              outcomes[j].status = "completed" /\ outcomes[j].nmse # None
                => best.nmse <= outcomes[j].nmse
<1> DEFINE valid == {k \in DOMAIN outcomes :
                       outcomes[k].status = "completed" /\ outcomes[k].nmse # None}
           least == {k \in valid : \A j \in valid : outcomes[k].nmse <= outcomes[j].nmse}
<1>1. valid # {} /\ best = outcomes[Min(least)]
  BY DEF BestOutcome
<1>2. DOMAIN outcomes = 1..Len(outcomes) /\ Len(outcomes) \in Nat
  BY DEF GraphOK, IsSeq
<1>3. \A k \in valid : outcomes[k].nmse \in Int
  BY Constants DEF OutcomesOK, IsOutcome
<1>4. least # {}
  <2> DEFINE f == [k \in 1..Len(outcomes) |-> IF k \in valid THEN outcomes[k].nmse ELSE 0]
  <2>1. \A k \in 1..Len(outcomes) : f[k] \in Int
    BY <1>3
  <2>2. valid \in SUBSET (1..Len(outcomes))
    BY <1>2
  <2>3. \A k \in valid : f[k] = outcomes[k].nmse
    BY <2>2
  <2> HIDE DEF f
  <2>4. \E k \in valid : \A j \in valid : f[k] <= f[j]
    <3> HIDE DEF valid
    <3> QED
      BY <1>1, <1>2, <2>1, <2>2, LeastEntry
  <2> QED
    BY <2>3, <2>4
<1>5. least \in SUBSET Nat
  BY <1>2
<1>6. Min(least) \in least
  <2> HIDE DEF least
  <2> QED
    BY <1>4, <1>5, MinOfPositions
<1>7. Min(least) \in DOMAIN outcomes /\ outcomes[Min(least)].status = "completed"
  BY <1>6
<1> HIDE DEF least
<1>8. IsOutcome(best) /\ best.status = "completed"
  BY <1>1, <1>7 DEF OutcomesOK
<1>9. best.psd
  BY <1>8 DEF IsOutcome
<1>10. /\ best.nmse # None
       /\ \A j \in valid : best.nmse <= outcomes[j].nmse
  BY <1>1, <1>6 DEF least
<1> QED
  BY <1>1, <1>7, <1>8, <1>9, <1>10

\* A report that is admitted has nothing in dispute.
LEMMA AgreedNotDisputed ==
  ASSUME NumbersAgree(Source)
  PROVE  ~Disputed
<1> SUFFICES ASSUME NEW j \in DOMAIN outcomes, NEW k \in DOMAIN outcomes,
                    outcomes[j].id = outcomes[k].id
             PROVE  outcomes[j].nmse = outcomes[k].nmse
  BY DEF Disputed
<1>1. Source.runs = [i \in DOMAIN outcomes |-> ReportRecord(outcomes[i].id, outcomes[i])]
  BY DEF Source, ReportSource
<1>2. \A i \in DOMAIN outcomes :
        Source.runs[i].run = outcomes[i].id /\ Source.runs[i].nmse = outcomes[i].nmse
  BY <1>1 DEF ReportRecord
<1>3. \A i \in DOMAIN outcomes : outcomes[i].nmse = MetricOf(Source, outcomes[i].id)
  BY <1>1, <1>2 DEF NumbersAgree
<1> QED
  BY <1>3

LEMMA ClosedInit == Init => ClosedOK
  BY DEF Init, ClosedOK

LEMMA ClosedStep ==
  ASSUME GraphOK, WorkOK, ClosedOK, [Next]_vars
  PROVE  ClosedOK'
<1> DEFINE Late == {"terminal", "end", "aborted"}
<1>1. CASE UNCHANGED <<g, outcomes, terminal>>
  BY <1>1 DEF ClosedOK, Disputed
<1>2. CASE terminal' = terminal /\ g.node # "end" /\ g'.node # "end" /\ g'.status # "completed"
  BY <1>2 DEF ClosedOK
<1>3. CASE PlanRaises \/ PlanRefused \/ PlanAccepted
  <2>1. g.node = "idea_plan"
    BY <1>3 DEF PlanRaises, PlanRefused, PlanAccepted, At
  <2>2. g.status # "completed"
    BY <2>1 DEF ClosedOK
  <2>3. terminal' = terminal
    BY <1>3 DEF PlanRaises, PlanRefused, PlanAccepted, PlanReviewed, IdeaEnds, Idle
  <2>4. g' = g \/ To("terminal", "error") \/ RejectedTo("terminal")
        \/ To("terminal", "budget_exceeded") \/ To("plan_gate", "running")
    BY <1>3, MovePlan
  <2> QED
    BY <1>2, <2>1, <2>2, <2>3, <2>4 DEF To, RejectedTo
<1>4. CASE PlanGate \/ EndCoding \/ ExecuteRejected \/ EndExecution \/ FinalEvaluate
  <2>1. g.node # "end" /\ terminal' = terminal
    BY <1>4 DEF PlanGate, EndCoding, ExecuteRejected, EndExecution, FinalEvaluate, At
  <2>2. g'.node # "end" /\ g'.status # "completed"
    BY <1>4, MoveGate, MoveCoding, MoveRejected, MoveExecution, MoveFinal DEF To, RejectedTo
  <2> QED
    BY <1>2, <2>1, <2>2
<1>5. CASE CodeRegistered \/ CodeAttempt \/ Execute
  <2>1. UNCHANGED <<g, outcomes, terminal>>
    BY <1>5 DEF CodeRegistered, CodeAttempt, CodingIdle, Execute, search
  <2> QED
    BY <1>1, <2>1
<1>6. CASE WritingFails \/ Write
  <2>1. g.node = "writing" /\ terminal' = terminal /\ outcomes' = outcomes
    BY <1>6 DEF WritingFails, Write, At, search
  <2>2. CASE To("idea_plan", "error") \/ RejectedTo("idea_plan")
    BY <1>2, <2>1, <2>2 DEF To, RejectedTo
  <2>3. CASE Write /\ To("terminal", "completed")
    <3>1. NumbersAgree(Source)
      BY <2>3 DEF Write, ReportAdmits
    <3>2. ~Disputed
      BY <3>1, AgreedNotDisputed
    <3>3. ~Disputed'
      BY <2>1, <3>2 DEF Disputed
    <3> QED
      BY <2>1, <2>3, <3>3 DEF ClosedOK, To
  <2> QED
    BY <1>6, <2>2, <2>3, MoveWriting
<1>7. CASE Terminal
  <2>1. /\ g.node = "terminal" /\ outcomes' = outcomes /\ g'.node = "end"
        /\ g'.status = terminal'.status
        /\ terminal'.status = "completed" <=> g.status = "completed"
        /\ terminal'.hasReport <=> g.status = "completed"
    BY <1>7, MoveTerminal DEF Terminal, At, search, To
  <2>2. g'.status = "completed" => ~Disputed'
    BY <2>1 DEF ClosedOK, Disputed
  <2> QED
    BY <2>1, <2>2 DEF ClosedOK
<1>8. CASE Abort
  <2>1. /\ g.node \in B!Nodes /\ terminal' = terminal /\ outcomes' = outcomes
        /\ g'.node = "aborted" /\ g'.status = g.status
    BY <1>8, MoveAbort DEF Abort, search
  <2>2. g.node # "end"
    BY <2>1, Vocabulary
  <2> QED
    BY <2>1, <2>2 DEF ClosedOK, Disputed
<1>9. CASE Finished \/ UNCHANGED vars
  BY <1>1, <1>9 DEF Finished, vars
<1> QED
  BY <1>3, <1>4, <1>5, <1>6, <1>7, <1>8, <1>9 DEF Next

LEMMA AgainStays ==
  ASSUME GraphOK, WorkOK, FinalOK, [Next]_vars, Again
  PROVE  Again'
<1>0. /\ g.passes \in Nat /\ g.round \in Nat
  BY DEF GraphOK, GStates
<1>1. CASE g' = g
  BY <1>1 DEF Again
<1>2. CASE /\ g.node = "idea_plan" /\ g'.passes = g.passes + 1 /\ g'.round = g.round
  BY <1>0, <1>2 DEF Again
<1>3. CASE /\ g.node \notin {"idea_plan", "aborted"}
           /\ g'.passes = g.passes /\ g'.round = g.round
  BY <1>0, <1>3 DEF Again
<1>4. CASE /\ g.node \notin {"idea_plan", "aborted"} /\ g'.node = "idea_plan"
           /\ g'.passes = g.passes /\ g'.round = g.round + 1
  BY <1>0, <1>4 DEF Again
<1>5. CASE PlanRaises \/ PlanRefused \/ PlanAccepted
  <2>1. g.node = "idea_plan"
    BY <1>5 DEF PlanRaises, PlanRefused, PlanAccepted, At
  <2>2. g' = g \/ (g'.passes = g.passes + 1 /\ g'.round = g.round)
    BY <1>5, MovePlan DEF Goes
  <2> QED
    BY <1>1, <1>2, <2>1, <2>2
<1>6. CASE PlanGate \/ EndCoding \/ ExecuteRejected \/ FinalEvaluate \/ WritingFails \/ Write
           \/ Terminal
  <2>1. g.node \notin {"idea_plan", "aborted"}
    BY <1>6 DEF PlanGate, EndCoding, ExecuteRejected, FinalEvaluate, WritingFails, Write,
                Terminal, At
  <2>2. g'.passes = g.passes /\ g'.round = g.round
    BY <1>0, <1>6, MoveGate, MoveCoding, MoveRejected, MoveFinal, MoveWriting, MoveTerminal
       DEF Goes
  <2> QED
    BY <1>3, <2>1, <2>2
<1>7. CASE EndExecution
  <2>1. g.node \notin {"idea_plan", "aborted"}
    BY <1>7 DEF EndExecution, At
  <2>2. /\ g'.passes = g.passes
        /\ g'.round = g.round \/ (g'.node = "idea_plan" /\ g'.round = g.round + 1)
    <3>1. /\ Goes(0, 0)
          /\ \/ To("idea_plan", "next_round") /\ g'.round = g.round + 1
             \/ g'.round = g.round
      BY <1>7, MoveExecution, Zenon
    <3>2. Goes(0, 0)
      BY <3>1
    <3>3. g'.passes = g.passes
      BY <1>0, <3>2 DEF Goes
    <3> QED
      BY <3>1, <3>3 DEF To
  <2> QED
    BY <1>3, <1>4, <2>1, <2>2
<1>8. CASE CodeRegistered \/ CodeAttempt \/ Execute \/ Finished \/ UNCHANGED vars
  BY <1>1, <1>8 DEF CodeRegistered, CodeAttempt, CodingIdle, Execute, Finished, vars
<1>9. CASE Abort
  BY <1>9, MoveAbort DEF Again
<1> QED
  BY <1>5, <1>6, <1>7, <1>8, <1>9 DEF Next

LEMMA FinalIdIsId ==
  ASSUME NEW x, IsId(x)
  PROVE  IsId(FinalId(x))
<1>1. x \in [tags : Seq(Nat), name : {x.name}, final : Nat]
  BY DEF IsId
<1>2. FinalId(x) \in [tags : Seq(Nat), name : {x.name}, final : Nat]
  BY <1>1 DEF FinalId
<1> QED
  BY <1>2 DEF IsId

\* The outcome of a final evaluation and what it publishes.
LEMMA FinalGives ==
  ASSUME GraphOK, OutcomesOK, FinalEvaluate
  PROVE  \/ final' = {NoFinal} /\ evidence' = evidence
         \/ \E o, t : /\ final' = {o} /\ FinalFrom(o) /\ IsOutcome(o)
                      /\ o.child = t.child /\ (o.psd => o.nmse = t.nmse)
                      /\ \/ evidence' = evidence /\ ~o.psd
                         \/ t.psd /\ Publish(t)
<1>1. CASE final' = {NoFinal} /\ evidence' = evidence
  BY <1>1
<1>2. CASE \E best \in BestOutcome(outcomes) :
          \E o \in Trainings(FinalId(best.id), best.cand, [src |-> best.cand.src, owner |-> best.by]) :
            /\ Publish(o)
            /\ \E p \in Remembered(o) :
                 final' = {[p EXCEPT !.source = Min({j \in DOMAIN outcomes : outcomes[j] = best})]}
  <2>1. PICK best \in BestOutcome(outcomes) :
          \E o \in Trainings(FinalId(best.id), best.cand, [src |-> best.cand.src, owner |-> best.by]) :
            /\ Publish(o)
            /\ \E p \in Remembered(o) :
                 final' = {[p EXCEPT !.source = Min({j \in DOMAIN outcomes : outcomes[j] = best})]}
    BY <1>2
  <2> DEFINE code == [src |-> best.cand.src, owner |-> best.by]
             from == Min({j \in DOMAIN outcomes : outcomes[j] = best})
  <2>2. PICK t \in Trainings(FinalId(best.id), best.cand, code) :
          Publish(t) /\ \E p \in Remembered(t) : final' = {[p EXCEPT !.source = from]}
    BY <2>1
  <2>3. PICK p \in Remembered(t) : final' = {[p EXCEPT !.source = from]}
    BY <2>2
  <2> HIDE DEF code, from
  <2>4. PICK j \in DOMAIN outcomes : outcomes[j] = best /\ best.psd /\ IsOutcome(best)
    BY BestIs
  <2>5. IsId(FinalId(best.id))
    BY <2>4, FinalIdIsId DEF IsOutcome
  <2>6. /\ IsOutcome(t) /\ IsOutcome(p) /\ p.id = FinalId(best.id)
        /\ p.child = t.child /\ (p.psd => p = t /\ t.psd)
    BY <2>5, TrainingIs
  <2> DEFINE o == [p EXCEPT !.source = from]
  <2>7. /\ IsOutcome(o) /\ o.id = p.id /\ o.child = p.child /\ o.psd = p.psd /\ o.nmse = p.nmse
    <3>1. p \in [id : {p.id}, cand : {p.cand}, status : {"completed", "failed"},
                 class : {p.class}, nmse : Scores \cup {None}, child : {Child(p.id)},
                 psd : {p.status = "completed"}, by : {p.by}, source : {p.source}]
      BY <2>6 DEF IsOutcome
    <3>2. o \in [id : {p.id}, cand : {p.cand}, status : {p.status},
                 class : {p.class}, nmse : {p.nmse}, child : {p.child},
                 psd : {p.psd}, by : {p.by}, source : {from}]
      BY <3>1
    <3> HIDE DEF o
    <3>3. /\ o.id = p.id /\ o.child = p.child /\ o.psd = p.psd /\ o.nmse = p.nmse
          /\ o.status = p.status /\ o.cand = p.cand /\ o.class = p.class /\ o.by = p.by
      BY <3>2
    <3>4. /\ p.status \in {"completed", "failed"} /\ p.nmse \in Scores \cup {None}
          /\ p.child = Child(p.id) /\ p.psd = (p.status = "completed")
      BY <3>1
    <3>5. o \in [id : {o.id}, cand : {o.cand}, status : {"completed", "failed"},
                 class : {o.class}, nmse : Scores \cup {None}, child : {Child(o.id)},
                 psd : {o.status = "completed"}, by : {o.by}, source : {o.source}]
      BY <3>2, <3>3, <3>4
    <3> QED
      BY <2>6, <3>3, <3>5 DEF IsOutcome
  <2>8. final' = {o}
    BY <2>3
  <2> HIDE DEF o
  <2>9. FinalFrom(o)
    BY <2>4, <2>6, <2>7 DEF FinalFrom
  <2>10. o.psd => o.nmse = t.nmse
    BY <2>6, <2>7
  <2>11. \/ evidence' = evidence /\ ~o.psd
         \/ t.psd /\ Publish(t)
    <3>1. CASE t.psd
      BY <2>2, <3>1
    <3>2. CASE ~t.psd
      BY <2>2, <2>6, <2>7, <3>2 DEF Publish
    <3> QED
      BY <3>1, <3>2
  <2> QED
    BY <2>6, <2>7, <2>8, <2>9, <2>10, <2>11
<1> QED
  BY <1>1, <1>2 DEF FinalEvaluate

LEMMA FinalInit == Init => FinalOK
<1> SUFFICES ASSUME Init PROVE FinalOK
  OBVIOUS
<1>1. g.node = "idea_plan" /\ g.passes = 0 /\ g.round = 1 /\ final = {}
  BY DEF Init
<1> QED
  BY <1>1 DEF FinalOK

\* The passes of idea_plan, round by round.
PassesOK ==
  /\ g.node = "idea_plan" => g.passes >= g.round - 1
  /\ g.node \notin {"idea_plan", "aborted"} => g.passes >= g.round
  /\ g.node = "final_evaluation" => FinalEvaluation

LEMMA PassesStep ==
  ASSUME GraphOK, WorkOK, PassesOK, [Next]_vars
  PROVE  PassesOK'
<1>0. g.passes \in Nat /\ g.round \in Nat
  BY DEF GraphOK, GStates
<1>1. CASE g' = g
  BY <1>1 DEF PassesOK
<1>2. CASE /\ g.node = "idea_plan" /\ g'.passes = g.passes + 1 /\ g'.round = g.round
           /\ g'.node # "final_evaluation"
  BY <1>0, <1>2 DEF PassesOK
<1>3. CASE /\ g.node \notin {"idea_plan", "aborted"}
           /\ g'.passes = g.passes /\ g'.round = g.round
           /\ g'.node = "final_evaluation" => FinalEvaluation
  BY <1>0, <1>3 DEF PassesOK
<1>4. CASE /\ g.node \notin {"idea_plan", "aborted"} /\ g'.node = "idea_plan"
           /\ g'.passes = g.passes /\ g'.round = g.round + 1
  BY <1>0, <1>4 DEF PassesOK
<1>5. CASE PlanRaises \/ PlanRefused \/ PlanAccepted
  <2>1. g.node = "idea_plan"
    BY <1>5 DEF PlanRaises, PlanRefused, PlanAccepted, At
  <2>2. g' = g \/ (g'.passes = g.passes + 1 /\ g'.round = g.round)
    BY <1>5, MovePlan DEF Goes
  <2>3. g' = g \/ g'.node # "final_evaluation"
    BY <1>5, MovePlan DEF To, RejectedTo
  <2> QED
    BY <1>1, <1>2, <2>1, <2>2, <2>3
<1>6. CASE PlanGate \/ EndCoding \/ ExecuteRejected \/ FinalEvaluate \/ WritingFails \/ Write
           \/ Terminal
  <2>1. g.node \notin {"idea_plan", "aborted"}
    BY <1>6 DEF PlanGate, EndCoding, ExecuteRejected, FinalEvaluate, WritingFails, Write,
                Terminal, At
  <2>2. g'.passes = g.passes /\ g'.round = g.round
    BY <1>0, <1>6, MoveGate, MoveCoding, MoveRejected, MoveFinal, MoveWriting, MoveTerminal
       DEF Goes
  <2>3. g'.node = "final_evaluation" => FinalEvaluation
    BY <1>6, MoveGate, MoveCoding, MoveRejected, MoveFinal, MoveWriting, MoveTerminal
       DEF To, RejectedTo
  <2> QED
    BY <1>3, <2>1, <2>2, <2>3
<1>7. CASE EndExecution
  <2>1. g.node \notin {"idea_plan", "aborted"}
    BY <1>7 DEF EndExecution, At
  <2>2. /\ Goes(0, 0)
        /\ \/ To("idea_plan", "next_round") /\ g'.round = g.round + 1
           \/ /\ To(IF FinalEvaluation THEN "final_evaluation" ELSE "writing", "running")
              /\ g'.round = g.round
    BY <1>7, MoveExecution, Zenon
  <2>3. Goes(0, 0)
    BY <2>2
  <2>4. g'.passes = g.passes
    BY <1>0, <2>3 DEF Goes
  <2>5. \/ g'.node = "idea_plan" /\ g'.round = g.round + 1
        \/ g'.round = g.round /\ (g'.node = "final_evaluation" => FinalEvaluation)
    BY <2>2 DEF To
  <2> QED
    BY <1>3, <1>4, <2>1, <2>4, <2>5
<1>8. CASE CodeRegistered \/ CodeAttempt \/ Execute \/ Finished \/ UNCHANGED vars
  BY <1>1, <1>8 DEF CodeRegistered, CodeAttempt, CodingIdle, Execute, Finished, vars
<1>9. CASE Abort
  BY <1>9, MoveAbort DEF PassesOK
<1> QED
  BY <1>5, <1>6, <1>7, <1>8, <1>9 DEF Next

\* Outcomes only become more.
LEMMA OutcomesGrow ==
  ASSUME GraphOK, WorkOK, [Next]_vars
  PROVE  \A j \in DOMAIN outcomes : j \in DOMAIN outcomes' /\ outcomes'[j] = outcomes[j]
<1>1. CASE outcomes' = outcomes
  BY <1>1
<1>2. CASE EndExecution
  BY <1>2, RoundAdded
<1> QED
  BY <1>1, <1>2, ResultsStay

LEMMA FinalStep ==
  ASSUME GraphOK, WorkOK, OutcomesOK, FinalOK, [Next]_vars
  PROVE  FinalOK'
<1>1. PassesOK'
  BY PassesStep DEF FinalOK, PassesOK
<1>2. \A o : FinalFrom(o) => FinalFrom(o)'
  BY OutcomesGrow DEF FinalFrom
<1>3. CASE FinalEvaluate
  <2>1. g.node = "final_evaluation" /\ g'.node = "writing"
    BY <1>3, MoveFinal DEF FinalEvaluate, At, To
  <2>2. \E o : final' = {o} /\ FinalFrom(o)
    BY <1>3, FinalGives DEF FinalFrom
  <2>3. \A o \in final' : FinalFrom(o)'
    BY <1>2, <2>2
  <2> QED
    BY <1>1, <2>1, <2>3 DEF FinalOK, PassesOK
<1>4. CASE ~FinalEvaluate
  <2>1. final' = final
    <3>1. Execute \/ EndExecution => ~FinalEvaluate
      BY <1>4
    <3> QED
      BY <1>4, ResultsStay
  <2>2. \A o \in final' : FinalFrom(o)'
    BY <1>2, <2>1 DEF FinalOK
  <2>3. final' # {} => FinalEvaluation
    BY <2>1 DEF FinalOK
  <2>4. final' # {} /\ g'.node \notin {"writing", "terminal", "end"} => Again'
    <3>1. SUFFICES ASSUME final # {}, g'.node \notin {"writing", "terminal", "end"}
                   PROVE  Again'
      BY <2>1
    <3>2. CASE g.node \notin {"writing", "terminal", "end"}
      BY <3>1, <3>2, AgainStays DEF FinalOK
    <3>3. CASE g.node \in {"writing", "terminal", "end"}
      <4>1. CASE WritingFails \/ Write
        <5>1. /\ g.node = "writing" /\ g.passes \in Nat
          BY <4>1 DEF WritingFails, Write, At, GraphOK, GStates
        <5>2. g'.passes = g.passes /\ g'.round = g.round
          BY <4>1, <5>1, MoveWriting DEF Goes
        <5>3. g'.node = "idea_plan"
          BY <3>1, <4>1, MoveWriting DEF To, RejectedTo
        <5> QED
          BY <5>1, <5>2, <5>3 DEF Again, FinalOK
      <4>2. CASE Terminal
        BY <3>1, <4>2, MoveTerminal DEF To
      <4>3. CASE Abort
        BY <4>3, MoveAbort DEF Again
      <4>4. CASE Finished \/ UNCHANGED vars
        BY <3>1, <3>3, <4>4, SMTT(60) DEF Finished, vars
      <4>5. \/ WritingFails \/ Write \/ Terminal \/ Abort \/ Finished \/ UNCHANGED vars
        BY <1>4, <3>3 DEF Next, PlanRaises, PlanRefused, PlanAccepted, PlanGate, CodeRegistered,
                   CodeAttempt, EndCoding, ExecuteRejected, Execute, EndExecution, At
      <4> QED
        BY <4>1, <4>2, <4>3, <4>4, <4>5
    <3> QED
      BY <3>2, <3>3
  <2> QED
    BY <1>1, <2>2, <2>3, <2>4 DEF FinalOK, PassesOK
<1> QED
  BY <1>3, <1>4

LEMMA NoFinalIsNone == ~IsOutcome(NoFinal) /\ ~NoFinal.psd
<1>1. NoFinal \in [id : {NoFinal.id}, status : {"failed"}, class : {NoFinal.class},
                   nmse : {None}, psd : {FALSE}, source : {0}, child : {NoFinal.child}]
  BY DEF NoFinal
<1>2. "cand" \notin DOMAIN NoFinal /\ ~NoFinal.psd
  BY <1>1
<1>3. IsOutcome(NoFinal) => "cand" \in DOMAIN NoFinal
  BY DEF IsOutcome
<1> QED
  BY <1>2, <1>3

\* Who has published under a child run id.
Publisher(child) ==
  \/ \E j \in DOMAIN outcomes : PublishedBy(outcomes[j], child)
  \/ \E j \in DOMAIN work.done : PublishedBy(work.done[j], child)
  \/ \E o \in final : o # NoFinal /\ PublishedBy(o, child)
  \/ Replaced(child)

LEMMA EvidenceInit == Init => EvidenceOK
  BY DEF Init, EvidenceOK, Fresh

LEMMA EvidenceStep ==
  ASSUME GraphOK, WorkOK, PlanOK, OutcomesOK, FinalOK, EvidenceOK, [Next]_vars
  PROVE  EvidenceOK'
<1>1. \A child : Replaced(child) => Replaced(child)'
  <2>1. \A j \in DOMAIN outcomes : j \in DOMAIN outcomes' /\ outcomes'[j] = outcomes[j]
    BY OutcomesGrow
  <2>2. Again => Again'
    BY AgainStays
  <2> QED
    BY <2>1, <2>2 DEF Replaced
<1>2. CASE /\ outcomes' = outcomes /\ final' = final /\ evidence' = evidence
           /\ work'.done = work.done
  <2>1. \A o, child : PublishedBy(o, child) => PublishedBy(o, child)'
    BY <1>2 DEF PublishedBy
  <2> QED
    BY <1>1, <1>2, <2>1 DEF EvidenceOK, PublishedBy
<1>3. CASE Execute /\ outcomes' = outcomes /\ final' = final
  <2> DEFINE o == work'.done[work.cand]
  <2>1. /\ DOMAIN work'.done = 1..work.cand /\ DOMAIN work.done = 1..work.cand - 1
        /\ \A j \in 1..work.cand - 1 : work'.done[j] = work.done[j]
        /\ work.cand \in Nat /\ work.cand \in 1..work.cand
    <3>1. /\ DOMAIN work'.done = 1..work.cand /\ DOMAIN work.done = 1..work.cand - 1
          /\ \A j \in 1..work.cand - 1 : work'.done[j] = work.done[j]
      BY <1>3, ExecuteWork
    <3>2. work.cand \in 1..K + 1
      BY DEF WorkOK
    <3> QED
      BY <3>1, <3>2, Constants
  <2>2. \A j \in DOMAIN work.done : j \in DOMAIN work'.done /\ work'.done[j] = work.done[j]
    BY <2>1
  <2>3. \A j \in DOMAIN work'.done : j \in DOMAIN work.done \/ j = work.cand
    BY <2>1
  <2>4. IsOutcome(o) /\ (\/ evidence' = evidence /\ ~o.psd
                         \/ \E t : /\ t.psd /\ Publish(t)
                                   /\ o.child = t.child /\ (o.psd => o = t))
    BY <1>3, ExecuteGives
  <2> HIDE DEF o
  <2>5. CASE evidence' = evidence /\ ~o.psd
    <3>1. \A x, child : PublishedBy(x, child) => PublishedBy(x, child)'
      BY <2>5 DEF PublishedBy
    <3>2. ASSUME NEW child \in DOMAIN evidence'
          PROVE  Publisher(child)'
      <4>1. Publisher(child)
        BY <2>5, <3>2 DEF EvidenceOK, Publisher
      <4> QED
        BY <1>1, <1>3, <2>2, <2>5, <4>1 DEF Publisher, PublishedBy
    <3>3. \A j \in DOMAIN work'.done : work'.done[j].psd => work'.done[j].child \in DOMAIN evidence'
      BY <2>2, <2>3, <2>5 DEF EvidenceOK, o
    <3> QED
      BY <1>3, <2>5, <3>2, <3>3 DEF EvidenceOK, Publisher
  <2>6. CASE \E t : /\ t.psd /\ Publish(t) /\ o.child = t.child /\ (o.psd => o = t)
    <3>1. PICK t : /\ t.psd /\ Publish(t) /\ o.child = t.child /\ (o.psd => o = t)
      BY <2>6
    <3>2. /\ DOMAIN evidence' = DOMAIN evidence \cup {o.child}
          /\ evidence'[o.child] = t.nmse
          /\ \A child \in DOMAIN evidence \ {o.child} : evidence'[child] = evidence[child]
      BY <3>1, Publishes
    <3>3. ASSUME NEW child \in DOMAIN evidence'
          PROVE  Publisher(child)'
      <4>1. CASE child = o.child
        <5>1. o.child = child /\ (o.psd => o.nmse = evidence'[child])
          BY <3>1, <3>2, <4>1
        <5>2. work.cand \in DOMAIN work'.done /\ o = work'.done[work.cand]
          BY <2>1 DEF o
        <5> QED
          BY <5>1, <5>2 DEF Publisher, PublishedBy
      <4>2. CASE child # o.child
        <5>1. child \in DOMAIN evidence /\ evidence'[child] = evidence[child]
          BY <3>2, <3>3, <4>2
        <5>2. Publisher(child)
          BY <5>1 DEF EvidenceOK, Publisher
        <5> QED
          BY <1>1, <1>3, <2>2, <5>1, <5>2 DEF Publisher, PublishedBy
      <4> QED
        BY <4>1, <4>2
    <3>4. \A j \in DOMAIN work'.done : work'.done[j].psd => work'.done[j].child \in DOMAIN evidence'
      BY <2>2, <2>3, <3>2 DEF EvidenceOK, o
    <3>5. /\ \A j \in DOMAIN outcomes' : outcomes'[j].psd => outcomes'[j].child \in DOMAIN evidence'
          /\ \A x \in final' : x.psd => x.child \in DOMAIN evidence'
      BY <1>3, <3>2 DEF EvidenceOK
    <3> QED
      BY <3>3, <3>4, <3>5 DEF EvidenceOK, Publisher
  <2> QED
    BY <2>4, <2>5, <2>6
<1>4. CASE EndExecution /\ final' = final /\ evidence' = evidence
  <2>1. /\ DOMAIN outcomes = 1..Len(outcomes) /\ DOMAIN work.done = 1..Len(work.done)
        /\ Len(outcomes) \in Nat /\ Len(work.done) \in Nat
        /\ DOMAIN outcomes' = 1..Len(outcomes) + Len(work.done)
        /\ \A k \in 1..Len(outcomes) : outcomes'[k] = outcomes[k]
        /\ \A k \in 1..Len(work.done) : outcomes'[Len(outcomes) + k] = work.done[k]
    BY <1>4, RoundAdded
  <2>2. \A j \in DOMAIN outcomes : j \in DOMAIN outcomes' /\ outcomes'[j] = outcomes[j]
    BY <2>1
  <2>3. \A j \in DOMAIN work.done : \E i \in DOMAIN outcomes' : outcomes'[i] = work.done[j]
    <3> SUFFICES ASSUME NEW j \in DOMAIN work.done
                 PROVE  \E i \in DOMAIN outcomes' : outcomes'[i] = work.done[j]
      OBVIOUS
    <3>1. Len(outcomes) + j \in DOMAIN outcomes' /\ outcomes'[Len(outcomes) + j] = work.done[j]
      BY <2>1
    <3> QED
      BY <3>1
  <2>4. \A i \in DOMAIN outcomes' : \/ i \in DOMAIN outcomes
                                    \/ \E j \in DOMAIN work.done : outcomes'[i] = work.done[j]
    <3> SUFFICES ASSUME NEW i \in DOMAIN outcomes', i \notin DOMAIN outcomes
                 PROVE  \E j \in DOMAIN work.done : outcomes'[i] = work.done[j]
      OBVIOUS
    <3>1. i - Len(outcomes) \in DOMAIN work.done /\ i = Len(outcomes) + (i - Len(outcomes))
      BY <2>1
    <3> QED
      BY <2>1, <3>1
  <2>5. work'.done = <<>>
    BY <1>4 DEF EndExecution, Fresh
  <2>6. ASSUME NEW child \in DOMAIN evidence'
        PROVE  Publisher(child)'
    <3>1. Publisher(child)
      BY <1>4, <2>6 DEF EvidenceOK, Publisher
    <3> QED
      BY <1>1, <1>4, <2>2, <2>3, <3>1 DEF Publisher, PublishedBy
  <2>7. \A j \in DOMAIN outcomes' : outcomes'[j].psd => outcomes'[j].child \in DOMAIN evidence'
    BY <1>4, <2>2, <2>4 DEF EvidenceOK
  <2>8. \A j \in DOMAIN work'.done : work'.done[j].psd => work'.done[j].child \in DOMAIN evidence'
    BY <2>5, EmptyShape
  <2> QED
    BY <1>4, <2>6, <2>7, <2>8 DEF EvidenceOK, Publisher
<1>5. CASE FinalEvaluate /\ outcomes' = outcomes /\ work'.done = work.done
  <2>1. \A o \in final : \A child : o # NoFinal /\ PublishedBy(o, child) => Replaced(child)'
    <3> SUFFICES ASSUME NEW o \in final, NEW child, o # NoFinal, PublishedBy(o, child)
                 PROVE  Replaced(child)
      BY <1>1
    <3>1. FinalFrom(o) /\ FinalEvaluation /\ g.node = "final_evaluation"
      BY <1>5 DEF FinalOK, FinalEvaluate, At
    <3>2. Again
      BY <3>1 DEF FinalOK
    <3>3. PICK j \in DOMAIN outcomes : outcomes[j].psd /\ o.id = FinalId(outcomes[j].id)
      BY <3>1 DEF FinalFrom
    <3>4. o.child = Child(o.id) /\ o.child = child
      BY <3>1 DEF FinalFrom, IsOutcome, PublishedBy
    <3> QED
      BY <3>1, <3>2, <3>3, <3>4 DEF Replaced
  <2>2. CASE final' = {NoFinal} /\ evidence' = evidence
    <3>1. ASSUME NEW child \in DOMAIN evidence'
          PROVE  Publisher(child)'
      <4>1. Publisher(child)
        BY <2>2, <3>1 DEF EvidenceOK, Publisher
      <4> QED
        BY <1>1, <1>5, <2>1, <2>2, <4>1 DEF Publisher, PublishedBy
    <3> QED
      BY <1>5, <2>2, <3>1, NoFinalIsNone DEF EvidenceOK, Publisher
  <2>3. CASE \E o, t : /\ final' = {o} /\ FinalFrom(o) /\ IsOutcome(o)
                       /\ o.child = t.child /\ (o.psd => o.nmse = t.nmse)
                       /\ \/ evidence' = evidence /\ ~o.psd
                          \/ t.psd /\ Publish(t)
    <3>1. PICK o, t : /\ final' = {o} /\ IsOutcome(o)
                      /\ o.child = t.child /\ (o.psd => o.nmse = t.nmse)
                      /\ \/ evidence' = evidence /\ ~o.psd
                         \/ t.psd /\ Publish(t)
      BY <2>3
    <3>2. o # NoFinal
      BY <3>1, NoFinalIsNone
    <3>3. CASE evidence' = evidence /\ ~o.psd
      <4>1. ASSUME NEW child \in DOMAIN evidence'
            PROVE  Publisher(child)'
        <5>1. Publisher(child)
          BY <3>3, <4>1 DEF EvidenceOK, Publisher
        <5> QED
          BY <1>1, <1>5, <2>1, <3>3, <5>1 DEF Publisher, PublishedBy
      <4> QED
        BY <1>5, <3>1, <3>3, <4>1 DEF EvidenceOK, Publisher
    <3>4. CASE t.psd /\ Publish(t)
      <4>1. /\ DOMAIN evidence' = DOMAIN evidence \cup {o.child}
            /\ evidence'[o.child] = t.nmse
            /\ \A child \in DOMAIN evidence \ {o.child} : evidence'[child] = evidence[child]
        BY <3>1, <3>4, Publishes
      <4>2. ASSUME NEW child \in DOMAIN evidence'
            PROVE  Publisher(child)'
        <5>1. CASE child = o.child
          <6>1. o.child = child /\ (o.psd => o.nmse = evidence'[child])
            BY <3>1, <4>1, <5>1
          <6> QED
            BY <3>1, <3>2, <6>1 DEF Publisher, PublishedBy
        <5>2. CASE child # o.child
          <6>1. child \in DOMAIN evidence /\ evidence'[child] = evidence[child]
            BY <4>1, <4>2, <5>2
          <6>2. Publisher(child)
            BY <6>1 DEF EvidenceOK, Publisher
          <6> QED
            BY <1>1, <1>5, <2>1, <6>1, <6>2 DEF Publisher, PublishedBy
        <5> QED
          BY <5>1, <5>2
      <4>3. /\ \A j \in DOMAIN outcomes' : outcomes'[j].psd => outcomes'[j].child \in DOMAIN evidence'
            /\ \A j \in DOMAIN work'.done : work'.done[j].psd => work'.done[j].child \in DOMAIN evidence'
            /\ \A x \in final' : x.child \in DOMAIN evidence'
        BY <1>5, <3>1, <4>1 DEF EvidenceOK
      <4> QED
        BY <4>2, <4>3 DEF EvidenceOK, Publisher
    <3> QED
      BY <3>1, <3>3, <3>4
  <2> QED
    BY <1>5, <2>2, <2>3, FinalGives
<1> QED
  BY <1>2, <1>3, <1>4, <1>5, ResultsStay

-----------------------------------------------------------------------------
\* The fallback narrative is faithful to any source.
LEMMA FallbackFaithful ==
  ASSUME NEW source
  PROVE  Faithful(Fallback(source), source)
<1> DEFINE n == Fallback(source)
<1>1. /\ n.task /\ n.numbers = {}
      /\ n.journey = OrElse(RoundRefs(source), {<<"aggregate", "performance">>})
      /\ n.cites = FixedRefs \cup MetricRefs(source) \cup FailureRefs(source)
  BY DEF Fallback
<1>2. RoundRefs(source) \subseteq n.journey
  BY <1>1 DEF OrElse
<1>3. n.journey \cup n.cites \subseteq EvidenceIds(source)
  <2>1. <<"aggregate", "performance">> \in FixedRefs
    BY DEF FixedRefs
  <2> HIDE DEF n
  <2>2. n.journey \subseteq RoundRefs(source) \cup FixedRefs
    BY <1>1, <2>1 DEF OrElse
  <2> QED
    BY <1>1, <2>2 DEF EvidenceIds
<1> QED
  BY <1>1, <1>2, <1>3 DEF Faithful

LEMMA FallbackIsEnough == FallbackSuffices
<1> SUFFICES ASSUME NEW a \in {d \in Drafts : d.schema}, NEW b \in {d \in Drafts : d.schema}
             PROVE  \E n \in Written2(a, b, Source) : Faithful(n, Source)
  BY DEF FallbackSuffices
<1>1. Faithful(Fallback(Source), Source)
  BY FallbackFaithful
<1>2. a.schema /\ b.schema
  OBVIOUS
<1>3. CASE Faithful(a, Source)
  BY <1>2, <1>3 DEF Written2
<1>4. CASE ~Faithful(a, Source) /\ Faithful(b, Source)
  BY <1>2, <1>4 DEF Written2
<1>5. CASE ~Faithful(a, Source) /\ ~Faithful(b, Source)
  BY <1>1, <1>2, <1>5 DEF Written2
<1> QED
  BY <1>3, <1>4, <1>5

\* Two ids with one child run id: one of them is cut off.
LEMMA SameChild ==
  ASSUME NEW x, IsId(x), NEW y, IsId(y), Child(x) = Child(y), x # y
  PROVE  x.name \in LongNames
<1>1. /\ x \in [tags : Seq(Nat), name : {x.name}, final : Nat]
      /\ y \in [tags : Seq(Nat), name : {y.name}, final : Nat]
  BY DEF IsId
<1>2. Child(x).name = x.name /\ Child(y).name = y.name
  BY <1>1 DEF Child
<1>3. x.name = y.name
  BY <1>2
<1>4. x.name \notin LongNames => Child(x) = x /\ Child(y) = y
  BY <1>3 DEF Child
<1> QED
  BY <1>4

LEMMA ClosedPublished ==
  ASSUME GraphOK, ClosedOK
  PROVE  DisputedNotPublished
<1>1. CASE g.node = "end"
  BY <1>1 DEF ClosedOK, DisputedNotPublished
<1>2. CASE g.node # "end"
  BY <1>2 DEF ClosedOK, DisputedNotPublished, B!NoTerminal
<1> QED
  BY <1>1, <1>2

LEMMA ReportIs ==
  ASSUME GraphOK, WorkOK, OutcomesOK, ClosedOK, FinalOK, EvidenceOK
  PROVE  ReportIsTrue
<1> DEFINE n == Len(outcomes)
<1> SUFFICES ASSUME terminal.status = "completed", NEW k \in DOMAIN Entries, Entries[k].psd
             PROVE  \/ evidence[Entries[k].child] = Entries[k].nmse
                    \/ \E j \in {i \in DOMAIN Entries \ {k} : Entries[i].child = Entries[k].child} :
                         IF Entries[j].id # Entries[k].id THEN Entries[k].id.name \in LongNames
                         ELSE Max({j, k}) > n \/ ~Entries[j].psd
                    \/ ReplacedFinal(Entries[k].child)
  BY DEF ReportIsTrue
<1>1. /\ g.node = "end" /\ ~Disputed /\ work.done = <<>>
  <2>1. g.node = "end"
    BY DEF ClosedOK, B!NoTerminal
  <2>2. work = Fresh
    BY <2>1 DEF WorkOK
  <2> QED
    BY <2>1, <2>2 DEF ClosedOK, Fresh
<1>2. n \in Nat /\ DOMAIN outcomes = 1..n
  BY DEF GraphOK, IsSeq
<1>3. /\ DOMAIN Entries = 1..n + Cardinality(final)
      /\ \A i \in DOMAIN Entries :
           Entries[i] = IF i <= n THEN outcomes[i] ELSE CHOOSE o \in final : TRUE
  BY DEF Entries
<1>4. \/ final = {} /\ DOMAIN Entries = 1..n
      \/ final # {} /\ DOMAIN Entries = 1..n + 1 /\ \A o \in final : o = Entries[n + 1]
  <2>1. CASE final = {}
    BY <1>2, <1>3, <2>1, FS_EmptySet
  <2>2. CASE final # {}
    <3>1. PICK o \in final : final = {o}
      BY <2>2 DEF GraphOK
    <3>2. Cardinality({o}) = 1
      BY FS_Singleton
    <3>3. DOMAIN Entries = 1..n + 1
      BY <1>3, <3>1, <3>2
    <3>4. Entries[n + 1] = CHOOSE x \in final : TRUE
      <4>1. n + 1 \in DOMAIN Entries /\ ~(n + 1 <= n)
        BY <1>2, <3>3
      <4> QED
        BY <1>3, <4>1
    <3>5. (CHOOSE x \in final : TRUE) \in final
      BY <2>2
    <3>6. Entries[n + 1] = o
      BY <3>1, <3>4, <3>5
    <3> QED
      BY <3>1, <3>3, <3>6
  <2> QED
    BY <2>1, <2>2
<1>5. \A i \in DOMAIN Entries : \/ i \in DOMAIN outcomes /\ Entries[i] = outcomes[i]
                                \/ i = n + 1 /\ Entries[i] \in final
  <2> SUFFICES ASSUME NEW i \in DOMAIN Entries, ~(i <= n)
               PROVE  i = n + 1 /\ Entries[i] \in final
    BY <1>2, <1>3, <1>4
  <2>1. i = n + 1 /\ final # {}
    BY <1>2, <1>4
  <2> QED
    BY <1>4, <2>1
<1> DEFINE o == Entries[k]
<1>6. IsOutcome(o) /\ o.child \in DOMAIN evidence
  BY <1>5, NoFinalIsNone DEF OutcomesOK, EvidenceOK, FinalOK, FinalFrom
<1> DEFINE others == {i \in DOMAIN Entries \ {k} : Entries[i].child = o.child}
<1> HIDE DEF n, o, others
<1>7. ASSUME NEW j \in DOMAIN Entries, IsOutcome(Entries[j]), PublishedBy(Entries[j], o.child),
             j # k => /\ j \in others
                      /\ Entries[j].id = o.id /\ j <= n /\ k <= n => Entries[j].nmse = o.nmse
      PROVE  \/ evidence[o.child] = o.nmse
             \/ \E i \in others : IF Entries[i].id # o.id THEN o.id.name \in LongNames
                                  ELSE Max({i, k}) > n \/ ~Entries[i].psd
  <2>1. CASE j = k
    BY <1>7, <2>1 DEF PublishedBy, o
  <2>2. CASE j # k /\ Entries[j].id # o.id
    <3>1. Child(Entries[j].id) = Child(o.id) /\ IsId(Entries[j].id) /\ IsId(o.id)
      BY <1>6, <1>7 DEF PublishedBy, IsOutcome
    <3>2. o.id.name \in LongNames
      BY <2>2, <3>1, SameChild
    <3> QED
      BY <1>7, <2>2, <3>2
  <2>3. CASE j # k /\ Entries[j].id = o.id
    <3>1. CASE ~Entries[j].psd
      BY <1>7, <2>3, <3>1
    <3>2. CASE Entries[j].psd /\ j <= n /\ k <= n
      BY <1>7, <2>3, <3>2 DEF PublishedBy
    <3>3. CASE ~(j <= n /\ k <= n)
      <4>1. j \in Int /\ k \in Int /\ n \in Int
        BY <1>2, <1>4
      <4>2. /\ Max({j, k}) \in {j, k} /\ Max({j, k}) >= j /\ Max({j, k}) >= k
        BY <4>1, MaxOfTwo
      <4>3. Max({j, k}) > n
        BY <3>3, <4>1, <4>2
      <4> QED
        BY <1>7, <2>3, <4>3
    <3> QED
      BY <3>1, <3>2, <3>3
  <2> QED
    BY <2>1, <2>2, <2>3
<1>8. ASSUME NEW j \in DOMAIN Entries, PublishedBy(Entries[j], o.child), IsOutcome(Entries[j])
      PROVE  \/ evidence[o.child] = o.nmse
             \/ \E i \in others : IF Entries[i].id # o.id THEN o.id.name \in LongNames
                                  ELSE Max({i, k}) > n \/ ~Entries[i].psd
  <2>1. j # k => j \in others
    BY <1>8 DEF PublishedBy, others
  <2>2. Entries[j].id = o.id /\ j <= n /\ k <= n => Entries[j].nmse = o.nmse
    <3> SUFFICES ASSUME Entries[j].id = o.id, j <= n, k <= n
                 PROVE  Entries[j].nmse = o.nmse
      OBVIOUS
    <3>1. j \in DOMAIN outcomes /\ k \in DOMAIN outcomes /\ Entries[j] = outcomes[j] /\ o = outcomes[k]
      BY <1>2, <1>3, <1>4, <1>5 DEF o
    <3> QED
      BY <1>1, <3>1 DEF Disputed
  <2> QED
    BY <1>7, <1>8, <2>1, <2>2
<1>9. \/ \E j \in DOMAIN outcomes : PublishedBy(outcomes[j], o.child)
      \/ \E x \in final : x # NoFinal /\ PublishedBy(x, o.child)
      \/ Replaced(o.child)
  BY <1>1, <1>6, EmptyShape DEF EvidenceOK
<1>10. CASE \E j \in DOMAIN outcomes : PublishedBy(outcomes[j], o.child)
  <2>1. PICK j \in DOMAIN outcomes : PublishedBy(outcomes[j], o.child)
    BY <1>10
  <2>2. j \in 1..n /\ j <= n
    BY <1>2
  <2>3. j \in DOMAIN Entries
    BY <1>2, <1>4, <2>2
  <2>4. j \in DOMAIN Entries /\ Entries[j] = outcomes[j]
    BY <1>3, <2>2, <2>3
  <2>5. IsOutcome(Entries[j])
    BY <2>4 DEF OutcomesOK
  <2> QED
    BY <1>8, <2>1, <2>4, <2>5 DEF o, others
<1>11. CASE \E x \in final : x # NoFinal /\ PublishedBy(x, o.child)
  <2>1. PICK x \in final : x # NoFinal /\ PublishedBy(x, o.child)
    BY <1>11
  <2>2. n + 1 \in DOMAIN Entries /\ Entries[n + 1] = x
    BY <1>2, <1>4
  <2>3. IsOutcome(Entries[n + 1])
    BY <2>1, <2>2 DEF FinalOK, FinalFrom
  <2> QED
    BY <1>8, <2>1, <2>2, <2>3 DEF o, others
<1>12. CASE Replaced(o.child)
  <2>1. PlannedAgain
    BY <1>1, <1>12 DEF Replaced, Again, PlannedAgain
  <2> QED
    BY <1>12, <2>1 DEF Replaced, ReplacedFinal, o
<1> QED
  BY <1>9, <1>10, <1>11, <1>12

ReportInv == PolicyInv /\ ClosedOK /\ FinalOK /\ EvidenceOK

\* A completed run's report shows for every entry the number of its own training,
\* but for the named exceptions; results in dispute are never published, and a
\* narrative the report tool accepts can always be written. It says nothing of
\* which entry the report calls the best.
THEOREM ReportsSound == Spec => []ReportSound
<1>1. Init => ClosedOK /\ FinalOK /\ EvidenceOK
  BY ClosedInit, FinalInit, EvidenceInit
<1>2. ReportInv /\ [Next]_vars => (ClosedOK /\ FinalOK /\ EvidenceOK)'
  BY ClosedStep, FinalStep, EvidenceStep DEF ReportInv, PolicyInv
<1>3. ReportInv => ReportSound
  BY ReportIs, ClosedPublished, FallbackIsEnough DEF ReportInv, PolicyInv, ReportSound
<1> QED
  BY <1>1, <1>2, <1>3, PolicyInductive, PTL DEF Spec, ReportInv

-----------------------------------------------------------------------------
(* The workers implement the batch graph *)

\* How a node changes the fields of the graph's state, the history apart.
Turns(n, s, e, used) ==
  /\ g'.node = n /\ g'.status = s /\ g'.error = e
  /\ g'.steps = g.steps + 1 /\ g'.calls = g.calls + work.used + used
Remains == g'.round = g.round /\ g'.replans = g.replans /\ g'.facts = g.facts
Replans(why, used) ==
  /\ Turns("idea_plan", "replanning", g.error, used)
  /\ g.replans < MaxReplans /\ g'.replans = g.replans + 1
  /\ g'.facts = why /\ g'.round = g.round
Refuses(n, used) ==
  \/ Replans("human_rejected", used)
  \/ g.replans >= MaxReplans /\ Turns(n, "error", "rejected", used) /\ Remains

LEMMA ReturnIs ==
  ASSUME GraphOK, WorkOK, g.steps < RecursionLimit,
         NEW n \in B!Nodes \cup {"end"}, NEW s \in B!Statuses, NEW e \in B!Errors,
         NEW used \in Nat
  PROVE  LET r == Return(n, s, e, used)
         IN  /\ r \in GStates
             /\ r.node = n /\ r.status = s /\ r.error = e /\ r.round = g.round
             /\ r.replans = g.replans /\ r.facts = g.facts /\ r.steps = g.steps + 1
             /\ r.passes = g.passes /\ r.calls = g.calls + work.used + used
<1>1. g \in GStates /\ work.used \in Nat
  BY DEF GraphOK, WorkOK
<1> QED
  BY <1>1, Returns

LEMMA ReturnTurns ==
  ASSUME GraphOK, WorkOK, g.steps < RecursionLimit,
         NEW n \in B!Nodes \cup {"end"}, NEW s \in B!Statuses, NEW e \in B!Errors,
         NEW used \in Nat
  PROVE  /\ g' = Return(n, s, e, used) =>
              Turns(n, s, e, used) /\ Remains /\ g'.passes = g.passes
         /\ IdeaEnds(Return(n, s, e, used)) =>
              Turns(n, s, e, used) /\ Remains /\ g'.passes = g.passes + 1
<1> DEFINE r == Return(n, s, e, used)
<1>1. /\ r \in GStates
      /\ r.node = n /\ r.status = s /\ r.error = e /\ r.round = g.round
      /\ r.replans = g.replans /\ r.facts = g.facts /\ r.steps = g.steps + 1
      /\ r.passes = g.passes /\ r.calls = g.calls + work.used + used
  BY ReturnIs
<1> HIDE DEF r
<1>2. g' = r => Turns(n, s, e, used) /\ Remains /\ g'.passes = g.passes
  BY <1>1 DEF Turns, Remains
<1>3. ASSUME g' = [r EXCEPT !.passes = @ + 1]
      PROVE  Turns(n, s, e, used) /\ Remains /\ g'.passes = g.passes + 1
  <2>1. /\ g'.node = r.node /\ g'.status = r.status /\ g'.error = r.error
        /\ g'.round = r.round /\ g'.replans = r.replans /\ g'.facts = r.facts
        /\ g'.steps = r.steps /\ g'.calls = r.calls /\ g'.passes = r.passes + 1
    BY <1>1, <1>3 DEF GStates
  <2> QED
    BY <1>1, <2>1 DEF Turns, Remains
<1> QED
  BY <1>2, <1>3 DEF r, IdeaEnds

\* A graph state that returns to the planner because of a failure.
LEMMA ReplanTurns ==
  ASSUME GraphOK, WorkOK, g.steps < RecursionLimit, g.replans < MaxReplans,
         NEW used \in Nat, NEW why, NEW r,
         r = [Return("idea_plan", "replanning", g.error, used) EXCEPT
                !.replans = @ + 1, !.facts = why]
  PROVE  /\ g' = r => Replans(why, used) /\ g'.passes = g.passes
         /\ IdeaEnds(r) => Replans(why, used) /\ g'.passes = g.passes + 1
<1> DEFINE q == Return("idea_plan", "replanning", g.error, used)
           p == [q EXCEPT !.replans = @ + 1]
<1>1. /\ q \in GStates
      /\ q.node = "idea_plan" /\ q.status = "replanning" /\ q.error = g.error
      /\ q.round = g.round /\ q.replans = g.replans /\ q.facts = g.facts
      /\ q.steps = g.steps + 1 /\ q.passes = g.passes /\ q.calls = g.calls + work.used + used
  <2>1. /\ "idea_plan" \in B!Nodes \cup {"end"} /\ "replanning" \in B!Statuses
        /\ g.error \in B!Errors
    BY Vocabulary DEF GraphOK, GStates
  <2> QED
    BY <2>1, ReturnIs
<1>2. r = [p EXCEPT !.facts = why]
  BY Zenon
<1> HIDE DEF q
<1>3. /\ p \in [node : {q.node}, status : {q.status}, error : {q.error}, round : {q.round},
                replans : {q.replans + 1}, facts : {q.facts}, steps : {q.steps},
                passes : {q.passes}, calls : {q.calls}]
  BY <1>1 DEF GStates
<1> HIDE DEF p
<1>4. /\ r \in [node : {q.node}, status : {q.status}, error : {q.error}, round : {q.round},
                replans : {q.replans + 1}, facts : {why}, steps : {q.steps},
                passes : {q.passes}, calls : {q.calls}]
  BY <1>2, <1>3
<1>7. /\ r.node = "idea_plan" /\ r.status = "replanning" /\ r.error = g.error
      /\ r.round = g.round /\ r.replans = g.replans + 1 /\ r.facts = why
      /\ r.steps = g.steps + 1 /\ r.passes = g.passes /\ r.calls = g.calls + work.used + used
  BY <1>1, <1>4
<1>5. g' = r => Replans(why, used) /\ g'.passes = g.passes
  BY <1>7 DEF Replans, Turns
<1>6. ASSUME g' = [r EXCEPT !.passes = @ + 1]
      PROVE  Replans(why, used) /\ g'.passes = g.passes + 1
  <2>1. /\ g'.node = r.node /\ g'.status = r.status /\ g'.error = r.error
        /\ g'.round = r.round /\ g'.replans = r.replans /\ g'.facts = r.facts
        /\ g'.steps = r.steps /\ g'.calls = r.calls /\ g'.passes = r.passes + 1
    BY <1>4, <1>6
  <2> QED
    BY <1>7, <2>1 DEF Replans, Turns
<1> QED
  BY <1>5, <1>6 DEF IdeaEnds

LEMMA RejectionTurns ==
  ASSUME GraphOK, WorkOK, g.steps < RecursionLimit, NEW n \in B!Nodes, NEW used \in Nat
  PROVE  /\ g' = Rejection(n, used) => Refuses(n, used) /\ g'.passes = g.passes
         /\ IdeaEnds(Rejection(n, used)) => Refuses(n, used) /\ g'.passes = g.passes + 1
<1> DEFINE r == Rejection(n, used)
<1>1. CASE g.replans < MaxReplans
  <2>1. r = [Return("idea_plan", "replanning", g.error, used) EXCEPT
               !.replans = @ + 1, !.facts = "human_rejected"]
    BY <1>1 DEF Rejection
  <2> HIDE DEF r
  <2>2. /\ g' = r => Replans("human_rejected", used) /\ g'.passes = g.passes
        /\ IdeaEnds(r) => Replans("human_rejected", used) /\ g'.passes = g.passes + 1
    BY <1>1, <2>1, ReplanTurns, ZenonT(30)
  <2> QED
    BY <2>2 DEF Refuses, r
<1>2. CASE ~(g.replans < MaxReplans)
  <2>1. r = Return(n, "error", "rejected", used)
    BY <1>2 DEF Rejection
  <2>2. g.replans >= MaxReplans
    BY <1>2, Constants DEF GraphOK, GStates
  <2>3. n \in B!Nodes \cup {"end"} /\ "error" \in B!Statuses /\ "rejected" \in B!Errors
    BY Vocabulary
  <2> QED
    BY <2>1, <2>2, <2>3, ReturnTurns DEF Refuses
<1> QED
  BY <1>1, <1>2

\* What the batch graph sees of the results changes only with them.
LEMMA SeenStays ==
  /\ UNCHANGED coded => PassedCodes' = PassedCodes
  /\ UNCHANGED search => RoundRecords' = RoundRecords
  /\ UNCHANGED final => Evaluated' = Evaluated
  /\ UNCHANGED plan => Verdict' = Verdict
<1>1. ASSUME coded' = coded PROVE PassedCodes' = PassedCodes
  <2> DEFINE Of(c) == {c[j].owner : j \in {i \in DOMAIN c :
                         c[Max({l \in DOMAIN c : c[l].id = c[i].id})].passed}}
  <2>1. PassedCodes = Of(coded) /\ PassedCodes' = Of(coded')
    BY DEF PassedCodes
  <2> HIDE DEF Of
  <2> QED
    BY <1>1, <2>1
<1>2. ASSUME outcomes' = outcomes, rounds' = rounds PROVE RoundRecords' = RoundRecords
  <2> DEFINE Of(o, r) == [i \in DOMAIN r |->
                            [round |-> r[i], results |-> [k \in 1..K |-> o[(i - 1) * K + k].nmse]]]
  <2>1. RoundRecords = Of(outcomes, rounds) /\ RoundRecords' = Of(outcomes', rounds')
    BY DEF RoundRecords
  <2> HIDE DEF Of
  <2> QED
    BY <1>2, <2>1
<1>3. UNCHANGED final => Evaluated' = Evaluated
  BY DEF Evaluated
<1>4. UNCHANGED plan => Verdict' = Verdict
  BY DEF Verdict
<1> QED
  BY <1>1, <1>2, <1>3, <1>4 DEF search

\* The facts about the graph's counters that every step needs.
LEMMA CountersAre ==
  ASSUME GraphOK, WorkOK
  PROVE  /\ g.calls \in Nat /\ work.used \in Nat /\ Budget \in Nat /\ g.passes \in Nat
         /\ g.error \in B!Errors /\ 0 \in Nat /\ 1 \in Nat
         /\ {"idea_plan", "plan_gate", "coding", "execution", "writing", "terminal"} \subseteq B!Nodes
  BY Constants, Vocabulary DEF GraphOK, WorkOK, GStates

LEMMA IdeaImplements ==
  ASSUME GraphOK, WorkOK, ClosedOK, PlanRaises \/ PlanRefused \/ PlanAccepted
  PROVE  B!IdeaPlan \/ UNCHANGED B!vars
<1>0. /\ At("idea_plan") /\ Idle /\ UNCHANGED <<PassedCodes, RoundRecords, Evaluated, terminal>>
  <2>1. At("idea_plan") /\ Idle
    BY DEF PlanRaises, PlanRefused, PlanAccepted, PlanReviewed, IdeaEnds
  <2> QED
    BY <2>1, SeenStays DEF Idle
<1>1. /\ g.status # "completed" /\ g.calls \in Nat /\ work.used \in Nat /\ Budget \in Nat
      /\ g.node = "idea_plan" /\ g.steps < RecursionLimit
  BY <1>0, CountersAre DEF ClosedOK, At
<1>2. ASSUME NEW used \in 0..1, UNCHANGED plan, IdeaEnds(Return("terminal", "error", "worker", used))
      PROVE  B!IdeaPlan
  <2>1. Turns("terminal", "error", "worker", used) /\ Remains /\ g'.passes = g.passes + 1
    <3>1. "terminal" \in B!Nodes \cup {"end"} /\ "error" \in B!Statuses /\ "worker" \in B!Errors
      BY Vocabulary
    <3> QED
      BY <1>1, <1>2, <3>1, ReturnTurns
  <2>2. g.calls > Budget => g'.calls > Budget
    BY <1>1, <2>1 DEF Turns
  <2>3. Verdict' = Verdict
    BY <1>2, SeenStays
  <2> QED
    BY <1>0, <1>1, <2>1, <2>2, <2>3
    DEF Turns, Remains, B!IdeaPlan, B!Enter, B!Stop, B!Spend, B!AfterIdea, B!publication
<1>3. CASE PlanRaises
  BY <1>2, <1>3 DEF PlanRaises
<1>4. CASE PlanRefused
  <2>1. CASE work.attempt < PlannerRepairs
    <3>1. UNCHANGED <<g, plan>>
      BY <1>4, <2>1 DEF PlanRefused
    <3> QED
      BY <1>0, <3>1, SeenStays DEF B!vars, B!search, B!publication
  <2>2. CASE ~(work.attempt < PlannerRepairs)
    BY <1>2, <1>4, <2>2 DEF PlanRefused
  <2> QED
    BY <2>1, <2>2
<1>5. ASSUME IdeaEnds(Rejection("terminal", 1)), UNCHANGED plan
      PROVE  B!IdeaPlan
  <2>1. Refuses("terminal", 1) /\ g'.passes = g.passes + 1
    BY <1>1, <1>5, CountersAre, RejectionTurns
  <2>2. g'.calls = g.calls + work.used + 1
    BY <2>1 DEF Refuses, Replans, Turns
  <2>3. (g.calls > Budget => g'.calls > Budget) /\ Verdict' = Verdict
    BY <1>1, <1>5, <2>2, SeenStays
  <2>4. CASE Replans("human_rejected", 1)
    BY <1>0, <1>1, <2>1, <2>3, <2>4
    DEF Replans, Turns, B!IdeaPlan, B!Enter, B!ReviewRejects, B!Replan, B!Spend, B!AfterIdea,
        B!publication
  <2>5. CASE g.replans >= MaxReplans /\ Turns("terminal", "error", "rejected", 1) /\ Remains
    BY <1>0, <1>1, <2>1, <2>3, <2>5
    DEF Turns, Remains, B!IdeaPlan, B!Enter, B!ReviewRejects, B!Stop, B!Spend, B!AfterIdea,
        B!publication
  <2> QED
    BY <2>1, <2>4, <2>5 DEF Refuses
<1>6. ASSUME NEW p,
             \/ /\ g.calls + work.used + 1 > Budget
                /\ IdeaEnds(Return("terminal", "budget_exceeded", "budget", 1))
             \/ /\ ~(g.calls + work.used + 1 > Budget)
                /\ IdeaEnds(Return("plan_gate", "running", g.error, 1)),
             plan' = [raw |-> p.list, list |-> Delivered(p).list,
                      ok |-> GateAdmits(Delivered(p), K, g.round, KnownFacts, Context)]
      PROVE  B!IdeaPlan
  <2>1. Verdict' \in {"valid", "invalid"}
    <3>1. ASSUME NEW x, NEW y, NEW z PROVE [raw |-> x, list |-> y, ok |-> z] # NoPlan
      <4>1. "raw" \in DOMAIN [raw |-> x, list |-> y, ok |-> z] /\ "raw" \notin DOMAIN NoPlan
        BY DEF NoPlan
      <4> QED
        BY <4>1
    <3>2. plan' # NoPlan
      BY <1>6, <3>1, Zenon
    <3>3. Verdict' = IF plan' = NoPlan THEN "none" ELSE IF plan'.ok THEN "valid" ELSE "invalid"
      BY DEF Verdict, NoPlan
    <3> QED
      BY <3>2, <3>3
  <2>2. CASE /\ g.calls + work.used + 1 > Budget
             /\ IdeaEnds(Return("terminal", "budget_exceeded", "budget", 1))
    <3>1. /\ Turns("terminal", "budget_exceeded", "budget", 1) /\ Remains
          /\ g'.passes = g.passes + 1
      <4>1. /\ "terminal" \in B!Nodes \cup {"end"} /\ "budget_exceeded" \in B!Statuses
            /\ "budget" \in B!Errors
        BY Vocabulary
      <4> QED
        BY <1>1, <2>2, <4>1, CountersAre, ReturnTurns
    <3>2. (g.calls > Budget => g'.calls > Budget) /\ g'.calls > Budget
      BY <1>1, <2>2, <3>1 DEF Turns
    <3> QED
      BY <1>0, <1>1, <2>1, <3>1, <3>2
      DEF Turns, Remains, B!IdeaPlan, B!Enter, B!Stop, B!Spend, B!AfterIdea, B!publication
  <2>3. CASE /\ ~(g.calls + work.used + 1 > Budget)
             /\ IdeaEnds(Return("plan_gate", "running", g.error, 1))
    <3>1. Turns("plan_gate", "running", g.error, 1) /\ Remains /\ g'.passes = g.passes + 1
      <4>1. /\ "plan_gate" \in B!Nodes \cup {"end"} /\ "running" \in B!Statuses
            /\ g.error \in B!Errors
        BY Vocabulary, CountersAre
      <4> QED
        BY <1>1, <2>3, <4>1, CountersAre, ReturnTurns
    <3>2. (g.calls > Budget => g'.calls > Budget) /\ ~(g'.calls > Budget)
      BY <1>1, <2>3, <3>1 DEF Turns
    <3> QED
      BY <1>0, <1>1, <2>1, <3>1, <3>2
      DEF Turns, Remains, B!IdeaPlan, B!Enter, B!Proceed, B!Spend, B!AfterIdea, B!publication
  <2> QED
    BY <1>6, <2>2, <2>3
<1>7. CASE PlanAccepted
  BY <1>5, <1>6, <1>7 DEF PlanAccepted, PlanReviewed
<1> QED
  BY <1>3, <1>4, <1>7

LEMMA GateImplements ==
  ASSUME GraphOK, WorkOK, ClosedOK, PlanOK, PlanGate
  PROVE  B!PlanGate
<1>1. /\ g.status # "completed" /\ g.calls \in Nat /\ work.used = 0 /\ Budget \in Nat
      /\ g.node = "plan_gate" /\ g.steps < RecursionLimit
      /\ UNCHANGED <<Verdict, PassedCodes, RoundRecords, Evaluated, terminal>>
  <2>1. /\ g.node = "plan_gate" /\ g.steps < RecursionLimit
        /\ UNCHANGED <<plan, coded, search, final, terminal>>
    BY DEF PlanGate, At
  <2>2. work.used = 0
    BY <2>1 DEF WorkOK, Fresh
  <2> QED
    BY <2>1, <2>2, CountersAre, SeenStays DEF ClosedOK
<1>2. Verdict = IF plan.ok THEN "valid" ELSE "invalid"
  <2>1. PICK p \in Plans : TakenFrom(p)
    BY <1>1 DEF PlanOK
  <2>2. plan # NoPlan
    <3>1. "raw" \in DOMAIN plan
      <4>1. plan = [raw |-> p.list, list |-> Delivered(p).list, ok |-> plan.ok]
        BY <2>1 DEF TakenFrom
      <4>2. ASSUME NEW x, NEW y, NEW z, NEW r, r = [raw |-> x, list |-> y, ok |-> z]
            PROVE  "raw" \in DOMAIN r
        BY <4>2
      <4> QED
        BY <4>1, <4>2, Zenon
    <3>2. "raw" \notin DOMAIN NoPlan
      BY DEF NoPlan
    <3> QED
      BY <3>1, <3>2
  <2> QED
    BY <2>2 DEF Verdict
<1>3. /\ {"coding", "idea_plan", "terminal"} \subseteq B!Nodes \cup {"end"}
      /\ {"running", "replanning", "invalid_plan"} \subseteq B!Statuses
      /\ g.error \in B!Errors /\ "invalid" \in B!Errors /\ 0 \in Nat
  BY Vocabulary, CountersAre
<1>4. CASE plan.ok
  <2> DEFINE r == Return("coding", "running", g.error, 0)
  <2>1. g' = [r EXCEPT !.facts = "none"]
    BY <1>4 DEF PlanGate
  <2>2. /\ r \in GStates
        /\ r.node = "coding" /\ r.status = "running" /\ r.error = g.error /\ r.round = g.round
        /\ r.replans = g.replans /\ r.steps = g.steps + 1
        /\ r.passes = g.passes /\ r.calls = g.calls + work.used + 0
    BY <1>1, <1>3, ReturnIs
  <2> HIDE DEF r
  <2>3. /\ g'.node = r.node /\ g'.status = r.status /\ g'.error = r.error
        /\ g'.round = r.round /\ g'.replans = r.replans /\ g'.facts = "none"
        /\ g'.steps = r.steps /\ g'.calls = r.calls /\ g'.passes = r.passes
    BY <2>1, <2>2 DEF GStates
  <2>4. g'.calls = g.calls
    BY <1>1, <2>2, <2>3
  <2> QED
    BY <1>1, <1>2, <1>4, <2>2, <2>3, <2>4
    DEF B!PlanGate, B!Enter, B!AfterGate, B!search, B!publication
<1>5. CASE ~plan.ok /\ g.replans < MaxReplans
  <2>1. Replans("invalid_plan", 0) /\ g'.passes = g.passes
    <3>1. g' = [Return("idea_plan", "replanning", g.error, 0) EXCEPT
                  !.replans = @ + 1, !.facts = "invalid_plan"]
      BY <1>5 DEF PlanGate
    <3> QED
      BY <1>1, <1>3, <1>5, <3>1, ReplanTurns, ZenonT(30)
  <2>2. g'.calls = g.calls
    BY <1>1, <2>1 DEF Replans, Turns
  <2> QED
    BY <1>1, <1>2, <1>5, <2>1, <2>2
    DEF Replans, Turns, B!PlanGate, B!Enter, B!Replan, B!AfterGate, B!search, B!publication
<1>6. CASE ~plan.ok /\ ~(g.replans < MaxReplans)
  <2>1. /\ Turns("terminal", "invalid_plan", "invalid", 0) /\ Remains
        /\ g'.passes = g.passes
    <3>1. g' = Return("terminal", "invalid_plan", "invalid", 0)
      BY <1>6 DEF PlanGate
    <3> QED
      BY <1>1, <1>3, <3>1, ReturnTurns
  <2>2. g'.calls = g.calls /\ g.replans >= MaxReplans
    BY <1>1, <1>6, <2>1, Constants DEF Turns, GraphOK, GStates
  <2> QED
    BY <1>1, <1>2, <1>6, <2>1, <2>2
    DEF Turns, Remains, B!PlanGate, B!Enter, B!Stop, B!AfterGate, B!search, B!publication
<1> QED
  BY <1>4, <1>5, <1>6

LEMMA CodingImplements ==
  ASSUME GraphOK, WorkOK, ClosedOK, CodesOK, EndCoding
  PROVE  B!Coding
<1>1. /\ g.status # "completed" /\ g.calls \in Nat /\ work.used \in Nat /\ Budget \in Nat
      /\ g.node = "coding" /\ g.steps < RecursionLimit
      /\ UNCHANGED <<Verdict, RoundRecords, Evaluated, terminal>>
  <2>1. /\ g.node = "coding" /\ g.steps < RecursionLimit
        /\ UNCHANGED <<plan, search, final, terminal>>
    BY DEF EndCoding, At
  <2> QED
    BY <2>1, CountersAre, SeenStays DEF ClosedOK
<1>2. CASE g' = Rejection("idea_plan", 0) /\ UNCHANGED coded
  <2>1. Refuses("idea_plan", 0) /\ g'.passes = g.passes
    BY <1>1, <1>2, CountersAre, RejectionTurns
  <2>2. g'.calls = g.calls + work.used + 0
    BY <2>1 DEF Refuses, Replans, Turns
  <2>3. (g.calls > Budget => g'.calls > Budget) /\ PassedCodes' = PassedCodes
    BY <1>1, <1>2, <2>2, SeenStays
  <2>4. CASE Replans("human_rejected", 0)
    BY <1>1, <2>1, <2>3, <2>4
    DEF Replans, Turns, B!Coding, B!Enter, B!ReviewRejects, B!Replan, B!Spend, B!AfterCoding,
        B!publication
  <2>5. CASE g.replans >= MaxReplans /\ Turns("idea_plan", "error", "rejected", 0) /\ Remains
    BY <1>1, <2>1, <2>3, <2>5
    DEF Turns, Remains, B!Coding, B!Enter, B!ReviewRejects, B!Stop, B!Spend, B!AfterCoding,
        B!publication
  <2> QED
    BY <2>1, <2>4, <2>5 DEF Refuses
<1>3. CASE g' = Return("execution", "running", g.error, 0) /\ coded' = work.codes
  <2>1. Turns("execution", "running", g.error, 0) /\ Remains /\ g'.passes = g.passes
    <3>1. /\ "execution" \in B!Nodes \cup {"end"} /\ "running" \in B!Statuses
          /\ g.error \in B!Errors /\ 0 \in Nat
      BY Vocabulary, CountersAre
    <3> QED
      BY <1>1, <1>3, <3>1, ReturnTurns
  <2>2. g.calls > Budget => g'.calls > Budget
    BY <1>1, <2>1 DEF Turns
  <2>3. PassedCodes' \in SUBSET (1..K)
    <3>1. CodesFit(work.codes) /\ DOMAIN work.codes = 1..K
      <4>1. CodesFit(work.codes) /\ IsSeq(work.codes) /\ Len(work.codes) = work.cand - 1
        BY <1>1 DEF CodesOK, WorkOK
      <4>2. work.cand = K + 1
        <5>1. work.cand > K
          BY DEF EndCoding
        <5>2. work.cand \in 1..K + 1
          BY DEF WorkOK
        <5> QED
          BY <5>1, <5>2, Constants
      <4> QED
        BY <4>1, <4>2, Constants DEF IsSeq
    <3>2. \A j \in DOMAIN coded' : coded'[j].owner \in 1..K
      BY <1>3, <3>1 DEF CodesFit
    <3> QED
      BY <3>2 DEF PassedCodes
  <2> QED
    BY <1>1, <2>1, <2>2, <2>3
    DEF Turns, Remains, B!Coding, B!Enter, B!Proceed, B!Spend, B!AfterCoding, B!publication
<1> QED
  BY <1>2, <1>3 DEF EndCoding

\* A candidate whose code did not pass has no number, and only a completed training
\* has one.
NumbersOK ==
  /\ \A j \in DOMAIN outcomes : outcomes[j].nmse # None => outcomes[j].status = "completed"
  /\ \A j \in DOMAIN work.done : work.done[j].nmse # None =>
       work.done[j].status = "completed" /\ CodeOf(j).passed

LEMMA NumbersInit == Init => NumbersOK
  BY DEF Init, Fresh, NumbersOK

\* What a training leaves has a number only if it completed.
LEMMA TrainingNumber ==
  ASSUME NEW id, IsId(id), NEW c, NEW code, NEW t \in Trainings(id, c, code),
         NEW p \in Remembered(t)
  PROVE  p.nmse # None => p.status = "completed"
<1>1. \/ \E class : t = Outcome(id, c, "failed", class, None, code.owner)
      \/ \E class, s : t = Outcome(id, c, "completed", class, s, code.owner)
  BY Zenon DEF Trainings
<1>2. /\ \A x, y, class, by : Outcome(x, y, "failed", class, None, by).nmse = None
      /\ \A x, y, s, class, by : Outcome(x, y, "completed", class, s, by).status = "completed"
  BY DEF Outcome
<1>3. ASSUME NEW o,
             \/ \E x, y, class, by : o = Outcome(x, y, "failed", class, None, by)
             \/ \E x, y, class, s, by : o = Outcome(x, y, "completed", class, s, by)
      PROVE  o.nmse # None => o.status = "completed"
  BY <1>2, <1>3, Zenon
<1>4. t.nmse # None => t.status = "completed"
  BY <1>1, <1>3, Zenon
<1>5. CASE p = t
  BY <1>4, <1>5
<1>6. CASE p = Outcome(t.id, t.cand, "failed", "error", None, t.by)
  BY <1>3, <1>6, Zenon
<1> QED
  BY <1>5, <1>6 DEF Remembered

\* A number that executing a candidate adds.
LEMMA ExecuteNumber ==
  ASSUME GraphOK, WorkOK, PlanOK, Execute
  PROVE  work'.done[work.cand].nmse # None =>
           work'.done[work.cand].status = "completed" /\ CodeOf(work.cand).passed
<1> DEFINE id == ScopedId(work.cand)  code == CodeOf(work.cand)
<1>1. /\ work.cand \in 1..K /\ IsSeq(work.done) /\ Len(work.done) = work.cand - 1
      /\ Gated
      /\ work \in [cand : {work.cand}, attempt : {work.attempt}, used : {work.used},
                   tree : {work.tree}, codes : {work.codes}, done : {work.done}]
  <2>1. At("execution") /\ work.cand <= K
    BY DEF Execute
  <2>2. work.cand \in 1..K
    BY <2>1, Constants DEF WorkOK
  <2> QED
    BY <2>1, <2>2 DEF WorkOK, At, Gated
<1>2. ASSUME NEW x, work' = [work EXCEPT !.cand = @ + 1, !.done = Append(@, x)]
      PROVE  work'.done[work.cand] = x
  <2>1. work'.done = Append(work.done, x)
    BY <1>1, <1>2
  <2>2. Append(work.done, x)[Len(work.done) + 1] = x
    BY <1>1, AppendShape
  <2>3. Len(work.done) + 1 = work.cand
    BY <1>1
  <2> QED
    BY <2>1, <2>2, <2>3
<1>3. IsId(id)
  BY <1>1, ScopedIds
<1>4. CASE work' = [work EXCEPT !.cand = @ + 1, !.done =
                      Append(@, Outcome(id, Cand, "failed", "coding_error", None, code.owner))]
  <2> DEFINE o == Outcome(id, Cand, "failed", "coding_error", None, code.owner)
  <2>1. work'.done[work.cand] = o
    BY <1>2, <1>4
  <2> HIDE DEF id, code
  <2>2. o.nmse = None
    BY DEF Outcome
  <2> QED
    BY <2>1, <2>2
<1>5. CASE code.passed /\ \E o \in Trainings(id, Cand, code) :
             \E p \in Remembered(o) :
               work' = [work EXCEPT !.cand = @ + 1, !.done = Append(@, p)]
  <2>1. PICK t \in Trainings(id, Cand, code) : \E p \in Remembered(t) :
               work' = [work EXCEPT !.cand = @ + 1, !.done = Append(@, p)]
    BY <1>5
  <2>2. PICK p \in Remembered(t) : work' = [work EXCEPT !.cand = @ + 1, !.done = Append(@, p)]
    BY <2>1
  <2>3. work'.done[work.cand] = p
    BY <1>2, <2>2
  <2>4. code.passed
    BY <1>5
  <2> HIDE DEF id, code
  <2>5. p.nmse # None => p.status = "completed"
    BY <1>3, TrainingNumber
  <2> QED
    BY <2>3, <2>4, <2>5 DEF code
<1> QED
  BY <1>4, <1>5 DEF Execute

LEMMA NumbersStep ==
  ASSUME GraphOK, WorkOK, PlanOK, NumbersOK, [Next]_vars
  PROVE  NumbersOK'
<1>0. ASSUME UNCHANGED <<plan, coded>>, g'.round = g.round, NEW j
      PROVE  CodeOf(j)' = CodeOf(j)
  <2> DEFINE Of(c, i) == c[Max({l \in DOMAIN c : c[l].id = i})]
  <2>1. ScopedId(j)' = ScopedId(j)
    BY <1>0, ScopedStays
  <2>2. CodeOf(j) = Of(coded, ScopedId(j)) /\ CodeOf(j)' = Of(coded', ScopedId(j)')
    BY DEF CodeOf
  <2> HIDE DEF Of
  <2> QED
    BY <1>0, <2>1, <2>2
<1>1. CASE Execute /\ outcomes' = outcomes
  <2>1. /\ DOMAIN work'.done = 1..work.cand /\ DOMAIN work.done = 1..work.cand - 1
        /\ \A j \in 1..work.cand - 1 : work'.done[j] = work.done[j]
    BY <1>1, ExecuteWork
  <2>2. \A j : CodeOf(j)' = CodeOf(j)
    BY <1>0, <1>1 DEF Execute
  <2>3. work.cand \in Nat
    BY DEF WorkOK
  <2>4. ASSUME NEW j \in DOMAIN work'.done, work'.done[j].nmse # None
        PROVE  work'.done[j].status = "completed" /\ CodeOf(j).passed
    <3>1. CASE j = work.cand
      BY <1>1, <2>4, <3>1, ExecuteNumber
    <3>2. CASE j # work.cand
      <4>1. j \in DOMAIN work.done /\ work'.done[j] = work.done[j]
        BY <2>1, <2>3, <2>4, <3>2
      <4> QED
        BY <2>4, <4>1 DEF NumbersOK
    <3> QED
      BY <3>1, <3>2
  <2> QED
    BY <1>1, <2>2, <2>4 DEF NumbersOK
<1>2. CASE EndExecution
  <2>1. work'.done = <<>>
    BY <1>2 DEF EndExecution, Fresh
  <2>2. /\ DOMAIN outcomes = 1..Len(outcomes) /\ DOMAIN work.done = 1..Len(work.done)
        /\ Len(outcomes) \in Nat /\ Len(work.done) \in Nat
        /\ DOMAIN outcomes' = 1..Len(outcomes) + Len(work.done)
        /\ \A k \in 1..Len(outcomes) : outcomes'[k] = outcomes[k]
        /\ \A k \in 1..Len(work.done) : outcomes'[Len(outcomes) + k] = work.done[k]
    BY <1>2, RoundAdded
  <2>3. ASSUME NEW j \in DOMAIN outcomes', outcomes'[j].nmse # None
        PROVE  outcomes'[j].status = "completed"
    <3>1. CASE j \in 1..Len(outcomes)
      BY <2>2, <2>3, <3>1 DEF NumbersOK
    <3>2. CASE j \notin 1..Len(outcomes)
      <4>1. j - Len(outcomes) \in 1..Len(work.done) /\ j = Len(outcomes) + (j - Len(outcomes))
        BY <2>2, <2>3, <3>2
      <4> QED
        BY <2>2, <2>3, <4>1 DEF NumbersOK
    <3> QED
      BY <3>1, <3>2
  <2> QED
    BY <2>1, <2>3, EmptyShape DEF NumbersOK
<1>3. CASE outcomes' = outcomes /\ work'.done = work.done /\ ~Execute /\ ~EndExecution
  <2>1. \/ work.done = <<>>
        \/ UNCHANGED <<plan, coded>> /\ g'.round = g.round
    <3>1. g.node \in {"execution", "aborted"} \/ work.done = <<>>
      BY DEF WorkOK, Fresh
    <3>2. CASE g.node \in {"execution", "aborted"}
      <4>1. ExecuteRejected \/ Abort \/ Finished \/ UNCHANGED vars
        BY <1>3, <3>2 DEF Next, At, PlanRaises, PlanRefused, PlanAccepted, PlanGate,
           CodeRegistered, CodeAttempt, EndCoding, FinalEvaluate, WritingFails, Write, Terminal
      <4>2. CASE ExecuteRejected
        BY <4>2, MoveRejected DEF ExecuteRejected
      <4>3. CASE Abort
        BY <4>3, MoveAbort DEF Abort
      <4>4. CASE Finished \/ UNCHANGED vars
        BY <4>4 DEF Finished, vars
      <4> QED
        BY <4>1, <4>2, <4>3, <4>4
    <3> QED
      BY <3>1, <3>2
  <2>2. CASE work.done = <<>>
    BY <1>3, <2>2, EmptyShape DEF NumbersOK
  <2>3. CASE UNCHANGED <<plan, coded>> /\ g'.round = g.round
    <3>1. \A j : CodeOf(j)' = CodeOf(j)
      BY <1>0, <2>3
    <3> QED
      BY <1>3, <3>1 DEF NumbersOK
  <2> QED
    BY <2>1, <2>2, <2>3
<1>4. FinalEvaluate => ~Execute /\ ~EndExecution
  BY DEF FinalEvaluate, Execute, EndExecution, At
<1> QED
  BY <1>1, <1>2, <1>3, <1>4, ResultsStay

-----------------------------------------------------------------------------
(* The positions of outcomes in the records *)

LEMMA Multiples ==
  ASSUME NEW a \in Nat, NEW b \in Nat, a <= b
  PROVE  a * K \in Nat /\ b * K \in Nat /\ a * K <= b * K /\ (a + 1) * K = a * K + K
  BY Constants

LEMMA PlaceIs ==
  ASSUME NEW n \in Nat, NEW r \in 1..n, NEW k \in 1..K
  PROVE  (r - 1) * K + k \in 1..K * n
  BY Constants, Multiples

LEMMA WhereIs ==
  ASSUME NEW n \in Nat, NEW j \in 1..K * n
  PROVE  /\ Where(j) \in (1..n) \X (1..K)
         /\ (Where(j)[1] - 1) * K + Where(j)[2] = j
<1> DEFINE q == (j - 1) \div K  m == (j - 1) % K
<1>1. q \in Nat /\ m \in 0..K - 1 /\ j - 1 = K * q + m
  BY Constants
<1>2. (j + K - 1) \div K = q + 1
  BY Constants
<1>3. Where(j) = <<q + 1, m + 1>>
  BY <1>2 DEF Where
<1> HIDE DEF q, m
<1>4. q < n
  <2>1. CASE n <= q
    <3>1. n * K <= q * K /\ n * K = K * n /\ q * K = K * q /\ K * q \in Nat /\ K * n \in Nat
      BY <1>1, <2>1, Constants, Multiples
    <3> QED
      BY <1>1, <3>1, Constants
  <2> QED
    BY <1>1, <2>1
<1>5. ((q + 1) - 1) * K + (m + 1) = j
  <2>1. ((q + 1) - 1) * K = K * q /\ K * q \in Nat
    BY <1>1, Constants
  <2> QED
    BY <1>1, <2>1, Constants
<1>6. q + 1 \in 1..n /\ m + 1 \in 1..K
  BY <1>1, <1>4, Constants
<1> QED
  BY <1>3, <1>5, <1>6

LEMMA RecordsAre ==
  ASSUME GraphOK, OutcomesOK
  PROVE  /\ DOMAIN outcomes = 1..K * Len(rounds) /\ DOMAIN rounds = 1..Len(rounds)
         /\ Len(rounds) \in Nat /\ DOMAIN RoundRecords = 1..Len(rounds)
         /\ \A r \in 1..Len(rounds), k \in 1..K :
              /\ RoundRecords[r].results[k] = outcomes[(r - 1) * K + k].nmse
              /\ (r - 1) * K + k \in DOMAIN outcomes
<1>1. /\ DOMAIN outcomes = 1..K * Len(rounds) /\ DOMAIN rounds = 1..Len(rounds)
      /\ Len(rounds) \in Nat
  BY DEF GraphOK, IsSeq
<1>2. DOMAIN RoundRecords = 1..Len(rounds)
  BY <1>1 DEF RoundRecords
<1>3. ASSUME NEW r \in 1..Len(rounds), NEW k \in 1..K
      PROVE  /\ RoundRecords[r].results[k] = outcomes[(r - 1) * K + k].nmse
             /\ (r - 1) * K + k \in DOMAIN outcomes
  <2>1. RoundRecords[r] = [round |-> rounds[r],
                           results |-> [i \in 1..K |-> outcomes[(r - 1) * K + i].nmse]]
    BY <1>1 DEF RoundRecords
  <2>2. RoundRecords[r].results = [i \in 1..K |-> outcomes[(r - 1) * K + i].nmse]
    <3>1. ASSUME NEW x, NEW y, NEW z, z = [round |-> x, results |-> y] PROVE z.results = y
      BY <3>1
    <3> QED
      BY <2>1, <3>1, Zenon
  <2>3. RoundRecords[r].results[k] = outcomes[(r - 1) * K + k].nmse
    BY <2>2, Zenon
  <2>4. (r - 1) * K + k \in DOMAIN outcomes
    BY <1>1, PlaceIs
  <2> QED
    BY <2>3, <2>4
<1> QED
  BY <1>1, <1>2, <1>3

\* What executing a round adds to the records.
LEMMA RoundRecorded ==
  ASSUME GraphOK, WorkOK, OutcomesOK, NumbersOK, CodesOK, EndExecution
  PROVE  \E res \in B!Results :
           /\ \A k \in (1..K) \ PassedCodes : res[k] = None
           /\ RoundRecords' = Append(RoundRecords, [round |-> g.round, results |-> res])
<1> DEFINE n == Len(rounds)  res == [k \in 1..K |-> work.done[k].nmse]
           new == [round |-> g.round, results |-> res]
<1>1. /\ DOMAIN outcomes = 1..K * n /\ DOMAIN rounds = 1..n /\ n \in Nat
      /\ DOMAIN RoundRecords = 1..n /\ Len(outcomes) = K * n
  BY RecordsAre DEF GraphOK
<1>2. /\ At("execution") /\ work.cand > K /\ rounds' = Append(rounds, g.round)
  BY DEF EndExecution
<1>3. DOMAIN work.done = 1..K
  <2>1. work.cand = K + 1 /\ Len(work.done) = work.cand - 1 /\ IsSeq(work.done)
    <3>1. work.cand \in 1..K + 1
      BY DEF WorkOK
    <3> QED
      BY <1>2, <3>1, Constants DEF At, WorkOK
  <2> QED
    BY <2>1, Constants DEF IsSeq
<1>4. res \in B!Results
  <2>1. \A k \in 1..K : work.done[k].nmse \in Scores \cup {None}
    BY <1>3 DEF OutcomesOK, IsOutcome
  <2> QED
    BY <2>1 DEF B!Results
<1>5. ASSUME NEW k \in (1..K) \ PassedCodes PROVE res[k] = None
  <2>1. DOMAIN coded = 1..K /\ CodesFit(coded)
    BY <1>2, Constants DEF CodesOK, At, IsSeq
  <2>2. coded[k].id = ScopedId(k) /\ coded[k].owner = k
    BY <2>1 DEF CodesFit
  <2>3. CodeOf(k) = coded[Max({l \in DOMAIN coded : coded[l].id = coded[k].id})]
    BY <2>2, Zenon DEF CodeOf
  <2>4. ~CodeOf(k).passed
    <3>1. CASE CodeOf(k).passed
      <4>1. k \in {i \in DOMAIN coded :
                     coded[Max({l \in DOMAIN coded : coded[l].id = coded[i].id})].passed}
        BY <2>1, <2>3, <3>1
      <4>2. k \in PassedCodes
        BY <2>2, <4>1 DEF PassedCodes
      <4> QED
        BY <4>2
    <3> QED
      BY <3>1
  <2> QED
    BY <1>3, <2>4 DEF NumbersOK
<1>6. /\ DOMAIN rounds' = 1..n + 1 /\ \A r \in 1..n : rounds'[r] = rounds[r]
      /\ rounds'[n + 1] = g.round
  <2>1. IsSeq(rounds)
    BY DEF GraphOK
  <2> QED
    BY <1>2, <2>1, AppendShape
<1>7. /\ \A j \in 1..K * n : outcomes'[j] = outcomes[j]
      /\ \A k \in 1..K : outcomes'[K * n + k] = work.done[k]
  BY <1>1, <1>3, RoundAdded
<1>8. RoundRecords' = [r \in 1..n + 1 |->
        [round |-> rounds'[r], results |-> [k \in 1..K |-> outcomes'[(r - 1) * K + k].nmse]]]
  BY <1>6 DEF RoundRecords
<1>9. RoundRecords = [r \in 1..n |->
        [round |-> rounds[r], results |-> [k \in 1..K |-> outcomes[(r - 1) * K + k].nmse]]]
  BY <1>1 DEF RoundRecords
<1> HIDE DEF n, res, new
<1>10. ASSUME NEW r \in 1..n PROVE RoundRecords'[r] = RoundRecords[r]
  <2>1. \A k \in 1..K : outcomes'[(r - 1) * K + k] = outcomes[(r - 1) * K + k]
    BY <1>1, <1>7, PlaceIs
  <2>2. rounds'[r] = rounds[r]
    BY <1>6
  <2>3. [k \in 1..K |-> outcomes'[(r - 1) * K + k].nmse]
          = [k \in 1..K |-> outcomes[(r - 1) * K + k].nmse]
    BY <2>1
  <2>4. r \in 1..n + 1
    BY <1>1
  <2>5. RoundRecords'[r] =
          [round |-> rounds'[r], results |-> [k \in 1..K |-> outcomes'[(r - 1) * K + k].nmse]]
    BY <1>8, <2>4, Zenon
  <2>6. RoundRecords[r] =
          [round |-> rounds[r], results |-> [k \in 1..K |-> outcomes[(r - 1) * K + k].nmse]]
    BY <1>9, Zenon
  <2> QED
    BY <2>2, <2>3, <2>5, <2>6, Zenon
<1>11. RoundRecords'[n + 1] = new
  <2>1. ASSUME NEW k \in 1..K PROVE outcomes'[((n + 1) - 1) * K + k] = work.done[k]
    <3>1. ((n + 1) - 1) * K + k = K * n + k
      BY <1>1, Constants
    <3> QED
      BY <1>7, <3>1
  <2>2. [k \in 1..K |-> outcomes'[((n + 1) - 1) * K + k].nmse] = res
    BY <2>1 DEF res
  <2>3. n + 1 \in 1..n + 1
    BY <1>1
  <2>4. RoundRecords'[n + 1] =
          [round |-> rounds'[n + 1],
           results |-> [k \in 1..K |-> outcomes'[((n + 1) - 1) * K + k].nmse]]
    BY <1>8, <2>3, Zenon
  <2> QED
    BY <1>6, <2>2, <2>4, Zenon DEF new
<1>12. RoundRecords' = Append(RoundRecords, new)
  <2>1. Len(RoundRecords) = n /\ IsSeq(RoundRecords)
    <3>1. RoundRecords = [r \in 1..n |-> RoundRecords[r]]
      BY <1>9
    <3> QED
      BY <1>1, <3>1, TableIsSeq
  <2>2. Len(RoundRecords') = n + 1 /\ IsSeq(RoundRecords')
    <3>1. RoundRecords' = [r \in 1..n + 1 |-> RoundRecords'[r]]
      BY <1>8
    <3>2. n + 1 \in Nat
      BY <1>1
    <3> HIDE DEF RoundRecords
    <3> QED
      BY <3>1, <3>2, TableIsSeq
  <2> DEFINE more == Append(RoundRecords, new)
  <2>3. /\ IsSeq(more) /\ Len(more) = n + 1
        /\ \A k \in 1..n : more[k] = RoundRecords[k]
        /\ more[n + 1] = new
    BY <2>1, AppendShape
  <2> HIDE DEF more
  <2>4. \A k \in 1..n + 1 : RoundRecords'[k] = more[k]
    BY <1>1, <1>10, <1>11, <2>3
  <2>5. RoundRecords' = more
    BY <2>2, <2>3, <2>4, SameSequence
  <2> QED
    BY <2>5 DEF more
<1> QED
  BY <1>4, <1>5, <1>12 DEF new

LEMMA RejectedImplements ==
  ASSUME GraphOK, WorkOK, ClosedOK, ExecuteRejected
  PROVE  B!Execution
<1> DEFINE n == B!AfterExecution("error")
<1>1. /\ g.status # "completed" /\ g.calls \in Nat /\ work.used = 0 /\ Budget \in Nat
      /\ g.node = "execution" /\ g.steps < RecursionLimit /\ g' = Rejection(n, 0)
      /\ UNCHANGED <<Verdict, PassedCodes, RoundRecords, Evaluated, terminal>>
  <2>1. /\ g.node = "execution" /\ g.steps < RecursionLimit /\ g' = Rejection(n, 0)
        /\ UNCHANGED <<plan, coded, search, final, terminal>>
    BY DEF ExecuteRejected, At
  <2> QED
    BY <2>1, CountersAre, SeenStays DEF ClosedOK, WorkOK
<1>2. n \in B!Nodes /\ n \in {"final_evaluation", "writing"}
  BY Vocabulary DEF B!AfterExecution
<1>3. Refuses(n, 0) /\ g'.passes = g.passes
  BY <1>1, <1>2, CountersAre, RejectionTurns
<1>4. g'.calls = g.calls
  BY <1>1, <1>3 DEF Refuses, Replans, Turns
<1>5. CASE Replans("human_rejected", 0)
  BY <1>1, <1>3, <1>4, <1>5
  DEF Replans, Turns, B!Execution, B!Enter, B!ReviewRejects, B!Replan, B!AfterExecution,
      B!publication
<1>6. CASE g.replans >= MaxReplans /\ Turns(n, "error", "rejected", 0) /\ Remains
  <2>1. g'.node = B!AfterExecution(g'.status) /\ g'.status # "completed"
    BY <1>6 DEF Turns
  <2>2. g'.status = "error" /\ g'.error = "rejected" /\ g'.steps = g.steps + 1
    BY <1>6 DEF Turns
  <2> HIDE DEF n
  <2> QED
    BY <1>1, <1>3, <1>4, <1>6, <2>1, <2>2
    DEF Remains, B!Execution, B!Enter, B!ReviewRejects, B!Stop, B!publication
<1> QED
  BY <1>3, <1>5, <1>6 DEF Refuses

LEMMA RoundImplements ==
  ASSUME GraphOK, WorkOK, ClosedOK, OutcomesOK, NumbersOK, CodesOK, EndExecution
  PROVE  B!Execution
<1>1. /\ g.status # "completed" /\ g.calls \in Nat /\ work.used = 0 /\ Budget \in Nat
      /\ g.node = "execution" /\ g.steps < RecursionLimit
      /\ UNCHANGED <<Verdict, PassedCodes, Evaluated, terminal>>
  <2>1. /\ g.node = "execution" /\ g.steps < RecursionLimit
        /\ UNCHANGED <<plan, coded, final, terminal>>
    BY DEF EndExecution, At
  <2> QED
    BY <2>1, CountersAre, SeenStays DEF ClosedOK, WorkOK
<1>2. \E res \in B!Results :
        /\ \A k \in (1..K) \ PassedCodes : res[k] = None
        /\ RoundRecords' = Append(RoundRecords, [round |-> g.round, results |-> res])
  BY RoundRecorded
<1>3. /\ {"idea_plan", B!AfterExecution("running")} \subseteq B!Nodes \cup {"end"}
      /\ {"running", "next_round"} \subseteq B!Statuses /\ g.error \in B!Errors /\ 0 \in Nat
  BY Vocabulary, CountersAre DEF B!AfterExecution
<1>4. CASE g.round < Rounds
  <2> DEFINE r == Return("idea_plan", "next_round", g.error, 0)
  <2>1. g' = [r EXCEPT !.round = @ + 1]
    BY <1>4 DEF EndExecution
  <2>2. /\ r \in GStates
        /\ r.node = "idea_plan" /\ r.status = "next_round" /\ r.error = g.error
        /\ r.round = g.round /\ r.facts = g.facts
        /\ r.replans = g.replans /\ r.steps = g.steps + 1
        /\ r.passes = g.passes /\ r.calls = g.calls + work.used + 0
    BY <1>1, <1>3, ReturnIs
  <2> HIDE DEF r
  <2>3. /\ g'.node = r.node /\ g'.status = r.status /\ g'.error = r.error
        /\ g'.round = r.round + 1 /\ g'.replans = r.replans /\ g'.facts = r.facts
        /\ g'.steps = r.steps /\ g'.calls = r.calls /\ g'.passes = r.passes
    BY <2>1, <2>2 DEF GStates
  <2>4. g'.calls = g.calls
    BY <1>1, <2>2, <2>3
  <2>5. B!RunsRound(Rounds)
    BY <1>2, <1>4, <2>2, <2>3 DEF B!RunsRound, B!Proceed
  <2>6. g'.node = B!AfterExecution(g'.status)
    BY <2>2, <2>3 DEF B!AfterExecution
  <2> QED
    BY <1>1, <2>2, <2>3, <2>4, <2>5, <2>6 DEF B!Execution, B!Enter, B!publication
<1>5. CASE ~(g.round < Rounds)
  <2> DEFINE n == B!AfterExecution("running")
  <2>1. Turns(n, "running", g.error, 0) /\ Remains /\ g'.passes = g.passes
    <3>1. g' = Return(n, "running", g.error, 0)
      BY <1>5 DEF EndExecution
    <3> QED
      BY <1>1, <1>3, <3>1, ReturnTurns
  <2>2. g'.calls = g.calls /\ g'.status = "running" /\ g'.error = g.error
        /\ g'.steps = g.steps + 1 /\ g'.node = B!AfterExecution(g'.status)
    BY <1>1, <2>1 DEF Turns
  <2>3. g'.round = g.round /\ g'.replans = g.replans /\ g'.facts = g.facts
    BY <2>1 DEF Remains
  <2>4. B!RunsRound(Rounds)
    BY <1>2, <1>5, <2>2, <2>3 DEF B!RunsRound, B!Proceed
  <2> QED
    BY <1>1, <2>1, <2>2, <2>3, <2>4 DEF B!Execution, B!Enter, B!publication
<1> QED
  BY <1>4, <1>5

\* The numbers the batch graph chooses from are those of the outcomes.
LEMMA ValidIs ==
  ASSUME GraphOK, OutcomesOK
  PROVE  /\ \A e \in B!Valid(RoundRecords) :
              \E j \in DOMAIN outcomes : /\ outcomes[j].nmse # None
                                         /\ B!ScoreOf(RoundRecords, e) = outcomes[j].nmse
         /\ \A j \in DOMAIN outcomes :
              /\ B!ScoreOf(RoundRecords, Where(j)) = outcomes[j].nmse
              /\ outcomes[j].nmse # None => Where(j) \in B!Valid(RoundRecords)
<1>1. /\ DOMAIN outcomes = 1..K * Len(rounds) /\ Len(rounds) \in Nat
      /\ DOMAIN RoundRecords = 1..Len(rounds)
      /\ \A r \in 1..Len(rounds), k \in 1..K :
           /\ RoundRecords[r].results[k] = outcomes[(r - 1) * K + k].nmse
           /\ (r - 1) * K + k \in DOMAIN outcomes
  BY RecordsAre
<1>2. ASSUME NEW e \in B!Valid(RoundRecords)
      PROVE  \E j \in DOMAIN outcomes : /\ outcomes[j].nmse # None
                                        /\ B!ScoreOf(RoundRecords, e) = outcomes[j].nmse
  <2>1. /\ e[1] \in 1..Len(rounds) /\ e[2] \in 1..K
        /\ RoundRecords[e[1]].results[e[2]] # None
    BY <1>1 DEF B!Valid
  <2>2. /\ RoundRecords[e[1]].results[e[2]] = outcomes[(e[1] - 1) * K + e[2]].nmse
        /\ (e[1] - 1) * K + e[2] \in DOMAIN outcomes
    BY <1>1, <2>1
  <2> QED
    BY <2>1, <2>2 DEF B!ScoreOf
<1>3. ASSUME NEW j \in DOMAIN outcomes
      PROVE  /\ B!ScoreOf(RoundRecords, Where(j)) = outcomes[j].nmse
             /\ outcomes[j].nmse # None => Where(j) \in B!Valid(RoundRecords)
  <2> DEFINE w == Where(j)
  <2>1. w \in (1..Len(rounds)) \X (1..K) /\ (w[1] - 1) * K + w[2] = j
    BY <1>1, WhereIs
  <2> HIDE DEF w
  <2>2. RoundRecords[w[1]].results[w[2]] = outcomes[j].nmse
    BY <1>1, <2>1
  <2> QED
    BY <1>1, <2>1, <2>2 DEF w, B!Valid, B!ScoreOf
<1> QED
  BY <1>2, <1>3

LEMMA FinalImplements ==
  ASSUME GraphOK, WorkOK, ClosedOK, OutcomesOK, NumbersOK, FinalEvaluate
  PROVE  B!FinalEvaluationNode
<1>1. /\ g.status # "completed" /\ g.calls \in Nat /\ work.used = 0 /\ Budget \in Nat
      /\ g.node = "final_evaluation" /\ g.steps < RecursionLimit
      /\ UNCHANGED <<Verdict, PassedCodes, RoundRecords, terminal>>
  <2>1. /\ g.node = "final_evaluation" /\ g.steps < RecursionLimit
        /\ UNCHANGED <<plan, coded, search, terminal>>
    BY DEF FinalEvaluate, At
  <2>2. work.used = 0
    BY <2>1 DEF WorkOK, Fresh
  <2> QED
    BY <2>1, <2>2, CountersAre, SeenStays DEF ClosedOK
<1>2. Turns("writing", "running", g.error, 0) /\ Remains /\ g'.passes = g.passes
  <2>1. /\ "writing" \in B!Nodes \cup {"end"} /\ "running" \in B!Statuses
        /\ g.error \in B!Errors /\ 0 \in Nat
    BY Vocabulary, CountersAre
  <2>2. g' = Return("writing", "running", g.error, 0)
    BY DEF FinalEvaluate
  <2> QED
    BY <1>1, <2>1, <2>2, ReturnTurns
<1>3. \/ \E e \in B!Valid(RoundRecords) : B!IsBest(RoundRecords, e) /\ Evaluated' = e
      \/ B!Valid(RoundRecords) = {} /\ Evaluated' = B!NoSource
  <2>1. CASE BestOutcome(outcomes) = {} /\ final' = {NoFinal}
    <3>1. NoFinal.source = 0
      BY DEF NoFinal
    <3>2. Evaluated' = B!NoSource
      <4>1. \A o \in final' : ~(o.source > 0)
        BY <2>1, <3>1
      <4> QED
        BY <4>1 DEF Evaluated, B!NoSource
    <3>3. \A j \in DOMAIN outcomes :
            ~(outcomes[j].status = "completed" /\ outcomes[j].nmse # None)
      BY <2>1 DEF BestOutcome
    <3>4. \A j \in DOMAIN outcomes : outcomes[j].nmse = None
      BY <3>3 DEF NumbersOK
    <3>5. B!Valid(RoundRecords) = {}
      BY <3>4, ValidIs
    <3> QED
      BY <3>2, <3>5
  <2>2. ASSUME NEW best \in BestOutcome(outcomes), NEW p, IsOutcome(p),
               final' = {[p EXCEPT !.source = Min({j \in DOMAIN outcomes : outcomes[j] = best})]}
        PROVE  \E e \in B!Valid(RoundRecords) : B!IsBest(RoundRecords, e) /\ Evaluated' = e
    <3> DEFINE these == {j \in DOMAIN outcomes : outcomes[j] = best}
               from == Min(these)
    <3>1. these # {} /\ these \in SUBSET Nat /\ DOMAIN outcomes = 1..Len(outcomes)
      BY BestIs DEF GraphOK, IsSeq
    <3>2. from \in these
      <4> HIDE DEF these
      <4> QED
        BY <3>1, MinOfPositions
    <3>3. from \in DOMAIN outcomes /\ outcomes[from] = best /\ from > 0 /\ from \in Nat
      BY <3>1, <3>2
    <3> DEFINE o == [p EXCEPT !.source = from]
    <3>4. final' = {o}
      BY <2>2
    <3> HIDE DEF from, these
    <3>5. o.source = from
      <4>1. "source" \in DOMAIN p
        BY <2>2 DEF IsOutcome
      <4> QED
        BY <4>1
    <3> HIDE DEF o
    <3>6. Evaluated' = Where(from)
      <4>1. \E x \in final' : x.source > 0
        BY <3>3, <3>4, <3>5
      <4>2. (CHOOSE x \in final' : TRUE) = o
        BY <3>4
      <4>3. Evaluated' = Where((CHOOSE x \in final' : TRUE).source)
        BY <4>1 DEF Evaluated
      <4> QED
        BY <3>5, <4>2, <4>3
    <3>7. outcomes[from].nmse # None
      BY <3>3, BestIs
    <3>8. Where(from) \in B!Valid(RoundRecords)
      BY <3>3, <3>7, ValidIs
    <3>9. ASSUME NEW e \in B!Valid(RoundRecords)
          PROVE  B!ScoreOf(RoundRecords, Where(from)) <= B!ScoreOf(RoundRecords, e)
      <4>1. PICK j \in DOMAIN outcomes : /\ outcomes[j].nmse # None
                                         /\ B!ScoreOf(RoundRecords, e) = outcomes[j].nmse
        BY ValidIs
      <4>2. outcomes[j].status = "completed"
        BY <4>1 DEF NumbersOK
      <4>3. best.nmse <= outcomes[j].nmse
        BY <4>1, <4>2, BestIs
      <4>4. B!ScoreOf(RoundRecords, Where(from)) = best.nmse
        BY <3>3, ValidIs
      <4> QED
        BY <4>1, <4>3, <4>4
    <3> QED
      BY <3>6, <3>8, <3>9 DEF B!IsBest
  <2>3. CASE ~(BestOutcome(outcomes) = {} /\ final' = {NoFinal})
    <3>1. PICK best \in BestOutcome(outcomes) :
            \E t \in Trainings(FinalId(best.id), best.cand,
                               [src |-> best.cand.src, owner |-> best.by]) :
              \E p \in Remembered(t) :
                final' = {[p EXCEPT !.source = Min({j \in DOMAIN outcomes : outcomes[j] = best})]}
      BY <2>3 DEF FinalEvaluate
    <3> DEFINE code == [src |-> best.cand.src, owner |-> best.by]
    <3>2. PICK t \in Trainings(FinalId(best.id), best.cand, code) :
            \E p \in Remembered(t) :
              final' = {[p EXCEPT !.source = Min({j \in DOMAIN outcomes : outcomes[j] = best})]}
      BY <3>1
    <3>3. PICK p \in Remembered(t) :
            final' = {[p EXCEPT !.source = Min({j \in DOMAIN outcomes : outcomes[j] = best})]}
      BY <3>2
    <3> HIDE DEF code
    <3>4. IsOutcome(p)
      <4>1. IsOutcome(best)
        BY BestIs
      <4>2. IsId(FinalId(best.id))
        BY <4>1, FinalIdIsId DEF IsOutcome
      <4> QED
        BY <4>2, TrainingIs
    <3> QED
      BY <2>2, <3>3, <3>4, Zenon
  <2> QED
    BY <2>1, <2>3
<1>4. g'.calls = g.calls
  BY <1>1, <1>2 DEF Turns
<1> QED
  BY <1>1, <1>2, <1>3, <1>4
  DEF Turns, Remains, B!FinalEvaluationNode, B!Enter, B!Proceed, B!search

LEMMA WritingImplements ==
  ASSUME GraphOK, WorkOK, ClosedOK, WritingFails \/ Write
  PROVE  B!Writing
<1>1. /\ g.status # "completed" /\ g.calls \in Nat /\ work.used = 0 /\ Budget \in Nat
      /\ g.node = "writing" /\ g.steps < RecursionLimit
      /\ UNCHANGED <<Verdict, PassedCodes, RoundRecords, Evaluated, terminal>>
  <2>1. /\ g.node = "writing" /\ g.steps < RecursionLimit
        /\ UNCHANGED <<plan, coded, search, final, terminal>>
    BY DEF WritingFails, Write, At
  <2>2. work.used = 0
    BY <2>1 DEF WorkOK, Fresh
  <2> QED
    BY <2>1, <2>2, CountersAre, SeenStays DEF ClosedOK
<1>2. /\ {"idea_plan", "terminal"} \subseteq B!Nodes
      /\ {"error", "completed"} \subseteq B!Statuses
      /\ {g.error, "worker"} \subseteq B!Errors /\ \A a : DraftsUsed(a, Source) \in 0..2
  BY Vocabulary, CountersAre DEF DraftsUsed
<1>3. ASSUME NEW used \in 0..2, g' = Return("idea_plan", "error", "worker", used)
      PROVE  B!Writing
  <2>1. Turns("idea_plan", "error", "worker", used) /\ Remains /\ g'.passes = g.passes
    BY <1>1, <1>2, <1>3, ReturnTurns
  <2>2. g.calls > Budget => g'.calls > Budget
    BY <1>1, <2>1 DEF Turns
  <2> QED
    BY <1>1, <2>1, <2>2
    DEF Turns, Remains, B!Writing, B!Enter, B!Spend, B!Stop, B!AfterWriting, B!search
<1>4. ASSUME NEW used \in 0..2, g' = Rejection("idea_plan", used)
      PROVE  B!Writing
  <2>1. Refuses("idea_plan", used) /\ g'.passes = g.passes
    BY <1>1, <1>2, <1>4, RejectionTurns
  <2>2. g'.calls = g.calls + work.used + used
    BY <2>1 DEF Refuses, Replans, Turns
  <2>3. g.calls > Budget => g'.calls > Budget
    BY <1>1, <2>2
  <2>4. CASE Replans("human_rejected", used)
    BY <1>1, <2>1, <2>3, <2>4
    DEF Replans, Turns, B!Writing, B!Enter, B!Spend, B!ReviewRejects, B!Replan,
        B!AfterWriting, B!search
  <2>5. CASE g.replans >= MaxReplans /\ Turns("idea_plan", "error", "rejected", used) /\ Remains
    BY <1>1, <2>1, <2>3, <2>5
    DEF Turns, Remains, B!Writing, B!Enter, B!Spend, B!ReviewRejects, B!Stop,
        B!AfterWriting, B!search
  <2> QED
    BY <2>1, <2>4, <2>5 DEF Refuses
<1>5. ASSUME NEW used \in 0..2, g' = Return("terminal", "completed", g.error, used)
      PROVE  B!Writing
  <2>1. Turns("terminal", "completed", g.error, used) /\ Remains /\ g'.passes = g.passes
    BY <1>1, <1>2, <1>5, ReturnTurns
  <2>2. g.calls > Budget => g'.calls > Budget
    BY <1>1, <2>1 DEF Turns
  <2> QED
    BY <1>1, <2>1, <2>2
    DEF Turns, Remains, B!Writing, B!Enter, B!Spend, B!Proceed, B!AfterWriting, B!search
<1>6. CASE WritingFails
  <2>1. PICK used \in 0..2 : g' = Return("idea_plan", "error", "worker", used)
    BY <1>2, <1>6 DEF WritingFails
  <2> QED
    BY <1>3, <2>1
<1>7. CASE Write
  <2>1. PICK a \in Drafts : \/ g' = Rejection("idea_plan", DraftsUsed(a, Source))
                            \/ g' = Return("terminal", "completed", g.error, DraftsUsed(a, Source))
    BY <1>7 DEF Write
  <2>2. PICK used \in 0..2 : used = DraftsUsed(a, Source)
    BY <1>2
  <2> QED
    BY <1>4, <1>5, <2>1, <2>2
<1> QED
  BY <1>6, <1>7

LEMMA TerminalImplements ==
  ASSUME GraphOK, WorkOK, Terminal
  PROVE  B!Terminal
<1>1. /\ g.calls \in Nat /\ work.used = 0 /\ Budget \in Nat
      /\ g.node = "terminal" /\ g.steps < RecursionLimit
      /\ UNCHANGED <<Verdict, PassedCodes, RoundRecords, Evaluated>>
  <2>1. /\ g.node = "terminal" /\ g.steps < RecursionLimit
        /\ UNCHANGED <<plan, coded, search, final>>
    BY DEF Terminal, At
  <2>2. work.used = 0
    BY <2>1 DEF WorkOK, Fresh
  <2> QED
    BY <2>1, <2>2, CountersAre, SeenStays
<1>2. /\ terminal' = B!Published(g.status, g.error, g.status = "completed")
      /\ g' = Return("end", terminal'.status, g.error, 0)
  BY DEF Terminal
<1>3. /\ terminal' \in B!TerminalRecords
      /\ terminal'.status = "completed" <=> g.status = "completed"
  BY MoveTerminal
<1>4. PICK s \in B!Statuses : s = terminal'.status
  BY <1>3 DEF B!TerminalRecords, B!Statuses
<1>5. Turns("end", s, g.error, 0) /\ Remains /\ g'.passes = g.passes
  BY <1>1, <1>2, <1>4, CountersAre, ReturnTurns
<1>6. g'.calls = g.calls
  BY <1>1, <1>5 DEF Turns
<1>7. (g'.status = "completed") = (g.status = "completed")
  BY <1>3, <1>4, <1>5 DEF Turns
<1> QED
  BY <1>1, <1>2, <1>4, <1>5, <1>6, <1>7 DEF Turns, Remains, B!Terminal, B!Enter, B!search

LEMMA AbortImplements ==
  ASSUME GraphOK, WorkOK, Abort
  PROVE  B!Abort
<1>1. /\ g.node \in B!Nodes /\ g.steps >= RecursionLimit /\ g \in GStates
      /\ g' = [g EXCEPT !.node = "aborted"]
      /\ UNCHANGED <<Verdict, PassedCodes, RoundRecords, Evaluated, terminal>>
  <2>1. UNCHANGED <<plan, coded, search, final, terminal>>
    BY DEF Abort
  <2> QED
    BY <2>1, SeenStays DEF Abort, GraphOK
<1>2. /\ g'.node = "aborted" /\ g'.status = g.status /\ g'.error = g.error
      /\ g'.round = g.round /\ g'.replans = g.replans /\ g'.facts = g.facts
      /\ g'.steps = g.steps /\ g'.passes = g.passes /\ g'.calls = g.calls
  BY <1>1 DEF GStates
<1> QED
  BY <1>1, <1>2 DEF B!Abort, B!search, B!publication

\* The steps inside a node are none of the batch graph's.
LEMMA WorkStutters ==
  ASSUME CodeRegistered \/ CodeAttempt \/ Execute \/ Finished \/ UNCHANGED vars
  PROVE  UNCHANGED B!vars
<1>1. UNCHANGED <<g, plan, coded, search, final, terminal>>
  BY DEF CodeRegistered, CodeAttempt, CodingIdle, Execute, Finished, vars, search
<1> QED
  BY <1>1, SeenStays DEF B!vars, B!search, B!publication

LEMMA StartImplements == Init => B!Init
<1> SUFFICES ASSUME Init PROVE B!Init
  OBVIOUS
<1>1. /\ g.node = "idea_plan" /\ g.status = "running" /\ g.error = "none" /\ g.round = 1
      /\ g.replans = 0 /\ g.facts = "none" /\ g.steps = 0 /\ g.passes = 0 /\ g.calls = 0
      /\ plan = NoPlan /\ coded = <<>> /\ rounds = <<>> /\ final = {}
      /\ terminal = B!NoTerminal
  BY DEF Init
<1>2. Verdict = "none" /\ PassedCodes = {} /\ Evaluated = B!NoSource
  BY <1>1 DEF Verdict, PassedCodes, Evaluated, B!NoSource
<1>3. RoundRecords = <<>>
  <2>1. DOMAIN rounds = {}
    BY <1>1
  <2> QED
    BY <2>1 DEF RoundRecords
<1>4. ~(g.calls > Budget)
  BY <1>1, Constants
<1> QED
  BY <1>1, <1>2, <1>3, <1>4 DEF B!Init

ImplementsInv == PolicyInv /\ ClosedOK /\ CodesOK /\ NumbersOK

LEMMA StepImplements ==
  ASSUME ImplementsInv, [Next]_vars
  PROVE  [B!Next]_(B!vars)
<1> USE DEF ImplementsInv, PolicyInv
<1>1. CASE PlanRaises \/ PlanRefused \/ PlanAccepted
  BY <1>1, IdeaImplements DEF B!Next, B!Step
<1>2. CASE PlanGate
  BY <1>2, GateImplements DEF B!Next, B!Step
<1>3. CASE EndCoding
  BY <1>3, CodingImplements DEF B!Next, B!Step
<1>4. CASE ExecuteRejected \/ EndExecution
  BY <1>4, RejectedImplements, RoundImplements DEF B!Next, B!Step
<1>5. CASE FinalEvaluate
  BY <1>5, FinalImplements DEF B!Next, B!Step
<1>6. CASE WritingFails \/ Write
  BY <1>6, WritingImplements DEF B!Next, B!Step
<1>7. CASE Terminal
  BY <1>7, TerminalImplements DEF B!Next, B!Step
<1>8. CASE Abort
  BY <1>8, AbortImplements DEF B!Next, B!Step
<1>9. CASE CodeRegistered \/ CodeAttempt \/ Execute \/ Finished \/ UNCHANGED vars
  BY <1>9, WorkStutters
<1> QED
  BY <1>1, <1>2, <1>3, <1>4, <1>5, <1>6, <1>7, <1>8, <1>9 DEF Next

\* Every run of the workers, with their repairs, retries, coding attempts, cut ids
\* and lost publications, is a run of the batch graph (_build_batch_multi_agent_graph
\* over MultiAgentRuntime): each worker step inside a node is invisible to the
\* graph, and each return of a node is one the graph allows.
THEOREM WorkersImplement == Spec => Implements
<1>1. Init => B!Init /\ ClosedOK /\ CodesOK /\ NumbersOK
  BY StartImplements, ClosedInit, CodesInit, NumbersInit
<1>2. ImplementsInv /\ [Next]_vars => (ClosedOK /\ CodesOK /\ NumbersOK)'
  BY ClosedStep, CodesStep, NumbersStep DEF ImplementsInv, PolicyInv
<1>3. ImplementsInv /\ [Next]_vars => [B!Next]_(B!vars)
  BY StepImplements
<1> QED
  BY <1>1, <1>2, <1>3, PolicyInductive, PTL DEF Spec, Implements, ImplementsInv

-----------------------------------------------------------------------------
(* What the batch graph guarantees, the workers guarantee *)

\* The graph with the theorems about it.
G == INSTANCE BatchSupervisorProofs WITH
       Candidates <- 1..K, Failed <- None, ReviewMode <- TRUE,
       node <- g.node, status <- g.status, error <- g.error, roundIndex <- g.round,
       replanCount <- g.replans, facts <- g.facts, steps <- g.steps, passes <- g.passes,
       plan <- Verdict, code <- PassedCodes, records <- RoundRecords, final <- Evaluated,
       report <- g.status = "completed", terminal <- terminal, cancelled <- FALSE,
       overBudget <- g.calls > Budget

LEMMA GraphAssumed == G!BatchAssumption
<1>1. 1 \in 1..K
  BY Constants
<1> QED
  BY <1>1, WorkersAssumption, ReportAssumption DEF G!BatchAssumption

\* B and G are one graph.
LEMMA SameNext == B!Next = G!Next
<1>1. B!IdeaPlan = G!IdeaPlan
  BY Zenon
  DEF B!IdeaPlan, G!IdeaPlan, B!Enter, G!Enter, B!Stop, G!Stop, B!Spend, G!Spend,
      B!ReviewRejects, G!ReviewRejects, B!Replan, G!Replan, B!Proceed, G!Proceed,
      B!AfterIdea, G!AfterIdea, B!publication, G!publication
<1>2. B!PlanGate = G!PlanGate
  BY Zenon
  DEF B!PlanGate, G!PlanGate, B!Enter, G!Enter, B!Stop, G!Stop, B!Replan, G!Replan,
      B!AfterGate, G!AfterGate, B!search, G!search, B!publication, G!publication
<1>3. B!Coding = G!Coding
  BY Zenon
  DEF B!Coding, G!Coding, B!Enter, G!Enter, B!Stop, G!Stop, B!Spend, G!Spend,
      B!ReviewRejects, G!ReviewRejects, B!Replan, G!Replan, B!Proceed, G!Proceed,
      B!AfterCoding, G!AfterCoding, B!publication, G!publication
<1>4. B!Execution = G!Execution
  BY Zenon
  DEF B!Execution, G!Execution, B!Enter, G!Enter, B!Stop, G!Stop, B!ReviewRejects,
      G!ReviewRejects, B!Replan, G!Replan, B!RunsRound, G!RunsRound, B!Proceed, G!Proceed,
      B!Results, G!Results, B!AfterExecution, G!AfterExecution, B!publication, G!publication
<1>5. B!FinalEvaluationNode = G!FinalEvaluationNode
  BY Zenon
  DEF B!FinalEvaluationNode, G!FinalEvaluationNode, B!Enter, G!Enter, B!Proceed, G!Proceed,
      B!IsBest, G!IsBest, B!Valid, G!Valid, B!ScoreOf, G!ScoreOf, B!NoSource, G!NoSource,
      B!search, G!search
<1>6. B!Writing = G!Writing
  BY Zenon
  DEF B!Writing, G!Writing, B!Enter, G!Enter, B!Spend, G!Spend, B!Stop, G!Stop,
      B!ReviewRejects, G!ReviewRejects, B!Replan, G!Replan, B!Proceed, G!Proceed,
      B!AfterWriting, G!AfterWriting, B!search, G!search
<1>7. B!Terminal = G!Terminal
  <2>1. ASSUME NEW s, NEW e, NEW r PROVE B!Published(s, e, r) = G!Published(s, e, r)
    <3>1. B!TerminalStatuses = G!TerminalStatuses
      BY DEF B!TerminalStatuses, G!TerminalStatuses
    <3> QED
      BY <3>1, Zenon DEF B!Published, G!Published
  <2> QED
    BY <2>1, Zenon DEF B!Terminal, G!Terminal, B!Enter, G!Enter, B!search, G!search
<1>8. B!Abort = G!Abort
  BY Zenon
  DEF B!Abort, G!Abort, B!Nodes, G!Nodes, B!search, G!search, B!publication, G!publication
<1>9. B!Cancel = G!Cancel
  BY Zenon
  DEF B!Cancel, G!Cancel, B!Nodes, G!Nodes, B!search, G!search, B!publication, G!publication
<1> QED
  BY <1>1, <1>2, <1>3, <1>4, <1>5, <1>6, <1>7, <1>8, <1>9 DEF B!Next, G!Next, B!Step, G!Step

LEMMA SameGraph == Implements => G!Safety
<1>1. UNCHANGED B!vars <=> UNCHANGED G!vars
  BY Zenon
  DEF B!vars, G!vars, B!search, G!search, B!publication, G!publication
<1>2. [B!Next]_(B!vars) <=> [G!Next]_(G!vars)
  BY <1>1, SameNext
<1>3. B!Init <=> G!Init
  BY Zenon
  DEF B!Init, G!Init, B!NoSource, G!NoSource, B!NoTerminal, G!NoTerminal
<1> QED
  BY <1>2, <1>3, PTL DEF Implements, G!Safety

\* Whatever the models reply and the workers do with it: a run executes its rounds in
\* order, its replans stay within their budget and its length is paid for, and a
\* completed run, and no other, publishes a report, which rests on a final
\* evaluation of the best number that any candidate of any round reached
\* (execution_node, final_evaluation_node, writing_node over MultiAgentRuntime).
THEOREM WorkersKeepPromises ==
  Spec => [](G!Accounted /\ G!RoundLedger /\ G!PublicationSound)
<1>1. /\ G!Safety => []G!Accounted
      /\ G!Safety => []G!RoundLedger
      /\ G!Safety => []G!PublicationSound
  BY GraphAssumed, G!RunsAreAccountedFor, G!RoundsInOrder, G!PublicationIsSound
<1> QED
  BY <1>1, WorkersImplement, SameGraph, PTL

=============================================================================
