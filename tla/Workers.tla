------------------------------ MODULE Workers ------------------------------
(***************************************************************************)
(* The workers of MultiAgentRuntime under the batch graph: planning with   *)
(* repairs and policy, coding in one worktree per candidate, execution and *)
(* publication of artifacts, the final evaluation and the report.  A node  *)
(* of BatchSupervisor is here a sequence of worker steps, and Implements   *)
(* says that every run is one of BatchSupervisor's, without cancellation.  *)
(***************************************************************************)
EXTENDS PlanPolicy, ReportEvidence, CandidateCode, TLC

CONSTANTS
  K,                \* experiments_per_round
  Rounds,           \* rounds
  MaxReplans,       \* max_replans
  FinalEvaluation,  \* final_evaluation
  PlannerRepairs,   \* planner_max_repairs
  CodingRepairs,    \* coding_max_repairs
  Budget,           \* model calls the router's budget pays for
  RecursionLimit,   \* supersteps LangGraph allows (external)
  Context,          \* allowed_citation_ids of the planner context
  Plans,            \* plans the planning model may reply with
  Packages,         \* replies of the coding model
  Faults,           \* faults of a training run
  Scores,           \* NMSE values a training run may reach
  ScaffoldEpochs,   \* epochs the scaffold trains a config without epochs for
  LongNames         \* names whose child run ids _identifier cuts off

ASSUME WorkersAssumption ==
  /\ {K, Rounds} \subseteq Nat \ {0}
  /\ {MaxReplans, PlannerRepairs, CodingRepairs, Budget, RecursionLimit} \subseteq Nat
  /\ FinalEvaluation \in BOOLEAN
  /\ Scores \subseteq Int
  /\ Faults \subseteq LoadFaults \cup TrainFaults
  /\ \A p \in Plans : IsPlan(p)

VARIABLES
  g,         \* the graph's state: node, status, error, round, replans, facts,
             \* supersteps, passes of idea_plan, model calls of finished nodes
  plan,      \* state["plan"], with the reply it came from and the gate's verdict
  work,      \* the node's worker: candidate, attempt, model calls, worktree, results
  coded,     \* state["code_results"]
  outcomes,  \* state["exploration_outcomes"]
  rounds,    \* the round index of every record in state["round_records"]
  final,     \* state["final_evaluation"], {} or one outcome
  evidence,  \* child run id -> the NMSE its published files are of
  terminal   \* state["terminal"]

vars == <<g, plan, work, coded, outcomes, rounds, final, evidence, terminal>>
search == <<outcomes, rounds>>

\* Unlike a reply without candidates, nothing that was ever stored.
NoPlan == [list |-> <<>>, ok |-> FALSE]
Fresh == [cand |-> 1, attempt |-> 0, used |-> 0, tree |-> << >>, codes |-> <<>>, done |-> <<>>]

-----------------------------------------------------------------------------
(* Identities *)

ScopedId(k) == Scoped(plan.list[k].id, g.round)

\* Mutant: the final evaluation is published under the experiment's own id.
ChildKeepsId(id) == [id EXCEPT !.final = 0]

\* _child_run_id, cut to 64 characters: a long name loses its suffix.
Child(id) == IF id.name \in LongNames THEN [id EXCEPT !.final = 0] ELSE id

FinalId(id) == [id EXCEPT !.final = @ + 1]

\* Mutant: the code of the candidate's position, whatever its id.
CodeAtNext(k) == coded[IF k < Len(coded) THEN k + 1 ELSE 1]

\* code_by_id: of two results with one id the later one.
CodeOf(k) == coded[Max({j \in DOMAIN coded : coded[j].id = ScopedId(k)})]

\* Facts a plan may refer to: earlier outcomes and the retrieved context.
KnownFacts ==
  {[kind |-> "fact", id |-> <<outcomes[j].id, outcomes[j].status>>] : j \in DOMAIN outcomes}
  \cup {r \in Context : r.kind \in {"prior", "memory"}}

-----------------------------------------------------------------------------
(* The graph BatchSupervisor describes *)

\* The position of an outcome in the records.
Where(j) == <<(j + K - 1) \div K, ((j - 1) % K) + 1>>

\* What the gate will say of the stored plan.
Verdict == IF plan = NoPlan THEN "none" ELSE IF plan.ok THEN "valid" ELSE "invalid"

\* The candidates that code is found for which passed, under their id.
PassedCodes ==
  {coded[j].owner : j \in {i \in DOMAIN coded :
     coded[Max({l \in DOMAIN coded : coded[l].id = coded[i].id})].passed}}

\* The numbers of each round.
RoundRecords ==
  [r \in DOMAIN rounds |->
     [round |-> rounds[r], results |-> [k \in 1..K |-> outcomes[(r - 1) * K + k].nmse]]]

\* The experiment the final evaluation repeats.
Evaluated ==
  IF \E o \in final : o.source > 0
  THEN Where((CHOOSE o \in final : TRUE).source) ELSE <<0, None>>

B == INSTANCE BatchSupervisor WITH
       Candidates <- 1..K, Failed <- None, ReviewMode <- TRUE,
       node <- g.node, status <- g.status, error <- g.error, roundIndex <- g.round,
       replanCount <- g.replans, facts <- g.facts, steps <- g.steps, passes <- g.passes,
       plan <- Verdict, code <- PassedCodes, records <- RoundRecords, final <- Evaluated,
       report <- g.status = "completed", terminal <- terminal, cancelled <- FALSE,
       overBudget <- g.calls > Budget

At(n) == g.node = n /\ g.steps < RecursionLimit

\* The node returns: the graph goes to the next one.
Return(n, s, e, used) ==
  [g EXCEPT !.node = n, !.status = s, !.error = e, !.steps = @ + 1,
            !.calls = @ + work.used + used]

\* _replan_from_review, and where a rejection without replans left leads.
Rejection(n, used) ==
  IF g.replans < MaxReplans
  THEN [Return("idea_plan", "replanning", g.error, used) EXCEPT
          !.replans = @ + 1, !.facts = "human_rejected"]
  ELSE Return(n, "error", "rejected", used)

-----------------------------------------------------------------------------
(* idea_plan *)

Idle == UNCHANGED <<coded, search, final, evidence, terminal>>

IdeaEnds(next) == g' = [next EXCEPT !.passes = @ + 1] /\ work' = Fresh /\ Idle

\* Replies the run's policy takes in a round.
Taken == [r \in 1..Rounds |-> {p \in Plans : ~Breaks(p) /\ ApplyRunPolicy(p, r)}]

\* Of these the ones the anchor does not fit into.
AnchorRaises == {p \in Taken[g.round] : AnchorApplies(g.round) /\ ~AnchorValid(p.list)}

\* The model or its client raises, or the reply breaks the validation itself.
PlanRaises ==
  /\ At("idea_plan")
  /\ \E used \in {0} \cup {1 : p \in {q \in Plans : Breaks(q)} \cup AnchorRaises} :
       IdeaEnds(Return("terminal", "error", "worker", used))
  /\ UNCHANGED plan

\* A reply that is no JSON object or that the run's policy refuses: a repair, or
\* the end of the run.
PlanRefused ==
  /\ At("idea_plan")
  /\ \E p \in Plans \cup {NoPlan} : p # NoPlan => ~Breaks(p) /\ p \notin Taken[g.round]
  /\ IF work.attempt < PlannerRepairs
     THEN /\ work' = [work EXCEPT !.attempt = @ + 1, !.used = @ + 1]
          /\ UNCHANGED g /\ Idle
     ELSE IdeaEnds(Return("terminal", "error", "worker", 1))
  /\ UNCHANGED plan

\* The plan the graph receives: canonical references, and the anchor last.
Delivered(p) ==
  LET q == CanonicalPlan([p EXCEPT !.list = NormalizedList(p)], Context)
  IN  IF AnchorApplies(g.round) THEN [q EXCEPT !.list = WithAnchor(@)] ELSE q

\* Mutant: the budget is never looked at.
PlanReviewedUnpaid(p) ==
  \/ IdeaEnds(Rejection("terminal", 1)) /\ UNCHANGED plan
  \/ /\ IdeaEnds(Return("plan_gate", "running", g.error, 1))
     /\ plan' = [raw |-> p.list, list |-> Delivered(p).list,
                 ok |-> GateAdmits(Delivered(p), K, g.round, KnownFacts, Context)]

\* The review comes first, then the budget.
PlanReviewed(p) ==
  \/ IdeaEnds(Rejection("terminal", 1)) /\ UNCHANGED plan
  \/ /\ IF g.calls + work.used + 1 > Budget
        THEN IdeaEnds(Return("terminal", "budget_exceeded", "budget", 1))
        ELSE IdeaEnds(Return("plan_gate", "running", g.error, 1))
     /\ plan' = [raw |-> p.list, list |-> Delivered(p).list,
                 ok |-> GateAdmits(Delivered(p), K, g.round, KnownFacts, Context)]

PlanAccepted ==
  /\ At("idea_plan")
  /\ \E p \in Taken[g.round] \ AnchorRaises : PlanReviewed(p)

PlanGate ==
  /\ At("plan_gate")
  /\ g' = IF plan.ok THEN [Return("coding", "running", g.error, 0) EXCEPT !.facts = "none"]
          ELSE IF g.replans < MaxReplans
          THEN [Return("idea_plan", "replanning", g.error, 0) EXCEPT
                  !.replans = @ + 1, !.facts = "invalid_plan"]
          ELSE Return("terminal", "invalid_plan", "invalid", 0)
  /\ UNCHANGED <<plan, work, coded, search, final, evidence, terminal>>

-----------------------------------------------------------------------------
(* coding *)

Cand == plan.list[work.cand]

\* The candidate's coding is over; only the worktree of a passed one is used again.
Coded(passed, used, tree) ==
  work' = [work EXCEPT !.cand = @ + 1, !.attempt = 0, !.used = @ + used, !.tree = << >>,
             !.codes = Append(@, [id |-> ScopedId(work.cand), owner |-> work.cand,
                                  src |-> Cand.src, passed |-> passed, tree |-> tree])]

CodingIdle == UNCHANGED <<g, plan, coded, search, final, evidence, terminal>>

\* A registered model needs no code: its overrides are validated again.
CodeRegistered ==
  /\ At("coding") /\ work.cand <= K /\ Cand.src = "registered"
  /\ Coded(/\ ValidOverrides(Cand.model, Cand.size, Cand.epochs, Cand.budget.params)
           /\ Epochs(Cand) <= Cand.budget.epochs, 0, << >>)
  /\ CodingIdle

\* Mutant: the candidate's directory is not cleared before the files are written.
ApplyOver(files) == Written(files) @@ work.tree

\* _clear_candidate_directory and apply_patch: the worktree after the package.
Apply(files) == Written(files)

\* Mutant: a failed attempt does not use up one.
AttemptFailsUncounted(used, tree) ==
  work' = [work EXCEPT !.used = @ + used, !.tree = tree]

AttemptFails(used, tree) ==
  IF work.attempt < CodingRepairs
  THEN work' = [work EXCEPT !.attempt = @ + 1, !.used = @ + used, !.tree = tree]
  ELSE Coded(FALSE, used, << >>)

\* What each reply is to a candidate of a name: no package, or one with its files.
Files == [r \in Packages |-> [m \in {c.model : c \in UNION {Range(p.list) : p \in Plans}} |->
            IF FromJson(r, m) /\ StaticClean(Returned(r, m)) THEN {Returned(r, m)} ELSE {}]]

\* One attempt of CodingAgent.generate_candidate: answer, package, static gate,
\* write gate, then the candidate is validated and smoke-tested.
CodeAttempt ==
  /\ At("coding") /\ work.cand <= K /\ Cand.src = "generated"
  /\ \/ AttemptFails(0, work.tree)
     \/ \E r \in Packages :
          \/ Files[r][Cand.model] = {} /\ AttemptFails(1, work.tree)
          \/ \E files \in Files[r][Cand.model] :
               \/ (Written(files) # files \/ Faults # {}) /\ AttemptFails(1, Apply(files))
               \/ Written(files) = files /\ Coded(TRUE, 1, Apply(files))
  /\ CodingIdle

\* The results are reviewed.
EndCoding ==
  /\ At("coding") /\ work.cand > K
  /\ \/ g' = Rejection("idea_plan", 0) /\ UNCHANGED coded
     \/ g' = Return("execution", "running", g.error, 0) /\ coded' = work.codes
  /\ work' = Fresh
  /\ UNCHANGED <<plan, search, final, evidence, terminal>>

-----------------------------------------------------------------------------
(* execution *)

Outcome(id, c, status, class, nmse, by) ==
  [id |-> id, cand |-> c, status |-> status, class |-> class,
   nmse |-> nmse, child |-> Child(id), psd |-> status = "completed", by |-> by, source |-> 0]

\* What _execution_worker can make of a candidate and the code it is given: a
\* registered model is trained by run_training, any other by the candidate runner,
\* and a generated candidate with a registered result fails its validation.
Trainings(id, c, code) ==
  LET registered == c.src = "registered" \/ code.src = "registered"
      class(f) == IF registered THEN TrainingClass(f) ELSE CandidateClass(f)
  IN  {Outcome(id, c, "failed", class(f), None, code.owner) : f \in Faults}
      \cup IF registered /\ c.src = "generated"
           THEN {Outcome(id, c, "failed", "error", None, code.owner)}
           ELSE {Outcome(id, c, "completed", class("none"), s, code.owner) :
                   s \in Scores \cup IF registered THEN {None} ELSE {}}

\* _publish_file for the artifacts of a completed training.
Publish(o) ==
  evidence' = IF o.psd
              THEN [child \in DOMAIN evidence \cup {o.child} |->
                      IF child = o.child THEN o.nmse ELSE evidence[child]]
              ELSE evidence

\* _write_execution_memory comes after the publication: when it raises, the
\* completed training is a failed outcome.
Remembered(o) == {o, Outcome(o.id, o.cand, "failed", "error", None, o.by)}

ExecuteRejected ==
  /\ At("execution") /\ work.cand = 1
  /\ g' = Rejection(B!AfterExecution("error"), 0)
  /\ work' = Fresh
  /\ UNCHANGED <<plan, coded, search, final, evidence, terminal>>

\* One candidate: not coded, or trained.
Execute ==
  /\ At("execution") /\ work.cand <= K
  /\ LET id == ScopedId(work.cand)
         code == CodeOf(work.cand)
         done(o) == work' = [work EXCEPT !.cand = @ + 1, !.done = Append(@, o)]
     IN  \/ /\ ~code.passed
            /\ done(Outcome(id, Cand, "failed", "coding_error", None, code.owner))
            /\ UNCHANGED evidence
         \/ /\ code.passed
            /\ \E o \in Trainings(id, Cand, code) :
                 Publish(o) /\ \E p \in Remembered(o) : done(p)
  /\ UNCHANGED <<g, plan, coded, search, final, terminal>>

\* The round's record; the next round, the final evaluation or the report.
EndExecution ==
  /\ At("execution") /\ work.cand > K
  /\ outcomes' = outcomes \o work.done
  /\ rounds' = Append(rounds, g.round)
  /\ g' = IF g.round < Rounds
          THEN [Return("idea_plan", "next_round", g.error, 0) EXCEPT !.round = @ + 1]
          ELSE Return(B!AfterExecution("running"), "running", g.error, 0)
  /\ work' = Fresh
  /\ UNCHANGED <<plan, coded, final, evidence, terminal>>

NoFinal == [id |-> [tags |-> <<>>, name |-> "unknown", final |-> 1], status |-> "failed",
            class |-> "no_valid_candidate", nmse |-> None, psd |-> FALSE, source |-> 0,
            child |-> [tags |-> <<>>, name |-> "unknown", final |-> 1]]

\* The best outcome so far is trained once more, under its id with a suffix.
FinalEvaluate ==
  /\ At("final_evaluation")
  /\ \/ /\ BestOutcome(outcomes) = {}
        /\ final' = {NoFinal}
        /\ UNCHANGED evidence
     \/ \E best \in BestOutcome(outcomes) :
          \E o \in Trainings(FinalId(best.id), best.cand, [src |-> best.cand.src, owner |-> best.by]) :
            /\ Publish(o)
            /\ \E p \in Remembered(o) :
                 final' = {[p EXCEPT !.source = Min({j \in DOMAIN outcomes : outcomes[j] = best})]}
  /\ g' = Return("writing", "running", g.error, 0)
  /\ UNCHANGED <<plan, work, coded, search, terminal>>

-----------------------------------------------------------------------------
(* writing and terminal *)

Source == ReportSource(outcomes, rounds, final)

\* What the writing model may draft: a faithful narrative, one that leaves the
\* rounds out, one with a number nothing supports, one outside the schema.
Drafts ==
  LET faithful == Fallback(Source)
  IN  {faithful, [faithful EXCEPT !.journey = {<<"task", "limits">>}],
       [faithful EXCEPT !.numbers = {Threshold + 1000}], [faithful EXCEPT !.schema = FALSE]}

\* The worker raises, or the report is refused: the edge leads to idea_plan.
WritingFails ==
  /\ At("writing")
  /\ \/ outcomes = <<>> /\ g' = Return("idea_plan", "error", "worker", 0)
     \/ /\ outcomes # <<>>
        /\ \E a, b \in Drafts :
             /\ \A n \in Written2(a, b, Source) : ~ReportAdmits(n, Source)
             /\ g' = Return("idea_plan", "error", "worker", DraftsUsed(a, Source))
     \* the model or the renderer raises
     \/ \E used \in 0..2 : g' = Return("idea_plan", "error", "worker", used)
  /\ UNCHANGED <<plan, work, coded, search, final, evidence, terminal>>

Write ==
  /\ At("writing")
  /\ outcomes # <<>>
  /\ \E a, b \in Drafts : \E n \in Written2(a, b, Source) :
       /\ ReportAdmits(n, Source)
       /\ \/ g' = Rejection("idea_plan", DraftsUsed(a, Source))
          \/ g' = Return("terminal", "completed", g.error, DraftsUsed(a, Source))
  /\ UNCHANGED <<plan, work, coded, search, final, evidence, terminal>>

Terminal ==
  /\ At("terminal")
  /\ terminal' = B!Published(g.status, g.error, g.status = "completed")
  /\ g' = Return("end", terminal'.status, g.error, 0)
  /\ UNCHANGED <<plan, work, coded, search, final, evidence>>

Abort ==
  /\ g.node \in B!Nodes /\ g.steps >= RecursionLimit
  /\ g' = [g EXCEPT !.node = "aborted"]
  /\ UNCHANGED <<plan, work, coded, search, final, evidence, terminal>>

-----------------------------------------------------------------------------
Init ==
  /\ g = [node |-> "idea_plan", status |-> "running", error |-> "none", round |-> 1,
          replans |-> 0, facts |-> "none", steps |-> 0, passes |-> 0, calls |-> 0]
  /\ plan = NoPlan
  /\ work = Fresh
  /\ coded = <<>> /\ outcomes = <<>> /\ rounds = <<>>
  /\ final = {}
  /\ evidence = << >>
  /\ terminal = B!NoTerminal

\* The graph has returned or raised.
Finished == g.node \in {"end", "aborted"} /\ UNCHANGED vars

Next == PlanRaises \/ PlanRefused \/ PlanAccepted \/ PlanGate
          \/ CodeRegistered \/ CodeAttempt \/ EndCoding
          \/ ExecuteRejected \/ Execute \/ EndExecution \/ FinalEvaluate
          \/ WritingFails \/ Write \/ Terminal \/ Abort \/ Finished

Spec == Init /\ [][Next]_vars

-----------------------------------------------------------------------------
TypeOK ==
  /\ g.node \in B!Nodes \cup {"end", "aborted"}
  /\ g.round \in 1..Rounds /\ g.steps \in 0..RecursionLimit /\ g.calls \in Nat
  /\ work.cand \in 1..K + 1 /\ work.attempt \in 0..Max({PlannerRepairs, CodingRepairs})
  /\ work.used \in 0..Max({PlannerRepairs, K * (CodingRepairs + 1)})
  /\ Len(outcomes) = K * Len(rounds)
  /\ Cardinality(final) <= 1
  /\ \A j \in DOMAIN outcomes : outcomes[j].nmse \in Scores \cup {None}
  /\ terminal \in B!TerminalRecords \cup {B!NoTerminal}

\* Every run of the workers is a run of the batch graph as BatchSupervisor
\* describes it: no repair, retry, collision of ids or failed publication gives
\* the graph a result it does not expect of its workers.
Implements == B!Init /\ [][B!Next]_(B!vars)

\* The plan is past the gate.
Gated == g.node \in {"coding", "execution"}

\* The candidate the supervisor put in place of the planner's.
IsAnchor(k) == AnchorApplies(g.round) /\ k = 1

\* What a training will use: the scaffold reads a text as a number and has a
\* default of its own where there is none; a registered model that is left without
\* epochs is solved, not trained.
Trains(c) ==
  IF c.epochs.form # "absent" THEN c.epochs.n
  ELSE IF c.src = "generated" THEN ScaffoldEpochs ELSE 0

\* No candidate trains for more epochs than the run's ceiling for its kind, except
\* the anchor, which brings its own budget after the policy was applied, and
\* generated candidates that do not state their epochs as a number.
EpochsExplained ==
  Gated => \A k \in DOMAIN plan.list :
    LET c == plan.list[k]
        ceiling == IF c.src = "generated" THEN GeneratedCeiling ELSE EpochCeiling
    IN  Trains(c) > ceiling =>
          \/ IsAnchor(k)
          \/ c.src = "generated" /\ c.epochs.form # "int"

\* The mix of a round's plan holds for what is executed: its high-fidelity
\* candidates are as many as the round may have and enough candidates are
\* generated, where the anchor alone may make the difference.
MixExplained ==
  Gated =>
    LET rest == {k \in DOMAIN plan.list : ~IsAnchor(k)}
        limit == IF g.round \in HFRounds THEN HFLimit ELSE 0
    IN  /\ HFRounds # {} => Cardinality(HighFidelity(plan.list) \cap rest) <= limit
        /\ Cardinality(Generated(plan.list))
             + (IF AnchorApplies(g.round) /\ plan.raw[1].src = "generated" THEN 1 ELSE 0)
             >= MinGenerated

\* A registered candidate fits the parameter ceiling, no field of it has grown,
\* and the projection takes no more than it must: the last field it cut could not
\* be one larger.
BudgetHolds ==
  Gated => \A k \in DOMAIN plan.list :
    LET c == plan.list[k]
        cut == {f \in DOMAIN c.size : c.size[f] # plan.raw[k].size[f]}
    IN  (c.src = "registered" /\ ~IsAnchor(k)) =>
          /\ Estimate(c.model, c.size) <= c.budget.params
          /\ c.budget.params <= ParamCeiling
          /\ \A f \in cut : c.size[f] < plan.raw[k].size[f]
          /\ cut # {} => \E f \in cut :
               ~(Estimate(c.model, [c.size EXCEPT ![f] = @ + 1]) <= c.budget.params)

\* A candidate is trained with the code that passed for it; with that of another
\* one only when their ids became one by the round's prefix.
RunsGatedCode ==
  \A j \in DOMAIN work.done :
    LET o == work.done[j]
    IN  \/ o.by = j
        \/ /\ plan.list[j].id # plan.list[o.by].id \/ plan.list[j].id.name = ""
           /\ ScopedId(j) = ScopedId(o.by)

\* While a candidate is executed its worktree holds one package of the coding
\* model, whole and alone: no file of an earlier attempt is left beside it.
TreeIsPackage ==
  g.node = "execution" => \A j \in DOMAIN coded :
    (coded[j].passed /\ coded[j].src = "generated") =>
      \E r \in Packages : /\ FromJson(r, plan.list[j].model)
                          /\ coded[j].tree = Returned(r, plan.list[j].model)
                          /\ StaticClean(coded[j].tree)

\* The budget is looked at only after a plan was approved: what a run can spend
\* beyond it is the coding and writing of one pass, and the plans that reviewers
\* reject or the repairs use up before the next look.
OverspendBounded ==
  g.calls + work.used <=
    Budget + K * (CodingRepairs + 1) + 2 + (MaxReplans + 1) * (PlannerRepairs + 1)

\* Some round was planned more than once: after a replan, or because the report
\* was not written.
PlannedAgain == g.passes > g.round

\* In a completed run every number the report shows with a PSD is the number of
\* the training that PSD is of, unless another training published over it: one
\* whose longer id was cut to the same child run id, the final evaluation of a
\* candidate when another is called like it, an earlier final evaluation that a
\* repeated pass has replaced since, or one of the same id that was published
\* before its memory could not be written.
Entries == [k \in 1..Len(outcomes) + Cardinality(final) |->
              IF k <= Len(outcomes) THEN outcomes[k] ELSE CHOOSE o \in final : TRUE]
ReplacedFinal(child) ==
  /\ FinalEvaluation /\ PlannedAgain
  /\ \E j \in DOMAIN outcomes : outcomes[j].psd /\ Child(FinalId(outcomes[j].id)) = child
ReportIsTrue ==
  terminal.status = "completed" =>
    \A k \in DOMAIN Entries :
      LET o == Entries[k]
          others == {j \in DOMAIN Entries \ {k} : Entries[j].child = o.child}
      IN  o.psd => \/ evidence[o.child] = o.nmse
                   \/ \E j \in others :
                        IF Entries[j].id # o.id THEN o.id.name \in LongNames
                        ELSE Max({j, k}) > Len(outcomes) \/ ~Entries[j].psd
                   \/ ReplacedFinal(o.child)

\* Two results under one id with different numbers, from a round executed again or
\* from candidates whose ids became one.
Disputed ==
  \E j, k \in DOMAIN outcomes :
    outcomes[j].id = outcomes[k].id /\ outcomes[j].nmse # outcomes[k].nmse

\* Such a run is never published: repeating the round adds to the results and
\* cannot settle the dispute.
DisputedNotPublished == Disputed => ~terminal.hasReport

\* Whatever two drafts within the schema say, there is a narrative the report tool
\* accepts for any results a run can have.
FallbackSuffices ==
  (g.node = "writing" /\ outcomes # <<>>) =>
    \A a, b \in {d \in Drafts : d.schema} :
      \E n \in Written2(a, b, Source) : Faithful(n, Source)

\* Planner repairs, coding attempts and candidates are all bounded: every step
\* uses up some of what is left, and no state but the last is without a step.
Left ==
  LET attempts == 1 + PlannerRepairs + (K + 1) * (CodingRepairs + 1)
  IN  IF g.node \in {"end", "aborted"} THEN 0
      ELSE 1 + (RecursionLimit - g.steps) * attempts
             + (IF g.node = "idea_plan" THEN PlannerRepairs
                ELSE (K + 1 - work.cand) * (CodingRepairs + 1)) - work.attempt
RunEnds == [][Left' \in 0..(Left - 1)]_vars

(* What the run's policy promises of its candidates holds of what is executed,*)
(* but for the named exceptions: epochs, the mix of a round, the parameter    *)
(* ceiling; and the calls a run makes beyond its budget are bounded.          *)
PolicyHolds ==
  /\ TypeOK
  /\ EpochsExplained
  /\ MixExplained
  /\ BudgetHolds
  /\ OverspendBounded

(* What is executed for a candidate is the code that passed for it, and its   *)
(* worktree holds that package alone (CodingAgent, execution_node).           *)
CodeIsGated == RunsGatedCode /\ TreeIsPackage

(* A report shows the numbers of the trainings it names, is withheld when two *)
(* results dispute each other, and can always fall back on its evidence.      *)
ReportSound ==
  /\ ReportIsTrue
  /\ DisputedNotPublished
  /\ FallbackSuffices

=============================================================================
