-------------------------- MODULE BatchSupervisor --------------------------
(***************************************************************************)
(* The round-aware multi-agent graph (_build_batch_multi_agent_graph):     *)
(* idea_plan -> plan_gate -> coding -> execution, once per round, then     *)
(* final_evaluation -> writing -> terminal.  One action is one graph node  *)
(* together with the conditional edge LangGraph evaluates after it.        *)
(*                                                                         *)
(* The user may set the cancel event at any moment; a node reads it when   *)
(* it is entered.  Workers may raise, the plan may be invalid, a reviewer  *)
(* may reject, the model router may run over its budget.                   *)
(***************************************************************************)
EXTENDS RunStatus, Integers, Sequences, FiniteSets

CONSTANTS
  Candidates,       \* the candidate experiments of one plan
  Scores,           \* nmse_db values a completed experiment may report
  Failed,           \* an experiment without a usable nmse_db
  Rounds,           \* rounds
  MaxReplans,       \* max_replans
  FinalEvaluation,  \* final_evaluation
  ReviewMode,       \* TRUE: the approval gate may reject
  RecursionLimit    \* supersteps LangGraph allows one invocation (external)

ASSUME BatchAssumption ==
  /\ Candidates # {}
  /\ Scores \subseteq Int
  /\ Failed \notin Scores
  /\ Rounds \in Nat \ {0}
  /\ MaxReplans \in Nat
  /\ FinalEvaluation \in BOOLEAN
  /\ ReviewMode \in BOOLEAN
  /\ RecursionLimit \in Nat

VARIABLES
  node,        \* the node LangGraph runs next, "end", or "aborted"
  status,      \* state["status"]
  error,       \* state["error"]
  roundIndex,  \* state["round_index"]
  replanCount, \* state["replan_count"]
  plan,        \* the stored plan: none, or what validate_batch will say of it
  facts,       \* state["plan_failure_facts"]: what the planner is told went wrong
  code,        \* the candidates whose code_result passed
  records,     \* round_records, with the outcomes exploration_outcomes flattens
  final,       \* state["final_evaluation"]: the experiment re-evaluated
  report,      \* a report_result is in the state
  terminal,    \* state["terminal"]
  cancelled,   \* the cancel event
  overBudget,  \* router.budget_exceeded()
  steps,       \* supersteps so far; each appends exactly one timeline event
  passes       \* executions of idea_plan so far (history)

search == <<plan, code, records>>
publication == <<final, report, terminal>>
vars == <<node, status, error, roundIndex, replanCount, facts, search, publication,
          cancelled, overBudget, steps, passes>>

Nodes == {"idea_plan", "plan_gate", "coding", "execution",
          "final_evaluation", "writing", "terminal"}

Results == [Candidates -> Scores \cup {Failed}]
Records == [round : 1..Rounds, results : Results]
\* An experiment is named by the record it belongs to and its candidate.
NoSource == <<0, Failed>>

-----------------------------------------------------------------------------
(* Selection of the best outcome *)

\* The completed outcomes with a numeric nmse_db.
Valid(recs) ==
  {e \in (DOMAIN recs) \X Candidates : recs[e[1]].results[e[2]] # Failed}

ScoreOf(recs, e) == recs[e[1]].results[e[2]]

\* _select_best_outcome: an outcome with the smallest nmse_db.
IsBest(recs, e) ==
  /\ e \in Valid(recs)
  /\ \A o \in Valid(recs) : ScoreOf(recs, e) <= ScoreOf(recs, o)

-----------------------------------------------------------------------------
(* Conditional edges *)

AfterIdea(s) ==
  CASE s = "running" -> "plan_gate"
    [] s = "replanning" -> "idea_plan"
    [] OTHER -> "terminal"

\* Mutant: a rejected plan is sent to the gate again, not to the planner.
AfterGateLoops(s) ==
  CASE s = "running" -> "coding"
    [] s = "replanning" -> "plan_gate"
    [] OTHER -> "terminal"

AfterGate(s) ==
  CASE s = "running" -> "coding"
    [] s = "replanning" -> "idea_plan"
    [] OTHER -> "terminal"

\* Mutant: whatever stopped the coding node, it is run again.
AfterCodingRetries(s) == IF s = "running" THEN "execution" ELSE "coding"

AfterCoding(s) == IF s = "running" THEN "execution" ELSE "idea_plan"

AfterExecution(s) ==
  CASE s \in {"next_round", "replanning"} -> "idea_plan"
    [] OTHER -> IF FinalEvaluation THEN "final_evaluation" ELSE "writing"

AfterWriting(s) == IF s = "completed" THEN "terminal" ELSE "idea_plan"

-----------------------------------------------------------------------------
(* Updates the nodes share *)

Enter(n) ==
  /\ node = n
  /\ steps < RecursionLimit
  /\ steps' = steps + 1

\* _terminal_update
Stop(s, why) ==
  /\ status' = s
  /\ error' = why
  /\ UNCHANGED <<replanCount, facts>>

Proceed(s) ==
  /\ status' = s
  /\ UNCHANGED <<error, replanCount, facts>>

\* Mutant: the guard allows one replan too many.
ReplanOffByOne(why) ==
  /\ replanCount <= MaxReplans
  /\ replanCount' = replanCount + 1
  /\ facts' = why
  /\ status' = "replanning"
  /\ UNCHANGED error

Replan(why) ==
  /\ replanCount < MaxReplans
  /\ replanCount' = replanCount + 1
  /\ facts' = why
  /\ status' = "replanning"
  /\ UNCHANGED error

\* _replan_from_review, after a reviewer (or the review timeout) rejected.
ReviewRejects ==
  /\ ReviewMode
  /\ \/ Replan("human_rejected")
     \/ /\ replanCount >= MaxReplans
        /\ Stop("error", "rejected")

\* Model calls of a worker may exhaust the token or cost budget.
Spend ==
  /\ overBudget' \in BOOLEAN
  /\ overBudget => overBudget'

-----------------------------------------------------------------------------
(* Nodes *)

IdeaPlan ==
  /\ Enter("idea_plan")
  /\ passes' = passes + 1
  /\ \/ /\ cancelled
        /\ Stop("cancelled", "cancelled")
        /\ UNCHANGED <<plan, overBudget>>
     \/ /\ ~cancelled
        /\ Spend
        /\ \/ Stop("error", "worker") /\ UNCHANGED plan
           \/ ReviewRejects /\ UNCHANGED plan
           \/ /\ plan' \in {"valid", "invalid"}
              /\ IF overBudget' THEN Stop("budget_exceeded", "budget")
                                ELSE Proceed("running")
  /\ node' = AfterIdea(status')
  /\ UNCHANGED <<roundIndex, code, records, publication, cancelled>>

\* Mutant: a valid plan does not clear the facts of the failure before it.
PlanGateKeepsFacts ==
  /\ Enter("plan_gate")
  /\ \/ cancelled /\ Stop("cancelled", "cancelled")
     \/ /\ ~cancelled
        /\ \/ plan = "valid" /\ Proceed("running")
           \/ plan = "invalid" /\ Replan("invalid_plan")
           \/ /\ plan = "invalid"
              /\ replanCount >= MaxReplans
              /\ Stop("invalid_plan", "invalid")
  /\ node' = AfterGate(status')
  /\ UNCHANGED <<roundIndex, search, publication, cancelled, overBudget, passes>>

PlanGate ==
  /\ Enter("plan_gate")
  /\ \/ cancelled /\ Stop("cancelled", "cancelled")
     \/ /\ ~cancelled
        /\ \/ /\ plan = "valid"
              /\ status' = "running"
              /\ facts' = "none"
              /\ UNCHANGED <<error, replanCount>>
           \/ plan = "invalid" /\ Replan("invalid_plan")
           \/ /\ plan = "invalid"
              /\ replanCount >= MaxReplans
              /\ Stop("invalid_plan", "invalid")
  /\ node' = AfterGate(status')
  /\ UNCHANGED <<roundIndex, search, publication, cancelled, overBudget, passes>>

\* A coding worker that raises counts as a candidate that did not pass.
Coding ==
  /\ Enter("coding")
  /\ \/ /\ cancelled
        /\ Stop("cancelled", "cancelled")
        /\ UNCHANGED <<code, overBudget>>
     \/ /\ ~cancelled
        /\ Spend
        /\ \/ ReviewRejects /\ UNCHANGED code
           \/ code' \in SUBSET Candidates /\ Proceed("running")
  /\ node' = AfterCoding(status')
  /\ UNCHANGED <<roundIndex, plan, records, publication, cancelled, passes>>

\* The experiments of one round, and whether another round follows.
RunsRound(last) ==
  /\ \E r \in Results :
       /\ \A c \in Candidates \ code : r[c] = Failed
       /\ records' = Append(records, [round |-> roundIndex, results |-> r])
  /\ IF roundIndex < last
       THEN Proceed("next_round") /\ roundIndex' = roundIndex + 1
       ELSE Proceed("running") /\ UNCHANGED roundIndex

\* Mutant: one round more than asked for.
ExecutionOneRoundMore ==
  /\ Enter("execution")
  /\ \/ /\ cancelled
        /\ Stop("cancelled", "cancelled")
        /\ UNCHANGED <<roundIndex, records>>
     \/ ~cancelled /\ RunsRound(Rounds + 1)
  /\ node' = AfterExecution(status')
  /\ UNCHANGED <<plan, code, publication, cancelled, overBudget, passes>>

\* Mutant: the round index is not advanced with the round.
ExecutionForgetsRound ==
  /\ Enter("execution")
  /\ \E r \in Results :
       /\ \A c \in Candidates \ code : r[c] = Failed
       /\ records' = Append(records, [round |-> roundIndex, results |-> r])
  /\ Proceed(IF Len(records') < Rounds THEN "next_round" ELSE "running")
  /\ node' = AfterExecution(status')
  /\ UNCHANGED <<roundIndex, plan, code, publication, cancelled, overBudget, passes>>

\* Mutant: the cancel event is not read before the experiments.
ExecutionIgnoresCancel ==
  /\ Enter("execution")
  /\ RunsRound(Rounds)
  /\ node' = AfterExecution(status')
  /\ UNCHANGED <<plan, code, publication, cancelled, overBudget, passes>>

\* The review precedes the experiments; only candidates that passed the
\* coding gate are run, the others are recorded as coding_error.
Execution ==
  /\ Enter("execution")
  /\ \/ /\ cancelled
        /\ Stop("cancelled", "cancelled")
        /\ UNCHANGED <<roundIndex, records>>
     \/ /\ ~cancelled
        /\ ReviewRejects
        /\ UNCHANGED <<roundIndex, records>>
     \/ ~cancelled /\ RunsRound(Rounds)
  /\ node' = AfterExecution(status')
  /\ UNCHANGED <<plan, code, publication, cancelled, overBudget, passes>>

\* Mutant: only the last record is searched for the best experiment.
FinalOfLastRecord ==
  /\ Enter("final_evaluation")
  /\ LET valid == {e \in Valid(records) : e[1] = Len(records)}
     IN  \/ /\ final' \in valid
            /\ \A o \in valid : ScoreOf(records, final') <= ScoreOf(records, o)
         \/ valid = {} /\ final' = NoSource
  /\ Proceed("running")
  /\ node' = "writing"
  /\ UNCHANGED <<roundIndex, search, report, terminal, cancelled, overBudget, passes>>

\* Neither the cancel event nor the approval gate is consulted here.
FinalEvaluationNode ==
  /\ Enter("final_evaluation")
  /\ \/ \E e \in Valid(records) : IsBest(records, e) /\ final' = e
     \/ Valid(records) = {} /\ final' = NoSource
  /\ Proceed("running")
  /\ node' = "writing"
  /\ UNCHANGED <<roundIndex, search, report, terminal, cancelled, overBudget, passes>>

\* Mutant: the report is stored before it is reviewed.
WritingBeforeReview ==
  /\ Enter("writing")
  /\ Spend
  /\ \/ Stop("error", "worker") /\ UNCHANGED report
     \/ ReviewRejects /\ report' = TRUE
     \/ Proceed("completed") /\ report' = TRUE
  /\ node' = AfterWriting(status')
  /\ UNCHANGED <<roundIndex, search, final, terminal, cancelled, passes>>

\* Neither the cancel event nor the budget is consulted here.
Writing ==
  /\ Enter("writing")
  /\ Spend
  /\ \/ Stop("error", "worker") /\ UNCHANGED report
     \/ ReviewRejects /\ UNCHANGED report
     \/ Proceed("completed") /\ report' = TRUE
  /\ node' = AfterWriting(status')
  /\ UNCHANGED <<roundIndex, search, final, terminal, cancelled, passes>>

Terminal ==
  /\ Enter("terminal")
  /\ terminal' = Published(status, error, report)
  /\ status' = terminal'.status
  /\ node' = "end"
  /\ UNCHANGED <<error, roundIndex, replanCount, facts, search, final, report,
                 cancelled, overBudget, passes>>

\* GraphRecursionError: the invocation raises and no state is returned.
Abort ==
  /\ node \in Nodes
  /\ steps >= RecursionLimit
  /\ node' = "aborted"
  /\ UNCHANGED <<status, error, roundIndex, replanCount, facts, search,
                 publication, cancelled, overBudget, steps, passes>>

\* POST .../cancel sets the run's event while the producer is running.
Cancel ==
  /\ node \in Nodes
  /\ ~cancelled
  /\ cancelled' = TRUE
  /\ UNCHANGED <<node, status, error, roundIndex, replanCount, facts, search,
                 publication, overBudget, steps, passes>>

-----------------------------------------------------------------------------
Init ==
  /\ node = "idea_plan"
  /\ status = "running"
  /\ error = "none"
  /\ roundIndex = 1
  /\ replanCount = 0
  /\ facts = "none"
  /\ plan = "none"
  /\ code = {}
  /\ records = <<>>
  /\ final = NoSource
  /\ report = FALSE
  /\ terminal = NoTerminal
  /\ cancelled \in BOOLEAN
  /\ overBudget = FALSE
  /\ steps = 0
  /\ passes = 0

Step == IdeaPlan \/ PlanGate \/ Coding \/ Execution \/ FinalEvaluationNode
          \/ Writing \/ Terminal \/ Abort

Next == Step \/ Cancel

Safety == Init /\ [][Next]_vars

-----------------------------------------------------------------------------
TypeOK ==
  /\ node \in Nodes \cup {"end", "aborted"}
  /\ status \in Statuses
  /\ error \in Errors
  /\ roundIndex \in 1..Rounds
  /\ replanCount \in Nat
  /\ facts \in {"none", "invalid_plan", "human_rejected"}
  /\ plan \in {"none", "valid", "invalid"}
  /\ code \subseteq Candidates
  /\ records \in Seq(Records)
  /\ final \in Nat \X (Candidates \cup {Failed})
  /\ report \in BOOLEAN
  /\ terminal \in TerminalRecords \cup {NoTerminal}
  /\ cancelled \in BOOLEAN
  /\ overBudget \in BOOLEAN
  /\ steps \in 0..RecursionLimit
  /\ passes \in Nat

\* Replans by an invalid plan and by human rejections, in whatever order and at
\* whatever node, draw on one budget that no run overdraws.
ReplanBudget == replanCount <= MaxReplans

\* Each round before the last is executed exactly once and in order, whatever
\* was replanned in between; only the last one can be executed again.
RoundLedger ==
  /\ \A i \in DOMAIN records : records[i].round = IF i < Rounds THEN i ELSE Rounds
  /\ roundIndex = IF Len(records) < Rounds THEN Len(records) + 1 ELSE Rounds

\* Returns to idea_plan that neither a next round nor a budgeted replan explains.
Misroutes ==
  passes - roundIndex - replanCount + (IF node = "idea_plan" THEN 1 ELSE 0)

\* Supersteps a pass has used when the graph stands at a node.
Offset ==
  [n \in Nodes \cup {"end", "aborted"} |->
     CASE n = "idea_plan" -> 0
       [] n = "plan_gate" -> 1
       [] n = "coding" -> 2
       [] n = "execution" -> 3
       [] n = "final_evaluation" -> 4
       [] n = "writing" -> 5
       [] n = "terminal" -> 6
       [] OTHER -> 7]

\* A run costs four nodes per earlier round, the nodes of its current pass, and
\* at most six more for each replan or unbudgeted return to idea_plan: nothing
\* else lengthens it, however the cancel, reviews and failures interleave.
StepsPaidFor ==
  steps <= 4 * (roundIndex - 1) + Offset[node] + 6 * (replanCount + Misroutes)

\* The planner is told why it is called again, and a failure it has already
\* answered with a valid plan never reaches a later pass.
FactsFresh ==
  /\ status = "replanning" => facts # "none"
  /\ node \in {"coding", "execution", "final_evaluation", "writing"} => facts = "none"

\* Only a completed run publishes a report, and it always does: no report a
\* reviewer rejected is published by a later terminal state.
ReportIffCompleted ==
  terminal # NoTerminal => (terminal.status = "completed" <=> terminal.hasReport)

\* The report of a completed run rests on a final evaluation of the best
\* experiment of ALL rounds, the repeated ones included; there is none only when
\* no round produced a usable one.
FinalIsBest ==
  (FinalEvaluation /\ terminal.status = "completed")
    => IF Valid(records) = {} THEN final = NoSource ELSE IsBest(records, final)

\* Once the user has cancelled, no node that starts plans, writes code or
\* records search experiments; only the node in flight finishes.
CancelStopsSearch == [][cancelled => UNCHANGED search]_vars

\* LangGraph abandons a run only when its rounds, its replans and its unbudgeted
\* returns to idea_plan, seven supersteps and six for each, have used up the
\* limit: without such returns a sufficient limit delivers a terminal state.
AbortExplained ==
  node = "aborted" =>
    RecursionLimit < 4 * (roundIndex - 1) + 7 + 6 * (replanCount + Misroutes)

-----------------------------------------------------------------------------
(* What the documentation says and the graph does not do *)

\* supervisor_graph.py:6: a cancelled run terminates in one terminal state;
\* a run that recorded "cancelled by user" is not published as completed.
CancelledIsTerminal == terminal.error = "cancelled" => terminal.status = "cancelled"

(* What a run costs and how long it lasts is paid for: replans never exceed  *)
(* their budget, its length is bounded by rounds, replans and the returns to *)
(* the planner that no budget counts, and LangGraph's limit cuts it short    *)
(* only then (supersteps, replan_count, recursion_limit).                    *)
Accounted ==
  /\ TypeOK
  /\ ReplanBudget
  /\ StepsPaidFor
  /\ AbortExplained

(* What leaves the graph: a report exactly when the run completed, resting on *)
(* the best experiment of all rounds (writing_node, final_evaluation_node).   *)
PublicationSound == ReportIffCompleted /\ FinalIsBest

=============================================================================
