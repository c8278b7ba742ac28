----------------------------- MODULE Supervisor -----------------------------
(***************************************************************************)
(* The single-plan multi-agent graph (build_multi_agent_graph without      *)
(* rounds, batches, final evaluation or approvals):                        *)
(* idea_plan -> plan_gate -> coding -> execution -> writing -> terminal,   *)
(* with one way back, from a retryable execution failure to idea_plan.     *)
(* A node reads the cancel event once, when it is entered, and then runs   *)
(* its body: entering (Enter) is one action, and what the body decides,    *)
(* with the edge evaluated after it, another; the user may cancel between. *)
(***************************************************************************)
EXTENDS RunStatus, Integers

CONSTANTS
  MaxReplans,      \* max_replans
  RecursionLimit   \* supersteps LangGraph allows one invocation (external)

ASSUME SupervisorAssumption ==
  /\ MaxReplans \in Nat
  /\ RecursionLimit \in Nat

VARIABLES
  node,        \* the node LangGraph runs next, "end", or "aborted"
  entered,     \* the node has found no cancel and its body is running
  status,      \* state["status"]
  error,       \* state["error"]
  replanCount, \* state["replan_count"]
  plan,        \* the stored plan: none, or what validate will say of it
  code,        \* state["code_result"]: none, skipped or passed
  execution,   \* state["execution_result"]["status"]
  facts,       \* state["failure_facts"]: the classification, or none
  report,      \* a report_result is in the state
  terminal,    \* state["terminal"]
  cancelled,   \* the cancel event
  overBudget,  \* router.budget_exceeded()
  steps,       \* supersteps so far; each appends exactly one timeline event
  passes       \* planning passes begun so far (history)

results == <<plan, code, execution, report>>
control == <<node, entered, status, error, replanCount, facts, terminal>>
vars == <<control, results, cancelled, overBudget, steps, passes>>

Cancellable == {"idea_plan", "plan_gate", "coding", "execution", "writing"}

Nodes == Cancellable \cup {"terminal"}

\* FailureHandoff: the classifications an ExecutionResult may carry, and those
\* whose retry policy lets the supervisor plan again.
Retryable == {"timeout", "nan", "missing_artifact"}
Classifications == Retryable \cup {"oom", "error", "cancelled"}

-----------------------------------------------------------------------------
(* Conditional edges *)

AfterIdea(s) == IF s = "running" THEN "plan_gate" ELSE "terminal"

AfterGate(s) == IF s = "running" THEN "coding" ELSE "terminal"

AfterCoding(s) == IF s = "running" THEN "execution" ELSE "terminal"

\* Mutant: an execution that failed for good is routed to the planner too.
AfterExecutionReplans(s) == IF s = "running" THEN "writing" ELSE "idea_plan"

AfterExecution(s) ==
  CASE s = "replanning" -> "idea_plan"
    [] s = "running" -> "writing"
    [] OTHER -> "terminal"

-----------------------------------------------------------------------------
(* Updates the nodes share *)

\* _terminal_update
Stop(s, why) ==
  /\ status' = s
  /\ error' = why

Proceed(s) ==
  /\ status' = s
  /\ UNCHANGED error

\* Mutant: the budget is not looked at after the call.
CheckBudgetSkipped(s) == Proceed(s)

\* After a model call: over budget stops the run, else the node goes on with s.
CheckBudget(s) ==
  IF overBudget' THEN Stop("budget_exceeded", "budget") ELSE Proceed(s)

\* Model calls of a worker may exhaust the token or cost budget.
Spend ==
  /\ overBudget' \in BOOLEAN
  /\ overBudget => overBudget'

\* LangGraph starts the next superstep.
Superstep(n) ==
  /\ node = n
  /\ ~entered
  /\ steps < RecursionLimit

\* The body of a node returns: the superstep is complete.
Return(n) ==
  /\ node = n
  /\ entered
  /\ entered' = FALSE
  /\ steps' = steps + 1

-----------------------------------------------------------------------------
(* Nodes *)

\* Mutant: a node does not read the cancel event.
EnterUnread(n) ==
  /\ Superstep(n)
  /\ entered' = TRUE
  /\ passes' = IF n = "idea_plan" THEN passes + 1 ELSE passes
  /\ UNCHANGED <<node, status, error, replanCount, facts, terminal, results, cancelled,
                 overBudget, steps>>

\* The one place where the event is read: a node entered without a cancel will
\* not look again until it has returned.
Enter(n) ==
  /\ Superstep(n)
  /\ ~cancelled
  /\ entered' = TRUE
  /\ passes' = IF n = "idea_plan" THEN passes + 1 ELSE passes
  /\ UNCHANGED <<node, status, error, replanCount, facts, terminal, results, cancelled,
                 overBudget, steps>>

\* A node that finds the event set ends the run; every edge leads to terminal.
EnterCancelled(n) ==
  /\ Superstep(n)
  /\ cancelled
  /\ Stop("cancelled", "cancelled")
  /\ node' = "terminal"
  /\ steps' = steps + 1
  /\ UNCHANGED <<entered, replanCount, facts, terminal, results, cancelled, overBudget,
                 passes>>

IdeaPlan ==
  /\ Return("idea_plan")
  /\ Spend
  /\ \/ Stop("error", "worker") /\ UNCHANGED plan
     \/ plan' \in {"valid", "invalid"} /\ CheckBudget("running")
  /\ node' = AfterIdea(status')
  /\ UNCHANGED <<replanCount, code, execution, facts, report, terminal, cancelled, passes>>

PlanGate ==
  /\ Return("plan_gate")
  /\ \/ plan = "invalid" /\ Stop("invalid_plan", "invalid")
     \/ plan = "valid" /\ Proceed("running")
  /\ node' = AfterGate(status')
  /\ UNCHANGED <<replanCount, facts, terminal, results, cancelled, overBudget, passes>>

\* A plan that requires no code change skips the worker and its budget check.
Coding ==
  /\ Return("coding")
  /\ \/ Proceed("running") /\ code' = "skipped" /\ UNCHANGED overBudget
     \/ Spend /\ Stop("error", "worker") /\ UNCHANGED code
     \/ Spend /\ code' = "passed" /\ CheckBudget("running")
  /\ node' = AfterCoding(status')
  /\ UNCHANGED <<replanCount, plan, execution, facts, report, terminal, cancelled,
                 passes>>

\* Mutant: a replan is not charged to the budget.
ExecutionFailsFree(c) ==
  \/ /\ c \in Retryable
     /\ replanCount < MaxReplans
     /\ execution' = "failed"
     /\ facts' = c
     /\ Proceed("replanning")
     /\ UNCHANGED replanCount
  \/ /\ c \notin Retryable
     /\ Stop(IF c = "cancelled" THEN "cancelled" ELSE "error", "worker")
     /\ UNCHANGED <<replanCount, execution, facts>>

\* Mutant: the budget is counted down from zero.
ExecutionFailsCountsDown(c) ==
  /\ c \in Retryable
  /\ replanCount' = replanCount - 1
  /\ execution' = "failed"
  /\ facts' = c
  /\ Proceed("replanning")

\* A failed execution, by its classification.
ExecutionFails(c) ==
  \/ /\ c \in Retryable
     /\ replanCount < MaxReplans
     /\ replanCount' = replanCount + 1
     /\ execution' = "failed"
     /\ facts' = c
     /\ Proceed("replanning")
  \/ /\ c \notin Retryable \/ replanCount >= MaxReplans
     /\ Stop(IF c = "cancelled" THEN "cancelled" ELSE "error", "worker")
     /\ UNCHANGED <<replanCount, execution, facts>>

\* Mutant: a success does not clear the facts of the failure before it.
ExecutionKeepsFacts ==
  /\ Return("execution")
  /\ \/ execution' = "completed" /\ Proceed("running") /\ UNCHANGED <<replanCount, facts>>
     \/ \E c \in Classifications : ExecutionFails(c)
  /\ node' = AfterExecution(status')
  /\ UNCHANGED <<plan, code, report, terminal, cancelled, overBudget, passes>>

Execution ==
  /\ Return("execution")
  /\ \/ /\ execution' = "completed"
        /\ facts' = "none"
        /\ Proceed("running")
        /\ UNCHANGED replanCount
     \/ \E c \in Classifications : ExecutionFails(c)
  /\ node' = AfterExecution(status')
  /\ UNCHANGED <<plan, code, report, terminal, cancelled, overBudget, passes>>

\* The report is kept even when writing it exhausted the budget.
Writing ==
  /\ Return("writing")
  /\ Spend
  /\ \/ Stop("error", "worker") /\ UNCHANGED report
     \/ report' = TRUE /\ CheckBudget("completed")
  /\ node' = "terminal"
  /\ UNCHANGED <<replanCount, plan, code, execution, facts, terminal, cancelled,
                 passes>>

\* terminal_node publishes the status it finds and does not look at the event.
Terminal ==
  /\ Superstep("terminal")
  /\ steps' = steps + 1
  /\ terminal' = Published(status, error, report)
  /\ status' = terminal'.status
  /\ node' = "end"
  /\ UNCHANGED <<entered, error, replanCount, facts, results, cancelled, overBudget,
                 passes>>

\* GraphRecursionError: the invocation raises and no state is returned.
Abort ==
  /\ node \in Nodes
  /\ ~entered
  /\ steps >= RecursionLimit
  /\ node' = "aborted"
  /\ UNCHANGED <<entered, status, error, replanCount, facts, terminal, results,
                 cancelled, overBudget, steps, passes>>

\* The caller's cancel_check turns true while the graph is running, between
\* two nodes or in the middle of one.
Cancel ==
  /\ node \in Nodes
  /\ ~cancelled
  /\ cancelled' = TRUE
  /\ UNCHANGED <<control, results, overBudget, steps, passes>>

-----------------------------------------------------------------------------
Init ==
  /\ node = "idea_plan"
  /\ entered = FALSE
  /\ status = "running"
  /\ error = "none"
  /\ replanCount = 0
  /\ plan = "none"
  /\ code = "none"
  /\ execution = "none"
  /\ facts = "none"
  /\ report = FALSE
  /\ terminal = NoTerminal
  /\ cancelled \in BOOLEAN
  /\ overBudget = FALSE
  /\ steps = 0
  /\ passes = 0

Step ==
  \/ \E n \in Cancellable : Enter(n) \/ EnterCancelled(n)
  \/ IdeaPlan \/ PlanGate \/ Coding \/ Execution \/ Writing \/ Terminal
  \/ Abort

Next == Step \/ Cancel

Safety == Init /\ [][Next]_vars

\* LangGraph runs the next node as soon as the previous one returned, and every
\* node returns: its model calls and tools have timeouts.
Spec == Safety /\ WF_vars(Step)

-----------------------------------------------------------------------------
TypeOK ==
  /\ node \in Nodes \cup {"end", "aborted"}
  /\ entered \in BOOLEAN
  /\ status \in Statuses
  /\ error \in Errors
  /\ replanCount \in Nat
  /\ plan \in {"none", "valid", "invalid"}
  /\ code \in {"none", "skipped", "passed"}
  /\ execution \in {"none", "completed", "failed"}
  /\ facts \in {"none"} \cup Classifications
  /\ report \in BOOLEAN
  /\ terminal \in TerminalRecords \cup {NoTerminal}
  /\ cancelled \in BOOLEAN
  /\ overBudget \in BOOLEAN
  /\ steps \in Nat
  /\ passes \in Nat

\* Supersteps a pass has used when the graph stands at a node.
Offset ==
  [n \in Nodes \cup {"end", "aborted"} |->
     CASE n = "idea_plan" -> 0
       [] n = "plan_gate" -> 1
       [] n = "coding" -> 2
       [] n = "execution" -> 3
       [] n = "writing" -> 4
       [] n = "terminal" -> 5
       [] OTHER -> 6]

\* Every planning pass after the first is paid for by one unit of the replan
\* budget, which no run overdraws, and a pass costs four supersteps: the run is
\* as long as its replans say.  A pass counts from the entry of idea_plan.
PassesBudgeted ==
  /\ replanCount <= MaxReplans
  /\ passes <= replanCount + (IF node = "idea_plan" /\ ~entered THEN 0 ELSE 1)
  /\ steps <= 4 * replanCount + Offset[node]

\* LangGraph abandons a run only when the replans the run itself has used left
\* it no supersteps: never one with supersteps for every budgeted pass.
AbortExplained == node = "aborted" => RecursionLimit < 4 * replanCount + 6

\* A run that has overspent starts no further worker, whatever the overspending
\* worker returned.
BudgetIsFinal == overBudget => node \in {"terminal", "end", "aborted"}

\* The planner is called again only with the classification of the failure it
\* has to repair; a report is written only from a completed execution of a plan
\* that passed the gate and whose code was ready.
HandoffSound ==
  /\ status = "replanning" => facts \in Retryable
  /\ node = "writing" => execution = "completed" /\ facts = "none" /\ plan = "valid"
  /\ node \in {"execution", "writing"} => code # "none"
  /\ report => execution = "completed"

Outcome == IF status \in TerminalStatuses THEN status ELSE "none"

EnoughSupersteps == RecursionLimit >= 4 * MaxReplans + 6

\* The graph keeps the promise of a run: bounded passes, one outcome, decided
\* once and published exactly as decided; after a cancel nothing is begun, so
\* that the outcome is "cancelled" or the one of the node that was running; a
\* run is abandoned only if its supersteps do not suffice for its budget.
Lifecycle == INSTANCE RunLifecycle WITH
  MaxPasses <- MaxReplans + 1,
  MayAbandon <- ~EnoughSupersteps,
  busy <- entered,
  outcome <- Outcome,
  published <- terminal.status,
  abandoned <- (node = "aborted")

\* Its safety alone, which is proved.
LifecycleSafety == Lifecycle!Safety

\* The same promise with its liveness: every run publishes its outcome or is
\* abandoned.
ImplementsLifecycle == Lifecycle!Spec

(* Passes are paid for by replans and replans by the budget; LangGraph's      *)
(* limit cuts a run short only when the replans have used it up.              *)
Accounted ==
  /\ TypeOK
  /\ PassesBudgeted
  /\ AbortExplained

(* A worker starts only with the results it relies on and only while the     *)
(* token budget holds (the node functions and the edges behind them).        *)
WorkersStartSound == BudgetIsFinal /\ HandoffSound

=============================================================================
