-------------------------- MODULE SupervisorProofs --------------------------
(***************************************************************************)
(* Proofs about the single-plan graph: type correctness, the budgets, what *)
(* a worker may rely on when it is called, and that every step is a step   *)
(* of the abstract run of RunLifecycle.                                    *)
(***************************************************************************)
EXTENDS Supervisor, TLAPS

\* What the status says about the node, and the terminal record about the run:
\* the strengthening every other invariant rests on.
StatusAtNode ==
  /\ node = "idea_plan" => status \in {"running", "replanning"}
  /\ node \in {"plan_gate", "coding", "execution", "writing"} => status = "running"
  /\ node \in {"terminal", "end"} => status \in TerminalStatuses
  /\ node = "end" => terminal.status = status
  /\ node # "end" => terminal = NoTerminal
  /\ entered => node \in Cancellable

\* What the nodes before have established when a node is entered.
Established ==
  /\ node \in {"coding", "execution", "writing"} => plan = "valid"
  /\ node \in {"execution", "writing"} => code # "none"
  /\ node = "writing" => execution = "completed" /\ facts = "none"
  /\ status = "replanning" => facts \in Retryable
  /\ report => node \in {"terminal", "end", "aborted"} /\ execution = "completed"

-----------------------------------------------------------------------------
\* Every variable keeps its type.
THEOREM TypeCorrect == Safety => []TypeOK
<1> USE DEF Nodes, Cancellable, Statuses, TerminalStatuses, Errors, Classifications,
            Retryable
<1>1. Init => TypeOK
  <2> SUFFICES ASSUME Init PROVE TypeOK
    OBVIOUS
  <2>1. cancelled \in BOOLEAN /\ overBudget \in BOOLEAN /\ report \in BOOLEAN
    BY DEF Init
  <2>2. QED
    BY <2>1 DEF Init, TypeOK
<1>2. TypeOK /\ [Next]_vars => TypeOK'
  <2> SUFFICES ASSUME TypeOK, [Next]_vars PROVE TypeOK'
    OBVIOUS
  <2>0. entered' \in BOOLEAN
    <3>1. CASE IdeaPlan \/ PlanGate \/ Coding \/ Execution \/ Writing
      BY <3>1, Zenon DEF IdeaPlan, PlanGate, Coding, Execution, Writing, Return
    <3>2. CASE UNCHANGED entered
      BY <3>2 DEF TypeOK
    <3>3. CASE \E n \in Cancellable : Enter(n)
      BY <3>3, Zenon DEF Enter
    <3>4. QED
      BY <3>1, <3>2, <3>3, Zenon DEF Next, Step, EnterCancelled, Terminal, Abort, Cancel,
         vars, control
  <2>1. CASE IdeaPlan
    BY <2>0, <2>1 DEF TypeOK, IdeaPlan, Return, Spend, Stop, CheckBudget, Proceed,
       AfterIdea
  <2>2. CASE PlanGate
    BY <2>0, <2>2 DEF TypeOK, PlanGate, Return, Stop, Proceed, AfterGate, results
  <2>3. CASE Coding
    BY <2>0, <2>3 DEF TypeOK, Coding, Return, Spend, Stop, CheckBudget, Proceed,
       AfterCoding
  <2>4. CASE Execution
    BY <2>0, <2>4 DEF TypeOK, Execution, ExecutionFails, Return, Stop, Proceed,
       AfterExecution
  <2>5. CASE Writing
    <3>1. report' \in BOOLEAN
      BY <2>5 DEF TypeOK, Writing
    <3>2. QED
      BY <2>0, <2>5, <3>1 DEF TypeOK, Writing, Return, Spend, Stop, CheckBudget,
         Proceed
  <2>6. CASE Terminal
    BY <2>6 DEF TypeOK, Terminal, Superstep, Published, TerminalRecords, results
  <2>7. CASE Abort
    BY <2>7 DEF TypeOK, Abort, results
  <2>8. CASE Cancel
    BY <2>8 DEF TypeOK, Cancel, control, results
  <2>9. CASE \E n \in Cancellable : Enter(n)
    BY <2>0, <2>9 DEF TypeOK, Enter, Superstep, results
  <2>10. CASE \E n \in Cancellable : EnterCancelled(n)
    BY <2>10 DEF TypeOK, EnterCancelled, Superstep, Stop, results
  <2>11. CASE UNCHANGED vars
    BY <2>11 DEF TypeOK, vars, control, results
  <2>12. QED
    BY <2>1, <2>2, <2>3, <2>4, <2>5, <2>6, <2>7, <2>8, <2>9, <2>10, <2>11
       DEF Next, Step
<1>3. QED
  BY <1>1, <1>2, PTL DEF Safety

-----------------------------------------------------------------------------
\* StatusAtNode is inductive.
LEMMA StatusKnown == Safety => []StatusAtNode
<1> USE DEF Nodes, Cancellable, TerminalStatuses, StatusAtNode
<1>1. Init => StatusAtNode
  BY DEF Init
<1>2. TypeOK /\ StatusAtNode /\ [Next]_vars => StatusAtNode'
  <2> SUFFICES ASSUME TypeOK, StatusAtNode, [Next]_vars PROVE StatusAtNode'
    OBVIOUS
  <2>1. CASE IdeaPlan
    BY <2>1 DEF IdeaPlan, Return, Stop, CheckBudget, Proceed, AfterIdea
  <2>2. CASE PlanGate
    BY <2>2 DEF PlanGate, Return, Stop, Proceed, AfterGate
  <2>3. CASE Coding
    BY <2>3 DEF Coding, Return, Stop, CheckBudget, Proceed, AfterCoding
  <2>4. CASE Execution
    BY <2>4 DEF Execution, ExecutionFails, Return, Stop, Proceed,
       AfterExecution
  <2>5. CASE Writing
    BY <2>5 DEF Writing, Return, Stop, CheckBudget, Proceed
  <2>6. CASE Terminal
    BY <2>6 DEF Terminal, Superstep, Published
  <2>7. CASE Abort
    BY <2>7 DEF Abort
  <2>8. CASE Cancel
    BY <2>8 DEF Cancel, control
  <2>9. CASE \E n \in Cancellable : Enter(n)
    BY <2>9 DEF Enter, Superstep, results
  <2>10. CASE \E n \in Cancellable : EnterCancelled(n)
    BY <2>10 DEF EnterCancelled, Superstep, Stop, results
  <2>11. CASE UNCHANGED vars
    BY <2>11 DEF vars, control
  <2>12. QED
    BY <2>1, <2>2, <2>3, <2>4, <2>5, <2>6, <2>7, <2>8, <2>9, <2>10, <2>11
       DEF Next, Step
<1>3. QED
  BY <1>1, <1>2, TypeCorrect, PTL DEF Safety

\* Every planning pass but the first has its unit of the replan budget, which no
\* run overdraws, and the run is no longer than its replans say.
THEOREM PassesAreBudgeted == Safety => []PassesBudgeted
<1> USE DEF Nodes, Cancellable, PassesBudgeted, Offset
<1>1. Init => PassesBudgeted
  BY SupervisorAssumption DEF Init
<1>2. TypeOK /\ StatusAtNode /\ PassesBudgeted /\ [Next]_vars => PassesBudgeted'
  <2> SUFFICES ASSUME TypeOK, StatusAtNode, PassesBudgeted, [Next]_vars
               PROVE  PassesBudgeted'
    OBVIOUS
  <2> USE SupervisorAssumption DEF TypeOK
  <2>1. CASE IdeaPlan
    BY <2>1 DEF IdeaPlan, Return, AfterIdea
  <2>2. CASE PlanGate
    BY <2>2 DEF PlanGate, Return, AfterGate
  <2>3. CASE Coding
    BY <2>3 DEF Coding, Return, AfterCoding
  <2>4. CASE Execution
    BY <2>4 DEF Execution, ExecutionFails, Return, Stop, Proceed,
       AfterExecution, TerminalStatuses, Classifications, Retryable
  <2>5. CASE Writing
    BY <2>5 DEF Writing, Return
  <2>6. CASE Terminal
    BY <2>6 DEF Terminal, Superstep
  <2>7. CASE Abort
    <3>1. steps <= 4 * replanCount + 6
      BY <2>7 DEF Abort
    <3>2. QED
      BY <2>7, <3>1 DEF Abort
  <2>8. CASE Cancel
    BY <2>8 DEF Cancel, control
  <2>9. CASE \E n \in Cancellable : Enter(n)
    BY <2>9 DEF Enter, Superstep, results
  <2>10. CASE \E n \in Cancellable : EnterCancelled(n)
    BY <2>10 DEF EnterCancelled, Superstep, Stop, results
  <2>11. CASE UNCHANGED vars
    BY <2>11 DEF vars, control
  <2>12. QED
    BY <2>1, <2>2, <2>3, <2>4, <2>5, <2>6, <2>7, <2>8, <2>9, <2>10, <2>11
       DEF Next, Step
<1>3. QED
  BY <1>1, <1>2, TypeCorrect, StatusKnown, PTL DEF Safety

\* A run is abandoned only when its own replans have used up the supersteps.
THEOREM AbortsAreExplained == Safety => []AbortExplained
<1>1. Init => AbortExplained
  BY DEF Init, AbortExplained
<1>2. TypeOK /\ PassesBudgeted /\ AbortExplained /\ [Next]_vars => AbortExplained'
  <2> SUFFICES ASSUME TypeOK, PassesBudgeted, AbortExplained, [Next]_vars,
                      node' = "aborted"
               PROVE  RecursionLimit < 4 * replanCount' + 6
    BY DEF AbortExplained
  <2>1. CASE Abort
    <3>1. steps <= 4 * replanCount + 5
      BY <2>1 DEF Abort, TypeOK, PassesBudgeted, Offset, Nodes, Cancellable
    <3>2. QED
      BY <2>1, <3>1, SupervisorAssumption DEF Abort, TypeOK
  <2>2. CASE Step /\ ~Abort
    BY <2>2 DEF Step, Enter, EnterCancelled, Superstep, Cancellable, IdeaPlan, PlanGate,
       Coding, Execution, Writing, Terminal, AfterIdea, AfterGate, AfterCoding, AfterExecution
  <2>3. CASE Cancel \/ UNCHANGED vars
    BY <2>3 DEF Cancel, vars, control, Nodes, Cancellable, AbortExplained
  <2>4. QED
    BY <2>1, <2>2, <2>3 DEF Next
<1>3. QED
  BY <1>1, <1>2, TypeCorrect, PassesAreBudgeted, PTL DEF Safety

-----------------------------------------------------------------------------
\* A run that has overspent starts no further worker.
THEOREM OverspendingStops == Safety => []BudgetIsFinal
<1> USE DEF BudgetIsFinal, Cancellable
<1>1. Init => BudgetIsFinal
  BY DEF Init
<1>2. TypeOK /\ StatusAtNode /\ BudgetIsFinal /\ [Next]_vars => BudgetIsFinal'
  <2> SUFFICES ASSUME TypeOK, StatusAtNode, BudgetIsFinal, [Next]_vars
               PROVE  BudgetIsFinal'
    OBVIOUS
  <2>1. CASE IdeaPlan
    BY <2>1 DEF IdeaPlan, Return, Stop, CheckBudget, Proceed, AfterIdea
  <2>2. CASE PlanGate
    BY <2>2 DEF PlanGate, Return
  <2>3. CASE Coding
    BY <2>3 DEF Coding, Return, Stop, CheckBudget, Proceed, AfterCoding
  <2>4. CASE Execution
    BY <2>4 DEF Execution, Return
  <2>5. CASE Writing
    BY <2>5 DEF Writing, Return
  <2>6. CASE Terminal
    BY <2>6 DEF Terminal, Superstep
  <2>7. CASE Abort
    BY <2>7 DEF Abort
  <2>8. CASE Cancel
    BY <2>8 DEF Cancel, control
  <2>9. CASE \E n \in Cancellable : Enter(n)
    BY <2>9 DEF Enter, Superstep, results
  <2>10. CASE \E n \in Cancellable : EnterCancelled(n)
    BY <2>10 DEF EnterCancelled, Superstep, Stop, results
  <2>11. CASE UNCHANGED vars
    BY <2>11 DEF vars, control
  <2>12. QED
    BY <2>1, <2>2, <2>3, <2>4, <2>5, <2>6, <2>7, <2>8, <2>9, <2>10, <2>11
       DEF Next, Step
<1>3. QED
  BY <1>1, <1>2, TypeCorrect, StatusKnown, PTL DEF Safety

\* Established is inductive relative to the status at each node.
LEMMA EstablishedInductive == Safety => []Established
<1> USE DEF Established, Nodes, Cancellable, Retryable
<1>1. Init => Established
  BY DEF Init
<1>2. TypeOK /\ StatusAtNode /\ Established /\ [Next]_vars => Established'
  <2> SUFFICES ASSUME TypeOK, StatusAtNode, Established, [Next]_vars
               PROVE  Established'
    OBVIOUS
  <2> USE DEF TerminalStatuses, StatusAtNode
  <2>1. CASE IdeaPlan
    BY <2>1 DEF IdeaPlan, Return, Stop, CheckBudget, Proceed, AfterIdea
  <2>2. CASE PlanGate
    BY <2>2 DEF PlanGate, Return, Stop, Proceed, AfterGate, results
  <2>3. CASE Coding
    BY <2>3 DEF Coding, Return, Stop, CheckBudget, Proceed, AfterCoding
  <2>4. CASE Execution
    BY <2>4 DEF Execution, ExecutionFails, Return, Stop, Proceed,
       AfterExecution
  <2>5. CASE Writing
    BY <2>5 DEF Writing, Return, Stop, CheckBudget, Proceed
  <2>6. CASE Terminal
    BY <2>6 DEF Terminal, Superstep, Published, results
  <2>7. CASE Abort
    BY <2>7 DEF Abort, results
  <2>8. CASE Cancel
    BY <2>8 DEF Cancel, control, results
  <2>9. CASE \E n \in Cancellable : Enter(n)
    BY <2>9 DEF Enter, Superstep, results
  <2>10. CASE \E n \in Cancellable : EnterCancelled(n)
    BY <2>10 DEF EnterCancelled, Superstep, Stop, results
  <2>11. CASE UNCHANGED vars
    BY <2>11 DEF vars, control, results
  <2>12. QED
    BY <2>1, <2>2, <2>3, <2>4, <2>5, <2>6, <2>7, <2>8, <2>9, <2>10, <2>11
       DEF Next, Step
<1>3. QED
  BY <1>1, <1>2, TypeCorrect, StatusKnown, PTL DEF Safety

\* A worker is called only on what it may rely on.
THEOREM HandoffsAreSound == Safety => []HandoffSound
<1>1. Established => HandoffSound
  BY DEF Established, HandoffSound
<1>2. QED
  BY <1>1, EstablishedInductive, PTL

-----------------------------------------------------------------------------
\* Every step of the graph is a step of the abstract run, or leaves it alone.
LEMMA StepRefines ==
  TypeOK /\ StatusAtNode /\ PassesBudgeted /\ [Next]_vars
    => [Lifecycle!Next]_(Lifecycle!av)
<1> SUFFICES ASSUME TypeOK, StatusAtNode, PassesBudgeted, [Next]_vars
             PROVE  Lifecycle!Next \/ UNCHANGED Lifecycle!av
  OBVIOUS
<1> USE DEF StatusAtNode, Nodes, Cancellable, TerminalStatuses, Outcome, Lifecycle!av,
            Lifecycle!Next, Lifecycle!Idle, Lifecycle!TerminalStatuses
<1>1. CASE IdeaPlan
  <2>1. Lifecycle!Finish
    BY <1>1 DEF IdeaPlan, Return, Stop, CheckBudget, Proceed, AfterIdea,
       Lifecycle!Finish
  <2>2. QED
    BY <2>1
<1>2. CASE PlanGate
  BY <1>2 DEF PlanGate, Return, Stop, Proceed, AfterGate, Lifecycle!Finish
<1>3. CASE Coding
  BY <1>3 DEF Coding, Return, Stop, CheckBudget, Proceed, AfterCoding, Lifecycle!Finish
<1>4. CASE Execution
  BY <1>4 DEF Execution, ExecutionFails, Return, Stop, Proceed, AfterExecution,
     Lifecycle!Finish
<1>5. CASE Writing
  BY <1>5 DEF Writing, Return, Stop, CheckBudget, Proceed, Lifecycle!Finish
<1>6. CASE Terminal
  BY <1>6 DEF Terminal, Superstep, Published, NoTerminal, Lifecycle!Publish
<1>7. CASE Abort
  <2>1. ~EnoughSupersteps
    <3>1. steps <= 4 * MaxReplans + 5
      BY <1>7, SupervisorAssumption DEF Abort, TypeOK, PassesBudgeted, Offset
    <3>2. QED
      BY <1>7, <3>1, SupervisorAssumption DEF Abort, EnoughSupersteps, TypeOK
  <2>2. Lifecycle!Abandon
    BY <1>7, <2>1 DEF Abort, NoTerminal, Lifecycle!Abandon
  <2>3. QED
    BY <2>2
<1>8. CASE Cancel
  BY <1>8 DEF Cancel, control, Lifecycle!RequestCancel
<1>9. CASE \E n \in Cancellable : Enter(n)
  <2>1. PICK n \in Cancellable : Enter(n)
    BY <1>9
  <2>2. n = "idea_plan" => passes < MaxReplans + 1
    BY <2>1, SupervisorAssumption DEF Enter, Superstep, TypeOK, PassesBudgeted
  <2>3. Lifecycle!Begin
    BY <2>1, <2>2 DEF Enter, Superstep, Lifecycle!Begin
  <2>4. QED
    BY <2>3
<1>10. CASE \E n \in Cancellable : EnterCancelled(n)
  BY <1>10 DEF EnterCancelled, Superstep, Stop, Lifecycle!Stop
<1>11. CASE UNCHANGED vars
  BY <1>11 DEF vars, control
<1>12. QED
  BY <1>1, <1>2, <1>3, <1>4, <1>5, <1>6, <1>7, <1>8, <1>9, <1>10, <1>11 DEF Next, Step

\* The graph implements the safety of the abstract run: bounded passes, one
\* outcome, published as decided, and no node's body begun after a cancel.
THEOREM ImplementsSafety == Safety => LifecycleSafety
<1>1. Init => Lifecycle!Init
  BY DEF Init, Lifecycle!Init, Outcome, TerminalStatuses, NoTerminal
<1>2. QED
  BY <1>1, TypeCorrect, StatusKnown, PassesAreBudgeted, StepRefines, PTL
     DEF Safety, LifecycleSafety, Lifecycle!Safety

-----------------------------------------------------------------------------
\* The accounts of a single-plan run, for every budget and recursion limit.
THEOREM RunsAreAccountedFor == Safety => []Accounted
BY TypeCorrect, PassesAreBudgeted, AbortsAreExplained, PTL DEF Accounted

\* Workers start with what they rely on, and never after an overspent budget.
THEOREM WorkersStartSoundly == Safety => []WorkersStartSound
BY OverspendingStops, HandoffsAreSound, PTL DEF WorkersStartSound
=============================================================================
