------------------------ MODULE BatchSupervisorProofs ------------------------
(***************************************************************************)
(* Proofs about the round-aware graph, for every number of rounds, replans *)
(* and candidates, every score and every superstep limit: type             *)
(* correctness, the replan budget and the length of a run, the ledger of   *)
(* rounds, the freshness of what the planner is told, and what a published *)
(* run contains.                                                           *)
(***************************************************************************)
EXTENDS BatchSupervisor, TLAPS

\* Where a report and a terminal record may exist.
ReportAtNode ==
  /\ node \notin {"terminal", "end", "aborted"} => ~report
  /\ node = "terminal" => (status = "completed" <=> report)
  /\ node # "end" => terminal = NoTerminal
  /\ node = "end" => (terminal.status = "completed" <=> terminal.hasReport)

FinalCorrect ==
  IF Valid(records) = {} THEN final = NoSource ELSE IsBest(records, final)

\* From the final evaluation on, its choice stays the best of the records.
FinalKept ==
  FinalEvaluation =>
    /\ node = "writing" => FinalCorrect
    /\ node = "terminal" /\ status = "completed" => FinalCorrect
    /\ node = "end" /\ terminal.status = "completed" => FinalCorrect
    /\ node # "end" => terminal = NoTerminal

-----------------------------------------------------------------------------

\* Every variable keeps its type.
THEOREM TypeCorrect == Safety => []TypeOK
<1> USE DEF Nodes, Statuses, TerminalStatuses, Errors
<1>1. Init => TypeOK
  <2> SUFFICES ASSUME Init PROVE TypeOK
    OBVIOUS
  <2>1. cancelled \in BOOLEAN /\ overBudget \in BOOLEAN /\ report \in BOOLEAN
    BY DEF Init
  <2>2. QED
    BY <2>1, BatchAssumption DEF Init, TypeOK, NoSource
<1>2. TypeOK /\ [Next]_vars => TypeOK'
  <2> SUFFICES ASSUME TypeOK, [Next]_vars
               PROVE  TypeOK'
    OBVIOUS
  <2> USE BatchAssumption
  <2>1. CASE IdeaPlan
    BY <2>1, SMTT(60)
       DEF TypeOK, IdeaPlan, Enter, Stop, Spend, ReviewRejects, Replan, Proceed,
           AfterIdea, publication
  <2>2. CASE PlanGate
    BY <2>2, SMTT(60) DEF TypeOK, PlanGate, Enter, Stop, Replan, AfterGate, search, publication
  <2>3. CASE Coding
    BY <2>3
       DEF TypeOK, Coding, Enter, Stop, Spend, ReviewRejects, Replan, Proceed,
           AfterCoding, publication
  <2>4. CASE Execution
    <3>1. records' \in Seq(Records)
      <4>1. CASE UNCHANGED records
        BY <4>1 DEF TypeOK
      <4>2. CASE \E r \in Results :
                   records' = Append(records, [round |-> roundIndex, results |-> r])
        BY <4>2 DEF TypeOK, Records
      <4>3. QED
        BY <2>4, <4>1, <4>2 DEF Execution, RunsRound
    <3>2. roundIndex' \in 1..Rounds
      BY <2>4 DEF TypeOK, Execution, RunsRound
    <3>3. /\ status' \in Statuses
          /\ error' \in Errors
          /\ replanCount' \in Nat
          /\ facts' \in {"none", "invalid_plan", "human_rejected"}
      BY <2>4 DEF TypeOK, Execution, RunsRound, Stop, ReviewRejects, Replan, Proceed
    <3>4. node' \in Nodes
      BY <2>4 DEF Execution, RunsRound, AfterExecution
    <3>5. QED
      BY <2>4, <3>1, <3>2, <3>3, <3>4
         DEF TypeOK, Execution, RunsRound, Enter, publication
  <2>5. CASE FinalEvaluationNode
    <3>1. final' \in Nat \X (Candidates \cup {Failed})
      BY <2>5 DEF TypeOK, FinalEvaluationNode, Valid, NoSource
    <3>2. QED
      BY <2>5, <3>1 DEF TypeOK, FinalEvaluationNode, Enter, Proceed, search
  <2>6. CASE Writing
    <3>1. report' \in BOOLEAN
      BY <2>6 DEF TypeOK, Writing
    <3>2. QED
      BY <2>6, <3>1 DEF TypeOK, Writing, Enter, Stop, Spend, ReviewRejects, Replan,
         Proceed, AfterWriting, search
  <2>7. CASE Terminal
    <3>1. terminal' \in TerminalRecords
      BY <2>7 DEF TypeOK, Terminal, Published, TerminalRecords
    <3>2. QED
      BY <2>7, <3>1 DEF TypeOK, Terminal, Enter, Published, search
  <2>8. CASE Abort
    BY <2>8 DEF TypeOK, Abort, search, publication
  <2>9. CASE Cancel
    BY <2>9 DEF TypeOK, Cancel, search, publication
  <2>10. CASE UNCHANGED vars
    BY <2>10 DEF TypeOK, vars, search, publication
  <2>11. QED
    BY <2>1, <2>2, <2>3, <2>4, <2>5, <2>6, <2>7, <2>8, <2>9, <2>10
       DEF Next, Step
<1>3. QED
  BY <1>1, <1>2, PTL DEF Safety

\* Invalid plans and human rejections draw on one budget, never overdrawn.
THEOREM ReplansAreBudgeted == Safety => []ReplanBudget
<1> USE DEF ReplanBudget
<1>1. Init => ReplanBudget
  BY BatchAssumption DEF Init
<1>2. TypeOK /\ ReplanBudget /\ [Next]_vars => ReplanBudget'
  <2> SUFFICES ASSUME TypeOK, ReplanBudget, [Next]_vars
               PROVE  ReplanBudget'
    OBVIOUS
  <2> USE BatchAssumption DEF TypeOK
  <2>1. CASE IdeaPlan
    BY <2>1 DEF IdeaPlan, Stop, ReviewRejects, Replan, Proceed
  <2>2. CASE PlanGate
    BY <2>2 DEF PlanGate, Stop, Replan
  <2>3. CASE Coding
    BY <2>3 DEF Coding, Stop, ReviewRejects, Replan, Proceed
  <2>4. CASE Execution
    BY <2>4 DEF Execution, RunsRound, Stop, ReviewRejects, Replan, Proceed
  <2>5. CASE FinalEvaluationNode
    BY <2>5 DEF FinalEvaluationNode, Proceed
  <2>6. CASE Writing
    BY <2>6 DEF Writing, Stop, ReviewRejects, Replan, Proceed
  <2>7. CASE Terminal
    BY <2>7 DEF Terminal
  <2>8. CASE Abort
    BY <2>8 DEF Abort
  <2>9. CASE Cancel
    BY <2>9 DEF Cancel
  <2>10. CASE UNCHANGED vars
    BY <2>10 DEF vars
  <2>11. QED
    BY <2>1, <2>2, <2>3, <2>4, <2>5, <2>6, <2>7, <2>8, <2>9, <2>10
       DEF Next, Step
<1>3. QED
  BY <1>1, <1>2, TypeCorrect, PTL DEF Safety

\* Rounds are executed in order, each before the last exactly once.
THEOREM RoundsInOrder == Safety => []RoundLedger
<1> USE DEF RoundLedger
<1>1. Init => RoundLedger
  BY BatchAssumption DEF Init
<1>2. TypeOK /\ RoundLedger /\ [Next]_vars => RoundLedger'
  <2> SUFFICES ASSUME TypeOK, RoundLedger, [Next]_vars
               PROVE  RoundLedger'
    OBVIOUS
  <2> USE BatchAssumption DEF TypeOK
  <2>1. CASE IdeaPlan
    BY <2>1 DEF IdeaPlan, Proceed
  <2>2. CASE PlanGate
    BY <2>2 DEF PlanGate, search
  <2>3. CASE Coding
    BY <2>3 DEF Coding, Proceed
  <2>4. CASE Execution
    <3>1. CASE UNCHANGED <<roundIndex, records>>
      BY <3>1
    <3>2. CASE \E r \in Results :
                 /\ records' = Append(records, [round |-> roundIndex, results |-> r])
                 /\ IF roundIndex < Rounds THEN roundIndex' = roundIndex + 1
                                           ELSE UNCHANGED roundIndex
      <4>1. PICK r \in Results :
              /\ records' = Append(records, [round |-> roundIndex, results |-> r])
              /\ IF roundIndex < Rounds THEN roundIndex' = roundIndex + 1
                                        ELSE UNCHANGED roundIndex
        BY <3>2
      <4>2. /\ Len(records') = Len(records) + 1
            /\ records'[Len(records) + 1].round = roundIndex
            /\ \A i \in DOMAIN records : records'[i] = records[i]
        BY <4>1
      <4>3. DOMAIN records' = 1..(Len(records) + 1)
        BY <4>1
      <4>4. QED
        BY <4>1, <4>2, <4>3
    <3>3. QED
      BY <2>4, <3>1, <3>2 DEF Execution, RunsRound, Proceed
  <2>5. CASE FinalEvaluationNode
    BY <2>5 DEF FinalEvaluationNode, Proceed, search
  <2>6. CASE Writing
    BY <2>6 DEF Writing, Proceed, search
  <2>7. CASE Terminal
    BY <2>7 DEF Terminal, search
  <2>8. CASE Abort
    BY <2>8 DEF Abort, search
  <2>9. CASE Cancel
    BY <2>9 DEF Cancel, search
  <2>10. CASE UNCHANGED vars
    BY <2>10 DEF vars, search
  <2>11. QED
    BY <2>1, <2>2, <2>3, <2>4, <2>5, <2>6, <2>7, <2>8, <2>9, <2>10
       DEF Next, Step
<1>3. QED
  BY <1>1, <1>2, TypeCorrect, PTL DEF Safety

\* A pass costs one superstep per node, and at most six before it can start over.
LEMMA Offsets ==
  /\ Offset["idea_plan"] = 0
  /\ Offset["plan_gate"] = 1
  /\ Offset["coding"] = 2
  /\ Offset["execution"] = 3
  /\ Offset["final_evaluation"] = 4
  /\ Offset["writing"] = 5
  /\ Offset["terminal"] = 6
  /\ Offset["end"] = 7
  /\ Offset["aborted"] = 7
BY DEF Offset, Nodes

\* No run is longer than its rounds, replans and unbudgeted returns explain.
THEOREM RunsAreShort == Safety => []StepsPaidFor
<1> DEFINE Idle == IF node = "idea_plan" THEN 1 ELSE 0
           Paid == steps <= 4 * (roundIndex - 1) + Offset[node]
                              + 6 * (passes - roundIndex + Idle)
<1>1. TypeOK => (StepsPaidFor <=> Paid)
  <2>1. ASSUME TypeOK
        PROVE  replanCount + Misroutes = passes - roundIndex + Idle
    BY <2>1 DEF TypeOK, Misroutes
  <2>2. QED
    BY <2>1 DEF StepsPaidFor
<1>2. Init => Paid
  BY BatchAssumption, Offsets DEF Init
<1>3. TypeOK /\ TypeOK' /\ Paid /\ [Next]_vars => Paid'
  <2> SUFFICES ASSUME TypeOK, TypeOK', Paid, [Next]_vars
               PROVE  Paid'
    OBVIOUS
  <2>0. /\ steps \in Int /\ passes \in Int /\ roundIndex \in Int
        /\ steps' \in Int /\ passes' \in Int /\ roundIndex' \in Int
    BY BatchAssumption DEF TypeOK
  <2> USE <2>0, Offsets DEF Nodes
  <2>1. CASE IdeaPlan
    <3>1. node' \in {"plan_gate", "idea_plan", "terminal"}
      BY <2>1 DEF IdeaPlan, AfterIdea
    <3>2. QED
      BY <2>1, <3>1 DEF IdeaPlan, Enter
  <2>2. CASE PlanGate
    <3>1. node' \in {"coding", "idea_plan", "terminal"}
      BY <2>2 DEF PlanGate, AfterGate
    <3>2. QED
      BY <2>2, <3>1 DEF PlanGate, Enter
  <2>3. CASE Coding
    <3>1. node' \in {"execution", "idea_plan"}
      BY <2>3 DEF Coding, AfterCoding
    <3>2. QED
      BY <2>3, <3>1 DEF Coding, Enter
  <2>4. CASE Execution
    <3>1. \/ roundIndex' = roundIndex + 1 /\ node' = "idea_plan"
          \/ /\ roundIndex' = roundIndex
             /\ node' \in {"idea_plan", "final_evaluation", "writing"}
      BY <2>4 DEF Execution, RunsRound, AfterExecution, Proceed
    <3>2. node = "execution" /\ steps' = steps + 1 /\ passes' = passes
      BY <2>4 DEF Execution, RunsRound, Enter
    <3>3. CASE roundIndex' = roundIndex + 1 /\ node' = "idea_plan"
      BY <3>2, <3>3
    <3>4. CASE roundIndex' = roundIndex /\ node' = "idea_plan"
      BY <3>2, <3>4
    <3>5. CASE roundIndex' = roundIndex /\ node' \in {"final_evaluation", "writing"}
      BY <3>2, <3>5
    <3>6. QED
      BY <3>1, <3>3, <3>4, <3>5
  <2>5. CASE FinalEvaluationNode
    BY <2>5 DEF FinalEvaluationNode, Enter
  <2>6. CASE Writing
    <3>1. node' \in {"terminal", "idea_plan"}
      BY <2>6 DEF Writing, AfterWriting
    <3>2. QED
      BY <2>6, <3>1 DEF Writing, Enter
  <2>7. CASE Terminal
    BY <2>7 DEF Terminal, Enter
  <2>8. CASE Abort
    BY <2>8 DEF Abort
  <2>9. CASE Cancel
    BY <2>9 DEF Cancel
  <2>10. CASE UNCHANGED vars
    BY <2>10 DEF vars
  <2>11. QED
    BY <2>1, <2>2, <2>3, <2>4, <2>5, <2>6, <2>7, <2>8, <2>9, <2>10
       DEF Next, Step
<1>4. QED
  <2> HIDE DEF Paid
  <2>1. QED
    BY <1>1, <1>2, <1>3, TypeCorrect, PTL DEF Safety

\* A run is abandoned only when what it has done has used up the supersteps.
THEOREM AbortsAreExplained == Safety => []AbortExplained
<1>1. Init => AbortExplained
  BY DEF Init, AbortExplained
<1>2. TypeOK /\ StepsPaidFor /\ AbortExplained /\ [Next]_vars => AbortExplained'
  <2> SUFFICES ASSUME TypeOK, StepsPaidFor, AbortExplained, [Next]_vars,
                      node' = "aborted"
               PROVE  AbortExplained'
    BY DEF AbortExplained
  <2>1. CASE Abort
    <3>1. steps >= RecursionLimit
      BY <2>1 DEF Abort
    <3>2. Offset[node] \in 0..6
      BY <2>1, Offsets DEF Abort, Nodes
    <3>3. /\ UNCHANGED <<steps, passes, roundIndex, replanCount>>
          /\ node # "aborted"
      BY <2>1 DEF Abort, Nodes
    <3>4. node = "idea_plan" => Offset[node] = 0
      BY Offsets
    <3>5. QED
      BY <3>1, <3>2, <3>3, <3>4, BatchAssumption, SMTT(60)
         DEF AbortExplained, StepsPaidFor, Misroutes, TypeOK
  <2>2. CASE Step /\ ~Abort
    BY <2>2 DEF Step, IdeaPlan, PlanGate, Coding, Execution, FinalEvaluationNode,
       Writing, Terminal, AfterIdea, AfterGate, AfterCoding, AfterExecution,
       AfterWriting
  <2>3. CASE Cancel \/ UNCHANGED vars
    BY <2>3 DEF Cancel, vars, Nodes, AbortExplained, Misroutes
  <2>4. QED
    BY <2>1, <2>2, <2>3 DEF Next
<1>3. QED
  BY <1>1, <1>2, TypeCorrect, RunsAreShort, PTL DEF Safety

\* The planner is told why it is called again, and nothing it has answered.
THEOREM FactsAreFresh == Safety => []FactsFresh
<1> USE DEF FactsFresh, Nodes
<1>1. Init => FactsFresh
  BY DEF Init
<1>2. TypeOK /\ FactsFresh /\ [Next]_vars => FactsFresh'
  <2> SUFFICES ASSUME TypeOK, FactsFresh, [Next]_vars
               PROVE  FactsFresh'
    OBVIOUS
  <2>1. CASE IdeaPlan
    BY <2>1 DEF IdeaPlan, Enter, Stop, ReviewRejects, Replan, Proceed, AfterIdea
  <2>2. CASE PlanGate
    BY <2>2 DEF PlanGate, Enter, Stop, Replan, AfterGate
  <2>3. CASE Coding
    BY <2>3 DEF Coding, Enter, Stop, ReviewRejects, Replan, Proceed, AfterCoding
  <2>4. CASE Execution
    BY <2>4
       DEF Execution, RunsRound, Enter, Stop, ReviewRejects, Replan, Proceed,
           AfterExecution
  <2>5. CASE FinalEvaluationNode
    BY <2>5 DEF FinalEvaluationNode, Enter, Proceed
  <2>6. CASE Writing
    BY <2>6 DEF Writing, Enter, Stop, ReviewRejects, Replan, Proceed, AfterWriting
  <2>7. CASE Terminal
    BY <2>7 DEF Terminal, Enter, Published
  <2>8. CASE Abort
    BY <2>8 DEF Abort
  <2>9. CASE Cancel
    BY <2>9 DEF Cancel
  <2>10. CASE UNCHANGED vars
    BY <2>10 DEF vars
  <2>11. QED
    BY <2>1, <2>2, <2>3, <2>4, <2>5, <2>6, <2>7, <2>8, <2>9, <2>10
       DEF Next, Step
<1>3. QED
  BY <1>1, <1>2, TypeCorrect, PTL DEF Safety

\* ReportAtNode is inductive.
LEMMA ReportKnown == Safety => []ReportAtNode
<1> USE DEF ReportAtNode, Nodes, TerminalStatuses
<1>1. Init => ReportAtNode
  BY DEF Init
<1>2. TypeOK /\ ReportAtNode /\ [Next]_vars => ReportAtNode'
  <2> SUFFICES ASSUME TypeOK, ReportAtNode, [Next]_vars
               PROVE  ReportAtNode'
    OBVIOUS
  <2>1. CASE IdeaPlan
    BY <2>1
       DEF IdeaPlan, Enter, Stop, ReviewRejects, Replan, Proceed, AfterIdea, publication
  <2>2. CASE PlanGate
    BY <2>2 DEF PlanGate, Enter, Stop, Replan, AfterGate, publication
  <2>3. CASE Coding
    BY <2>3
       DEF Coding, Enter, Stop, ReviewRejects, Replan, Proceed, AfterCoding, publication
  <2>4. CASE Execution
    BY <2>4
       DEF Execution, RunsRound, Enter, Stop, ReviewRejects, Replan, Proceed,
           AfterExecution, publication
  <2>5. CASE FinalEvaluationNode
    BY <2>5 DEF FinalEvaluationNode, Enter, Proceed
  <2>6. CASE Writing
    BY <2>6 DEF Writing, Enter, Stop, ReviewRejects, Replan, Proceed, AfterWriting
  <2>7. CASE Terminal
    BY <2>7 DEF Terminal, Enter, Published
  <2>8. CASE Abort
    BY <2>8 DEF Abort, publication
  <2>9. CASE Cancel
    BY <2>9 DEF Cancel, publication
  <2>10. CASE UNCHANGED vars
    BY <2>10 DEF vars, publication
  <2>11. QED
    BY <2>1, <2>2, <2>3, <2>4, <2>5, <2>6, <2>7, <2>8, <2>9, <2>10
       DEF Next, Step
<1>3. QED
  BY <1>1, <1>2, TypeCorrect, PTL DEF Safety

\* A published run has a report exactly if it completed.
THEOREM ReportsOnlyCompleted == Safety => []ReportIffCompleted
<1>1. ReportAtNode => ReportIffCompleted
  BY DEF ReportAtNode, ReportIffCompleted
<1>2. QED
  BY <1>1, ReportKnown, PTL

\* FinalKept is inductive.
LEMMA FinalStaysBest == Safety => []FinalKept
<1> USE DEF FinalKept, Nodes, TerminalStatuses
<1>1. Init => FinalKept
  BY DEF Init, NoTerminal
<1>2. TypeOK /\ FinalKept /\ [Next]_vars => FinalKept'
  <2> SUFFICES ASSUME TypeOK, FinalKept, [Next]_vars, FinalEvaluation
               PROVE  FinalKept'
    OBVIOUS
  <2>1. UNCHANGED <<records, final>> => FinalCorrect' = FinalCorrect
    BY DEF FinalCorrect, Valid, IsBest, ScoreOf
  <2>2. CASE IdeaPlan
    BY <2>2 DEF IdeaPlan, Enter, Stop, ReviewRejects, Replan, Proceed, AfterIdea,
       publication
  <2>3. CASE PlanGate
    BY <2>3 DEF PlanGate, Enter, Stop, Replan, AfterGate, publication
  <2>4. CASE Coding
    BY <2>4 DEF Coding, Enter, AfterCoding, publication
  <2>5. CASE Execution
    BY <2>5 DEF Execution, RunsRound, Enter, AfterExecution, publication
  <2>6. CASE FinalEvaluationNode
    <3>1. FinalCorrect'
      BY <2>6 DEF FinalEvaluationNode, search, FinalCorrect, Valid, IsBest, ScoreOf
    <3>2. QED
      BY <2>6, <3>1, SMTT(60) DEF FinalEvaluationNode, Enter, Proceed, publication
  <2>7. CASE Writing
    BY <2>1, <2>7 DEF Writing, Enter, AfterWriting, search
  <2>8. CASE Terminal
    BY <2>1, <2>8 DEF Terminal, Enter, Published, search
  <2>9. CASE Abort
    BY <2>1, <2>9 DEF Abort, search, publication
  <2>10. CASE Cancel
    BY <2>1, <2>10 DEF Cancel, search, publication
  <2>11. CASE UNCHANGED vars
    BY <2>1, <2>11 DEF vars, search, publication
  <2>12. QED
    BY <2>2, <2>3, <2>4, <2>5, <2>6, <2>7, <2>8, <2>9, <2>10, <2>11
       DEF Next, Step
<1>3. QED
  BY <1>1, <1>2, TypeCorrect, PTL DEF Safety

\* The report of a completed run rests on the best experiment of all rounds.
THEOREM FinalIsBestOfAll == Safety => []FinalIsBest
<1>1. TypeOK /\ FinalKept => FinalIsBest
  BY DEF TypeOK, FinalKept, FinalIsBest, FinalCorrect, NoTerminal, TerminalRecords
<1>2. QED
  BY <1>1, TypeCorrect, FinalStaysBest, PTL

\* Once the user has cancelled, no plan, code or search experiment is added.
THEOREM CancelStops == Safety => CancelStopsSearch
<1>1. [Next]_vars => [cancelled => UNCHANGED search]_vars
  <2> SUFFICES ASSUME [Next]_vars, cancelled PROVE UNCHANGED search \/ UNCHANGED vars
    OBVIOUS
  <2>1. CASE IdeaPlan
    BY <2>1 DEF IdeaPlan, search
  <2>2. CASE Coding
    BY <2>2 DEF Coding, search
  <2>3. CASE Execution
    BY <2>3 DEF Execution, RunsRound, search
  <2>4. CASE PlanGate \/ FinalEvaluationNode \/ Writing \/ Terminal \/ Abort \/ Cancel
    BY <2>4 DEF PlanGate, FinalEvaluationNode, Writing, Terminal, Abort, Cancel
  <2>5. QED
    BY <2>1, <2>2, <2>3, <2>4 DEF Next, Step
<1>2. QED
  BY <1>1, PTL DEF Safety, CancelStopsSearch

-----------------------------------------------------------------------------
\* The accounts of a batch run, for all its bounds.
THEOREM RunsAreAccountedFor == Safety => []Accounted
BY TypeCorrect, ReplansAreBudgeted, RunsAreShort, AbortsAreExplained, PTL DEF Accounted

\* What a batch run publishes: a report iff it completed, about its best result.
THEOREM PublicationIsSound == Safety => []PublicationSound
BY ReportsOnlyCompleted, FinalIsBestOfAll, PTL DEF PublicationSound
=============================================================================
