---------------------------- MODULE MCActionLoop ----------------------------
(* Small instances of the two clients of the tools, ActionLoop and          *)
(* ExecutionQueue, for TLC: the runs of the loop, or the calls of a queue. *)
EXTENDS ActionLoop, ExecutionQueue

MCSessions == {"cli", "old"}
MCNamespaces == {"set1", "set2"}
Fixture == Record("fixture", 0, 0, "none", "rejected", {}, NoWork)
Run(ns, n, h) == [session |-> "cli", ns |-> ns, max_actions |-> n, initial_history |-> h]
NoRun == Run("set1", 0, <<>>)
MCIdle == <<NoRun, NoRun, NoRun>>
MCGivens ==
  {MCIdle,
   <<Run("set1", 3, <<Fixture>>), NoRun, NoRun>>,
   <<Run("set1", 1, <<>>), Run("set1", 2, <<>>), NoRun>>,
   <<Run("set1", 1, <<Fixture>>), Run("set2", 1, <<>>), Run("set1", 1, <<>>)>>}
OldRow(k) ==
  [at |-> "set1", born |-> k,
   item |-> [id |-> <<"old", k>>, ns |-> "set1", by |-> 0, ref |-> <<"a", 0, "failed">>,
             valid |-> k = 3]]
MCOldRows == {OldRow(k) : k \in 1..3}

MCTaskLists == {<<>>, <<"t1", "t2", "t1">>, <<"t1", "bad", "t2">>}

MCInit == Init /\ QueueInit /\ (tasks = <<>>) # (given = MCIdle)
\* The operator, whose steps alone leave the loops as they are, acts until it has
\* withdrawn a memory of the runs or deleted one of them.
OperatorActs ==
  (memory' # memory /\ loopvars' = loopvars) =>
    /\ withdrawn \subseteq {Ident(r.item) : r \in OldRows} /\ erased = {}
MCNext ==
  \/ Next /\ OperatorActs /\ UNCHANGED queuevars
  \/ QueueNext /\ UNCHANGED vars
MCFinished == Done /\ QueueDone /\ UNCHANGED <<vars, queuevars>>
MCSpec == MCInit /\ [][MCNext \/ MCFinished]_<<vars, queuevars>>

(* Every run of the action loop and every call of the queue ends.            *)
AllEnd == RunsEnd /\ QueueEnds

=============================================================================
