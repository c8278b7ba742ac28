----------------------------- MODULE ActionLoop -----------------------------
(***************************************************************************)
(* The action loop (ActionPlannerLoop.run): plan one action, check it,     *)
(* run its tool, record what it gave, and repeat.  A failure must be cited *)
(* by the next action that runs.  Loops run one after another against one  *)
(* workspace and one memory store; the thread of a tool that timed out     *)
(* goes on, and writes its files when it ends.                             *)
(***************************************************************************)
EXTENDS MemoryStore, Sequences, SequencesExt

CONSTANTS
  NumRuns,    \* the runs, in the order they come
  Givens,     \* what they are given: [Loops -> [session, ns, max_actions, initial_history]]
  ActionIds   \* the ids the planner's model gives to its actions

Loops == 1..NumRuns
Tools == {"train", "verify"}
NoEvent == <<"", 0, "">>
NoWork == <<0, 0>>

\* A record: call is the planner call it came from (0: the fixture), obs the
\* training whose result it reports.
Records ==
  [event : Events, call : Nat, tool : {"none"} \cup Tools, status : {"succeeded", "failed", "rejected"},
   cites : SUBSET Events, obs : Nat \X Nat]
Record(id, n, call, tool, status, cites, obs) ==
  [event |-> <<id, n, status>>, call |-> call, tool |-> tool, status |-> status,
   cites |-> cites, obs |-> obs]

\* A run begins with no history, or with the one record of a benchmark's fixture.
IsFixture(r) ==
  /\ r \in Records
  /\ r.event[3] = r.status /\ r.call = 0 /\ r.tool # "train" /\ r.cites = {} /\ r.obs = NoWork

ASSUME LoopAssumption ==
  /\ NumRuns \in Nat /\ ActionIds \subseteq EventIds
  /\ \A g \in Givens, l \in Loops :
       /\ g[l].session \in Sessions /\ g[l].ns \in Namespaces /\ g[l].max_actions \in Nat
       /\ LET h == g[l].initial_history IN h = <<>> \/ (IsFixture(h[1]) /\ h = <<h[1]>>)
  /\ \A r \in OldRows : r.item.by \notin Loops

VARIABLES
  given,      \* given[l]: what run l is given
  pc,         \* pc[l]: where the run is
  round,      \* round[l]: planner calls made
  history,    \* history[l]: the records of its actions
  unresolved, \* unresolved[l]: unresolved_failure_event_id
  context,    \* context[l]: the memories given to its planner, while it decides
  action,     \* action[l]: the action that is running
  abandoned,  \* executions whose tool timed out and whose thread goes on
  disk        \* the training that last wrote the result files

loopvars == <<given, pc, round, history, unresolved, context, action, abandoned, disk>>
vars == <<loopvars, memory>>

Ended == {"stopped", "max_actions_reached", "raised"}
NoAction == [id |-> "", tool |-> "", cites |-> {}]
Bad(r) == r.status \in {"failed", "rejected"}
Executed(r) == r.status \in {"succeeded", "failed"}

\* The event of the last failed or rejected record of the initial history.
\* Only a tool's failure is looked for.
InitialFailure(h) ==
  LET B == {k \in DOMAIN h : h[k].status = "failed"} IN IF B = {} THEN NoEvent ELSE h[Max(B)].event
InitialDebt(h) ==
  LET B == {k \in DOMAIN h : Bad(h[k])} IN IF B = {} THEN NoEvent ELSE h[Max(B)].event

Init ==
  /\ MemoryInit
  /\ given \in Givens
  /\ history = [l \in Loops |-> given[l].initial_history]
  /\ unresolved = [l \in Loops |-> InitialDebt(history[l])]
  /\ pc = [l \in Loops |-> IF given[l].max_actions = 0 THEN "max_actions_reached" ELSE "plan"]
  /\ round = [l \in Loops |-> 0]
  /\ context = [l \in Loops |-> {}]
  /\ action = [l \in Loops |-> NoAction]
  /\ abandoned = {}
  /\ disk = NoWork

\* The runs come one after another.
Runs(l) == \A k \in Loops : k < l => pc[k] \in Ended
NextRoundAlways(l) == "plan"
NextRound(l) == IF round[l] = given[l].max_actions THEN "max_actions_reached" ELSE "plan"

-----------------------------------------------------------------------------
\* _planning_constraints: the retriever and the memories of the run's namespace.
Plan(l) ==
  /\ Runs(l) /\ pc[l] = "plan"
  /\ round' = [round EXCEPT ![l] = @ + 1]
  /\ \E C \in Contexts(given[l].ns) : context' = [context EXCEPT ![l] = C]
  /\ pc' = [pc EXCEPT ![l] = "decide"]
  /\ UNCHANGED <<memory, given, history, unresolved, action, abandoned, disk>>

\* The model's answer is no action (ValueError, TypeError, JSONDecodeError).
PlannerErrs(l) ==
  LET r == Record("action-planner", round[l], round[l], "none", "rejected", {}, NoWork) IN
  /\ pc[l] = "decide"
  /\ history' = [history EXCEPT ![l] = Append(@, r)]
  /\ unresolved' = [unresolved EXCEPT ![l] = IF @ = NoEvent THEN r.event ELSE @]
  /\ pc' = [pc EXCEPT ![l] = NextRound(l)]
  /\ context' = [context EXCEPT ![l] = {}]
  /\ UNCHANGED <<memory, given, round, action, abandoned, disk>>

\* Any other exception of the model client leaves run.
PlannerRaises(l) ==
  /\ pc[l] = "decide"
  /\ pc' = [pc EXCEPT ![l] = "raised"]
  /\ context' = [context EXCEPT ![l] = {}]
  /\ UNCHANGED <<memory, given, round, history, unresolved, action, abandoned, disk>>

PlannerStops(l) ==
  /\ pc[l] = "decide"
  /\ pc' = [pc EXCEPT ![l] = "stopped"]
  /\ context' = [context EXCEPT ![l] = {}]
  /\ UNCHANGED <<memory, given, round, history, unresolved, action, abandoned, disk>>

\* The events a model may cite: none, what it was asked for, or one it makes up.
Citations(l) ==
  {{}} \cup {{unresolved[l]} \ {NoEvent}} \cup {{<<id, 0, "failed">>} : id \in ActionIds}

\* validate_agent_action: the tool is registered, its arguments fit its schema.
\* Only the last record is looked at.
AnswersLast(l, cites) ==
  LET h == history[l] IN
  (IF h = <<>> THEN FALSE ELSE Last(h).status = "failed") => Last(h).event \in cites
AnswersDebt(l, cites) == unresolved[l] = NoEvent \/ unresolved[l] \in cites

Propose(l) ==
  /\ pc[l] = "decide"
  /\ \E id \in ActionIds, tool \in Tools, cites \in Citations(l) :
       /\ AnswersDebt(l, cites)
       /\ action' = [action EXCEPT ![l] = [id |-> id, tool |-> tool, cites |-> cites]]
  /\ pc' = [pc EXCEPT ![l] = "tool"]
  /\ context' = [context EXCEPT ![l] = {}]
  /\ UNCHANGED <<memory, given, round, history, unresolved, abandoned, disk>>

\* A rejected action is recorded, here without what it cited, which nothing reads; it
\* leaves no debt and no memory.
Reject(l) ==
  /\ pc[l] = "decide"
  /\ \E id \in ActionIds :
       history' = [history EXCEPT ![l] =
                     Append(@, Record(id, 0, round[l], "none", "rejected", {}, NoWork))]
  /\ pc' = [pc EXCEPT ![l] = NextRound(l)]
  /\ context' = [context EXCEPT ![l] = {}]
  /\ UNCHANGED <<memory, given, round, unresolved, action, abandoned, disk>>

-----------------------------------------------------------------------------
\* The debt after an action has run.
SettledNever(l, r) == IF r.status = "failed" THEN r.event ELSE unresolved[l]
Settled(l, r) ==
  IF r.status = "failed" THEN r.event
  ELSE IF unresolved[l] \in r.cites THEN NoEvent ELSE unresolved[l]

Item(l, r) ==
  [id |-> <<given[l].session, round[l]>>, ns |-> given[l].ns, by |-> l, ref |-> r.event,
   valid |-> TRUE]

\* The record, the memory and the debt of an action; the memory's failure leaves run.
Observe(l, status, obs) ==
  LET a == action[l]
      r == Record(a.id, 0, round[l], a.tool, status, a.cites, obs) IN
  /\ history' = [history EXCEPT ![l] = Append(@, r)]
  /\ action' = [action EXCEPT ![l] = NoAction]
  /\ \/ /\ Write(Item(l, r))
        /\ unresolved' = [unresolved EXCEPT ![l] = Settled(l, r)]
        /\ pc' = [pc EXCEPT ![l] = NextRound(l)]
     \/ /\ pc' = [pc EXCEPT ![l] = "raised"]
        /\ UNCHANGED <<memory, unresolved>>
  /\ UNCHANGED <<given, round, context>>

\* run_training: writes the result files and reports them.
WrittenOnce(l) == IF disk = NoWork THEN <<l, round[l]>> ELSE disk
Written(l) == <<l, round[l]>>
Train(l) ==
  /\ pc[l] = "tool" /\ action[l].tool = "train"
  /\ disk' = Written(l)
  /\ Observe(l, "succeeded", <<l, round[l]>>)
  /\ UNCHANGED abandoned

\* verify_artifacts: reads whatever the result files hold.
Verify(l) ==
  /\ pc[l] = "tool" /\ action[l].tool = "verify" /\ disk # NoWork
  /\ Observe(l, "succeeded", disk)
  /\ UNCHANGED <<abandoned, disk>>

ToolFails(l) ==
  /\ pc[l] = "tool"
  /\ Observe(l, "failed", NoWork)
  /\ UNCHANGED <<abandoned, disk>>

\* asyncio.wait_for gives a tool up; the thread it runs in goes on.
TimesOut(l) ==
  /\ pc[l] = "tool" /\ action[l].tool = "train"
  /\ Observe(l, "failed", NoWork)
  /\ abandoned' = abandoned \cup {<<l, round[l]>>}
  /\ UNCHANGED disk

ThreadWrites ==
  /\ \E e \in abandoned : disk' = e /\ abandoned' = abandoned \ {e}
  /\ UNCHANGED <<memory, given, pc, round, history, unresolved, context, action>>

ThreadDies ==
  /\ \E e \in abandoned : abandoned' = abandoned \ {e}
  /\ UNCHANGED <<memory, given, pc, round, history, unresolved, context, action, disk>>

\* An operator withdraws a memory or a run's memories; building the
\* context and asking the model are one synchronous stretch of a run.
Operator ==
  /\ \A l \in Loops : pc[l] # "decide"
  /\ \/ \E id \in {r.item.id : r \in rows} : Invalidate(id)
     \/ \E s \in Sessions : DeleteRun(s)
  /\ UNCHANGED loopvars

Done == abandoned = {} /\ \A l \in Loops : pc[l] \in Ended
Finished == Done /\ UNCHANGED vars

Next ==
  \/ \E l \in Loops :
       \/ Plan(l) \/ PlannerErrs(l) \/ PlannerRaises(l) \/ PlannerStops(l)
       \/ Propose(l) \/ Reject(l)
       \/ Train(l) \/ Verify(l) \/ ToolFails(l) \/ TimesOut(l)
  \/ ThreadWrites \/ ThreadDies
  \/ Operator
  \/ Finished

Spec == Init /\ [][Next]_vars

-----------------------------------------------------------------------------
\* The benchmark's score of a run (score_agent_task).
ToolRecords(h) == {k \in DOMAIN h : Executed(h[k])}
FailuresOf(h) == {k \in DOMAIN h : Bad(h[k])}
\* failures: keyed by event id, the last record of an id stays.
Source(h, e) == LET K == {k \in FailuresOf(h) : h[k].event = e} IN
  IF K = {} THEN 0 ELSE Max(K)
\* A success that names an earlier event of any kind.
HasAnyCitation(h) == \E j \in DOMAIN h : h[j].status = "succeeded" /\ h[j].cites # {}
HasCausalRecovery(h) ==
  \E j \in DOMAIN h : /\ h[j].status = "succeeded"
                      /\ \E e \in h[j].cites : /\ Source(h, e) # 0
                                               /\ h[Source(h, e)].call # h[j].call
IsSubsequence(expected, h) ==
  \E f \in [DOMAIN expected -> ToolRecords(h)] :
     /\ \A i, j \in DOMAIN expected : i < j => f[i] < f[j]
     /\ \A i \in DOMAIN expected : h[f[i]].tool = expected[i]

\* The score of a case that asks for a training and its verification, in this
\* order, and, when its run began with a fault, for a recovery from it.
Required == <<"train", "verify">>
Passed(l) ==
  /\ pc[l] = "stopped"
  /\ IsSubsequence(Required, history[l])
  /\ (\E k \in FailuresOf(history[l]) : history[l][k].call = 0) => HasCausalRecovery(history[l])

-----------------------------------------------------------------------------
TypeOK ==
  /\ \A r \in rows : r.at \in Namespaces /\ r.born \in Nat \ {0}
  /\ \A r, q \in rows : /\ r.born = q.born => r = q
                        /\ (r.item.id = q.item.id /\ r.at = q.at) => r = q
  /\ \A id \in DOMAIN index : index[id] \in Namespaces
  /\ \A l \in Loops : /\ pc[l] \in {"plan", "decide", "tool"} \cup Ended
                      /\ round[l] \in 0..given[l].max_actions
                      /\ unresolved[l] # NoEvent => Source(history[l], unresolved[l]) # 0
                      /\ (pc[l] = "tool") = (action[l] # NoAction)
                      /\ Cardinality(context[l]) <= TopK
  /\ \A e \in abandoned \cup ({disk} \ {NoWork}) : e[1] \in Loops /\ e[2] \in 1..given[e[1]].max_actions

\* action_loop.py:128: between a failure, the model's next actions may be rejected,
\* but no tool runs again before an action that cites it: the first tool that runs
\* after a failed one (or after the fixture's failure) names its event.
FailureAnswered ==
  \A l \in Loops : \A i, j \in DOMAIN history[l] :
    LET h == history[l] IN
    (/\ i < j /\ Bad(h[i]) /\ (h[i].status = "rejected" => h[i].call = 0)
     /\ Executed(h[j])
     /\ \A k \in i + 1..j - 1 : ~Executed(h[k]))
    => h[i].event \in h[j].cites

\* action_loop.py:210: what is asked of the model is owed: the event's last record
\* was not followed by a success that cites it.
OwedOnce ==
  \A l \in Loops : (unresolved[l] # NoEvent /\ pc[l] # "raised") =>
    LET h == history[l] IN
    \A j \in Source(h, unresolved[l]) + 1..Len(h) :
       h[j].status = "succeeded" => unresolved[l] \notin h[j].cites

\* agent_benchmark.py:130: the benchmark credits a recovery exactly when a success
\* cites a failure of another planner call; one that did not exist yet when it was
\* cited is the only undeserved credit.
RecoveryExplained ==
  \A l \in Loops : LET h == history[l]
                       Cited(j, i) == h[j].status = "succeeded" /\ Bad(h[i]) /\ h[i].event \in h[j].cites
                       real == \E i, j \in DOMAIN h : i < j /\ Cited(j, i)
                       ahead == \E i, j \in DOMAIN h : i > j /\ Cited(j, i)
                   IN HasCausalRecovery(h) = (real \/ ahead)

\* agent_benchmark.py:25: a run that began with a fault and passes recovered from a
\* failure it had seen: the debt leaves no room for an undeserved credit, though the
\* tools a case requires may all have failed.
PassExplained ==
  \A l \in Loops : LET h == history[l] IN
    Passed(l) =>
      /\ \A k \in DOMAIN Required : \E j \in DOMAIN h : h[j].tool = Required[k] /\ Executed(h[j])
      /\ (\E k \in DOMAIN h : h[k].call = 0 /\ Bad(h[k])) =>
           \E i, j \in DOMAIN h : /\ i < j /\ Bad(h[i])
                                  /\ h[j].status = "succeeded" /\ h[i].event \in h[j].cites

\* tools.py:216: what is verified after a training is that
\* training, unless a training that timed out wrote its files in between.
VerifyExplained ==
  \A l \in Loops : \A i, j \in DOMAIN history[l] :
    LET h == history[l] IN
    (/\ i < j /\ h[i].tool = "train" /\ h[i].status = "succeeded"
     /\ h[j].tool = "verify" /\ h[j].status = "succeeded"
     /\ \A k \in i + 1..j - 1 : h[k].tool # "train")
    => \/ h[j].obs = h[i].obs
       \/ \E k \in DOMAIN history[h[j].obs[1]] :
            LET t == history[h[j].obs[1]][k] IN
            t.call = h[j].obs[2] /\ t.tool = "train" /\ t.status = "failed"

-----------------------------------------------------------------------------
\* Two runs of one session, or a run and an earlier process, write one id into
\* different namespaces.
Homes(s) == {given[l].ns : l \in {k \in Loops : given[k].session = s}}
              \cup {r.at : r \in {q \in OldRows : q.item.id[1] = s}}
Split(s) == \E a, b \in Homes(s) : a # b
ContextsOf(A(_, _)) ==
  \A l \in Loops : (pc[l] = "plan" /\ pc'[l] = "decide") => \A i \in context'[l] : A(l, i)

\* planner_context.py:39: a memory that was withdrawn reaches no planner, except
\* that the side index hides the copy of an id that two namespaces hold.
ContextValid ==
  [][LET Fresh(l, i) == Ident(i) \in withdrawn => (backend = "langgraph" /\ Split(i.id[1]))
     IN ContextsOf(Fresh)]_vars

\* langgraph_store.py:191: a planner sees memories of its own namespace only, except
\* that Postgres keeps a rewritten id under the namespace it was first written to.
ContextIsolated ==
  [][LET Own(l, i) == i.ns = given[l].ns \/ (backend = "postgres" /\ Split(i.id[1]))
     IN ContextsOf(Own)]_vars

\* planner_context.py:38: valid memories are withheld only when invalidated ones
\* fill the rows that are asked for.
CrowdingExplained ==
  [][\A l \in Loops : (pc[l] = "plan" /\ pc'[l] = "decide") =>
       LET here == {r \in rows : r.at = given[l].ns}
           valid == {r \in here : Valid(r)}
       IN \/ Cardinality(context'[l]) = TopK
          \/ Cardinality(context'[l]) = Cardinality(valid)
          \/ /\ Cardinality(here) > Window * TopK
             /\ Cardinality(here \ valid) > (Window - 1) * TopK]_vars

\* langgraph_store.py:138: a deleted run's memories are gone, except for the second
\* copy of an id that two namespaces held.
DeletedGone ==
  \A r \in rows : Ident(r.item) \in erased => (backend = "langgraph" /\ Split(r.item.id[1]))

\* action_loop.py:201: an action that ran is remembered, unless its run was deleted,
\* a later run of its session reached the same number, or the write itself failed.
EpisodeKept ==
  \A l \in Loops : \A k \in DOMAIN history[l] :
    LET r == history[l][k]
        id == <<given[l].session, r.call>> IN
    (r.call > 0 /\ Executed(r)) =>
      \/ \E q \in rows : q.item.id = id /\ q.item.by = l /\ q.item.ref = r.event
      \/ <<l, r.call>> \in erased
      \/ \E m \in Loops : /\ m > l
                          /\ given[m].session = given[l].session
                          /\ \E j \in DOMAIN history[m] :
                               history[m][j].call = r.call /\ Executed(history[m][j])
      \/ pc[l] = "raised" /\ k = Len(history[l])

\* action_loop.py:88: every step brings a run nearer to its end.
Rank(l) ==
  IF pc[l] \in Ended THEN 0
  ELSE 4 * (given[l].max_actions - round[l]) + (CASE pc[l] = "plan" -> 1 [] pc[l] = "decide" -> 4
                                           [] pc[l] = "tool" -> 3)
Left == Cardinality(UNION {{l} \X (1..Rank(l)) : l \in Loops}) + Cardinality(abandoned)
RunsEnd == [][loopvars' # loopvars => Left' \in 0..Left - 1]_vars

(* What a loop's history says: a failure is answered before another tool      *)
(* runs, only unpaid debts are owed, verification reads what the training     *)
(* before it wrote, and the benchmark credits recoveries that took place,     *)
(* but for the named exceptions.                                              *)
HistoryTrue ==
  /\ TypeOK
  /\ FailureAnswered
  /\ OwedOnce
  /\ VerifyExplained
  /\ RecoveryExplained
  /\ PassExplained

(* Memories of a deleted run are gone and those of an action that ran stay,   *)
(* but for the named exceptions.                                              *)
MemoryKept == DeletedGone /\ EpisodeKept

(* A planner's context holds valid memories of its own namespace, and misses  *)
(* some only where withdrawn ones crowd the window; but for the exceptions    *)
(* of the two backends.                                                       *)
ContextSound ==
  /\ ContextValid
  /\ ContextIsolated
  /\ CrowdingExplained

=============================================================================
