---------------------------- MODULE PlannerLoop ----------------------------
(***************************************************************************)
(* ExperimentPlannerLoop: rounds of plan, guard, execution and reflection, *)
(* in its two forms (run for the command line and the benchmark,           *)
(* run_streaming for the browser), over the model client, with the         *)
(* artifacts it leaves and the result a benchmark case reports.            *)
(***************************************************************************)
EXTENDS LLMClient, LoopMetrics

CONSTANTS
  Plans,          \* plans the model may return, [stop, exps |-> seq of [id, ov]]
  ValidOverrides, \* the overrides validate_planned_overrides lets through
  Trainings,      \* how a training may end, [ran, metric, psd]
  LongestPlan,    \* bound: experiments in one plan
  MaxRounds, MaxExperiments, PlannerRetries

Experiments == UNION {{p.exps[k] : k \in DOMAIN p.exps} : p \in Plans}

ASSUME LoopAssumption ==
  /\ MaxRounds \in Nat \ {0} /\ MaxExperiments \in Nat /\ PlannerRetries \in Nat
  /\ LongestPlan \in Nat
  /\ \A p \in Plans :
       p.stop \in BOOLEAN /\ p.exps \in Seq(Experiments) /\ Len(p.exps) <= LongestPlan
  /\ \A t \in Trainings :
       /\ t.ran \in BOOLEAN /\ t.psd \in BOOLEAN /\ t.metric \in Int
       /\ t.metric < Infinity \/ t.metric \in {NoMetric, NotANumber}

VARIABLES
  mode,     \* "run" or "streaming"
  pc,
  round,
  todo,     \* experiments of the plan still to take
  executed, \* executed_experiments
  history,
  records,  \* round_records, as the positions they have in history
  caused,   \* caused_by_event_ids of this round: the first
  retried,  \* retried_this_round
  retries,  \* plan calls the recovery still has
  answered, \* the rejection being recovered from, as a position; 0 when none
  retry,    \* the experiment the recovery found
  prompt,   \* positions whose failure the last prompt shows
  disk,     \* rounds whose plans and reflections this run wrote; result.json
  reported  \* what the caller of the loop is given

vars == <<clientVars, mode, pc, round, todo, executed, history, records, caused,
          retried, retries, answered, retry, prompt, disk, reported>>
loopVars == <<todo, executed, history, records, caused, retried, retries, answered, retry>>

None == [id |-> "", ov |-> ""]
NoResult == [status |-> "none", history |-> <<>>, tokens |-> 0]

\* A benchmark case always writes to the same directory: a result may be there.
Earlier == [NoResult EXCEPT !.status = "earlier"]

Init ==
  /\ ClientInit
  /\ mode \in {"run", "streaming"}
  /\ pc = "round" /\ round = 0
  /\ todo = <<>> /\ executed = 0 /\ history = <<>> /\ records = {} /\ caused = NoEvent
  /\ retried = FALSE /\ retries = 0 /\ answered = 0 /\ retry = None
  /\ prompt = {}
  /\ disk = [plans |-> {}, reflections |-> {}, result |-> Earlier]
  /\ reported = NoResult

\* _build_loop_result and write_result, and the caller's return value.
Save(status) ==
  LET result == [status |-> status, history |-> history, tokens |-> counted]
  IN  /\ pc' = "done"
      /\ disk' = [disk EXCEPT !.result = result]
      /\ reported' = result

-----------------------------------------------------------------------------
(* A round's plan *)

\* Mutant: one round too many.
StartRoundAgain ==
  /\ pc = "round" /\ round <= MaxRounds
  /\ round' = round + 1
  /\ records' = {} /\ retried' = FALSE
  /\ caused' = FirstFailure(history)
  /\ prompt' = Visible(history)
  /\ pc' = "planning"
  /\ StartCall
  /\ UNCHANGED <<mode, todo, executed, history, retries, answered, retry, disk, reported>>

StartRound ==
  /\ pc = "round" /\ round < MaxRounds
  /\ round' = round + 1
  /\ records' = {} /\ retried' = FALSE
  /\ caused' = FirstFailure(history)
  /\ prompt' = Visible(history)
  /\ pc' = "planning"
  /\ StartCall
  /\ UNCHANGED <<mode, todo, executed, history, retries, answered, retry, disk, reported>>

FinishRounds ==
  /\ pc = "round" /\ round = MaxRounds
  /\ Save("max_rounds_reached")
  /\ UNCHANGED <<clientVars, mode, round, loopVars, prompt>>

PlanArrives ==
  /\ pc = "planning" /\ call = "ok"
  /\ EndCall
  /\ \E p \in Plans :
       LET d == [disk EXCEPT !.plans = @ \cup {round}]
       IN IF p.stop /\ p.exps = <<>>
          THEN LET result == [status |-> "stopped", history |-> history, tokens |-> counted]
               IN  /\ disk' = [d EXCEPT !.result = result] /\ reported' = result
                   /\ pc' = "done" /\ todo' = <<>>
          ELSE /\ disk' = d /\ todo' = p.exps /\ pc' = "experiments"
               /\ UNCHANGED reported
  /\ UNCHANGED <<mode, round, executed, history, records, caused, retried, retries,
                 answered, retry, prompt>>

\* The exception leaves run(): no result file, and execute_case reports an
\* empty history.
Raise ==
  /\ pc' = "raised" /\ disk' = disk
  /\ reported' = [status |-> "planner_error", history |-> <<>>, tokens |-> counted]

\* The client gives up, or its reply is not a plan (_parse_plan raises).
PlanFails ==
  /\ pc = "planning" /\ call \in {"ok", "raised"}
  /\ EndCall
  /\ IF mode = "streaming" THEN Save("planner_error") ELSE Raise
  /\ UNCHANGED <<mode, round, loopVars, prompt>>

-----------------------------------------------------------------------------
(* The experiments of the plan *)

Valid(e) == e.ov \in ValidOverrides
Append1(r) == history' = Append(history, r) /\ records' = records \cup {Len(history) + 1}

QuotaReached ==
  /\ pc = "experiments" /\ todo # <<>> /\ executed >= MaxExperiments
  /\ Save("max_experiments_reached")
  /\ UNCHANGED <<clientVars, mode, round, loopVars, prompt>>

RejectOne(e) == Append1(Record(e.id, "rejected", round, TRUE, e.ov, NoMetric, caused))

\* The guard refuses: a record, and in run() one recovery a round.
Reject ==
  /\ pc = "experiments" /\ todo # <<>> /\ executed < MaxExperiments /\ ~Valid(Head(todo))
  /\ RejectOne(Head(todo))
  /\ todo' = Tail(todo)
  /\ IF mode = "run" /\ ~retried
     THEN /\ retried' = TRUE
          /\ IF PlannerRetries > 0
             THEN /\ pc' = "recovering" /\ retries' = PlannerRetries
                  /\ answered' = Len(history')
                  /\ prompt' = Visible(history')
                  /\ StartCall
             ELSE UNCHANGED <<pc, retries, answered, prompt, clientVars>>
     ELSE UNCHANGED <<retried, pc, retries, answered, prompt, clientVars>>
  /\ UNCHANGED <<mode, round, executed, caused, retry, disk, reported>>

\* Mutant: the recovery executes whatever the quota says.
ExecuteAnyway(e, caused2, t) ==
  LET out == ToolChain(t)
  IN  /\ Append1(Record(e.id, out.status, round, TRUE, e.ov, out.metric, caused2))
      /\ executed' = executed

\* _run_experiment, or its copy in run_streaming
ExecuteOne(e, caused2, t) ==
  LET out == ToolChain(t)
  IN  /\ Append1(Record(e.id, out.status, round, TRUE, e.ov, out.metric, caused2))
      /\ executed' = executed + 1

Execute ==
  /\ pc = "experiments" /\ todo # <<>> /\ executed < MaxExperiments /\ Valid(Head(todo))
  /\ \E t \in Trainings : ExecuteOne(Head(todo), caused, t)
  /\ todo' = Tail(todo)
  /\ UNCHANGED <<clientVars, mode, pc, round, caused, retried, retries, answered, retry,
                 prompt, disk, reported>>

-----------------------------------------------------------------------------
(* _recover_from_rejection *)

Quiet(e) == Record(e.id, "rejected", 0, FALSE, "", NoMetric, NoEvent)

\* Mutant: the attempts are not counted.
RetryLeftForever == retries

RetryLeft == retries - 1

\* A retry plan: its rejected experiments go into the history without an
\* event, its first valid one is executed; without one the next attempt.
RetryArrives ==
  /\ pc = "recovering" /\ call = "ok"
  /\ \E p \in Plans :
       LET good == {k \in DOMAIN p.exps : Valid(p.exps[k])}
           bad == IF good = {} THEN p.exps ELSE SubSeq(p.exps, 1, Min(good) - 1)
       IN  /\ history' = history \o [k \in DOMAIN bad |-> Quiet(bad[k])]
           /\ IF good # {}
              THEN /\ retry' = p.exps[Min(good)] /\ pc' = "retrying" /\ EndCall
                   /\ UNCHANGED <<retries, answered, prompt>>
              ELSE IF RetryLeft > 0
              THEN /\ retries' = RetryLeft /\ prompt' = Visible(history') /\ StartCall
                   /\ UNCHANGED <<retry, pc, answered>>
              ELSE /\ retries' = RetryLeft /\ pc' = "experiments" /\ answered' = 0 /\ EndCall
                   /\ UNCHANGED <<retry, prompt>>
  /\ UNCHANGED <<mode, round, todo, executed, records, caused, retried, disk, reported>>

RetryFails ==
  /\ pc = "recovering" /\ call \in {"ok", "raised"}
  /\ EndCall
  /\ Raise
  /\ UNCHANGED <<mode, round, loopVars, prompt>>

ExecuteRetry ==
  /\ pc = "retrying"
  /\ \E t \in Trainings : ExecuteOne(retry, FirstFailure(history), t)
  /\ pc' = "experiments" /\ retry' = None /\ answered' = 0
  /\ UNCHANGED <<clientVars, mode, round, todo, caused, retried, retries, prompt, disk, reported>>

-----------------------------------------------------------------------------
(* The end of a round, and the browser that leaves *)

\* Mutant: a round whose experiments were all rejected is not reflected on.
EndRoundExecutedOnly ==
  /\ pc = "experiments" /\ todo = <<>>
  /\ IF \E k \in records : history[k].status # "rejected"
     THEN /\ history' = Append(history, Reflection(history, records, round))
          /\ disk' = [disk EXCEPT !.reflections = @ \cup {round}]
     ELSE UNCHANGED <<history, disk>>
  /\ pc' = "round"
  /\ UNCHANGED <<clientVars, mode, round, todo, executed, records, caused, retried, retries,
                 answered, retry, prompt, reported>>

EndRound ==
  /\ pc = "experiments" /\ todo = <<>>
  /\ IF records # {}
     THEN /\ history' = Append(history, Reflection(history, records, round))
          /\ disk' = [disk EXCEPT !.reflections = @ \cup {round}]
     ELSE UNCHANGED <<history, disk>>
  /\ pc' = "round"
  /\ UNCHANGED <<clientVars, mode, round, todo, executed, records, caused, retried, retries,
                 answered, retry, prompt, reported>>

\* The response is closed, or a cancel found, while run_streaming is suspended
\* at a yield.
Leave ==
  /\ mode = "streaming" /\ pc \in {"round", "experiments"}
  /\ pc' = "left"
  /\ UNCHANGED <<clientVars, mode, round, loopVars, prompt, disk, reported>>

Ended == pc \in {"done", "raised", "left"}
Finished == Ended /\ UNCHANGED vars

ClientRuns ==
  /\ ClientStep
  /\ UNCHANGED <<mode, pc, round, loopVars, prompt, disk, reported>>

Next ==
  \/ StartRound \/ FinishRounds \/ PlanArrives \/ PlanFails
  \/ QuotaReached \/ Reject \/ Execute
  \/ RetryArrives \/ RetryFails \/ ExecuteRetry
  \/ EndRound \/ Leave \/ Finished
  \/ ClientRuns

Spec == Init /\ [][Next]_vars

-----------------------------------------------------------------------------
(* Properties *)

\* The types of the loop's state.
TypeOK ==
  /\ ClientTypeOK
  /\ mode \in {"run", "streaming"}
  /\ pc \in {"round", "planning", "experiments", "recovering", "retrying",
            "done", "raised", "left"}
  /\ round \in 0..MaxRounds /\ executed \in 0..MaxExperiments
  /\ retries \in 0..PlannerRetries /\ answered \in 0..Len(history)
  /\ retried \in BOOLEAN
  /\ disk.plans \cup disk.reflections \subseteq 1..MaxRounds
  /\ prompt \subseteq DOMAIN history

\* Positions of this run's rounds: the experiments of round r with an event.
OfRound(r) == {k \in DOMAIN history : history[k].round = r /\ history[k].event}

\* However rejections, recoveries and rounds interleave, the loop never
\* executes more experiments than max_experiments, and the number a benchmark
\* later counts in the history (experiments_used) is the number executed.
QuotaHolds ==
  /\ executed <= MaxExperiments
  /\ executed = Summary(history).used

\* "plan-run-observe": the prompt of a round puts every failure of the round
\* before into words, however small the window of the compressor is; the
\* rejections inside a recovery are the only ones it may leave out.
LastRoundShown ==
  pc = "planning" => {k \in OfRound(round - 1) : Fails(history[k])} \subseteq prompt

\* _recover_from_rejection plans again "with the error feedback": the prompt
\* shows the rejection it is to answer, unless an earlier attempt of the same
\* recovery pushed it out of the window and older errors took the summary's
\* places.
RejectionShown ==
  pc = "recovering" =>
    \/ answered \in prompt
    \/ /\ retries < PlannerRetries
       /\ Len(history) - answered >= RecentWindow
       /\ Cardinality({k \in 1..answered - 1 : Fails(history[k])}) >= MaxNotable

\* The experiment a reflection and a benchmark call best is not beaten by
\* another they looked at, except that an experiment of exactly 0 dB counts as
\* the worst of its round, and that a first metric which is not a number is
\* never replaced.
BestExplained ==
  /\ \A p \in DOMAIN history :
       LET b == history[p].best
           metrics == {history[k].metric : k \in OfRound(history[p].round)} \ {NoMetric}
       IN  history[p].status = "reflection" =>
             /\ (b = 0) = (metrics = {})
             /\ b # 0 => \/ history[b].metric = NotANumber
                         \/ \A m \in metrics : m = 0 \/ ~Below(m, history[b].metric)
                         \/ history[b].metric = 0 /\ metrics \subseteq {0, NotANumber}
  /\ LET b == Summary(history).best
     IN  b # 0 => \A k \in DOMAIN history :
                    history[k].metric # NoMetric =>
                      \/ history[b].metric = NotANumber
                      \/ ~Below(history[k].metric, history[b].metric)

\* What a benchmark case reports: it is a hit iff an experiment reached the
\* target, unless the first metric was not a number or an exception of the
\* planner erased the history; and a hit without a success is an experiment
\* whose artifacts failed verification.
HitExplained ==
  LET h == reported.history
      reached == {k \in DOMAIN history : history[k].metric <= Threshold}
  IN  Ended /\ pc # "left" =>
        /\ (reached # {} /\ ~Summary(h).hit) =>
             \/ pc = "raised" /\ h = <<>>
             \/ history[Min(Measured(history))].metric = NotANumber
        /\ Summary(h).hit =>
             \E k \in reached : history[k].status = "succeeded"
                               \/ \E t \in Trainings : t.metric = history[k].metric /\ ~t.psd
        /\ \A k \in DOMAIN h :
             h[k].status = "succeeded" => h[k].metric <= Threshold \/ h[k].metric = NotANumber

\* A counted correction follows a failure of an earlier round with other
\* overrides; a later success that is not counted repeats overrides that had
\* failed.  A success within the round of the failure it answers, the
\* recoveries included, is not counted.
CorrectionsExplained ==
  \A k \in DOMAIN history :
    LET before == {j \in 1..k - 1 : /\ Fails(history[j]) /\ history[j].event
                                    /\ history[j].round < history[k].round}
    IN  history[k].status = "succeeded" =>
          /\ k \in Successes(history) => \E j \in before : history[j].ov # history[k].ov
          /\ before # {} /\ k \notin Successes(history) =>
               \E j \in before : history[j].ov = history[k].ov

\* The run directory: the result is this run's whenever the loop returned
\* one, and it holds the whole history; without one, run() raised or the
\* browser left, and the result there is that of an earlier run.  A round whose
\* plan was written and whose experiments were handled has its reflection,
\* unless it is the last one.
DiskExplained ==
  /\ pc = "done" => disk.result = reported /\ reported.history = history
  /\ pc \in {"raised", "left"} =>
       /\ disk.result = Earlier
       /\ mode = IF pc = "raised" THEN "run" ELSE "streaming"
  /\ \A r \in 1..round - 1 :
       /\ r \in disk.plans
       /\ OfRound(r) # {} => \E k \in DOMAIN history :
                               history[k].status = "reflection" /\ history[k].round = r
       /\ OfRound(r) # {} => r \in disk.reflections

\* The tokens of the result are those of every reply the provider charged for,
\* but for requests the watchdog had given up, requests that broke off and were
\* tried again, replies that named no usage, and a last reply that was unusable.
TokensExplained ==
  /\ counted <= billed
  /\ Ended /\ pc # "left" =>
       /\ reported.tokens = counted
       /\ billed - counted <=
            hangs + lost + (IF reported.status = "planner_error" THEN 1 ELSE 0)

\* The loop comes to an end: every step uses up a part of a bounded measure,
\* the tries of the client and the plan calls of a recovery included.
CallSteps == MaxRetries + 2
ExperimentSteps == 3 + (PlannerRetries + 1) * CallSteps
RoundSteps == 2 + CallSteps + ExperimentSteps * LongestPlan
StageSteps ==
  CASE pc = "round" -> 1
    [] pc = "planning" -> 2 + ExperimentSteps * LongestPlan
    [] pc = "experiments" -> 2
    [] pc = "recovering" -> 3 + retries * CallSteps
    [] pc = "retrying" -> 3
    [] OTHER -> 0
Left ==
  RoundSteps * (MaxRounds - round) + StageSteps + ExperimentSteps * Len(todo) + ClientLeft
LoopEnds == [][Left' \in 0..(Left - 1)]_vars

(* The planner is told the failures of the round before and the rejection it  *)
(* is to correct (HistoryCompressor, _recover_from_rejection).                *)
PromptsTell == LastRoundShown /\ RejectionShown

(* What the result of a loop calls its best experiment, a hit or a causal     *)
(* correction is one and the run directory holds that result, but for the     *)
(* named exceptions (benchmark.py, reflection.py, run_artifacts.py).          *)
ResultExplained ==
  /\ BestExplained
  /\ HitExplained
  /\ CorrectionsExplained
  /\ DiskExplained

(* Experiments keep to their quota, tokens are counted and the sockets of     *)
(* requests that hang are closed, but for the named exceptions.               *)
SpendingExplained ==
  /\ TypeOK
  /\ QuotaHolds
  /\ TokensExplained
  /\ HungSocketsClosed

=============================================================================
