----------------------------- MODULE CompareRun -----------------------------
(***************************************************************************)
(* Strategy comparisons (run_compare_protocol, stream_compare_events):     *)
(* each gives every method and seed the same number of trials, one after   *)
(* the other.  Several comparisons of one server or workspace run at the   *)
(* same time: a trial's files are named after its method, seed and number, *)
(* and the synthetic domain keeps its fitted model in one global, so they  *)
(* share both.  A tool that is given up, because its client left or it     *)
(* took too long, runs on in its thread, and other runs of the process fit *)
(* synthetic models too.                                                   *)
(***************************************************************************)
EXTENDS SearchStrategies

CONSTANTS
  Runs,           \* the comparisons
  Protocols,      \* what is compared: [Runs -> [methods, in order, one seed; budget]]
  AttemptFactor,  \* attempts per trial of the budget (5)
  Score,          \* the metric of each candidate's model, or NoMetric: it crashes
  Unbuildable,    \* accepted candidates whose run specification raises
  Unplotted,      \* candidates whose training leaves no figure
  Threshold,      \* the metric's threshold in the domain's constraints
  OtherModels,    \* the candidates that other runs of the process fit
  MaxLate         \* bound: tools given up that still run

ASSUME CompareAssumption ==
  /\ AttemptFactor \in Nat \ {0}
  /\ \A p \in Protocols, r \in Runs :
       /\ p[r].budget \in Nat \ {0}
       /\ p[r].methods \in Seq(Strategies) /\ p[r].methods # <<>>
  /\ Threshold \in Int /\ Score \in [Accepted -> Int] /\ Unplotted \subseteq Accepted
  /\ OtherModels \subseteq Accepted /\ MaxLate \in Nat

VARIABLES
  protocol, \* protocol[r]: the EvaluationProtocol of comparison r
  domain,   \* "nonlinear" (files per session) or "synthetic" (one global model)
  configs,  \* configs[p]: the candidate in the configuration file of place p
  models,   \* models[p]: the candidate whose training last wrote into place p
  run,      \* run[r]: the comparison r
  late      \* the tools given up that will still write a model

vars == <<protocol, domain, configs, models, run, late>>

Methods(r) == protocol[r].methods
Budget(r) == protocol[r].budget
Method(r) == Methods(r)[run[r].task]
History(r) == run[r].rows[run[r].task]
Executing == {"configure", "train", "training", "verify", "fit", "evaluate"}
Working == {"train", "training", "verify", "evaluate"}

\* Where a trial keeps its files: its session, or the process.
Place(r) == IF domain = "synthetic" THEN <<"global">>
            ELSE <<"cmp", Method(r), run[r].effective>>
Places == {<<"global">>} \cup
  UNION {{<<"cmp", Methods(r)[k], n>> : k \in DOMAIN Methods(r), n \in 0..Budget(r) - 1} : r \in Runs}

Fresh(r) ==
  [pc |-> "suggest", task |-> 1, strat |-> NewStrategy,
   rows |-> [k \in DOMAIN Methods(r) |-> <<>>], effective |-> 0, attempts |-> 0,
   cand |-> Empty, how |-> "none", answered |-> 0, trained |-> Empty, metric |-> NoMetric,
   shared |-> FALSE]
Gone(r) == [Fresh(r) EXCEPT !.pc = "left"]

Init ==
  /\ protocol \in Protocols
  /\ domain \in {"nonlinear", "synthetic"}
  /\ configs = [p \in Places |-> Empty]
  /\ models = [p \in Places |-> Empty]
  /\ run = [r \in Runs |-> Fresh(r)]
  /\ late = {}

-----------------------------------------------------------------------------
(* Trials *)

\* Mutant: a rejected candidate counts as a trial.
CountedAlways(effective, executed) == effective + 1

Counted(effective, executed) == IF executed THEN effective + 1 ELSE effective

\* Mutant: only rejected proposals are counted as attempts.
AttemptedIfRejected(attempts, executed) == IF executed THEN attempts ELSE attempts + 1

Attempted(attempts, executed) == attempts + 1

\* run_id: executed trials are numbered by attempt, rejected ones by trial.
RowId(r, executed) == IF executed THEN run[r].attempts ELSE run[r].effective

\* Mutant: the metrics of a trial are not cleared for the next one.
WithRowKeepsMetrics(r, me, executed, row) ==
  \E s \in Observes(Method(r), domain, me.strat, row) :
    run' = [run EXCEPT ![r] =
      [me EXCEPT !.pc = "suggest", !.strat = s, !.rows[me.task] = Append(@, row),
                 !.effective = Counted(@, executed), !.attempts = Attempted(@, executed), !.shared = FALSE]]

\* The comparison r with one more row, the strategy told of it.
WithRow(r, me, executed, row) ==
  \E s \in Observes(Method(r), domain, me.strat, row) :
    run' = [run EXCEPT ![r] =
      [me EXCEPT !.pc = "suggest", !.strat = s, !.rows[me.task] = Append(@, row),
                 !.effective = Counted(@, executed), !.attempts = Attempted(@, executed),
                 !.metric = NoMetric, !.trained = Empty, !.shared = FALSE]]

NewRow(r, me, executed) ==
  [id |-> RowId(r, executed), cand |-> me.cand, how |-> me.how,
   rejected |-> FALSE, failed |-> FALSE, metric |-> NoMetric, hit |-> FALSE,
   hash |-> me.cand, shared |-> me.shared, answered |-> me.answered]

\* Mutant: one attempt too many.
MoreTrialsOneMore(r) ==
  /\ run[r].effective < Budget(r)
  /\ run[r].attempts <= AttemptFactor * Budget(r)

\* The budget still asks for trials and attempts are left.
MoreTrials(r) ==
  /\ run[r].effective < Budget(r)
  /\ run[r].attempts < AttemptFactor * Budget(r)

\* build_harness_steps
FirstStep == IF domain = "synthetic" THEN "fit" ELSE "configure"

\* A candidate is proposed; the guard rejects it, its specification cannot be
\* built (which counts as a trial), or its tools are started.
Suggest(r) ==
  /\ run[r].pc = "suggest" /\ MoreTrials(r)
  /\ \E g \in Suggests(Method(r), domain, run[r].strat, History(r)) :
       LET me == [run[r] EXCEPT !.cand = g.cand, !.how = g.how, !.strat = g.strat,
                                !.answered = g.answered]
       IN  \/ /\ g.cand \notin Accepted
              /\ WithRow(r, me, FALSE, [NewRow(r, me, FALSE) EXCEPT !.rejected = TRUE])
           \/ /\ g.cand \in Accepted \cap Unbuildable
              /\ WithRow(r, me, TRUE, [NewRow(r, me, TRUE) EXCEPT !.rejected = TRUE, !.failed = TRUE])
           \/ /\ g.cand \in Accepted \ Unbuildable
              /\ run' = [run EXCEPT ![r] =
                   [me EXCEPT !.pc = FirstStep]]
  /\ UNCHANGED <<protocol, domain, configs, models, late>>

\* Other comparisons with a trial at work in r's place.
Neighbours(r) == {q \in Runs \ {r} : run[q].pc \in Working /\ Place(q) = Place(r)}

\* r starts to work in its place: trials that overlap are marked.
Marked(r, me) ==
  [q \in Runs |-> CASE q = r -> [me EXCEPT !.shared = Neighbours(r) # {}]
                    [] q \in Neighbours(r) -> [run[q] EXCEPT !.shared = TRUE]
                    [] OTHER -> run[q]]

\* generate_config writes the trial's configuration.
Configure(r) ==
  /\ run[r].pc = "configure"
  /\ configs' = [configs EXCEPT ![Place(r)] = run[r].cand]
  /\ run' = Marked(r, [run[r] EXCEPT !.pc = "train"])
  /\ UNCHANGED <<protocol, domain, models, late>>

\* run_training: the subprocess reads the configuration ...
StartTraining(r) ==
  /\ run[r].pc = "train"
  /\ run' = [run EXCEPT ![r].pc = "training", ![r].trained = configs[Place(r)]]
  /\ UNCHANGED <<protocol, domain, configs, models, late>>

\* A trial whose tool chain ended: the metric last reported stands.
Record(r, me, failed) ==
  WithRow(r, me, TRUE,
    [NewRow(r, me, TRUE) EXCEPT
       !.failed = failed, !.metric = me.metric,
       !.hit = me.metric \notin {NoMetric, NotANumber} /\ me.metric <= Threshold,
       !.hash = IF domain = "synthetic" THEN me.cand ELSE configs[Place(r)]])

\* ... and crashes, or writes its metrics, which are reported at once.
EndTraining(r) ==
  /\ run[r].pc = "training"
  /\ LET c == run[r].trained
     IN  IF Score[c] = NoMetric
         THEN Record(r, run[r], TRUE) /\ UNCHANGED models
         ELSE /\ models' = [models EXCEPT ![Place(r)] = c]
              /\ run' = [run EXCEPT ![r].pc = "verify", ![r].metric = Score[c]]
  /\ UNCHANGED <<protocol, domain, configs, late>>

\* verify_artifacts reads the metrics back; a missed threshold is no failure.
Verify(r) ==
  /\ run[r].pc = "verify"
  /\ LET c == models[Place(r)]
     IN  IF c \in Unplotted THEN Record(r, run[r], TRUE)
         ELSE Record(r, [run[r] EXCEPT !.metric = Score[c]], FALSE)
  /\ UNCHANGED <<protocol, domain, configs, models, late>>

\* fit_candidate leaves its model in the process-wide dictionary, or raises.
Fit(r) ==
  /\ run[r].pc = "fit"
  /\ IF Score[run[r].cand] = NoMetric
     THEN Record(r, run[r], TRUE) /\ UNCHANGED models
     ELSE /\ models' = [models EXCEPT ![Place(r)] = run[r].cand]
          /\ run' = Marked(r, [run[r] EXCEPT !.pc = "evaluate"])
  /\ UNCHANGED <<protocol, domain, configs, late>>

\* evaluate_candidate takes the model that is there.
Evaluate(r) ==
  /\ run[r].pc = "evaluate"
  /\ Record(r, [run[r] EXCEPT !.metric = Score[models[Place(r)]]], FALSE)
  /\ UNCHANGED <<protocol, domain, configs, models, late>>

-----------------------------------------------------------------------------
(* Ends *)

\* The next method and seed start with a new strategy and an empty history, or
\* the rows and their summary are written.
EndTask(r) ==
  /\ run[r].pc = "suggest" /\ ~MoreTrials(r)
  /\ run' = [run EXCEPT ![r] =
       IF run[r].task = Len(Methods(r)) THEN [run[r] EXCEPT !.pc = "done"]
       ELSE [run[r] EXCEPT !.task = run[r].task + 1, !.strat = NewStrategy,
                           !.effective = 0, !.attempts = 0]]
  /\ UNCHANGED <<protocol, domain, configs, models, late>>

\* The thread that runs comparison r's fit or training.
Thread(r) ==
  [by |-> r, task |-> run[r].task, attempt |-> run[r].attempts, place |-> Place(r),
   cand |-> IF domain = "synthetic" THEN run[r].cand ELSE run[r].trained]

\* wait_for and a client that leaves give the tool up, which goes on in its
\* thread; one that will raise writes nothing.
GivenUp(r) ==
  /\ run[r].pc \in {"fit", "training"} /\ Score[Thread(r).cand] # NoMetric
  /\ Cardinality(late) < MaxLate
  /\ late' = late \cup {Thread(r)}

\* A fit exceeds its time, which is a failed trial.  A training cannot: its
\* subprocess is killed before, and has then no metric.
FitTimesOut(r) ==
  /\ run[r].pc = "fit"
  /\ GivenUp(r) /\ Record(r, run[r], TRUE)
  /\ UNCHANGED <<protocol, domain, configs, models>>

\* The client leaves: the rows are lost.
Leave(r) ==
  /\ run[r].pc \in Executing
  /\ run' = [run EXCEPT ![r] = Gone(r)]
  /\ late' = late \/ GivenUp(r)
  /\ UNCHANGED <<protocol, domain, configs, models>>

\* Somebody else than its trials writes a model into place p; they are marked.
Intrude(p, c) ==
  /\ models' = [models EXCEPT ![p] = c]
  /\ run' = [q \in Runs |-> IF run[q].pc \in Working /\ Place(q) = p
                            THEN [run[q] EXCEPT !.shared = TRUE] ELSE run[q]]
  /\ UNCHANGED <<protocol, domain, configs>>

\* A tool that was given up ends.
LateEnd(t) ==
  /\ Intrude(t.place, t.cand)
  /\ late' = late \ {t}

\* A run that is no comparison fits a model (server.py:1187); between a fit and
\* its evaluation, for otherwise nobody reads it.
OtherFit(c) ==
  /\ domain = "synthetic" /\ Score[c] # NoMetric
  /\ \E r \in Runs : run[r].pc = "evaluate"
  /\ Intrude(<<"global">>, c)
  /\ UNCHANGED late

Elsewhere == (\E t \in late : LateEnd(t)) \/ (\E c \in OtherModels : OtherFit(c))

Ended(r) == run[r].pc \in {"done", "left"}
Finished == (\A r \in Runs : Ended(r)) /\ UNCHANGED vars

Next ==
  \/ \E r \in Runs :
       \/ Suggest(r) \/ Configure(r) \/ StartTraining(r) \/ EndTraining(r) \/ Verify(r)
       \/ Fit(r) \/ Evaluate(r) \/ EndTask(r) \/ Leave(r) \/ FitTimesOut(r)
  \/ Elsewhere
  \/ Finished

Spec == Init /\ [][Next]_vars

-----------------------------------------------------------------------------
(* Properties *)

\* Every variable keeps its type, and the counters stay within their bounds.
TypeOK ==
  /\ protocol \in Protocols
  /\ domain \in {"nonlinear", "synthetic"}
  /\ configs \in [Places -> Candidates] /\ models \in [Places -> Candidates]
  /\ \A r \in Runs :
       LET me == run[r]
       IN  /\ me.pc \in Executing \cup {"suggest", "done", "left"}
           /\ me.task \in DOMAIN Methods(r)
           /\ me.effective \in 0..Budget(r) /\ me.effective <= me.attempts
           /\ me.attempts <= AttemptFactor * Budget(r)
           /\ Len(History(r)) = me.attempts
           /\ me.cand \in Candidates /\ me.trained \in Candidates
           /\ me.strat.types \subseteq Types /\ me.strat.seen \subseteq Candidates
  /\ \A t \in late : t.by \in Runs /\ t.place \in Places /\ t.cand \in Accepted

\* Every method gets its whole trial budget, as "fair comparison" promises: a
\* method that is over has as many trials as its budget, unless its rejected
\* proposals have used up the attempts (compare_runner.py:438).
BudgetIsFair ==
  \A r \in Runs : \A k \in DOMAIN Methods(r) :
    (run[r].pc = "done" \/ run[r].task > k) =>
      LET own == run[r].rows[k]
          trials == {j \in DOMAIN own : ~own[j].rejected \/ own[j].failed}
      IN  Cardinality(trials) = Budget(r) \/ Len(own) = AttemptFactor * Budget(r)

\* A run_id names one executed trial: two rows of a method and seed carry the
\* same id only if one of them was never executed, because rejected rows are
\* numbered by trial and executed ones by attempt (compare_runner.py:447).
RunIdsExplained ==
  \A r \in Runs : \A k \in DOMAIN Methods(r) : \A i, j \in DOMAIN run[r].rows[k] :
    LET v == run[r].rows[k][i]
        w == run[r].rows[k][j]
    IN  (i < j /\ v.id = w.id) =>
          (v.rejected /\ ~v.failed) \/ (w.rejected /\ ~w.failed)

\* The metric and the configuration hash of a row belong to its candidate,
\* unless meanwhile another comparison's trial was at work in the same place, a
\* tool that was given up wrote there, be it the fit of an earlier trial of the
\* same comparison (tools.py:216), or another run of the process fitted a model
\* (the session ids of compare_runner.py:337 name no comparison, and
\* synthetic_regression.py:307 keeps one model per process).
MetricIsOwn ==
  \A r \in Runs : \A k \in DOMAIN Methods(r) : \A j \in DOMAIN run[r].rows[k] :
    LET w == run[r].rows[k][j]
    IN  ~w.shared => /\ w.metric # NoMetric => ~w.rejected /\ w.metric = Score[w.cand]
                     /\ w.metric = NoMetric => w.rejected \/ w.failed
                     /\ w.hash = w.cand

\* The best value the summary reports of a method is the least measured one,
\* unless a diverged trial came first: no value is below NaN, so it is never
\* replaced (compare_runner.py:262).
BestExplained ==
  \A r \in Runs : \A k \in DOMAIN Methods(r) :
    LET own == run[r].rows[k]
        m == Measured(domain, own)
        best == MethodStats(domain, own).best
    IN  /\ best = NoMetric <=> m = {}
        /\ best = NotANumber =>
             \E j \in m : Value(domain, own[j]) = NotANumber /\ \A i \in m : j <= i
        /\ best \notin {NoMetric, NotANumber} =>
             /\ \E j \in m : best = Value(domain, own[j])
             /\ \A j \in m : Value(domain, own[j]) # NotANumber => best <= Value(domain, own[j])

\* A summary's failure rate is a rate, unless a candidate passed the guard and
\* its run could not be built: that row counts as failed and as rejected, and
\* rejected rows are left out below the line (evaluation_statistics.py:172).
RatesExplained ==
  \A r \in Runs : \A k \in DOMAIN Methods(r) :
    LET own == run[r].rows[k]
        stats == MethodStats(domain, own)
    IN  /\ stats.hits <= stats.effective
        /\ stats.failed > stats.effective => \E j \in DOMAIN own : own[j].rejected /\ own[j].failed

\* "never re-propose a model type that failed" (compare_runner.py:285): a
\* strategy with reflection proposes a failed or rejected model type again only
\* as a prior, or when its draws ran out.
FailedTypesAvoided ==
  \A r \in Runs : \A k \in DOMAIN Methods(r) : \A i, j \in DOMAIN run[r].rows[k] :
    LET v == run[r].rows[k][i]
        w == run[r].rows[k][j]
    IN  /\ domain = "nonlinear" /\ Methods(r)[k] \in UsesFacts
        /\ i < j /\ (v.failed \/ v.rejected) /\ w.how = "drawn"
        => v.cand.type # w.cand.type

\* A sampling strategy proposes a candidate twice only if it has given up
\* looking for a new one: random search with {} for ever, the simulated model
\* with a last free draw, which it does not remember (random_search.py:43).
RepeatsExplained ==
  \A r \in Runs : \A k \in DOMAIN Methods(r) :
    Methods(r)[k] \in Simulated \cup {"random_search"} =>
      \A j \in DOMAIN run[r].rows[k] :
        LET w == run[r].rows[k][j]
        IN  /\ w.how = "exhausted" <=> w.cand = Empty
            /\ \A i \in DOMAIN run[r].rows[k] :
                 LET v == run[r].rows[k][i]
                 IN  i < j => /\ v.how = "exhausted" => w.how = "exhausted"
                              /\ v.cand = w.cand =>
                                   w.how \in {"exhausted", "fallback"} \/ v.how = "fallback"

\* What the study is told of a trial is that trial's own metric, or 0 dB of a
\* trial that has none: nmse_db is 0.0 in the record of a rejected or crashed
\* trial (evaluation_protocol.py:98, optuna_search.py:91).
ToldExplained ==
  \A r \in Runs :
    LET told == run[r].strat.told
        own == History(r)
    IN  \A j \in DOMAIN told : told[j] # Untold =>
          \/ told[j] = own[j].metric /\ ~own[j].rejected
          \/ domain = "nonlinear" /\ told[j] = 0 /\ (own[j].rejected \/ own[j].failed)

\* The tokens in the rows are those of the calls, unless a suggestion took
\* several calls (the rows keep the last one's) or got no answer at all (the
\* row repeats an earlier call's, llm_search.py:166).
TokensExplained ==
  \A r \in Runs :
    LET s == run[r].strat
        own == History(r)
    IN  (Method(r) = "real_llm" /\ run[r].pc \in {"suggest", "done"}) =>
          /\ s.billed < s.calls => \E j \in DOMAIN own : own[j].answered > 1
          /\ s.billed > s.calls => \E j \in DOMAIN own : own[j].answered = 0

\* More than the steps a trial at pc has left.
Weight(pc) ==
  CASE pc = "suggest" -> 7 [] pc \in {"configure", "fit"} -> 6
    [] pc = "train" -> 5 [] pc = "training" -> 4
    [] pc \in {"verify", "evaluate"} -> 3

\* What comparison r has left to do, in steps.
Left(r) ==
  IF Ended(r) THEN 0
  ELSE 8 * (AttemptFactor * Budget(r) * (1 + Len(Methods(r)) - run[r].task) - run[r].attempts)
       + 8 * (Len(Methods(r)) - run[r].task) + Weight(run[r].pc)

\* Every comparison ends, whatever its strategies propose and its trials do: a
\* step leaves one of them less to do, and the others what they had; what goes on
\* elsewhere, in tools given up and other runs, gives none of them more to do.
ComparisonsEnd ==
  [][\/ \E r \in Runs : /\ Left(r) \in Nat /\ Left(r)' \in 0..(Left(r) - 1)
                        /\ \A q \in Runs \ {r} : Left(q)' = Left(q)
     \/ Elsewhere /\ \A r \in Runs : Left(r)' = Left(r)]_vars

(* Every method gets the same budget, and a row's id and metrics are those    *)
(* of its own candidate, but for the named exceptions.                        *)
TrialsFair ==
  /\ TypeOK
  /\ BudgetIsFair
  /\ RunIdsExplained
  /\ MetricIsOwn

(* The numbers a comparison reports of a method follow from its rows, but for *)
(* the named exceptions (evaluation_statistics.py, the tokens of a row).      *)
SummaryExplained ==
  /\ BestExplained
  /\ RatesExplained
  /\ TokensExplained

(* Strategies learn from what happened: failed model types and old candidates *)
(* come back, and a study is told a metric, only as explained.                *)
StrategiesLearn ==
  /\ FailedTypesAvoided
  /\ RepeatsExplained
  /\ ToldExplained

=============================================================================
