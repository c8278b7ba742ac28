--------------------------- MODULE TrialStatistics ---------------------------
(***************************************************************************)
(* The rows a strategy comparison keeps and what its summary computes from *)
(* them.  Operators only.                                                  *)
(*                                                                         *)
(* A row is [id |-> the number in its run_id, cand |-> the candidate, how  *)
(* |-> where the strategy took it from, rejected, failed, metric, hit,     *)
(* hash |-> the candidate its config_hash identifies, shared |-> another   *)
(* trial ran in the same place meanwhile, answered |-> the calls its       *)
(* suggestion got an answer to].  rows[k] are those of the k-th method and *)
(* seed, in order.                                                         *)
(***************************************************************************)
EXTENDS FloatMetrics, Sequences

\* The value under the primary metric's key: build_trial_record fills nmse_db
\* with 0.0 when nothing was measured, val_mse is absent.
Value(domain, row) ==
  IF row.metric = NoMetric /\ domain = "nonlinear" THEN 0 ELSE row.metric

\* The positions a best is taken from.
Measured(domain, own) ==
  {j \in DOMAIN own : ~own[j].rejected /\ ~own[j].failed /\ Value(domain, own[j]) # NoMetric}

\* Mutant: the greatest value is taken.
BestGreatest(domain, own) ==
  First(Measured(domain, own),
        [j \in DOMAIN own |-> IF Value(domain, own[j]) = NotANumber THEN NotANumber
                              ELSE -Value(domain, own[j])])

\* The position of the first measured row no later one is below, or 0.
Best(domain, own) ==
  First(Measured(domain, own), [j \in DOMAIN own |-> Value(domain, own[j])])

\* Mutant: failures are left out below the line as well.
MethodStatsOfSuccesses(domain, own) ==
  [best |-> IF Measured(domain, own) = {} THEN NoMetric
            ELSE Value(domain, own[Best(domain, own)]),
   effective |-> Cardinality({j \in DOMAIN own : ~own[j].rejected /\ ~own[j].failed}),
   failed |-> Cardinality({j \in DOMAIN own : own[j].failed}),
   hits |-> Cardinality({j \in DOMAIN own : ~own[j].rejected /\ own[j].hit})]

\* compute_method_statistics for one seed; the failure rate is failed / effective.
MethodStats(domain, own) ==
  [best |-> IF Measured(domain, own) = {} THEN NoMetric
            ELSE Value(domain, own[Best(domain, own)]),
   effective |-> Cardinality({j \in DOMAIN own : ~own[j].rejected}),
   failed |-> Cardinality({j \in DOMAIN own : own[j].failed}),
   hits |-> Cardinality({j \in DOMAIN own : ~own[j].rejected /\ own[j].hit})]
=============================================================================
