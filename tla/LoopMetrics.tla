---------------------------- MODULE LoopMetrics ----------------------------
(***************************************************************************)
(* What the planner loop and its benchmark compute from a history: the     *)
(* record a tool chain leaves, the best experiment, a round's reflection,  *)
(* the failures a prompt shows, and the corrections a benchmark counts.    *)
(* Operators only.                                                         *)
(*                                                                         *)
(* A record is [id, status, round, event |-> it has an event_id, ov |->    *)
(* its overrides, metric, caused |-> the first of caused_by_event_ids,     *)
(* causes |-> the positions a reflection names as failures, best |-> the   *)
(* position it calls best].  The other ids a record cites decide nothing:  *)
(* each is the event of a failure, and the benchmark takes the first such. *)
(***************************************************************************)
EXTENDS FloatMetrics, Sequences

CONSTANTS
  Threshold,    \* nmse_threshold_db, and the target of the benchmark case
  RecentWindow, \* recent_window
  MaxNotable    \* max_notable_errors

\* "No metric yet" of a reflection, float('inf').
Infinity == 500

ASSUME MetricsAssumption ==
  /\ Threshold \in Int /\ Threshold < Infinity
  /\ RecentWindow \in Nat \ {0} /\ MaxNotable \in Nat \ {0}

-----------------------------------------------------------------------------
(* The four steps of an experiment *)

\* Mutant: the threshold is only looked at when the metric is present and below 0.
ToolChainSkipsThreshold(t) ==
  IF ~t.ran THEN [status |-> "failed", metric |-> NoMetric]
  ELSE IF ~t.psd THEN [status |-> "failed", metric |-> t.metric]
  ELSE [status |-> "succeeded", metric |-> t.metric]

\* verify_artifacts_tool: the figure is there and the metric is not above the
\* threshold.
Verified(t) == t.psd /\ ~Below(Threshold, t.metric)

\* generate_config, run_training, verify_artifacts, write_report: the training's
\* metrics are kept when the verification refuses them.
ToolChain(t) ==
  IF ~t.ran THEN [status |-> "failed", metric |-> NoMetric]
  ELSE IF ~Verified(t)
       THEN [status |-> "failed", metric |-> t.metric]
  ELSE [status |-> "succeeded", metric |-> t.metric]

\* Of a record that cites no event.
NoEvent == <<0, "", "">>

Record(id, status, round, event, ov, metric, caused) ==
  [id |-> id, status |-> status, round |-> round, event |-> event, ov |-> ov,
   metric |-> metric, caused |-> caused, causes |-> {}, best |-> 0]

-----------------------------------------------------------------------------
(* The best experiment *)

Fails(r) == r.status \in {"rejected", "failed"}
Measured(h) == {k \in DOMAIN h : h[k].metric # NoMetric}

\* The reflection's key is "value or inf", the summary's "value or 0.0".
ReflectionKey(x) == IF x = 0 THEN Infinity ELSE x

\* Mutant: the larger metric is taken.
BestOfRoundLargest(h, P) ==
  First(P \cap Measured(h),
        [k \in DOMAIN h |-> IF h[k].metric = NotANumber THEN NotANumber
                            ELSE -ReflectionKey(h[k].metric)])

BestOfRound(h, P) ==
  First(P \cap Measured(h), [k \in DOMAIN h |-> ReflectionKey(h[k].metric)])

BestOfHistory(h) == First(Measured(h), [k \in DOMAIN h |-> h[k].metric])

-----------------------------------------------------------------------------
(* Reflections, and what a prompt shows *)

\* Mutant: only failures of the tool chain are named.
CausesFailedOnly(h, P) == {k \in P : h[k].status = "failed"}

\* _failure_causes
Causes(h, P) == {k \in P : Fails(h[k])}

\* ReflectionPolicy.reflect, as the record the history keeps of it.
Reflection(h, P, round) ==
  [id |-> "reflection", status |-> "reflection", round |-> round, event |-> FALSE, ov |-> "",
   metric |-> NoMetric, caused |-> NoEvent, causes |-> Causes(h, P), best |-> BestOfRound(h, P)]

\* Positions whose failure build_prompt_history puts into words: the last
\* RecentWindow records, the failures a reflection among them names, and the
\* first MaxNotable errors of the older ones.
Visible(h) ==
  LET old == Len(h) - RecentWindow
      recent == {k \in DOMAIN h : k > old}
      errors == {k \in DOMAIN h : k <= old /\ Fails(h[k])}
  IN  {k \in recent : Fails(h[k])}
      \cup {k \in errors : Cardinality({j \in errors : j < k}) < MaxNotable}
      \cup (UNION {h[k].causes : k \in recent})

-----------------------------------------------------------------------------
(* Events and corrections *)

EventOf(r) == <<r.round, r.id, r.status>>
Failures(h) == {k \in DOMAIN h : Fails(h[k]) /\ h[k].event}

\* The head of _failure_event_ids.
FirstFailure(h) == IF Failures(h) = {} THEN NoEvent ELSE EventOf(h[Min(Failures(h))])

\* failures_by_event: a later record of the same event replaces an earlier one.
FailureOf(h, event) == Max({k \in Failures(h) : EventOf(h[k]) = event})

\* Mutant: a correction within one planning pass counts.
CorrectsAnyRound(h, k) ==
  /\ h[k].caused # NoEvent
  /\ h[FailureOf(h, h[k].caused)].ov # h[k].ov

\* _causal_correction_stats: the first event a record cites decides.
Corrects(h, k) ==
  /\ h[k].caused # NoEvent
  /\ LET f == h[FailureOf(h, h[k].caused)]
     IN  f.round # h[k].round /\ f.ov # h[k].ov

Attempts(h) == {k \in DOMAIN h : Corrects(h, k)}
Successes(h) == {k \in Attempts(h) : h[k].status = "succeeded"}

\* summarize_loop_result
Summary(h) ==
  LET best == BestOfHistory(h)
      count(s) == Cardinality({k \in DOMAIN h : h[k].status = s})
  IN  [best |-> best,
       hit |-> best # 0 /\ h[best].metric # NotANumber /\ h[best].metric <= Threshold,
       rejected |-> count("rejected"),
       used |-> count("failed") + count("succeeded"),
       succeeded |-> count("succeeded"),
       attempts |-> Cardinality(Attempts(h)),
       successes |-> Cardinality(Successes(h))]
=============================================================================
