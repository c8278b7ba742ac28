--------------------------- MODULE ReportEvidence ---------------------------
(***************************************************************************)
(* From the outcomes of a run to its report: the report source of          *)
(* MultiAgentRuntime, the evidence bundle and the narrative checks of the  *)
(* writing agent, and the refusals of write_task_report_tool.  Operators   *)
(* only.                                                                   *)
(*                                                                         *)
(* An outcome is [id, status, nmse, child, psd]: nmse is None unless the   *)
(* training completed, child the run id its artifacts are published under, *)
(* psd whether a psd.png is among them.  A source is [runs |-> sequence of *)
(* records, final |-> {} or {record}, rounds |-> sequence of round numbers,*)
(* failures |-> set of ids].  A narrative is [schema, task |-> its task id *)
(* is the bundle's, journey |-> references of round_journey, cites |->     *)
(* references of the other sections, numbers |-> the numbers it states].   *)
(***************************************************************************)
EXTENDS Integers, Sequences, FiniteSets, FiniteSetsExt, SequencesExt

CONSTANTS
  None,       \* no NMSE
  Threshold   \* nmse_threshold_db

ASSUME ReportAssumption == None \notin Int /\ Threshold \in Int

-----------------------------------------------------------------------------
(* Report source *)

\* The best of some outcomes, the earliest of equal ones: _select_best_outcome.
BestOutcome(outcomes) ==
  LET valid == {k \in DOMAIN outcomes :
                  outcomes[k].status = "completed" /\ outcomes[k].nmse # None}
      least == {k \in valid : \A j \in valid : outcomes[k].nmse <= outcomes[j].nmse}
  IN  IF valid = {} THEN {} ELSE {outcomes[Min(least)]}

Hit(nmse) == nmse # None /\ nmse <= Threshold

\* _outcome_report_record and _final_report_record
ReportRecord(id, o) ==
  [run |-> id, nmse |-> o.nmse, hit |-> Hit(o.nmse), child |-> o.child, psd |-> o.psd]

FailedRuns(outcomes) == {k \in DOMAIN outcomes : outcomes[k].status # "completed"}

\* _batch_report_source; final is {} when no final evaluation was asked for.
ReportSource(outcomes, rounds, final) ==
  [runs |-> [k \in DOMAIN outcomes |-> ReportRecord(outcomes[k].id, outcomes[k])],
   rounds |-> rounds,
   final |-> {ReportRecord(o.id, o) : o \in final},
   failures |-> {outcomes[k].id : k \in FailedRuns(outcomes)}]

\* TaskReportSpec.best: a run that hit the target before one that did not, then
\* the lowest NMSE, then the earliest.
Better(a, b) ==
  \/ a.hit /\ ~b.hit
  \/ /\ a.hit = b.hit
     /\ a.nmse # None /\ (b.nmse = None \/ a.nmse < b.nmse)
BestRun(runs) ==
  runs[Min({k \in DOMAIN runs : \A j \in DOMAIN runs : ~Better(runs[j], runs[k])})]

-----------------------------------------------------------------------------
(* Evidence and narrative *)

\* The references of EvidenceBundle.from_task_source, by kind.
RoundRefs(source) == {<<"round", r>> : r \in Range(source.rounds)}
MetricRefs(source) == {<<"metric", source.runs[k].run>> : k \in DOMAIN source.runs}
FailureRefs(source) == {<<"failure", id>> : id \in source.failures}
FixedRefs == {<<"aggregate", "performance">>, <<"plan", "hypotheses">>, <<"task", "limits">>,
              <<"architecture", "selected">>}
FinalRefs(source) == {<<"final", r.run>> : r \in source.final}
EvidenceIds(source) == RoundRefs(source) \cup MetricRefs(source) \cup FailureRefs(source)
                       \cup FinalRefs(source) \cup FixedRefs

\* The numbers of the records that some references name; of two runs with one id
\* the later one is the record.
MetricOf(source, id) ==
  source.runs[Max({k \in DOMAIN source.runs : source.runs[k].run = id})].nmse
NumbersOf(source, refs) ==
  ({MetricOf(source, r[2]) : r \in refs \cap MetricRefs(source)}
   \cup {r.nmse : r \in {f \in source.final : <<"final", f.run>> \in refs}}) \ {None}

\* NarrativeFidelityChecker.check
Faithful(n, source) ==
  /\ n.task
  /\ n.journey \cup n.cites \subseteq EvidenceIds(source)
  /\ n.numbers \subseteq NumbersOf(source, n.journey \cup n.cites)
  /\ RoundRefs(source) \subseteq n.journey

OrElse(refs, default) == IF refs = {} THEN default ELSE refs

\* Mutant: the last round is forgotten.
FallbackOmitsRounds(source) ==
  [schema |-> TRUE, task |-> TRUE, numbers |-> {},
   journey |-> {<<"aggregate", "performance">>},
   cites |-> FixedRefs \cup MetricRefs(source) \cup FailureRefs(source)]

\* _build_fidelity_fallback
Fallback(source) ==
  [schema |-> TRUE, task |-> TRUE, numbers |-> {},
   journey |-> OrElse(RoundRefs(source), {<<"aggregate", "performance">>}),
   cites |-> FixedRefs \cup MetricRefs(source) \cup FailureRefs(source)]

\* What WritingAgent.write returns for two drafts, as a set of at most one
\* narrative; it raises on a draft that does not fit the schema, and on a
\* fallback that is not faithful.
Written2(first, second, source) ==
  IF ~first.schema THEN {}
  ELSE IF Faithful(first, source) THEN {first}
  ELSE IF ~second.schema THEN {}
  ELSE IF Faithful(second, source) THEN {second}
  ELSE {n \in {Fallback(source)} : Faithful(n, source)}
DraftsUsed(first, source) == IF first.schema /\ ~Faithful(first, source) THEN 2 ELSE 1

-----------------------------------------------------------------------------
(* The report tool *)

\* Mutant: runs are compared with the source by position.
NumbersAgreeByPosition(source) == source.runs # <<>>

\* TaskFidelityChecker.check: every run against the last run of its id.
NumbersAgree(source) ==
  \A k \in DOMAIN source.runs : source.runs[k].nmse = MetricOf(source, source.runs[k].run)

\* The record whose PSD the report shows.
Shown(source) ==
  IF source.final # {} THEN CHOOSE r \in source.final : TRUE
  ELSE LET best == BestRun(source.runs)
       IN  source.runs[Min({k \in DOMAIN source.runs : source.runs[k].run = best.run})]

\* write_task_report_tool, up to the files it draws.
ReportAdmits(n, source) ==
  /\ source.runs # <<>>
  /\ NumbersAgree(source)
  /\ Faithful(n, source)
  /\ Shown(source).psd
=============================================================================
