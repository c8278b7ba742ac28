----------------------------- MODULE PlanPolicy -----------------------------
(***************************************************************************)
(* What MultiAgentRuntime._idea_plan and PlanGate make of one reply of the *)
(* planning model: ceilings, capacity projection and anchor of the run's   *)
(* policy, canonical evidence references, and the batch contract.          *)
(* Operators only.                                                         *)
(*                                                                         *)
(* A candidate is [id, src, model, size, epochs, budget, refs, cite]:      *)
(*   id     [tags |-> round prefixes, name, final |-> "-final" suffixes]   *)
(*   size   field -> Int, the architecture fields of the config            *)
(*   epochs [form |-> "int", "text" or "absent", n]                        *)
(*   budget [params, epochs];  refs a set, cite one, of [kind, id]         *)
(* A plan is [complete |-> every required field is there, cites |-> the    *)
(* citations of the hypotheses, list |-> sequence of candidates].          *)
(***************************************************************************)
EXTENDS Integers, Sequences, FiniteSets, FiniteSetsExt, SequencesExt

CONSTANTS
  Catalog,          \* the registered models
  ParamCeiling,     \* candidate_parameter_count_max
  EpochCeiling,     \* candidate_epochs_max
  GeneratedCeiling, \* generated_candidate_epochs_max
  Screening,        \* screening_epochs_max
  HFRounds,         \* high_fidelity_rounds
  HFLimit,          \* max_high_fidelity_candidates_per_round
  MinGenerated,     \* min_generated_candidates_per_round
  Default,          \* the epochs a registered config without epochs is given
  Anchor            \* {} or the registered anchor, [model, size, epochs, budget]

ASSUME PolicyAssumption ==
  /\ {ParamCeiling, EpochCeiling, GeneratedCeiling, Screening, Default} \subseteq Nat \ {0}
  /\ {HFLimit, MinGenerated} \subseteq Nat
  /\ Cardinality(Anchor) <= 1

Trained == {"tiny_mlp", "spline_mlp", "linear", "complex_cnn"}

Fields == {"hidden", "knots", "memory", "orders", "kernel", "layers"}

\* What the parser makes of a reply; the numbers in it are whatever the model wrote.
IsId(x) == x \in [tags : Seq(Nat), name : {x.name}, final : Nat]
IsCandidate(c) ==
  /\ c \in [id : {c.id}, src : {"generated", "registered"}, model : {c.model},
            size : [Fields -> Int], epochs : [form : {"int", "text", "absent"}, n : Int],
            budget : [params : Int, epochs : Int], refs : {c.refs}, cite : {c.cite}]
  /\ IsId(c.id)
IsPlan(p) ==
  /\ p \in [complete : BOOLEAN, cites : {p.cites}, list : Seq(Range(p.list))]
  /\ \A k \in DOMAIN p.list : IsCandidate(p.list[k])

-----------------------------------------------------------------------------
(* planner_validation: the parameter budget *)

\* estimate_parameter_count over complex_mp features.
Estimate(model, s) ==
  LET width == s.orders * (s.memory + 1)
      channels(k) == IF k < 0 THEN 1 ELSE 16 * (2^k)
      conv(k) == 2 * (channels(k) * channels(k - 1) * s.kernel * s.kernel + channels(k))
  IN CASE model = "complex_lstsq" -> 2 * (width + 1)
       [] model = "linear" -> 4 * width + 2
       [] model = "tiny_mlp" -> 2 * width * s.hidden + 3 * s.hidden + 2
       [] model = "spline_mlp" -> 2 * width * s.hidden + (3 + s.knots) * s.hidden + 2
       [] model = "complex_cnn" -> MapThenSumSet(conv, 0..s.layers - 1)
                                   + 4 * channels(s.layers - 1) * width + 2

FieldOrder(model) ==
  CASE model = "tiny_mlp" -> <<"hidden", "memory", "orders">>
    [] model = "spline_mlp" -> <<"hidden", "knots", "memory", "orders">>
    [] model = "complex_cnn" -> <<"layers", "memory", "orders", "kernel">>
    [] OTHER -> <<"memory", "orders">>

Least(field) == IF field = "knots" THEN 2 ELSE 1

\* Mutant: a field is always cut to its minimum.
ShrinkToLeast(model, limit, s, field) ==
  IF Estimate(model, s) <= limit THEN s ELSE [s EXCEPT ![field] = Least(field)]

\* One field of the projection: the largest value that fits (the bisection;
\* every estimate grows with every field), or the minimum when none does.
Shrink(model, limit, s, field) ==
  LET fits == {v \in Least(field)..s[field] : Estimate(model, [s EXCEPT ![field] = v]) <= limit}
  IN  IF Estimate(model, s) <= limit \/ s[field] <= Least(field) THEN s
      ELSE [s EXCEPT ![field] = IF fits = {} THEN Least(field) ELSE Max(fits)]

\* _project_registered_config_to_budget: one field after the other, at most four.
Projected(model, size, limit) ==
  LET order == FieldOrder(model)
      cut(s, k) == IF k <= Len(order) THEN Shrink(model, limit, s, order[k]) ELSE s
  IN  cut(cut(cut(cut(size, 1), 2), 3), 4)

\* validate_planned_overrides: epochs are given, and a neural model trains.
Validated(model, epochs) ==
  IF epochs.form = "absent" /\ model \in Trained THEN [form |-> "int", n |-> Default]
  ELSE epochs
ValidFields(model, size, epochs) ==
  /\ \A field \in DOMAIN size \ {"layers", "kernel"} : size[field] > 0
  /\ epochs.form # "text"
  /\ epochs.form = "int" /\ model \in Trained => epochs.n >= 1
ValidOverrides(model, size, epochs, limit) ==
  ValidFields(model, size, epochs) /\ Estimate(model, size) <= limit

-----------------------------------------------------------------------------
(* The run's policy *)

Min2(a, b) == IF a <= b THEN a ELSE b
Max2(a, b) == IF a >= b THEN a ELSE b

Epochs(c) == IF c.epochs.form = "int" THEN c.epochs.n ELSE 0

\* _normalize_candidate_policy: the ceilings, and for a registered model its
\* projected size and validated epochs.
Normalized(c) ==
  LET b == [params |-> Min2(Max2(1, c.budget.params), ParamCeiling),
            epochs |-> Min2(Max2(1, c.budget.epochs),
                            IF c.src = "generated" THEN GeneratedCeiling ELSE EpochCeiling)]
  IN  [c EXCEPT !.budget = b,
                !.size = IF c.src = "registered" /\ c.model \in Catalog
                         THEN Projected(c.model, @, b.params) ELSE @,
                !.epochs = IF c.src = "registered" THEN Validated(c.model, @) ELSE @]

\* Mutant: the epochs of generated candidates are left to the scaffold.
PolicyAdmitsAnyGenerated(c) == c.src = "generated" \/ Epochs(c) <= c.budget.epochs

\* The errors of one candidate, after normalisation.
PolicyAdmits(c) ==
  /\ \/ c.src = "generated"
     \/ c.src = "registered" /\ c.model \in Catalog
  /\ c.src = "registered" => ValidOverrides(c.model, c.size, c.epochs, c.budget.params)
  /\ Epochs(c) <= c.budget.epochs

HighFidelity(list) == {k \in DOMAIN list : Epochs(list[k]) > Screening}
Generated(list) == {k \in DOMAIN list : list[k].src = "generated"}

\* Mutant: the high-fidelity rounds are not looked at.
MixAdmitsAnyRound(list, round) ==
  /\ Cardinality(HighFidelity(list)) <= HFLimit
  /\ Cardinality(Generated(list)) >= MinGenerated

\* What _apply_run_policy asks of the candidates of a round together.
MixAdmits(list, round) ==
  /\ HFRounds # {} =>
       Cardinality(HighFidelity(list)) <= IF round \in HFRounds THEN HFLimit ELSE 0
  /\ Cardinality(Generated(list)) >= MinGenerated

NormalizedList(plan) == [k \in DOMAIN plan.list |-> Normalized(plan.list[k])]
ApplyRunPolicy(plan, round) ==
  LET list == NormalizedList(plan)
  IN  /\ \A k \in DOMAIN list : PolicyAdmits(list[k])
      /\ MixAdmits(list, round)

\* estimate_parameter_count of a network without layers indexes an empty list:
\* no ValueError, so the reply is not given back for repair.
Breaks(plan) ==
  \E k \in DOMAIN plan.list :
    LET c == plan.list[k]
    IN  /\ c.src = "registered" /\ c.model \in Catalog \cap {"complex_cnn"}
        /\ ValidFields(c.model, c.size, c.epochs) /\ c.size.layers = 0

\* _inject_registered_anchor: the first candidate becomes the anchor, with the
\* anchor's own budget.
WithAnchor(list) ==
  [list EXCEPT ![1] =
     LET a == CHOOSE a \in Anchor : TRUE
     IN  [@ EXCEPT !.src = "registered", !.model = a.model, !.size = a.size,
                   !.epochs = Validated(a.model, a.epochs), !.budget = a.budget]]

AnchorApplies(round) == Anchor # {} /\ round = 1
AnchorValid(list) ==
  /\ list # <<>>
  /\ \A a \in Anchor : ValidOverrides(a.model, a.size, a.epochs, a.budget.params)

-----------------------------------------------------------------------------
(* Evidence references and the gate *)

\* _canonicalize_plan_evidence_refs
Canonical(ref, allowed) ==
  LET prior == [ref EXCEPT !.kind = "prior"]
  IN  IF ref.kind = "historical-prior" /\ prior \in allowed THEN prior ELSE ref
CanonicalCandidate(c, allowed) ==
  [c EXCEPT !.cite = Canonical(@, allowed), !.refs = {Canonical(r, allowed) : r \in @}]
CanonicalPlan(plan, allowed) ==
  [plan EXCEPT !.cites = {Canonical(r, allowed) : r \in @},
               !.list = [k \in DOMAIN @ |-> CanonicalCandidate(@[k], allowed)]]

\* Mutant: a round after the first need not refer to earlier facts.
FactsCited(plan, round, facts) ==
  \A k \in DOMAIN plan.list :
    /\ round > 1 => plan.list[k].refs # {}
    /\ plan.list[k].refs \subseteq facts

Named(plan) == {k \in DOMAIN plan.list : plan.list[k].id # [tags |-> <<>>, name |-> "", final |-> 0]}

\* PlanGate.validate_batch; cites is {} when no context was retrieved.
GateAdmits(plan, count, round, facts, cites) ==
  /\ plan.complete
  /\ Len(plan.list) = count
  /\ FactsCited(plan, round, facts)
  /\ cites # {} => plan.cites \cup {plan.list[k].cite : k \in DOMAIN plan.list} \subseteq cites
  /\ \A j, k \in Named(plan) : plan.list[j].id = plan.list[k].id => j = k

\* _scoped_candidate
Scoped(id, round) ==
  IF id.tags # <<>> /\ Head(id.tags) = round THEN id ELSE [id EXCEPT !.tags = <<round>> \o @]
=============================================================================
