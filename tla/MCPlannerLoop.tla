---------------------------- MODULE MCPlannerLoop ----------------------------
(* Small instances of PlannerLoop for TLC. *)
EXTENDS PlannerLoop

Exp(id, ov) == [id |-> id, ov |-> ov]
Plan(exps) == [stop |-> FALSE, exps |-> exps]

MCValid == {"good", "other"}
MCPlans ==
  { [stop |-> TRUE, exps |-> <<>>],
    Plan(<<>>),
    [stop |-> TRUE, exps |-> <<Exp("a", "bad"), Exp("a", "good")>>],
    Plan(<<Exp("a", "bad"), Exp("b", "worse")>>),
    Plan(<<Exp("b", "good"), Exp("a", "other")>>) }

Trained(metric, psd) == [ran |-> TRUE, metric |-> metric, psd |-> psd]
MCTrainings ==
  { [ran |-> FALSE, metric |-> NoMetric, psd |-> FALSE],
    Trained(-2, TRUE), Trained(-2, FALSE), Trained(0, TRUE), Trained(1, TRUE),
    Trained(NotANumber, TRUE) }
MCThreshold == -1
=============================================================================
