---------------------------- MODULE MCCompareRun ----------------------------
(* Small instances of CompareRun for TLC. *)
EXTENDS CompareRun

C(t, x) == [type |-> t, x |-> x]
MCTypes == {"mlp", "lstsq"}
MCGrid == {1, 3}
MCAccepted == Candidates \ {C("mlp", 3)}
MCPriors == {C("mlp", 1)}
MCScore == [c \in MCAccepted |->
  CASE c = C("lstsq", 1) -> -2 [] c = C("lstsq", 2) -> -3 [] c = C("lstsq", 3) -> NotANumber
    [] c = C("mlp", 1) -> NoMetric [] c = C("mlp", 2) -> -1 [] c = Empty -> 1]
MCUnbuildable == {C("mlp", 2)}
MCUnplotted == {Empty}

MCRuns == {"first", "second"}
Of(methods, budget) == [methods |-> methods, budget |-> budget]
Both(p, q) == [r \in MCRuns |-> IF r = "first" THEN p ELSE q]
MCProtocols ==
  { Both(Of(<<"random_search">>, 2), Of(<<"random_search">>, 1)),
    Both(Of(<<"llm_program_reflection">>, 2), Of(<<"random_search">>, 1)),
    Both(Of(<<"real_llm">>, 1), Of(<<"real_llm">>, 1)),
    Both(Of(<<"optuna_tpe", "llm_direct">>, 1), Of(<<"llm_history_facts">>, 1)) }
MCOtherModels == {C("lstsq", 2)}
MCThreshold == -2
=============================================================================
