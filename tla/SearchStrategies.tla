-------------------------- MODULE SearchStrategies --------------------------
(***************************************************************************)
(* The search strategies of a comparison: random search, Optuna, the       *)
(* simulated language model and the real one.  Each proposes a candidate   *)
(* from the history (suggest) and is told what became of it (observe).     *)
(* Operators only.                                                         *)
(*                                                                         *)
(* A candidate is [type |-> model_type, x |-> the other fields]; {} is     *)
(* Empty.  Sampling is a choice.  A strategy's memory is [seen, exhausted, *)
(* types |-> the model types that failed, told |-> what the study was told *)
(* of each trial it was asked for, last, calls, billed |-> the tokens of   *)
(* the last call, of all calls, and those in the rows].                    *)
(***************************************************************************)
EXTENDS TrialStatistics

CONSTANTS
  Types,        \* model types of the design space
  Grid,         \* values of the other fields in the design space
  Lowest, Highest,  \* their least and greatest
  Accepted,     \* the candidates validate_planned_overrides accepts
  Priors,       \* the candidates of historical_priors
  MaxTries      \* RealLLMSearch._max_retries

Empty == [type |-> "none", x |-> 0]
Space == [type : Types, x : Grid]
Proposals == [type : Types, x : Lowest..Highest]
Candidates == Proposals \cup {Empty}

ASSUME StrategyAssumption ==
  /\ Lowest \in Grid /\ Highest \in Grid /\ Grid \subseteq Lowest..Highest
  /\ Lowest \in Int /\ Highest \in Int /\ MaxTries \in Nat
  /\ "none" \notin Types
  /\ Accepted \subseteq Candidates /\ Priors \subseteq Proposals

Simulated == {"llm_direct", "llm_history_only", "llm_history_facts",
              "llm_history_facts_priors", "llm_program_reflection"}
UsesFacts == {"llm_history_facts", "llm_history_facts_priors", "llm_program_reflection"}
UsesPriors == {"llm_history_facts_priors", "llm_program_reflection"}
Strategies == Simulated \cup {"random_search", "optuna_tpe", "real_llm"}

Untold == -1000
NewStrategy ==
  [seen |-> {}, exhausted |-> FALSE, types |-> {}, told |-> <<>>,
   last |-> 0, calls |-> 0, billed |-> 0]

Suggestion(c, how, s) == [cand |-> c, how |-> how, strat |-> s, answered |-> 1]
Remember(s, c) == [s EXCEPT !.seen = @ \cup {c}]

-----------------------------------------------------------------------------
(* RandomSearch: draws until one is new; when all draws of one suggestion   *)
(* were old, {} for ever.                                                   *)

\* Mutant: draws that were all old end in one of them.
RandomSuggestsKeepsDrawing(s) ==
  {Suggestion(c, "drawn", Remember(s, c)) : c \in Space \ s.seen}
  \cup {Suggestion(c, "drawn", s) : c \in s.seen}

RandomSuggests(s) ==
  IF s.exhausted THEN {Suggestion(Empty, "exhausted", s)}
  ELSE {Suggestion(c, "drawn", Remember(s, c)) : c \in Space \ s.seen}
       \cup {Suggestion(Empty, "exhausted", [s EXCEPT !.exhausted = TRUE]) : c \in s.seen}

(* OptunaTPESearch: every ask opens one more trial of the study. *)
OptunaSuggests(s) ==
  {Suggestion(c, "asked", [s EXCEPT !.told = Append(@, Untold)]) : c \in Space}

-----------------------------------------------------------------------------
(* _LLMSearch: with a probability a prior not yet seen; otherwise draws     *)
(* around the best of the history; at last any point of the space.          *)

\* The candidates one draw can give: each field near the best one's, or free.
Draws(best) ==
  IF best = Empty THEN Space
  ELSE [type : Types, x : Grid \cup {x \in Lowest..Highest : x - best.x \in -1..1}]

\* A draw whose type has failed takes the best one's type instead.
Swapped(s, best, c) ==
  IF c.type \in s.types /\ best # Empty /\ best.type \notin s.types
  THEN [c EXCEPT !.type = best.type] ELSE c

Wanted(s, best, c) == Swapped(s, best, c).type \notin s.types

BestCandidate(method, domain, history) ==
  IF method = "llm_direct" \/ Measured(domain, history) = {} THEN Empty
  ELSE history[Best(domain, history)].cand

SimulatedSuggests(method, domain, s, history) ==
  LET best == BestCandidate(method, domain, history)
      draws == Draws(best)
      wanted == {Swapped(s, best, c) : c \in {d \in draws : Wanted(s, best, d)}}
      priors == IF method \in UsesPriors THEN Priors \ s.seen ELSE {}
  IN  {Suggestion(c, "prior", Remember(s, c)) : c \in priors}
      \cup {Suggestion(c, "drawn", Remember(s, c)) : c \in wanted \ s.seen}
      \cup (IF \E c \in draws : ~Wanted(s, best, c) \/ Swapped(s, best, c) \in s.seen
            THEN {Suggestion(c, "fallback", s) : c \in Space} ELSE {})

-----------------------------------------------------------------------------
(* RealLLMSearch: a call, and retries while the reply is no JSON, no object *)
(* or refused by the guard, or the request fails.  When they run out the    *)
(* last refused overrides stand, however many of the calls were answered.   *)

Called(s, answered) ==
  [s EXCEPT !.calls = @ + answered, !.last = IF answered > 0 THEN 1 ELSE @]

RealSuggests(s) ==
  {[cand |-> c, how |-> "reply", strat |-> Called(s, n), answered |-> n] :
     c \in Accepted, n \in 1..MaxTries + 1}
  \cup {[cand |-> c, how |-> "refused", strat |-> Called(s, n), answered |-> n] :
          c \in Candidates \ Accepted, n \in 1..MaxTries + 1}
  \cup {[cand |-> Empty, how |-> "refused", strat |-> Called(s, n), answered |-> n] :
          n \in 0..MaxTries + 1}

\* build_strategy and the strategy's suggest.
Suggests(method, domain, s, history) ==
  CASE method = "random_search" -> RandomSuggests(s)
    [] method = "optuna_tpe" -> OptunaSuggests(s)
    [] method = "real_llm" -> RealSuggests(s)
    [] OTHER -> SimulatedSuggests(method, domain, s, history)

-----------------------------------------------------------------------------
(* observe *)

\* Mutant: the trial before the last one is told.
TellPrevious(s, domain, row) ==
  [s EXCEPT !.told = [k \in DOMAIN @ |->
     IF k = Len(@) - 1 /\ Value(domain, row) # NoMetric THEN Value(domain, row) ELSE @[k]]]

\* The trial the last ask opened is told the row's value, if it has one.
Tell(s, domain, row) ==
  [s EXCEPT !.told = [k \in DOMAIN @ |->
     IF k = Len(@) /\ Value(domain, row) # NoMetric THEN Value(domain, row) ELSE @[k]]]

\* Mutant: only failed trainings count.
LearnFailureExecuted(s, method, row) ==
  IF method \in UsesFacts /\ row.failed /\ ~row.rejected /\ row.cand # Empty
  THEN [s EXCEPT !.types = @ \cup {row.cand.type}] ELSE s

LearnFailure(s, method, row) ==
  IF method \in UsesFacts /\ (row.failed \/ row.rejected) /\ row.cand # Empty
  THEN [s EXCEPT !.types = @ \cup {row.cand.type}] ELSE s

\* Mutant: every answered call of the suggestion is added up.
BillTwice(s) == [s EXCEPT !.billed = @ + 2 * s.last]

\* The row gets the tokens of the last answered call.
Bill(s) == [s EXCEPT !.billed = @ + s.last]

\* The memories a strategy may have after a row: a study may refuse what it is
\* told, and the exception is dropped.
Observes(method, domain, s, row) ==
  CASE method = "random_search" -> {s}
    [] method = "optuna_tpe" -> {s, Tell(s, domain, row)}
    [] method = "real_llm" -> {Bill(s)}
    [] OTHER -> {IF domain = "nonlinear" THEN LearnFailure(s, method, row) ELSE s}
=============================================================================
