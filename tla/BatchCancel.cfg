SPECIFICATION Safety
CONSTANTS
  c1 = c1
  c2 = c2
  Failed = Failed
  Candidates = {c1}
  Scores = {1}
  Rounds = 2
  MaxReplans = 1
  FinalEvaluation = TRUE
  ReviewMode = FALSE
  RecursionLimit = 25
INVARIANTS
  CancelledIsTerminal
CHECK_DEADLOCK FALSE
