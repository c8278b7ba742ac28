SPECIFICATION Safety
CONSTANTS
  c1 = c1
  c2 = c2
  Failed = Failed
  Candidates = {c1, c2}
  Scores = {1, 2}
  Rounds = 2
  MaxReplans = 1
  FinalEvaluation = TRUE
  ReviewMode = TRUE
  RecursionLimit = 18
SYMMETRY CandidateSymmetry
INVARIANTS
  Accounted
  RoundLedger
  FactsFresh
  PublicationSound
PROPERTIES
  CancelStopsSearch
CHECK_DEADLOCK FALSE
