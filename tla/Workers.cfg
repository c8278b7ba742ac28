SPECIFICATION Spec
CONSTANTS
  None = None
  K = 2
  Rounds = 2
  MaxReplans = 1
  FinalEvaluation = TRUE
  PlannerRepairs = 1
  CodingRepairs = 1
  Budget = 3
  RecursionLimit = 11
  Context <- MCContext
  Plans <- MCPlans
  Packages <- MCPackages
  Faults = {"timeout"}
  Scores = {1, 2}
  LongNames = {"long"}
  ScaffoldEpochs = 4
  Threshold = 1
  Catalog = {"linear", "tiny_mlp", "complex_cnn"}
  ParamCeiling = 20
  EpochCeiling = 5
  GeneratedCeiling = 3
  Screening = 2
  HFRounds = {2}
  HFLimit = 1
  MinGenerated = 1
  Default = 4
  Anchor <- MCAnchor
INVARIANTS
  PolicyHolds
  CodeIsGated
  ReportSound
PROPERTIES
  Implements
  RunEnds
