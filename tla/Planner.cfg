SPECIFICATION Spec
CONSTANTS
  MaxRetries = 1
  MaxLosses = 2
  Threshold <- MCThreshold
  RecentWindow = 1
  MaxNotable = 1
  Plans <- MCPlans
  ValidOverrides <- MCValid
  Trainings <- MCTrainings
  LongestPlan = 2
  MaxRounds = 2
  MaxExperiments = 2
  PlannerRetries = 2
INVARIANTS
  SpendingExplained
  PromptsTell
  ResultExplained
PROPERTIES
  LoopEnds
