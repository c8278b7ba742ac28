SPECIFICATION Spec
CONSTANTS
  Types <- MCTypes
  Grid <- MCGrid
  Lowest = 1
  Highest = 3
  Accepted <- MCAccepted
  Priors <- MCPriors
  MaxTries = 1
  Runs <- MCRuns
  Protocols <- MCProtocols
  AttemptFactor = 2
  Score <- MCScore
  Unbuildable <- MCUnbuildable
  Unplotted <- MCUnplotted
  Threshold <- MCThreshold
  OtherModels <- MCOtherModels
  MaxLate = 1
INVARIANTS
  TrialsFair
  SummaryExplained
  StrategiesLearn
PROPERTIES
  ComparisonsEnd
