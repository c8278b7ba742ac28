SPECIFICATION ServerSpec
CONSTANTS
  r1 = r1
  r2 = r2
  NoRun = NoRun
  Runs <- MCRuns
  Reviews = 1
  Reviewed <- MCReviewed
  Roles = 2
INVARIANTS
  StreamsSound
  ReviewsSound
PROPERTIES
  LosesEntryToAnother
  AllEnd
CHECK_DEADLOCK FALSE
