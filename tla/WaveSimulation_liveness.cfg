SPECIFICATION FairSpec
CONSTANTS
  NumItems = 2
  Workers = {w1}
  Reconcilers = {r1}
  Reasons = {c1}
  MaxConcurrency = 1
  MaxAttempts = 2
  LeaseDuration = 1
  MaxLag = 0
  MaxAhead = 0
  PageSize = 1
  MaxGeneration = 3
  NoReason = NoReason
  NoClaim = NoClaim
  NoResult = NoResult
  Nobody = Nobody
PROPERTIES
  SimulationCompletes
