SPECIFICATION Spec
CONSTANTS
  NumItems = 2
  Workers = {w1, w2}
  Reconcilers = {}
  Reasons = {c1, c2}
  MaxConcurrency = 1
  MaxAttempts = 2
  LeaseDuration = 2
  MaxLag = 1
  MaxAhead = 1
  PageSize = 1
  MaxGeneration = 3
  NoReason = NoReason
  NoClaim = NoClaim
  NoResult = NoResult
  Nobody = Nobody
INVARIANTS
  ConcurrencyBound
  AttemptBudget
PROPERTIES
  SettledIsFinal
  FencedPublication
