SPECIFICATION LiveSpec
CONSTANTS
  OpIds = {o1, o2}
  Correlations = {x1}
  Scenarios = {1, 2}
  o1 = o1
  o2 = o2
  Requests <- MCRequests
  Workers = {w1, w2}
  LeaseDuration = 1
  MaxLag = 0
  MaxFailures = 1
  MaxAttempt = 3
  Inline = TRUE
  Retention = TRUE
  Missing = Missing
  Failed = Failed
INVARIANTS
  NewestOwnerCanPublish
  PublishedEvidence
  RunsAccountedFor
PROPERTIES
  StartedFinishes
