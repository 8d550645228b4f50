SPECIFICATION Spec
CONSTANTS
  Runs = {r1, r2}
  NeedsReview = {r1}
  Reviewers = {w1, w2}
  MaxLag = 0
  MaxDecisions = 4
  Retention = FALSE
INVARIANTS
  HistoryIsLegal
CHECK_DEADLOCK FALSE
