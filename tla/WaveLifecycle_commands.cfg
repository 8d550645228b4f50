SPECIFICATION Spec
CONSTANTS
  i1 = i1
  i2 = i2
  x = x
  y = y
  a1 = a1
  a2 = a2
  a3 = a3
  Items = {i1, i2}
  Inputs = {x, y}
  Alternatives = {a1, a2, a3}
  Blocked = {a3}
  Requests = {r1, r2}
  Mixes <- AllMixes
  None = None
SYMMETRY RequestSymmetry
INVARIANTS
  ItemsKeepUp
  ApprovedOnEvidence
  HistoryExplainsState
PROPERTIES
  EventsAppendOnly
CHECK_DEADLOCK FALSE
