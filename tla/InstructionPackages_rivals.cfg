SPECIFICATION Spec
CONSTANTS
  Ids = {1, 2, 3}
  Items = {i1, i2}
  Mandates <- MCMandates
  Materials = {x, y}
  Releasable = {x}
  Operators = {u, w}
  Correlations = {q1, q2}
  Workloads <- OnlySupersession
  Callers = {c1, c2}
  Consumers = {k1}
  Evidences = {e1, e2}
  Readers = {r1}
  PageLimit = 1
  MaxTime = 1
  NoPackage = NoPackage
  NoReceipt = NoReceipt
  None = None
  i1 = i1
  i2 = i2
  v1 = v1
  v2 = v2
  a = a
  b = b
  x = x
  y = y
  u = u
  w = w
  q1 = q1
  q2 = q2
  k1 = k1
  r1 = r1
INVARIANTS
  OneCurrentSet
