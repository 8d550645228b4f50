SPECIFICATION LiveSpec
CONSTANTS
  Tenants = {t1}
  Keys = {k1, k2}
  Hashes = {h1, h2}
  Correlations = {x1}
  Callers = {c1, c2}
  LeaseDuration = 1
  MaxLag = 1
  MaxAhead = 0
  MaxGeneration = 2
  Retention = TRUE
  Persisted = TRUE
  NoRow = NoRow
  NoRun = NoRun
INVARIANTS
  OneAuthoritativeRun
PROPERTIES
  StaleOwnerNeverPublishes
  AdmittedCompletes
