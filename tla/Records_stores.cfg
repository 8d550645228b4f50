SPECIFICATION RecordsSpec
CONSTANTS
  None = None
  Malformed = Malformed
  ann = ann
  bob = bob
  r1 = r1
  r2 = r2
  Clients <- MonthClients
  Actor <- MonthActor
  Versions = {"d1", "d2"}
  Months = {1, 2, 3}
  Workloads <- MonthWorkloads
  Initial = "d1"
  MaxTime = 3
  MaxHistory = 64
INVARIANTS
  MonthIsOneChain
  AuthorityIsGrounded
  ReservedUntilFinalized
  AcknowledgedIsKept
  EvidenceIsGrounded
  ReadersMissNothing
  BackendsAgree
PROPERTIES
  AmbiguousIsRetained
CHECK_DEADLOCK FALSE
