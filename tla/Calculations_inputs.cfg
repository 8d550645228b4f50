SPECIFICATION CalculationsSpec
CONSTANTS
  DateMax = 4
  Revisions <- MCRevisions
  Parents <- MCParents
  Statuses <- MCStatuses
  Windows <- MCWindows
  Stacks <- MCStacks
  Observations <- MCObservations
INVARIANTS
  CompositeIsExact
  LocksAreKept
  LimitsAreKept
  ExecutableAsPlanned
  HealthIsExplained
CHECK_DEADLOCK FALSE
