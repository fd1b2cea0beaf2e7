SPECIFICATION FairSpec
CONSTANTS
  f1 = f1  f2 = f2  noPort = noPort  c1 = c1
  Containers = {c1}
  Filters <- MCFilters
  BadFilters = {noPort}
  Requests <- MCRequests
  MaxFaults = 2
  MaxRounds = 2
INVARIANTS TypeOK SidecarLedger NoSilentLeak RevertSurvivesCancel AppliedInFull
PROPERTIES KeepsLease
CHECK_DEADLOCK FALSE
