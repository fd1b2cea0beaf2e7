SPECIFICATION Spec
CONSTANTS
  f1 = f1  f2 = f2  noPort = noPort  c1 = c1
  Containers = {c1}
  Filters <- MCFilters
  BadFilters = {noPort}
  Requests <- MCDockerSidecar
  MaxFaults = 0
  MaxRounds = 1
INVARIANTS CancelLeavesNoRules
CHECK_DEADLOCK FALSE
