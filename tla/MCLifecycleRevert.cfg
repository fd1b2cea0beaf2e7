SPECIFICATION FairSpec
CONSTANTS
  c1 = c1  c2 = c2
  None = None
  Containers = {c1, c2}
  Commands <- MCCommands
  MaxFaults = 1
  MaxRounds = 2
INVARIANTS TypeOK NoSilentFreeze RecordedIsDone AbortReverts
PROPERTIES KeepsLease
CHECK_DEADLOCK FALSE
