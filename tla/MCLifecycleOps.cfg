SPECIFICATION FairSpec
CONSTANTS
  c1 = c1  c2 = c2
  None = None
  Containers = {c1, c2}
  Commands <- MCCommands
  MaxFaults = 2
  MaxRounds = 2
INVARIANTS TypeOK NilMeansDone TouchedIsAccountedFor
PROPERTIES RunEnds CancelEndsRun
CHECK_DEADLOCK FALSE
