SPECIFICATION Spec
CONSTANTS
  c1 = c1  c2 = c2
  None = None
  Containers = {c1}
  Commands <- MCDockerStop
  MaxFaults = 0
  MaxRounds = 1
INVARIANTS StoppedIsRestarted
CHECK_DEADLOCK FALSE
