SPECIFICATION Spec
CONSTANTS
  c1 = c1  c2 = c2
  None = None
  Containers = {c1, c2}
  Commands <- MCPause
  MaxFaults = 0
  MaxRounds = 1
INVARIANTS PauseCleanupSurvivesCancel
CHECK_DEADLOCK FALSE
