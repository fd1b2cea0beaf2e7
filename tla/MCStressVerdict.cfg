SPECIFICATION Spec
CONSTANTS
  Modes = {"docker"}
  MaxFaults = 0
INVARIANTS VerdictIsExitStatus
CHECK_DEADLOCK FALSE
