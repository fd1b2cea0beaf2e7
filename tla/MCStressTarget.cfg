SPECIFICATION Spec
CONSTANTS
  Modes = {"direct"}
  MaxFaults = 0
INVARIANTS TargetSurvives
CHECK_DEADLOCK FALSE
