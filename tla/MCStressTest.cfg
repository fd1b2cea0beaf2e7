SPECIFICATION TestSpec
CONSTANTS
  Modes = {"docker", "podman", "sidecar", "direct", "dry"}
  MaxFaults = 2
  Setups <- MCSetups
INVARIANTS TestTypeOK ParkedVerdict NeverStartedIsRemoved SuccessMeansOver SidecarReaped StressHitsTarget InjectionFailsForAReason
PROPERTIES GoroutineEnds StressReturns
CHECK_DEADLOCK FALSE
