SPECIFICATION Spec
CONSTANTS
  Scenarios <- MCDelays
  Population <- MCPopulation
  MaxFaults = 1
  MaxFlips = 1
  MaxCalls = 2
INVARIANT ReadAsAsked
CHECK_DEADLOCK FALSE
