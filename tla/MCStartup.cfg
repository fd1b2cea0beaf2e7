SPECIFICATION Spec
CONSTANTS
  Scenarios <- MCScenarios
  Population <- MCPopulation
  MaxFaults = 1
  MaxFlips = 1
  MaxCalls = 2
INVARIANTS TypeOK SocketAsPromised ConnectionsClosed RootlessNeverInjects ScopeNeverWidens CommandAsAsked
PROPERTIES StartupEnds
CHECK_DEADLOCK FALSE
