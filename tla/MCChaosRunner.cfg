SPECIFICATION FairSpec
CONSTANTS
  c1 = c1  c2 = c2  c3 = c3
  Containers <- MCContainers
  Labelled <- MCLabelled
  ParamSpace <- MCParamSpace
  NoError = NoError
  ListError = ListError
  MaxRuns = 2
INVARIANTS TypeOK BlastRadius RunIsJoined HonestOutcome RunErrorIsReal
PROPERTIES NoNewTargetsAfterCancel CancelEndsLoop SkipErrorKeepsRunning
CHECK_DEADLOCK FALSE
