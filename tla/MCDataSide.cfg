SPECIFICATION FairSpec
CONSTANTS
  NBytes = 8
  Cores <- MCCores
  Regions <- MCRegions
INVARIANTS LoadedValuePrompt StoredBytes ErrorsReported FaultAddress OneAnswerEach
PROPERTIES RequestHeld EveryAccessAnswered
