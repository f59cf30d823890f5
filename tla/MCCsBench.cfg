SPECIFICATION FairSpec
CONSTANTS
  PMPNumRegions = 8
  MHPMCounterNum = 1
  MHPMCounterWidth = 40
  Addrs <- MCAddrs
  CycleWords = {{}, {0}}
  Wdata <- MCWdata
  Delays = {1, 4}
  ResetDelays = {6, 8}
  StopAfter = 5
INVARIANTS ModelAgrees VerdictRight
PROPERTIES RunEnds
