SPECIFICATION Spec
CONSTANTS
  NWords = 4
  Images <- MCImages
  Targets <- MCTargets
INVARIANTS TypeOK QueueInv NoPushWhenFull BusAccounted NoAnswerHidden
PROPERTIES RequestHeld InOrderStream
