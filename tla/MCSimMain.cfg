SPECIFICATION FairSpec
CONSTANTS
  initial_reset_delay_cycles_ = 1
  reset_duration_cycles_ = 2
  Numbers <- MCNumbers
  TimeCap = 10
  Areas <- MCAreas
  Scopes <- MCScopes
  Depth = 4
  Files <- MCFiles
  Extensions <- MCExtensions
  Fields <- MCFields
  CommandLines <- MCCommandLines
INVARIANTS ResetWindow FailureSticks TermExact TraceFileClosed ChangesAnnounced
INVARIANTS LoadLeavesNothing RunsOnlyAsAsked
PROPERTIES StopsInTheEnd
