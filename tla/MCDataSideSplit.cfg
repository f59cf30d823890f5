SPECIFICATION Spec
CONSTANTS
  NBytes = 8
  Cores <- MCNoWb
  Regions <- MCRegions
INVARIANTS LoadedValue
