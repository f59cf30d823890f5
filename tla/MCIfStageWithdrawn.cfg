SPECIFICATION Spec
CONSTANTS
  NWords = 4
  Images <- MCImages
  Targets <- MCTargets
PROPERTIES RequestStaysHigh
