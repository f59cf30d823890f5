SPECIFICATION FairSpec
CONSTANTS
  NWords = 4
  Images <- MCMixedImage
  Targets <- MCTargets
PROPERTIES Progress
