CONSTANTS
  Loc <- MCLoc
  Interval <- MCInterval3
  MaskSets <- MCMaskSets
  StartWeights <- MCStaleWeights
  NumPoints = 2
  MaxHorns = 0
  MaxPremises = 0
  Bottom = Bottom
  MinExp <- MCMinExp
  MaxExp = 4
  LtfModes = {1, 2}
SPECIFICATION Spec
\* execute_algorithm returns once the JSON file is written.
CHECK_DEADLOCK FALSE
PROPERTY Terminates
