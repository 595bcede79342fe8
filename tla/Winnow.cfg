CONSTANTS
  Loc <- MCLoc
  Interval <- MCInterval1
  MaskSets <- MCMaskSets
  StartWeights <- MCStartWeights
  NumPoints = 4
  MaxHorns = 0
  MaxPremises = 0
  Bottom = Bottom
  MinExp <- MCMinExp
  MaxExp = 4
  LtfModes = {1, 2}
SPECIFICATION Spec
\* execute_algorithm returns once the JSON file is written.
CHECK_DEADLOCK FALSE
PROPERTIES
  Terminates
INVARIANTS
  TypeOK
