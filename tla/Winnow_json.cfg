CONSTANTS
  Loc <- MCLoc
  Interval <- MCInterval2
  MaskSets <- MCMaskSets
  NumPoints = 2
  MaxHorns = 0
  MaxPremises = 0
  Bottom = Bottom
  MinExp <- MCMinExp
  MaxExp = 4
  LtfModes = {1, 2}
SPECIFICATION Spec
\* execute_algorithm returns once the JSON file is written.
CHECK_DEADLOCK FALSE
INVARIANT EmittedHypothesisConsistent
