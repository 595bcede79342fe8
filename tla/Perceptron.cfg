CONSTANTS
  Loc <- MCLoc
  Interval <- MCInterval
  MaskSets <- MCMaskSets
  StartWeights <- MCStartWeights
  NumPoints = 3
  MaxHorns = 0
  MaxPremises = 0
  Bottom = Bottom
  MinW <- MCMinW
  MaxW = 150
SPECIFICATION Spec
\* The driver's perceptron branch returns once the JSON file is written.
CHECK_DEADLOCK FALSE
PROPERTIES
  Terminates
INVARIANTS
  TypeOK
  LTFConsistent
