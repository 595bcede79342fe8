CONSTANTS
  Loc <- MCLoc
  Interval <- MCInterval
  PremiseSeqs <- MCPremiseSeqs
  HornConstraints <- MCHornConstraints
  NumPoints = 3
  MaxHorns = 2
  MaxPremises = 2
  Bottom = Bottom
SPECIFICATION Spec
\* horndini returns or throws: the final states have no successor.
CHECK_DEADLOCK FALSE
PROPERTIES
  Terminates
INVARIANTS
  TypeOK
  XAboveEveryConsistent
  ReturnsConsistent
  ThrowsOnlyWhenInfeasible
