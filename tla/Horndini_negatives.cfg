CONSTANTS
  Loc <- MCLoc
  Interval <- MCInterval
  PremiseSeqs <- MCPremiseSeqs
  NumPoints = 2
  MaxHorns = 1
  MaxPremises = 1
  Bottom = Bottom
SPECIFICATION Spec
\* horndini returns or throws: the final states have no successor.
CHECK_DEADLOCK FALSE
INVARIANTS
  ReturnsFullyConsistent
