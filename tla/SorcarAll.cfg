CONSTANTS
  Loc <- MCLoc
  Interval <- MCInterval
  PremiseSeqs <- MCPremiseSeqs
  StartRs <- MCStartRs
  HornConstraints <- MCHornConstraints
  NumPoints = 3
  MaxHorns = 2
  MaxPremises = 2
  Bottom = Bottom
SPECIFICATION Spec
\* reduce_predicates_all returns: the final states have no successor.
CHECK_DEADLOCK FALSE
PROPERTIES
  ImplementsSorcarSpec
  Terminates
INVARIANTS
  TypeOK
