CONSTANTS
  Loc <- MCLoc
  Interval <- MCInterval
  StartRs <- MCFirstStartRs
  HornConstraints <- MCHornConstraints
  NumPoints = 3
  MaxHorns = 2
  MaxPremises = 2
  Bottom = Bottom
SPECIFICATION Spec
\* reduce_predicates_first returns: the final states have no successor.
CHECK_DEADLOCK FALSE
PROPERTIES
  ImplementsSorcarSpec
  ReturnsByMeasure
INVARIANTS
  TypeOK
