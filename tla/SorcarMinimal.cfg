CONSTANTS
  Loc <- MCLoc
  Interval <- MCInterval
  StartRs <- MCStartRs
  PremiseSeqs <- MCPremiseSeqs
  HornConstraints <- MCHornConstraints
  NumPoints = 3
  MaxHorns = 2
  MaxPremises = 1
  Bottom = Bottom
  MayAnswerUnknown = TRUE
  MaxUnknowns = 2
SPECIFICATION Spec
\* reduce_predicates_minimal returns or throws: final states have no successor.
CHECK_DEADLOCK FALSE
PROPERTIES
  Terminates
INVARIANTS
  TypeOK
  ReturnsConsistent
  GivesUpOnlyAfterUnknowns
  AddsAtMostOptimumPlusUnknowns
