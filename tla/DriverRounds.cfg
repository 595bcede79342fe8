CONSTANTS
  Loc <- MCLoc
  Interval <- MCInterval
  Options <- MCOptions
  NumPoints = 2
  MaxHorns = 1
  MaxPremises = 1
  Bottom = Bottom
  MaxRound = 3
  Sentinel = Sentinel
SPECIFICATION Spec
\* The verifier stops calling the learner after the last round.
CHECK_DEADLOCK FALSE
INVARIANTS
  TypeOK
  RFileRoundTrip
  ThrowsOnlyOnMissingRFile
  XFixesLaterRounds
