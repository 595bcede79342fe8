CONSTANTS
  Attrs <- MCAttrs
  WeightValues <- MCWeightValues
  Theta <- MCTheta
  Scale <- MCScale
SPECIFICATION Spec
\* write_ltf2bool_json returns once the tree is written.
CHECK_DEADLOCK FALSE
INVARIANTS
  TypeOK
  TreeBetweenThresholds
