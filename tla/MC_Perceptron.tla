---------------------------- MODULE MC_Perceptron ----------------------------
(* One location with two predicates (spec S5) and three data points.      *)
EXTENDS Perceptron

MCLoc == {0}
MCInterval == [l \in MCLoc |-> {0, 1}]

\* The caller's precondition: X classifies the labelled points correctly
\* (main asserts is_consistent(X) after horndini).
MCMaskSets(pts) ==
  {h \in SUBSET Attrs :
     \A q \in Pts : /\ pts[q].label = Pos => satisfies(pts[q], h)
                    /\ pts[q].label = Neg => ~satisfies(pts[q], h)}

\* round > 1: the .W file of an earlier round. Small weights make sums
\* that are exactly 0, whose float sign is a choice.
MCMinW == -150

MCStartWeights == {FreshWeights} \cup [0..P -> {-1, 0, 1}]
=============================================================================
