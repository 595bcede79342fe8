------------------------------ MODULE MC_Winnow ------------------------------
(* One location. With three predicates w0 = 1.2 exceeds theta, and with a *)
(* conjunction H that is right on the labelled points no update ever      *)
(* happens; with one predicate w0 = 0.4 and training promotes; with two   *)
(* (spec S5) w0 = 0.8, which the int conversions of both writers drop.    *)
EXTENDS Winnow

MCLoc == {0}
MCInterval1 == [l \in MCLoc |-> {0}]
MCInterval2 == [l \in MCLoc |-> 0..1]
MCInterval3 == [l \in MCLoc |-> 0..2]
MCMinExp == -3

\* The caller's precondition: H classifies the labelled points correctly
\* (Horndini's X when it excludes every negative point; Sorcar's R).
MCMaskSets(pts) ==
  {h \in SUBSET Attrs :
     \A q \in Pts : /\ pts[q].label = Pos => satisfies(pts[q], h)
                    /\ pts[q].label = Neg => ~satisfies(pts[q], h)}

\* -w: the weights a .W file of an earlier round holds. Under that
\* precondition training only ever promotes, so the exponents are >= 0.
MCStartWeights == {FreshWeights} \cup [Attrs -> 0..MaxExp]

\* -w with -s: R grows between rounds, and a predicate that was outside
\* the earlier R was written to the .W file with weight 0.
MCStaleWeights == [Attrs -> {ZeroW, 0}]
=============================================================================
