--------------------------- MODULE MC_LTFLowering ---------------------------
(* The tree writer on one location of three predicates, over every weight *)
(* vector Winnow can hold when it writes: each weight 0 (masked) or       *)
(* w0 = 2 * 3 / 5 = 1.2 multiplied by lr = 2.4 up to MCMaxExp times.     *)
(* Equal exponents give weights that tie after truncation, so the argmax  *)
(* breaks ties; subsets whose int sum equals the root theta exist, so the *)
(* boundary sum == theta is reached.                                       *)
EXTENDS LTFLowering

MCAttrs == 0..2
MCScale == 1000000
MCTheta == 441000
MCMaxExp == 3

\* Winnow's weight after e promotions, in millionths (w *= 2.4 as *12/5).
RECURSIVE MCLadder(_)
MCLadder(e) == IF e = 0 THEN 1200000 ELSE (MCLadder(e - 1) * 12) \div 5

MCWeightValues == {0} \cup {MCLadder(e) : e \in 0..MCMaxExp}
=============================================================================
