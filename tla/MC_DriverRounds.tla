--------------------------- MODULE MC_DriverRounds ---------------------------
(* Two locations, the first with two predicates (so that a line of the    *)
(* .R file can hold two numbers), two data points, one Horn constraint of *)
(* one premise, three rounds. The second location has no predicates:    *)
(* its line is always "e".                                                *)
EXTENDS DriverRounds

MCLoc == {0, 1}
MCInterval == [l \in MCLoc |-> IF l = 0 THEN {0, 1} ELSE {}]
\* Every algorithm that touches R, with -r where the branch reads it and
\* for sorcar each flag alone or none (-f with -t acts as -t).
MCOptions ==
  {[alg |-> a, reset |-> r, first |-> f, alternate |-> t] :
     <<a, r, f, t>> \in
       {<<"horndini", FALSE, FALSE, FALSE>>,
        <<"sorcar", FALSE, FALSE, FALSE>>, <<"sorcar", TRUE, FALSE, FALSE>>,
        <<"sorcar", FALSE, TRUE, FALSE>>, <<"sorcar", FALSE, FALSE, TRUE>>,
        <<"winnow_s", FALSE, FALSE, FALSE>>, <<"winnow_s", TRUE, FALSE, FALSE>>,
        <<"perceptron", FALSE, FALSE, FALSE>>, <<"perceptron", TRUE, FALSE, FALSE>>}}
=============================================================================
