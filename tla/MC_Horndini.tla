----------------------------- MODULE MC_Horndini -----------------------------
(* One location with two predicates and three data points: enough for a    *)
(* Horn chain (a fired conclusion enabling a second constraint), a bottom  *)
(* conclusion, and a negative point the positives cannot separate.         *)
(* Premise vectors are enumerated in increasing order only: horndini's     *)
(* result does not depend on the order of the premises of a constraint.    *)
EXTENDS Horndini

MCLoc == {0}
MCInterval == [l \in MCLoc |-> {0, 1}]
MCPremiseSeqs ==
  UNION {{s \in [1..n -> Pts] : \A i, j \in 1..n : i < j => s[i] < s[j]}
           : n \in 0..MaxPremises}
\* A constraint whose conclusion is one of its premises fires only when
\* that point already satisfies X, and then knocks out nothing: left out.
MCHornConstraints ==
  {h \in [premises : PremiseSeqs, conclusion : Pts \cup {Bottom}] :
     h.conclusion \notin PremiseSet(h)}
=============================================================================
