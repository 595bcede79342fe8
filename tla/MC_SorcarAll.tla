----------------------------- MODULE MC_SorcarAll -----------------------------
(* One location with two predicates and three data points; premise vectors *)
(* in increasing order (the "all" variant adds the 0-entries of every      *)
(* premise, so their order does not matter).                               *)
EXTENDS SorcarAll

MCLoc == {0}
MCInterval == [l \in MCLoc |-> {0, 1}]
MCPremiseSeqs ==
  UNION {{s \in [1..n -> Pts] : \A i, j \in 1..n : i < j => s[i] < s[j]}
           : n \in 0..MaxPremises}
\* The R of a prior round: empty, or holding predicate 1 (inside or
\* outside the new X, depending on the input).
MCStartRs == {[l \in MCLoc |-> {}], [l \in MCLoc |-> {1}]}
\* A constraint whose conclusion is one of its premises holds under every
\* hypothesis and is never active in a Horn pass: left out of the inputs.
MCHornConstraints ==
  {h \in [premises : PremiseSeqs, conclusion : Pts \cup {Bottom}] :
     h.conclusion \notin PremiseSet(h)}
=============================================================================
