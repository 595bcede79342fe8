--------------------------- MODULE MC_SorcarMinimal ---------------------------
(* One location with two predicates and three data points; premise vectors *)
(* in increasing order (the encoding does not depend on their order).      *)
EXTENDS SorcarMinimal

MCLoc == {0}
MCInterval == [l \in MCLoc |-> {0, 1}]
\* Starting from the empty R, and from a prior R that keeps one predicate.
MCStartRs == {[l \in MCLoc |-> {}], [l \in MCLoc |-> {1}]}
MCPremiseSeqs ==
  UNION {{s \in [1..n -> Pts] : \A i, j \in 1..n : i < j => s[i] < s[j]}
           : n \in 0..MaxPremises}
\* A constraint whose conclusion is one of its premises only ever yields a
\* protecting clause <<A, B>> with B \subseteq A, which every assignment
\* satisfies: left out of the inputs.
MCHornConstraints ==
  {h \in [premises : PremiseSeqs, conclusion : Pts \cup {Bottom}] :
     h.conclusion \notin PremiseSet(h)}
=============================================================================
