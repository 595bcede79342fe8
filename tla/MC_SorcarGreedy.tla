--------------------------- MODULE MC_SorcarGreedy ---------------------------
EXTENDS SorcarGreedy

\* One location with predicates 0 and 1.
MCLoc == {0}
MCInterval == [l \in MCLoc |-> {0, 1}]

\* Premise vectors in increasing order only: every reducer reads the
\* premises as a set, so their order cannot change its result.
MCPremiseSeqs ==
  UNION {{s \in [1..n -> Pts] : \A i \in 1..(n - 1) : s[i] < s[i + 1]}
           : n \in 0..MaxPremises}
\* The R of a prior round: empty, or holding predicate 1 (inside or
\* outside the new X, depending on the input).
MCStartRs == {[l \in MCLoc |-> {}], [l \in MCLoc |-> {1}]}
\* A constraint whose conclusion is one of its premises holds under every
\* hypothesis and is never active in a Horn pass: left out of the inputs.
MCHornConstraints ==
  {h \in [premises : PremiseSeqs, conclusion : Pts \cup {Bottom}] :
     h.conclusion \notin PremiseSet(h)}
=============================================================================
