---------------------------- MODULE MC_SorcarFirst ----------------------------
(* One location with two predicates and three data points. Premise vectors *)
(* are enumerated in every order: the "first" variant repairs a Horn       *)
(* constraint through its first premise that has a 0-entry.                *)
EXTENDS SorcarFirst

MCLoc == {0}
MCInterval == [l \in MCLoc |-> {0, 1}]
\* A constraint whose conclusion is one of its premises holds under every
\* hypothesis and is never active in a Horn pass: left out of the inputs.
MCHornConstraints ==
  {h \in [premises : PremiseSeqs, conclusion : Pts \cup {Bottom}] :
     h.conclusion \notin PremiseSet(h)}
\* The run starts from the empty R only: a prior R passes through the same
\* prepare_sets as in Sorcar-all, whose run starts from both.
MCFirstStartRs == {[l \in MCLoc |-> {}]}
=============================================================================
