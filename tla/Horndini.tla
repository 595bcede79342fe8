------------------------------ MODULE Horndini ------------------------------
(***************************************************************************)
(* sorcar::horndini (sorcar.h): the greatest conjunction per location that *)
(* is consistent with the positive points and the Horn constraints.       *)
(*                                                                         *)
(* One step is one iteration of an inner loop of the code: knocking out   *)
(* the predicates a positive point falsifies, or walking one Horn         *)
(* constraint of the working copy (discharge its satisfied premises, then *)
(* fire it or throw). The input (data points and Horn constraints) is     *)
(* chosen in Init from all inputs within the bounds and never changes.    *)
(***************************************************************************)
EXTENDS HornData, SequencesExt

VARIABLES
  datapoints,        \* the example store (read only)
  horn_constraints,  \* the Horn constraints (read only)
  conjunctions,      \* X: one conjunction per location
  positive,          \* work list of positive data points (indices)
  copy_of_hc,        \* the working copy: indices of the live Horn constraints
  lhs,               \* lhs[i]: the premises of copy i not yet discharged
  horn_it,           \* position of the iterator in copy_of_hc
  pc                 \* "knock", "fire", "done" or "fail" (exception thrown)

vars == <<datapoints, horn_constraints, conjunctions, positive, copy_of_hc,
          lhs, horn_it, pc>>

HornIdx == DOMAIN horn_constraints

\* The premises of the Horn constraint under the iterator that do not yet
\* satisfy the current conjunctions (lines 194-208).
Undischarged(i) ==
  SelectSeq(lhs[i], LAMBDA q : ~Sat(datapoints, conjunctions, q))

\* Plausible bug: the work list built from _classification alone, without
\* the _is_classified test, so unlabeled points count as positive.
InitUnlabeledAsPositive ==
  /\ datapoints \in Datasets
  /\ horn_constraints \in HornLists
  /\ conjunctions = [l \in Loc |-> Interval[l]]
  /\ positive = SelectSeq([q \in Pts |-> q],
                          LAMBDA q : datapoints[q].label \in {Pos, Unl})
  /\ copy_of_hc = [i \in HornIdx |-> i]
  /\ lhs = [i \in HornIdx |-> horn_constraints[i].premises]
  /\ horn_it = 1
  /\ pc = "knock"

(* horndini(datapoints, horn_constraints, intervals): every conjunction   *)
(* starts as its full interval; the work list holds the positive points  *)
(* in data order; the working copy holds every Horn constraint.          *)
Init ==
  /\ datapoints \in Datasets
  /\ horn_constraints \in HornLists
  /\ conjunctions = [l \in Loc |-> Interval[l]]
  /\ positive = SelectSeq([q \in Pts |-> q],
                          LAMBDA q : datapoints[q].label = Pos)
  /\ copy_of_hc = [i \in HornIdx |-> i]
  /\ lhs = [i \in HornIdx |-> horn_constraints[i].premises]
  /\ horn_it = 1
  /\ pc = "knock"

(* Knock out of X[id] every predicate that is false on the next positive. *)
KnockOut ==
  /\ pc = "knock"
  /\ positive /= <<>>
  /\ LET dp == datapoints[Head(positive)]
     IN  conjunctions' = [conjunctions EXCEPT ![dp.loc] = @ \cap dp.bits]
  /\ positive' = Tail(positive)
  /\ UNCHANGED <<datapoints, horn_constraints, copy_of_hc, lhs, horn_it, pc>>

(* positive.clear() and the start of the walk over the working copy.      *)
StartFiring ==
  /\ pc = "knock"
  /\ positive = <<>>
  /\ pc' = "fire"
  /\ horn_it' = 1
  /\ UNCHANGED <<datapoints, horn_constraints, conjunctions, positive,
                 copy_of_hc, lhs>>

(* Drop the satisfied premises; some premise is left, so move on.         *)
Discharge ==
  /\ pc = "fire"
  /\ horn_it <= Len(copy_of_hc)
  /\ LET i == copy_of_hc[horn_it]
     IN  /\ Undischarged(i) /= <<>>
         /\ lhs' = [lhs EXCEPT ![i] = Undischarged(i)]
  /\ horn_it' = horn_it + 1
  /\ UNCHANGED <<datapoints, horn_constraints, conjunctions, positive,
                 copy_of_hc, pc>>

\* Plausible bug: the fired constraint is not erased from the working copy.
FireKeepsConstraint ==
  /\ pc = "fire"
  /\ horn_it <= Len(copy_of_hc)
  /\ LET i == copy_of_hc[horn_it]
     IN  /\ Undischarged(i) = <<>>
         /\ horn_constraints[i].conclusion /= Bottom
         /\ lhs' = [lhs EXCEPT ![i] = <<>>]
         /\ positive' = Append(positive, horn_constraints[i].conclusion)
  /\ horn_it' = horn_it + 1
  /\ UNCHANGED <<datapoints, horn_constraints, conjunctions, copy_of_hc, pc>>

\* Plausible bug: the iterator advanced past the erased constraint too.
FireSkipsNext ==
  /\ pc = "fire"
  /\ horn_it <= Len(copy_of_hc)
  /\ LET i == copy_of_hc[horn_it]
     IN  /\ Undischarged(i) = <<>>
         /\ horn_constraints[i].conclusion /= Bottom
         /\ lhs' = [lhs EXCEPT ![i] = <<>>]
         /\ positive' = Append(positive, horn_constraints[i].conclusion)
  /\ copy_of_hc' = RemoveAt(copy_of_hc, horn_it)
  /\ horn_it' = horn_it + 1
  /\ UNCHANGED <<datapoints, horn_constraints, conjunctions, pc>>

(* Every premise is satisfied: the conclusion becomes a new positive and  *)
(* the constraint leaves the working copy.                                *)
Fire ==
  /\ pc = "fire"
  /\ horn_it <= Len(copy_of_hc)
  /\ LET i == copy_of_hc[horn_it]
     IN  /\ Undischarged(i) = <<>>
         /\ horn_constraints[i].conclusion /= Bottom
         /\ lhs' = [lhs EXCEPT ![i] = <<>>]
         /\ positive' = Append(positive, horn_constraints[i].conclusion)
  /\ copy_of_hc' = RemoveAt(copy_of_hc, horn_it)
  /\ UNCHANGED <<datapoints, horn_constraints, conjunctions, horn_it, pc>>

\* Plausible bug: the bottom conclusion tested before the premises are.
FailBeforeDischarge ==
  /\ pc = "fire"
  /\ horn_it <= Len(copy_of_hc)
  /\ horn_constraints[copy_of_hc[horn_it]].conclusion = Bottom
  /\ pc' = "fail"
  /\ UNCHANGED <<datapoints, horn_constraints, conjunctions, positive,
                 copy_of_hc, lhs, horn_it>>

(* Every premise is satisfied and the conclusion is false: throw "No      *)
(* consistent conjunction exists".                                        *)
Fail ==
  /\ pc = "fire"
  /\ horn_it <= Len(copy_of_hc)
  /\ LET i == copy_of_hc[horn_it]
     IN  /\ Undischarged(i) = <<>>
         /\ horn_constraints[i].conclusion = Bottom
  /\ pc' = "fail"
  /\ UNCHANGED <<datapoints, horn_constraints, conjunctions, positive,
                 copy_of_hc, lhs, horn_it>>

(* End of the walk: loop again while the walk produced new positives.     *)
NextRound ==
  /\ pc = "fire"
  /\ horn_it > Len(copy_of_hc)
  /\ positive /= <<>>
  /\ pc' = "knock"
  /\ UNCHANGED <<datapoints, horn_constraints, conjunctions, positive,
                 copy_of_hc, lhs, horn_it>>

\* Plausible bug: a while loop on the walk alone, not on the new positives.
FinishIgnoringPositives ==
  /\ pc = "fire"
  /\ horn_it > Len(copy_of_hc)
  /\ pc' = "done"
  /\ UNCHANGED <<datapoints, horn_constraints, conjunctions, positive,
                 copy_of_hc, lhs, horn_it>>

Finish ==
  /\ pc = "fire"
  /\ horn_it > Len(copy_of_hc)
  /\ positive = <<>>
  /\ pc' = "done"
  /\ UNCHANGED <<datapoints, horn_constraints, conjunctions, positive,
                 copy_of_hc, lhs, horn_it>>

Next ==
  \/ KnockOut \/ StartFiring
  \/ Discharge \/ Fire \/ Fail
  \/ NextRound \/ Finish

\* horndini is a sequential loop: the next statement always executes.
Spec == Init /\ [][Next]_vars /\ WF_vars(Next)

-----------------------------------------------------------------------------
TypeOK ==
  /\ datapoints \in Datasets
  /\ horn_constraints \in HornLists
  /\ conjunctions \in Hypotheses /\ InIntervals(conjunctions)
  /\ positive \in Seq(Pts)
  /\ copy_of_hc \in Seq(HornIdx)
  /\ lhs \in [HornIdx -> Seq(Pts)]
  /\ horn_it \in 1..(Len(copy_of_hc) + 1)  \* between begin() and end()
  /\ pc \in {"knock", "fire", "done", "fail"}

(* Knock-out never removes a predicate that some hypothesis consistent    *)
(* with the positives and the Horn constraints keeps: at every step X     *)
(* contains each such hypothesis. This is what makes discharging premises *)
(* and firing conclusions sound across the rounds of the do-while loop.   *)
XAboveEveryConsistent ==
  \A H \in ConsistentPHSet(datapoints, horn_constraints) :
    \A l \in Loc : H[l] \subseteq conjunctions[l]

(* When horndini returns, X is consistent with every positive point and   *)
(* every Horn constraint; with XAboveEveryConsistent it is the greatest   *)
(* such hypothesis.                                                        *)
ReturnsConsistent ==
  pc = "done" => ConsistentPH(conjunctions, datapoints, horn_constraints)

(* horndini throws "No consistent conjunction exists" only when no        *)
(* hypothesis is consistent with the positives and the Horn constraints.  *)
ThrowsOnlyWhenInfeasible ==
  pc = "fail" => ConsistentPHSet(datapoints, horn_constraints) = {}

(* The do-while loop terminates: horndini returns or throws.              *)
Terminates == <>(pc \in {"done", "fail"})

(* Spec 4.2: "is_consistent(X) holds or the function has failed", i.e.    *)
(* the returned X is consistent with the negative points as well.         *)
ReturnsFullyConsistent ==
  pc = "done" => is_consistent(conjunctions, datapoints, horn_constraints)
=============================================================================
