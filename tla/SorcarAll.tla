------------------------------ MODULE SorcarAll ------------------------------
(***************************************************************************)
(* sorcar::reduce_predicates_all (sorcar.h): grow R inside Horndini's X    *)
(* until R is consistent, adding for each misclassified negative point    *)
(* and each violated Horn constraint EVERY predicate of X \ R that is     *)
(* false on the point (on every premise).                                  *)
(*                                                                         *)
(* One step is one iteration of a loop of the code. The input is any data *)
(* set and Horn list on which Horndini returns an X consistent with the   *)
(* negatives too (the reducer's precondition); X is that greatest         *)
(* hypothesis (Horndini.tla checks that horndini computes it), and the    *)
(* starting R is any prior round's R.                                      *)
(***************************************************************************)
EXTENDS HornData, SequencesExt

VARIABLES
  datapoints, horn_constraints,  \* the input (read only)
  X,                             \* Horndini's result (read only)
  R,                             \* the conjunctions being grown
  X_minus_R,
  dp_it,                         \* position in the negative pass
  horn_constraint_pointers,      \* the live Horn constraints (indices)
  hc_it,                         \* position in horn_constraint_pointers
  added_relevant_predicate,      \* FALSE once a pass has added predicates
  pc                             \* "prepare", "neg", "horn", "done"

vars == <<datapoints, horn_constraints, X, R, X_minus_R, dp_it,
          horn_constraint_pointers, hc_it, added_relevant_predicate, pc>>

input == <<datapoints, horn_constraints, X>>

\* The predicates of X \ R that are false on data point q (the 0-entries).
Zeros(q) == {p \in X_minus_R[datapoints[q].loc] : p \notin datapoints[q].bits}

\* Add to R, and remove from X \ R, the 0-entries of every point in S.
AddZerosOf(S) ==
  LET add(l) == UNION {Zeros(q) : q \in {s \in S : datapoints[s].loc = l}}
  IN  /\ R' = [l \in Loc |-> R[l] \cup add(l)]
      /\ X_minus_R' = [l \in Loc |-> X_minus_R[l] \ add(l)]

CurrentHorn == horn_constraints[horn_constraint_pointers[hc_it]]

Init ==
  /\ \E in \in SorcarInputs :
       /\ datapoints = in[1]
       /\ horn_constraints = in[2]
       /\ X = GreatestPH(in[1], in[2])
  /\ R \in StartRs
  /\ X_minus_R = [l \in Loc |-> {}]
  /\ dp_it = 1
  /\ horn_constraint_pointers = <<>>
  /\ hc_it = 1
  /\ added_relevant_predicate = TRUE
  /\ pc = "prepare"

\* Plausible bug: the caller's R kept as it was read, not cut down to X.
PrepareKeepsR ==
  /\ pc = "prepare"
  /\ X_minus_R' = prepare_sets(X, R)[2]
  /\ pc' = "neg"
  /\ UNCHANGED <<input, R, dp_it, horn_constraint_pointers, hc_it,
                 added_relevant_predicate>>

(* The argument checks pass (X is not empty, |R| = |X|) and prepare_sets  *)
(* makes R := R \cap X and X_minus_R := X \ R.                            *)
Prepare ==
  /\ pc = "prepare"
  /\ R' = prepare_sets(X, R)[1]
  /\ X_minus_R' = prepare_sets(X, R)[2]
  /\ pc' = "neg"
  /\ UNCHANGED <<input, dp_it, horn_constraint_pointers, hc_it,
                 added_relevant_predicate>>

(* A negative point that satisfies R[id]: add all its 0-entries of X \ R. *)
FixNegative ==
  /\ pc = "neg"
  /\ dp_it <= NumPoints
  /\ datapoints[dp_it].label = Neg
  /\ Sat(datapoints, R, dp_it)
  /\ AddZerosOf({dp_it})
  /\ dp_it' = dp_it + 1
  /\ UNCHANGED <<input, horn_constraint_pointers, hc_it,
                 added_relevant_predicate, pc>>

SkipPoint ==
  /\ pc = "neg"
  /\ dp_it <= NumPoints
  /\ ~(datapoints[dp_it].label = Neg /\ Sat(datapoints, R, dp_it))
  /\ dp_it' = dp_it + 1
  /\ UNCHANGED <<input, R, X_minus_R, horn_constraint_pointers, hc_it,
                 added_relevant_predicate, pc>>

(* Observer pointers to every Horn constraint; the first pass begins.     *)
StartHorns ==
  /\ pc = "neg"
  /\ dp_it > NumPoints
  /\ horn_constraint_pointers' = [i \in DOMAIN horn_constraints |-> i]
  /\ hc_it' = 1
  /\ added_relevant_predicate' = TRUE
  /\ pc' = "horn"
  /\ UNCHANGED <<input, R, X_minus_R, dp_it>>

\* Plausible bug: the iterator advanced past the erased constraint too.
DropVacuousAdvances ==
  /\ pc = "horn"
  /\ hc_it <= Len(horn_constraint_pointers)
  /\ ~PremisesSat(datapoints, R, CurrentHorn)
  /\ horn_constraint_pointers' = RemoveAt(horn_constraint_pointers, hc_it)
  /\ hc_it' = hc_it + 1
  /\ UNCHANGED <<input, R, X_minus_R, dp_it, added_relevant_predicate, pc>>

(* Some premise fails R: the constraint is vacuous from now on (R only    *)
(* grows), so it leaves the list.                                         *)
DropVacuous ==
  /\ pc = "horn"
  /\ hc_it <= Len(horn_constraint_pointers)
  /\ ~PremisesSat(datapoints, R, CurrentHorn)
  /\ horn_constraint_pointers' = RemoveAt(horn_constraint_pointers, hc_it)
  /\ UNCHANGED <<input, R, X_minus_R, dp_it, hc_it,
                 added_relevant_predicate, pc>>

\* Plausible bug: the "added" flag cleared in the satisfied branch too.
KeepSatisfiedClearsFlag ==
  /\ pc = "horn"
  /\ hc_it <= Len(horn_constraint_pointers)
  /\ PremisesSat(datapoints, R, CurrentHorn)
  /\ ConclusionSat(datapoints, R, CurrentHorn)
  /\ hc_it' = hc_it + 1
  /\ added_relevant_predicate' = FALSE
  /\ UNCHANGED <<input, R, X_minus_R, dp_it, horn_constraint_pointers, pc>>

(* Premises and conclusion satisfied: keep it, a later addition to R may  *)
(* still falsify the conclusion.                                          *)
KeepSatisfied ==
  /\ pc = "horn"
  /\ hc_it <= Len(horn_constraint_pointers)
  /\ PremisesSat(datapoints, R, CurrentHorn)
  /\ ConclusionSat(datapoints, R, CurrentHorn)
  /\ hc_it' = hc_it + 1
  /\ UNCHANGED <<input, R, X_minus_R, dp_it, horn_constraint_pointers,
                 added_relevant_predicate, pc>>

(* Premises satisfied, conclusion bottom or false: add all 0-entries of   *)
(* all premises, drop the constraint, and ask for another pass.           *)
RepairHorn ==
  /\ pc = "horn"
  /\ hc_it <= Len(horn_constraint_pointers)
  /\ PremisesSat(datapoints, R, CurrentHorn)
  /\ ~ConclusionSat(datapoints, R, CurrentHorn)
  /\ AddZerosOf(PremiseSet(CurrentHorn))
  /\ horn_constraint_pointers' = RemoveAt(horn_constraint_pointers, hc_it)
  /\ added_relevant_predicate' = FALSE
  /\ UNCHANGED <<input, dp_it, hc_it, pc>>

(* End of a pass: another pass if this one added predicates.              *)
NextPass ==
  /\ pc = "horn"
  /\ hc_it > Len(horn_constraint_pointers)
  /\ ~added_relevant_predicate
  /\ hc_it' = 1
  /\ added_relevant_predicate' = TRUE
  /\ UNCHANGED <<input, R, X_minus_R, dp_it, horn_constraint_pointers, pc>>

Return ==
  /\ pc = "horn"
  /\ hc_it > Len(horn_constraint_pointers)
  /\ added_relevant_predicate
  /\ pc' = "done"
  /\ UNCHANGED <<input, R, X_minus_R, dp_it, horn_constraint_pointers, hc_it,
                 added_relevant_predicate>>

Next ==
  \/ Prepare \/ FixNegative \/ SkipPoint \/ StartHorns
  \/ DropVacuous \/ KeepSatisfied \/ RepairHorn
  \/ NextPass \/ Return

\* A sequential function: the next statement always executes.
Spec == Init /\ [][Next]_vars /\ WF_vars(Next)

-----------------------------------------------------------------------------
TypeOK ==
  /\ R \in Hypotheses /\ X_minus_R \in Hypotheses
  /\ dp_it \in 1..(NumPoints + 1)
  /\ horn_constraint_pointers \in Seq(DOMAIN horn_constraints)
  /\ hc_it \in 1..(Len(horn_constraint_pointers) + 1)  \* begin() to end()
  /\ added_relevant_predicate \in BOOLEAN
  /\ pc \in {"prepare", "neg", "horn", "done"}

\* The abstract reducer: R as the caller sees it once prepare_sets has run.
Abs == INSTANCE SorcarSpec WITH
         R <- IF pc = "prepare" THEN prepare_sets(X, R)[1] ELSE R,
         status <- IF pc = "done" THEN "done" ELSE "running"

(* reduce_predicates_all implements SorcarSpec: across the negative pass  *)
(* and the Horn passes, which keep, drop and repair constraints against   *)
(* an R that keeps growing, R only gains predicates of X, and the call    *)
(* returns only an R consistent with every labeled point and every Horn   *)
(* constraint (the final debug assertion).                                 *)
ImplementsSorcarSpec == Abs!Spec

(* The fixed-point loop over the Horn constraints terminates.              *)
Terminates == <>(pc = "done")
=============================================================================
