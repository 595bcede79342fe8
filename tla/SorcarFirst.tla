----------------------------- MODULE SorcarFirst -----------------------------
(***************************************************************************)
(* sorcar::reduce_predicates_first (sorcar.h): grow R inside Horndini's X  *)
(* until R is consistent, adding for each misclassified negative point    *)
(* the FIRST predicate of X \ R that is false on it, and for each violated *)
(* Horn constraint the first such predicate of the first premise (in      *)
(* vector order) that has one.                                             *)
(*                                                                         *)
(* One step is one iteration of a loop of the code. The input is any data *)
(* set and Horn list on which Horndini returns an X consistent with the   *)
(* negatives too (the reducer's precondition); X is that greatest         *)
(* hypothesis (Horndini.tla checks that horndini computes it), and the    *)
(* starting R is any prior round's R.                                      *)
(***************************************************************************)
EXTENDS HornData, SequencesExt

VARIABLES
  datapoints, horn_constraints,  \* the input (read only)
  X,                             \* Horndini's result (read only)
  R,                             \* the conjunctions being grown
  X_minus_R,
  dp_it,                         \* position in the negative pass
  horn_constraint_pointers,      \* the live Horn constraints (indices)
  hc_it,                         \* position in horn_constraint_pointers
  added_relevant_predicate,      \* FALSE once a pass has added predicates
  pc                             \* "prepare", "neg", "horn", "done"

vars == <<datapoints, horn_constraints, X, R, X_minus_R, dp_it,
          horn_constraint_pointers, hc_it, added_relevant_predicate, pc>>

input == <<datapoints, horn_constraints, X>>

\* Plausible bug: the 0-entries taken over the whole interval, not X \ R.
ZerosOfInterval(q) ==
  {p \in Interval[datapoints[q].loc] \ R[datapoints[q].loc] :
     p \notin datapoints[q].bits}

\* The predicates of X \ R that are false on data point q (the 0-entries).
Zeros(q) == {p \in X_minus_R[datapoints[q].loc] : p \notin datapoints[q].bits}

FirstOf(S) == CHOOSE p \in S : \A o \in S : p <= o

\* Move predicate p of location l from X \ R to R.
AddPredicate(l, p) ==
  /\ R' = [R EXCEPT ![l] = @ \cup {p}]
  /\ X_minus_R' = [X_minus_R EXCEPT ![l] = @ \ {p}]

\* The first 0-entry of q in X \ R (X_minus_R is iterated in order).
AddFirstZeroOf(q) == AddPredicate(datapoints[q].loc, FirstOf(Zeros(q)))

CurrentHorn == horn_constraints[horn_constraint_pointers[hc_it]]

Init ==
  /\ \E in \in SorcarInputs :
       /\ datapoints = in[1]
       /\ horn_constraints = in[2]
       /\ X = GreatestPH(in[1], in[2])
  /\ R \in StartRs
  /\ X_minus_R = [l \in Loc |-> {}]
  /\ dp_it = 1
  /\ horn_constraint_pointers = <<>>
  /\ hc_it = 1
  /\ added_relevant_predicate = TRUE
  /\ pc = "prepare"

(* The argument checks pass (X is not empty, |R| = |X|) and prepare_sets  *)
(* makes R := R \cap X and X_minus_R := X \ R.                            *)
Prepare ==
  /\ pc = "prepare"
  /\ R' = prepare_sets(X, R)[1]
  /\ X_minus_R' = prepare_sets(X, R)[2]
  /\ pc' = "neg"
  /\ UNCHANGED <<input, dp_it, horn_constraint_pointers, hc_it,
                 added_relevant_predicate>>

(* A negative point that satisfies R[id]: add its first 0-entry of X \ R. *)
FixNegative ==
  /\ pc = "neg"
  /\ dp_it <= NumPoints
  /\ datapoints[dp_it].label = Neg
  /\ Sat(datapoints, R, dp_it)
  /\ AddFirstZeroOf(dp_it)
  /\ dp_it' = dp_it + 1
  /\ UNCHANGED <<input, horn_constraint_pointers, hc_it,
                 added_relevant_predicate, pc>>

SkipPoint ==
  /\ pc = "neg"
  /\ dp_it <= NumPoints
  /\ ~(datapoints[dp_it].label = Neg /\ Sat(datapoints, R, dp_it))
  /\ dp_it' = dp_it + 1
  /\ UNCHANGED <<input, R, X_minus_R, horn_constraint_pointers, hc_it,
                 added_relevant_predicate, pc>>

\* Plausible bug: the pass started from before begin().
(* Observer pointers to every Horn constraint; the first pass begins.     *)
StartHorns ==
  /\ pc = "neg"
  /\ dp_it > NumPoints
  /\ horn_constraint_pointers' = [i \in DOMAIN horn_constraints |-> i]
  /\ hc_it' = 1
  /\ added_relevant_predicate' = TRUE
  /\ pc' = "horn"
  /\ UNCHANGED <<input, R, X_minus_R, dp_it>>

(* Some premise fails R: the constraint is vacuous from now on (R only    *)
(* grows), so it leaves the list.                                         *)
DropVacuous ==
  /\ pc = "horn"
  /\ hc_it <= Len(horn_constraint_pointers)
  /\ ~PremisesSat(datapoints, R, CurrentHorn)
  /\ horn_constraint_pointers' = RemoveAt(horn_constraint_pointers, hc_it)
  /\ UNCHANGED <<input, R, X_minus_R, dp_it, hc_it,
                 added_relevant_predicate, pc>>

\* Plausible bug: the "added" flag cleared in the satisfied branch too.
KeepSatisfiedClearsFlag ==
  /\ pc = "horn"
  /\ hc_it <= Len(horn_constraint_pointers)
  /\ PremisesSat(datapoints, R, CurrentHorn)
  /\ ConclusionSat(datapoints, R, CurrentHorn)
  /\ hc_it' = hc_it + 1
  /\ added_relevant_predicate' = FALSE
  /\ UNCHANGED <<input, R, X_minus_R, dp_it, horn_constraint_pointers, pc>>

(* Premises and conclusion satisfied: keep it, a later addition to R may  *)
(* still falsify the conclusion.                                          *)
KeepSatisfied ==
  /\ pc = "horn"
  /\ hc_it <= Len(horn_constraint_pointers)
  /\ PremisesSat(datapoints, R, CurrentHorn)
  /\ ConclusionSat(datapoints, R, CurrentHorn)
  /\ hc_it' = hc_it + 1
  /\ UNCHANGED <<input, R, X_minus_R, dp_it, horn_constraint_pointers,
                 added_relevant_predicate, pc>>

\* Plausible bug: the iterator advanced past the erased constraint as well
\* (hc_it = erase(hc_it); ++hc_it;), skipping the next one.
RepairHornSkipsNext ==
  /\ pc = "horn"
  /\ hc_it <= Len(horn_constraint_pointers)
  /\ PremisesSat(datapoints, R, CurrentHorn)
  /\ ~ConclusionSat(datapoints, R, CurrentHorn)
  /\ LET ps == CurrentHorn.premises
         k  == CHOOSE k \in DOMAIN ps :
                 /\ Zeros(ps[k]) /= {}
                 /\ \A j \in 1..(k - 1) : Zeros(ps[j]) = {}
     IN  AddFirstZeroOf(ps[k])
  /\ horn_constraint_pointers' = RemoveAt(horn_constraint_pointers, hc_it)
  /\ hc_it' = hc_it + 1
  /\ added_relevant_predicate' = FALSE
  /\ UNCHANGED <<input, dp_it, pc>>

(* Premises satisfied, conclusion bottom or false: add the first 0-entry  *)
(* of the first premise that has one, drop the constraint, and ask for    *)
(* another pass. (assert(added) holds: X is consistent, so some premise   *)
(* fails X and has a 0-entry in X \ R.)                                   *)
RepairHorn ==
  /\ pc = "horn"
  /\ hc_it <= Len(horn_constraint_pointers)
  /\ PremisesSat(datapoints, R, CurrentHorn)
  /\ ~ConclusionSat(datapoints, R, CurrentHorn)
  /\ LET ps == CurrentHorn.premises
         k  == CHOOSE k \in DOMAIN ps :
                 /\ Zeros(ps[k]) /= {}
                 /\ \A j \in 1..(k - 1) : Zeros(ps[j]) = {}
     IN  AddFirstZeroOf(ps[k])
  /\ horn_constraint_pointers' = RemoveAt(horn_constraint_pointers, hc_it)
  /\ added_relevant_predicate' = FALSE
  /\ UNCHANGED <<input, dp_it, hc_it, pc>>

(* End of a pass: another pass if this one added predicates.              *)
NextPass ==
  /\ pc = "horn"
  /\ hc_it > Len(horn_constraint_pointers)
  /\ ~added_relevant_predicate
  /\ hc_it' = 1
  /\ added_relevant_predicate' = TRUE
  /\ UNCHANGED <<input, R, X_minus_R, dp_it, horn_constraint_pointers, pc>>

Return ==
  /\ pc = "horn"
  /\ hc_it > Len(horn_constraint_pointers)
  /\ added_relevant_predicate
  /\ pc' = "done"
  /\ UNCHANGED <<input, R, X_minus_R, dp_it, horn_constraint_pointers, hc_it,
                 added_relevant_predicate>>

Next ==
  \/ Prepare \/ FixNegative \/ SkipPoint \/ StartHorns
  \/ DropVacuous \/ KeepSatisfied \/ RepairHorn
  \/ NextPass \/ Return

\* A sequential function: the next statement always executes.
Spec == Init /\ [][Next]_vars /\ WF_vars(Next)

-----------------------------------------------------------------------------
TypeOK ==
  /\ R \in Hypotheses /\ X_minus_R \in Hypotheses
  /\ dp_it \in 1..(NumPoints + 1)
  /\ horn_constraint_pointers \in Seq(DOMAIN horn_constraints)
  /\ hc_it \in 1..(Len(horn_constraint_pointers) + 1)  \* begin() to end()
  /\ added_relevant_predicate \in BOOLEAN
  /\ pc \in {"prepare", "neg", "horn", "done"}

\* The abstract reducer: R as the caller sees it once prepare_sets has run.
Abs == INSTANCE SorcarSpec WITH
         R <- IF pc = "prepare" THEN prepare_sets(X, R)[1] ELSE R,
         status <- IF pc = "done" THEN "done" ELSE "running"

(* reduce_predicates_first implements SorcarSpec: adding one predicate    *)
(* per negative point and per violated constraint, through the first      *)
(* premise that has one, R only gains predicates of X, and the call       *)
(* returns only an R consistent with every labeled point and every Horn   *)
(* constraint (the final debug assertion), though constraints were kept,  *)
(* dropped and repaired against an R that kept growing.                   *)
ImplementsSorcarSpec == Abs!Spec

\* Position in the function: prepare_sets, the negative pass, the Horn
\* passes, returned.
Phase == CASE pc = "prepare" -> 3 [] pc = "neg" -> 2 [] pc = "horn" -> 1
           [] pc = "done" -> 0

\* The iterations left in the current loop.
LoopLeft ==
  CASE pc = "neg"  -> NumPoints + 1 - dp_it
    [] pc = "horn" -> Len(horn_constraint_pointers) + 1 - hc_it
    [] OTHER       -> 0

\* The termination measure of the function: the phase; then the predicates
\* of X \ R still unused, counted twice, plus one while the current pass
\* has added a predicate; then the iterations left in the loop.
Measure ==
  << Phase,
     2 * MapThenSumSet(LAMBDA l : Cardinality(X_minus_R[l]), Loc)
       + (IF added_relevant_predicate THEN 0 ELSE 1),
     LoopLeft >>

LexLess(a, b) ==
  \E k \in 1..3 : a[k] < b[k] /\ \A j \in 1..(k - 1) : a[j] = b[j]

(* reduce_predicates_first returns: every step, the repair of a Horn       *)
(* constraint and the restart of a pass included, decreases the measure    *)
(* (a pass is repeated only after it added a predicate of X \ R), and no  *)
(* state before the return is stuck. With weak fairness on the steps this  *)
(* is termination, checked step by step instead of on the whole graph.     *)
ReturnsByMeasure ==
  /\ [][LexLess(Measure', Measure)]_vars
  /\ [](pc /= "done" => ENABLED Next)
=============================================================================
