------------------------------ MODULE SorcarSpec ------------------------------
(***************************************************************************)
(* What every Sorcar reducer promises its caller (spec 4.3 and 8.3),      *)
(* without saying how it chooses: starting from the caller's R cut down   *)
(* to Horndini's X, R only grows, and only by predicates of X; the call   *)
(* returns only an R consistent with the data, and gives up only when no  *)
(* R' between R and X is consistent.                                       *)
(***************************************************************************)
EXTENDS HornData

VARIABLES
  datapoints, horn_constraints,  \* the input
  X,                             \* Horndini's result
  R,                             \* the reducer's conjunctions
  status                         \* "running", "done" or "fail"

vars == <<datapoints, horn_constraints, X, R, status>>

\* R1 lies between R0 and X at every location.
Between(R0, R1) == \A l \in Loc : R0[l] \subseteq R1[l] /\ R1[l] \subseteq X[l]

Init ==
  /\ datapoints \in Datasets
  /\ horn_constraints \in HornLists
  /\ ConsistentPHSet(datapoints, horn_constraints) /= {}
  /\ X = GreatestPH(datapoints, horn_constraints)
  /\ R \in Hypotheses /\ \A l \in Loc : R[l] \subseteq X[l]
  /\ status = "running"

Grow ==
  /\ status = "running"
  /\ Between(R, R') /\ R' /= R
  /\ UNCHANGED <<datapoints, horn_constraints, X, status>>

Return ==
  /\ status = "running"
  /\ Between(R, R')
  /\ is_consistent(R', datapoints, horn_constraints)
  /\ status' = "done"
  /\ UNCHANGED <<datapoints, horn_constraints, X>>

GiveUp ==
  /\ status = "running"
  /\ ~\E H \in Hypotheses :
        Between(R, H) /\ is_consistent(H, datapoints, horn_constraints)
  /\ status' = "fail"
  /\ UNCHANGED <<datapoints, horn_constraints, X, R>>

Next == Grow \/ Return \/ GiveUp

Spec == Init /\ [][Next]_vars
=============================================================================
