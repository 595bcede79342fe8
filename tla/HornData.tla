------------------------------ MODULE HornData ------------------------------
(***************************************************************************)
(* The data model shared by every learner in sorcar.h: data points, Horn   *)
(* constraints, conjunctions and hypotheses, and the three helpers that    *)
(* all algorithms call: satisfies, prepare_sets and is_consistent.         *)
(*                                                                         *)
(* A data point's bit vector is abstracted to the set of predicate indices *)
(* that are true on it, restricted to its location's interval: satisfies  *)
(* only ever reads bits of indices in a conjunction of the point's own    *)
(* location, and those lie in that interval.                              *)
(***************************************************************************)
EXTENDS Naturals, FiniteSets, Sequences

CONSTANTS
  Loc,          \* program locations (categories) 0..L-1
  Interval,     \* Interval[l]: the predicate indices lo_l..hi_l of location l
  NumPoints,    \* number of data points in the example store
  MaxHorns,     \* bound on the number of Horn constraints of an input
  MaxPremises,  \* bound on the number of premises of a Horn constraint
  Bottom        \* model value: the conclusion nullptr (the clause "=> false")

ASSUME Loc /= {}
ASSUME NumPoints \in Nat \ {0}
ASSUME MaxHorns \in Nat /\ MaxPremises \in Nat

Preds == UNION {Interval[l] : l \in Loc}
Pts   == 1..NumPoints

\* _is_classified && _classification, _is_classified && !_classification,
\* !_is_classified
Pos == "pos"
Neg == "neg"
Unl == "unl"
Labels == {Pos, Neg, Unl}

DataPoints ==
  UNION {[loc : {l}, bits : SUBSET Interval[l], label : Labels] : l \in Loc}

\* Premises are a vector of distinct data-point pointers.
PremiseSeqs ==
  UNION {{s \in [1..n -> Pts] : \A i, j \in 1..n : i /= j => s[i] /= s[j]}
           : n \in 0..MaxPremises}

HornConstraints == [premises : PremiseSeqs, conclusion : Pts \cup {Bottom}]

HornLists == UNION {[1..n -> HornConstraints] : n \in 0..MaxHorns}

\* Every input a learner can be called with.
Datasets == [Pts -> DataPoints]

\* A hypothesis: one conjunction per location, inside its interval.
Hypotheses == [Loc -> SUBSET Preds]
InIntervals(H) == \A l \in Loc : H[l] \subseteq Interval[l]

\* The R a reducer starts from: empty (round 1 or -r) or a prior round's R
\* as read back from the .R file (any predicate indices).
StartRs == [Loc -> SUBSET Preds]

PremiseSet(h) == {h.premises[i] : i \in DOMAIN h.premises}

-----------------------------------------------------------------------------
(* sorcar::satisfies: every predicate of the conjunction is true on dp.   *)
satisfies(dp, conjunction) == conjunction \subseteq dp.bits

\* The point q satisfies the conjunction of its own location under H.
Sat(pts, H, q) == satisfies(pts[q], H[pts[q].loc])

PremisesSat(pts, H, h) == \A q \in PremiseSet(h) : Sat(pts, H, q)

ConclusionSat(pts, H, h) == h.conclusion /= Bottom /\ Sat(pts, H, h.conclusion)

(* sorcar::prepare_sets: R := R \cap X and X_minus_R := X \ R, per        *)
(* location; the merge walk over the two ordered sets computes exactly    *)
(* these two sets.                                                         *)
prepare_sets(X, R) ==
  <<[l \in Loc |-> R[l] \cap X[l]], [l \in Loc |-> X[l] \ R[l]]>>

(* sorcar::is_consistent: every classified point is classified correctly  *)
(* and no Horn constraint has all premises satisfied and its conclusion   *)
(* bottom or unsatisfied.                                                  *)
is_consistent(H, pts, horns) ==
  /\ \A q \in Pts :
       /\ pts[q].label = Pos => Sat(pts, H, q)
       /\ pts[q].label = Neg => ~Sat(pts, H, q)
  /\ \A i \in DOMAIN horns :
       PremisesSat(pts, H, horns[i]) => ConclusionSat(pts, H, horns[i])

-----------------------------------------------------------------------------
(* Reference definitions, not code: consistency with the positive points  *)
(* and the Horn constraints only (what Horndini looks at), and the        *)
(* greatest such hypothesis. Hypotheses consistent in this sense are      *)
(* closed under pointwise union, so the union of all of them is the       *)
(* greatest one whenever one exists.                                       *)
ConsistentPH(H, pts, horns) ==
  /\ \A q \in Pts : pts[q].label = Pos => Sat(pts, H, q)
  /\ \A i \in DOMAIN horns :
       PremisesSat(pts, H, horns[i]) => ConclusionSat(pts, H, horns[i])

IntervalHypotheses == {H \in [Loc -> SUBSET Preds] : InIntervals(H)}

ConsistentPHSet(pts, horns) ==
  {H \in IntervalHypotheses : ConsistentPH(H, pts, horns)}

GreatestPH(pts, horns) ==
  [l \in Loc |-> UNION {H[l] : H \in ConsistentPHSet(pts, horns)}]

\* The inputs on which horndini returns (does not throw), so that a
\* reducer is called on them with X = GreatestPH.
HorndiniReturns ==
  {in \in Datasets \X HornLists : ConsistentPHSet(in[1], in[2]) /= {}}

\* Those on which X is consistent with the negative points too: the
\* precondition the reducers assert ("guaranteed because X is consistent").
SorcarInputs ==
  {in \in HorndiniReturns : is_consistent(GreatestPH(in[1], in[2]), in[1], in[2])}
=============================================================================
