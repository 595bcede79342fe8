---------------------------- MODULE SorcarMinimal ----------------------------
(***************************************************************************)
(* sorcar::reduce_predicates_minimal (sorcar.h): one Boolean variable per *)
(* predicate of X \ R; a clause per misclassified negative point and per  *)
(* violated Horn constraint ("some chosen predicate falsifies it"), a     *)
(* protecting clause per satisfied Horn constraint; then the bound k on   *)
(* the number of chosen variables is raised from 1 until Z3 finds a       *)
(* model, whose true variables are added to R.                             *)
(*                                                                         *)
(* A Z3 model is any assignment satisfying the assertions: the solver's   *)
(* choice among them is a nondeterministic choice. A variable is the pair *)
(* <<location, predicate>>.                                                *)
(*                                                                         *)
(* Fault model: check() may return unknown (a resource limit or an        *)
(* interrupt) whatever the assertions are; the code tests for sat only,   *)
(* so unknown takes the unsat branch.                                      *)
(***************************************************************************)
EXTENDS HornData

CONSTANTS
  MayAnswerUnknown,  \* whether check() may return unknown
  MaxUnknowns        \* bound: the unknown answers in one call

ASSUME MayAnswerUnknown \in BOOLEAN /\ MaxUnknowns \in Nat

VARIABLES
  datapoints, horn_constraints,  \* the input (read only)
  X,                             \* Horndini's result (read only)
  R,
  X_minus_R,
  neg_expr,      \* clauses: each a set of variables, at least one true
  horn_expr,     \* clauses as neg_expr, and protecting clauses <<A, B>>:
  protect_expr,  \*   some variable of A true or every variable of B false
  k,             \* the cardinality bound
  pc,            \* "prepare", "encode", "solve", "done", "fail"
  unknowns       \* history: the unknown answers check() has given

vars == <<datapoints, horn_constraints, X, R, X_minus_R, neg_expr, horn_expr,
          protect_expr, k, pc, unknowns>>

input == <<datapoints, horn_constraints, X>>

\* attr2expr: one variable per predicate of X \ R.
Vars == UNION {{l} \X X_minus_R[l] : l \in Loc}
var_count == Cardinality(Vars)

\* The variables of the predicates false on data point q.
ZeroVars(q) ==
  {datapoints[q].loc} \X {p \in X_minus_R[datapoints[q].loc] :
                           p \notin datapoints[q].bits}

PremiseZeroVars(h) == UNION {ZeroVars(q) : q \in PremiseSet(h)}

\* The assignment S (its true variables) satisfies neg_expr /\ horn_expr.
Models(S) ==
  /\ \A c \in neg_expr \cup horn_expr : c \cap S /= {}
  /\ \A <<a, b>> \in protect_expr : a \cap S /= {} \/ b \cap S = {}

\* The conjunctions H with the predicates of the true variables of S added.
Extend(H, S) == [l \in Loc |-> H[l] \cup {p \in Preds : <<l, p>> \in S}]

\* Plausible bug: the cardinality search started at k = 2.
InitBoundTwo ==
  /\ \E in \in HorndiniReturns :
       /\ datapoints = in[1]
       /\ horn_constraints = in[2]
       /\ X = GreatestPH(in[1], in[2])
  /\ R \in StartRs
  /\ X_minus_R = [l \in Loc |-> {}]
  /\ neg_expr = {} /\ horn_expr = {} /\ protect_expr = {}
  /\ k = 2
  /\ pc = "prepare"
  /\ unknowns = 0

Init ==
  /\ \E in \in HorndiniReturns :
       /\ datapoints = in[1]
       /\ horn_constraints = in[2]
       /\ X = GreatestPH(in[1], in[2])
  /\ R \in StartRs
  /\ X_minus_R = [l \in Loc |-> {}]
  /\ neg_expr = {} /\ horn_expr = {} /\ protect_expr = {}
  /\ k = 1
  /\ pc = "prepare"
  /\ unknowns = 0

(* Argument checks, prepare_sets, and the variables of X \ R.             *)
Prepare ==
  /\ pc = "prepare"
  /\ R' = prepare_sets(X, R)[1]
  /\ X_minus_R' = prepare_sets(X, R)[2]
  /\ pc' = "encode"
  /\ UNCHANGED <<input, neg_expr, horn_expr, protect_expr, k, unknowns>>

\* Plausible bug: no protecting clauses for satisfied Horn constraints.
EncodeWithoutProtection ==
  /\ pc = "encode"
  /\ LET H == DOMAIN horn_constraints
         lhs_satisfied(i) == PremisesSat(datapoints, R, horn_constraints[i])
         rhs_satisfied(i) == ConclusionSat(datapoints, R, horn_constraints[i])
     IN
     /\ neg_expr' = {ZeroVars(q) : q \in {q \in Pts : datapoints[q].label = Neg
                                                 /\ Sat(datapoints, R, q)}}
     /\ horn_expr' = {PremiseZeroVars(horn_constraints[i]) :
                        i \in {i \in H : lhs_satisfied(i) /\ ~rhs_satisfied(i)}}
     /\ protect_expr' = {}
  /\ pc' = "solve"
  /\ UNCHANGED <<input, R, X_minus_R, k, unknowns>>

(* The clauses of the negative points that satisfy R, of the Horn         *)
(* constraints whose premises satisfy R and whose conclusion is bottom or *)
(* fails R, and the protecting clauses of those whose conclusion holds.   *)
Encode ==
  /\ pc = "encode"
  /\ LET H == DOMAIN horn_constraints
         lhs_satisfied(i) == PremisesSat(datapoints, R, horn_constraints[i])
         rhs_satisfied(i) == ConclusionSat(datapoints, R, horn_constraints[i])
     IN
     /\ neg_expr' = {ZeroVars(q) : q \in {q \in Pts : datapoints[q].label = Neg
                                                 /\ Sat(datapoints, R, q)}}
     /\ horn_expr' = {PremiseZeroVars(horn_constraints[i]) :
                        i \in {i \in H : lhs_satisfied(i) /\ ~rhs_satisfied(i)}}
     /\ protect_expr' = {<<PremiseZeroVars(horn_constraints[i]),
                           ZeroVars(horn_constraints[i].conclusion)>> :
                           i \in {i \in H : lhs_satisfied(i) /\ rhs_satisfied(i)}}
  /\ pc' = "solve"
  /\ UNCHANGED <<input, R, X_minus_R, k, unknowns>>

(* sat: Z3 returns some model with at most k true variables; every true   *)
(* variable's predicate is added to R (X_minus_R is left as it was).      *)
SolveSat ==
  /\ pc = "solve"
  /\ \E S \in SUBSET Vars :
       /\ Cardinality(S) <= k
       /\ Models(S)
       /\ R' = Extend(R, S)
  /\ pc' = "done"
  /\ UNCHANGED <<input, X_minus_R, neg_expr, horn_expr, protect_expr, k, unknowns>>

Unsat == ~\E S \in SUBSET Vars : Cardinality(S) <= k /\ Models(S)

(* check() does not return sat: it returns unsat, or (fault model)       *)
(* unknown, which is counted.                                              *)
NotSat(ans) ==
  \/ ans = "unsat" /\ Unsat /\ unknowns' = unknowns
  \/ ans = "unknown" /\ MayAnswerUnknown /\ unknowns < MaxUnknowns
       /\ unknowns' = unknowns + 1

\* Plausible bug: an off-by-one in the give-up test.
SolveGiveUpEarly(ans) ==
  /\ pc = "solve"
  /\ NotSat(ans)
  /\ k + 1 >= var_count
  /\ pc' = "fail"
  /\ UNCHANGED <<input, R, X_minus_R, neg_expr, horn_expr, protect_expr, k>>

(* Not sat and k >= var_count: throw "k >= var_count".                     *)
SolveGiveUp(ans) ==
  /\ pc = "solve"
  /\ NotSat(ans)
  /\ k >= var_count
  /\ pc' = "fail"
  /\ UNCHANGED <<input, R, X_minus_R, neg_expr, horn_expr, protect_expr, k>>

\* Plausible bug: k raised without the test against var_count.
RaiseBoundUnchecked(ans) ==
  /\ pc = "solve"
  /\ NotSat(ans)
  /\ k' = k + 1
  /\ UNCHANGED <<input, R, X_minus_R, neg_expr, horn_expr, protect_expr, pc>>

\* Plausible bug: the ++k left out.
RaiseBoundSameK(ans) ==
  /\ pc = "solve"
  /\ NotSat(ans)
  /\ k < var_count
  /\ UNCHANGED <<input, R, X_minus_R, neg_expr, horn_expr, protect_expr, pc, k>>

(* Not sat and k < var_count: try again with k + 1.                        *)
RaiseBound(ans) ==
  /\ pc = "solve"
  /\ NotSat(ans)
  /\ k < var_count
  /\ k' = k + 1
  /\ UNCHANGED <<input, R, X_minus_R, neg_expr, horn_expr, protect_expr, pc>>

Next ==
  \/ Prepare \/ Encode
  \/ SolveSat
  \/ \E ans \in {"unsat", "unknown"} : SolveGiveUp(ans) \/ RaiseBound(ans)

\* A sequential function: the next statement always executes.
Spec == Init /\ [][Next]_vars /\ WF_vars(Next)

-----------------------------------------------------------------------------
TypeOK ==
  /\ R \in Hypotheses /\ X_minus_R \in Hypotheses
  /\ k \in 1..(Cardinality(Preds) + 1)
  /\ pc \in {"prepare", "encode", "solve", "done", "fail"}
  /\ unknowns \in 0..MaxUnknowns

\* The predicates the solver's model added (R after prepare_sets is
\* disjoint from X_minus_R, and X_minus_R is not updated).
Added == UNION {{l} \X (R[l] \cap X_minus_R[l]) : l \in Loc}
RPrepared == [l \in Loc |-> R[l] \ X_minus_R[l]]

\* The fewest predicates of X \ R whose addition makes R consistent.
Optimum ==
  LET ok == {S \in SUBSET Vars : is_consistent(Extend(RPrepared, S), datapoints,
                                                horn_constraints)}
  IN  CHOOSE n \in {Cardinality(S) : S \in ok} :
        \A S \in ok : n <= Cardinality(S)

(* The final debug assertion: the encoding is exact, so the model the     *)
(* solver returns, whichever it is, makes R consistent; in particular the *)
(* protecting clauses keep satisfied conclusions satisfied.               *)
ReturnsConsistent ==
  pc = "done" => is_consistent(R, datapoints, horn_constraints)

Infeasible ==
  \A H \in IntervalHypotheses : ~is_consistent(H, datapoints, horn_constraints)

\* The least k at which check() has a model to return: max(Optimum, 1).
FirstSatBound == IF Optimum = 0 THEN 1 ELSE Optimum

(* The cardinality loop throws "k >= var_count" on an input that has a    *)
(* consistent hypothesis only if check() answered unknown at every bound  *)
(* from the first one with a model up to the last, max(var_count, 1);     *)
(* without unknown answers it throws only when no hypothesis at all is    *)
(* consistent (horndini's X satisfies a negative point).                  *)
GivesUpOnlyAfterUnknowns ==
  pc = "fail" =>
    \/ Infeasible
    \/ unknowns >= (IF var_count = 0 THEN 1 ELSE var_count) - FirstSatBound + 1

(* The loop stops at the first k with a model, so the solver adds at most *)
(* the optimal number of predicates, or one (k starts at 1, and when R is *)
(* already consistent the model may still set one variable), plus one    *)
(* for each unknown answer, which raised k past a bound that had a model. *)
AddsAtMostOptimumPlusUnknowns ==
  pc = "done" => Cardinality(Added) <= FirstSatBound + unknowns

(* The cardinality loop ends, with a model or the throw, whatever check() *)
(* answers: every answer but sat raises k towards var_count.              *)
Terminates == <>(pc \in {"done", "fail"})
=============================================================================
