----------------------------- MODULE Perceptron -----------------------------
(***************************************************************************)
(* The driver's perceptron branch (sorcar.cpp) for the data of one        *)
(* location: perceptron::execute_algorithm and perceptron::train          *)
(* (sorcar.h), then write_ltf_json.                                       *)
(*                                                                         *)
(* execute_algorithm labels each unlabeled point by satisfies(dp, X),     *)
(* inverts every point and label (no masking, unlike Winnow), and train   *)
(* repeats passes of predict and update until check_acc finds every       *)
(* prediction right.                                                       *)
(*                                                                         *)
(* Weights are kept in hundredths: the constructor sets every weight,     *)
(* the bias weights[0] included, to 1.0 (100) and lr = 0.01, so update    *)
(* moves weights[j+1] by (y - pred) * x_j and, because the bias is        *)
(* updated inside the loop over the P features, weights[0] by             *)
(* P * (y - pred). The float weights stay within far less than 0.001 of   *)
(* these values over the runs checked, so a sum that is not 0 in          *)
(* hundredths has the sign the float sum has; for a sum that is exactly   *)
(* 0 the float sign is unknown, and is a choice (tie) fixed until the     *)
(* weights next change.                                                    *)
(***************************************************************************)
EXTENDS HornData, Integers, FiniteSetsExt

CONSTANTS
  MinW,  \* bound: the least weight, in hundredths, an update may produce
  MaxW   \* bound: the greatest weight, in hundredths, an update may produce

Attrs == Preds
P == Cardinality(Attrs)

ASSUME Cardinality(Loc) = 1 /\ Attrs = 0..(P - 1) /\ MinW < 0 /\ 100 < MaxW

VARIABLES
  datapoints,  \* the input (read only)
  X,           \* horndini's conjunction of the location (read only)
  weights,     \* weights[0] the bias, weights[j+1] predicate j; hundredths
  examples,    \* perceptron_dps[loc]: the inverted points and labels
  tie,         \* tie[k]: float sum >= 0 for example k whose exact sum is 0
  i,           \* the position of train_once's loop
  ltf,         \* the integers write_ltf_json writes
  pc           \* "prepare" "check" "epoch" "write" "done"

vars == <<datapoints, X, weights, examples, tie, i, ltf, pc>>

Weights == [0..P -> MinW..MaxW]
NoFile == [root |-> 0, cut |-> [j \in Attrs |-> 0]]

\* perceptron(num_pred, 0.0): P + 1 weights of 1.0.
FreshWeights == [j \in 0..P |-> 100]
\* The constructor's weights, or (round > 1) those read from the .W file.
StartWeights == {FreshWeights}

\* The conjunctions horndini may hand over.
MaskSets(pts) == SUBSET Attrs

\* The label execute_algorithm gives point q before inverting it.
Label(q) ==
  IF datapoints[q].label = Unl THEN satisfies(datapoints[q], X)
  ELSE datapoints[q].label = Pos

\* sum = weights[0] + sum of weights[j+1] * x_j, in hundredths.
ExactSum(w, x) == w[0] + MapThenSumSet(LAMBDA j : w[j + 1], x)

\* The float signs of the exact-zero sums: examples with equal bits have
\* equal sums, computed the same way.
TieChoices(w, ex) ==
  {t \in [DOMAIN ex -> BOOLEAN] :
     \A k, m \in DOMAIN ex :
       /\ ExactSum(w, ex[k].x) /= 0 => ~t[k]
       /\ ex[k].x = ex[m].x => t[k] = t[m]}

(* perceptron::predict on example k: sum >= theta with theta = 0.         *)
predict(k) ==
  LET s == ExactSum(weights, examples[k].x)
  IN  s > 0 \/ (s = 0 /\ tie[k])

Correct(k) == predict(k) = examples[k].y

\* int(w * 1000) for a float w of h hundredths: 10h, or one less in
\* magnitude when the float product falls just short of it.
Milli(h) == IF h = 0 THEN {0} ELSE {10 * h, 10 * h - (IF h > 0 THEN 1 ELSE -1)}

-----------------------------------------------------------------------------
Init ==
  /\ datapoints \in Datasets
  /\ X \in MaskSets(datapoints)
  /\ weights \in StartWeights
  /\ examples = <<>>
  /\ tie = <<>>
  /\ i = 1
  /\ ltf = NoFile
  /\ pc = "prepare"

(* execute_algorithm: label the unlabeled points by X, invert bits and    *)
(* labels (x_j := 1 - x_j, y := !y), then train.                          *)
Prepare ==
  /\ pc = "prepare"
  /\ examples' = [q \in Pts |-> [x |-> Attrs \ datapoints[q].bits,
                                 y |-> ~Label(q)]]
  /\ tie' \in TieChoices(weights, examples')
  /\ pc' = "check"
  /\ UNCHANGED <<datapoints, X, weights, i, ltf>>

(* check_acc finds every example predicted right: train returns.          *)
Converged ==
  /\ pc = "check"
  /\ \A k \in DOMAIN examples : Correct(k)
  /\ pc' = "write"
  /\ UNCHANGED <<datapoints, X, weights, examples, tie, i, ltf>>

(* check_acc finds a wrong prediction: another train_once pass.           *)
StartPass ==
  /\ pc = "check"
  /\ \E k \in DOMAIN examples : ~Correct(k)
  /\ i' = 1
  /\ pc' = "epoch"
  /\ UNCHANGED <<datapoints, X, weights, examples, tie, ltf>>

\* Plausible bug: the bias left out of the update.
updateNoBias(w, x, e) ==
  [j \in 0..P |-> IF j = 0 THEN w[0] ELSE w[j] + (IF j - 1 \in x THEN e ELSE 0)]

(* perceptron::update with error e = y - pred: weights[j+1] += lr*e*x_j   *)
(* and weights[0] += lr*e, both inside the loop over the P features.      *)
update(w, x, e) ==
  [j \in 0..P |-> IF j = 0 THEN w[0] + P * e
                  ELSE w[j] + (IF j - 1 \in x THEN e ELSE 0)]

\* Plausible bug: the end of the pass tested with > instead of ==.
TrainStepPastEnd ==
  /\ pc = "epoch"
  /\ LET e == (IF examples[i].y THEN 1 ELSE 0) - (IF predict(i) THEN 1 ELSE 0)
         new == update(weights, examples[i].x, e)
     IN  /\ new \in Weights
         /\ weights' = new
         /\ IF e = 0 THEN tie' = tie ELSE tie' \in TieChoices(new, examples)
  /\ IF i > Len(examples) THEN i' = 1 /\ pc' = "check"
                          ELSE i' = i + 1 /\ pc' = "epoch"
  /\ UNCHANGED <<datapoints, X, examples, ltf>>

(* One iteration of train_once: predict example i, update; new float      *)
(* weights give the exact-zero sums new signs.                             *)
TrainStep ==
  /\ pc = "epoch"
  /\ LET e == (IF examples[i].y THEN 1 ELSE 0) - (IF predict(i) THEN 1 ELSE 0)
         new == update(weights, examples[i].x, e)
     IN  /\ new \in Weights
         /\ weights' = new
         /\ IF e = 0 THEN tie' = tie ELSE tie' \in TieChoices(new, examples)
  /\ IF i = Len(examples) THEN i' = 1 /\ pc' = "check"
                          ELSE i' = i + 1 /\ pc' = "epoch"
  /\ UNCHANGED <<datapoints, X, examples, ltf>>

\* Plausible bug: the bias written as the cut without its minus sign.
WriteLTFUnnegated ==
  /\ pc = "write"
  /\ \E r \in Milli(weights[0]),
        c \in [Attrs -> UNION {Milli(weights[j + 1]) : j \in Attrs}] :
       /\ \A j \in Attrs : c[j] \in Milli(weights[j + 1])
       /\ ltf' = [root |-> r, cut |-> c]
  /\ pc' = "done"
  /\ UNCHANGED <<datapoints, X, weights, examples, tie, i>>

(* write_ltf_json: the root's cut -int(weights[0] * 1000), and a child    *)
(* per predicate with cut int(weights[j] * 1000); the .W file gets the    *)
(* weights themselves.                                                     *)
WriteLTF ==
  /\ pc = "write"
  /\ \E r \in Milli(weights[0]),
        c \in [Attrs -> UNION {Milli(weights[j + 1]) : j \in Attrs}] :
       /\ \A j \in Attrs : c[j] \in Milli(weights[j + 1])
       /\ ltf' = [root |-> -r, cut |-> c]
  /\ pc' = "done"
  /\ UNCHANGED <<datapoints, X, weights, examples, tie, i>>

Next == Prepare \/ Converged \/ StartPass \/ TrainStep \/ WriteLTF

\* A sequential function: the next statement always executes.
Spec == Init /\ [][Next]_vars /\ WF_vars(Next)

-----------------------------------------------------------------------------
TypeOK ==
  /\ weights \in Weights
  /\ examples \in Seq([x : SUBSET Attrs, y : BOOLEAN])
  /\ tie \in [DOMAIN examples -> BOOLEAN]
  /\ i \in 1..NumPoints
  /\ ltf \in [root : Int, cut : [Attrs -> Int]]
  /\ pc \in {"prepare", "check", "epoch", "write", "done"}

(* train's loop ends (spec 4.5 leaves it open for non-separable data):    *)
(* on data labelled by a conjunction, from the constructor's weights or   *)
(* those of a .W file, whatever the float signs of exact-zero sums.        *)
Terminates == <>(pc = "done")

\* The file's hypothesis on the bits of point q, undoing the inversion the
\* weights were trained on: accept iff sum of cut[j] * (1 - x_j) < root.
LTFAccepts(q) ==
  MapThenSumSet(LAMBDA j : ltf.cut[j], Attrs \ datapoints[q].bits) < ltf.root

(* The integers written to the JSON file classify every point the way it  *)
(* was trained (its label, or X's for an unlabeled point), through the    *)
(* inversion, the P-fold bias steps, the negated bias cut and the int     *)
(* truncation of the scaled weights; points whose sum is exactly 0, where *)
(* the float sign decides, are left out.                                   *)
LTFConsistent ==
  pc = "done" =>
    \A q \in Pts :
      ExactSum(weights, examples[q].x) /= 0 => (LTFAccepts(q) <=> Label(q))
=============================================================================
