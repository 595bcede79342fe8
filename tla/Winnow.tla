------------------------------- MODULE Winnow -------------------------------
(***************************************************************************)
(* winnow::execute_algorithm and winnow::train (sorcar.h) for the data of  *)
(* one location, followed by the JSON writer that option -l selects: the  *)
(* driver's winnow branch with -l 1 (write_ltf_json, the default) or -l 2 *)
(* (write_ltf2bool_json, the Boolean decision tree).                       *)
(*                                                                         *)
(* execute_algorithm labels each unlabeled point by satisfies(dp, H) (H is *)
(* X, or R with -s), inverts every point and label, and sets the weights  *)
(* of the predicates outside H to 0; train then repeats passes of predict *)
(* and update over the examples until check_acc finds every prediction    *)
(* right.                                                                  *)
(*                                                                         *)
(* A weight is 0 or w0 * lr^e with w0 = 2P/5 (the constructor) and       *)
(* lr = 2.4, and is kept as its exponent e (ZeroW stands for 0): update   *)
(* only multiplies or divides by lr, and 0 stays 0. Sums are taken in     *)
(* millionths; MarginOK checks that no sum of reachable weights lies      *)
(* within the rounding error of theta or of an integer, so float rounding *)
(* cannot change a comparison or a truncation.                             *)
(***************************************************************************)
EXTENDS HornData, FiniteSetsExt

CONSTANTS
  MinExp,  \* bound: the least exponent a weight may reach
  MaxExp,  \* bound: the greatest exponent a weight may reach
  LtfModes \* the values of option -l: 1 (LTF) and 2 (Boolean tree)

ASSUME Cardinality(Loc) = 1 /\ MinExp <= 0 /\ 0 <= MaxExp
ASSUME LtfModes \subseteq {1, 2}

VARIABLES
  datapoints,  \* the input (read only)
  H,           \* the conjunction labelling unlabeled points: X[loc] or R[loc]
  weights,     \* w_obj.weights as exponents
  examples,    \* winnow_dps[loc]: the inverted points and labels
  i,           \* the position of train_once's loop
  write_true,  \* first_round_false && round == 1
  ltf_json,    \* option -l
  tree,        \* the tree written to the JSON file with -l 2
  ltf,         \* the integers written to the JSON file with -l 1
  pc           \* "prepare" "check" "epoch" "write" "done"

vars == <<datapoints, H, weights, examples, i, write_true, ltf_json, tree, ltf, pc>>

Attrs == Preds
P == Cardinality(Attrs)
Micro == 1000000
ThetaMicro == 441000  \* theta = 0.441
ZeroW == MinExp - 1
NoFile == [root |-> 0, cut |-> [j \in Attrs |-> 0]]
Exps == MinExp..MaxExp

\* The weight of exponent e, in millionths: w0 = 2.0 * num_pred / 5.
RECURSIVE Val(_)
Val(e) ==
  CASE e = ZeroW -> 0
    [] e = 0     -> (2 * P * Micro) \div 5
    [] e > 0     -> (Val(e - 1) * 12) \div 5
    [] OTHER     -> (Val(e + 1) * 5) \div 12

\* The weights read from a .W file of an earlier round: any vector the
\* learner can hold, 0 included. Fresh objects have every exponent 0.
FreshWeights == [j \in Attrs |-> 0]
PriorWeights == [Attrs -> {ZeroW} \cup Exps]
StartWeights == {FreshWeights}

\* The conjunctions the caller may pass: Horndini's X, or Sorcar's R.
MaskSets(pts) == SUBSET Attrs

\* No sum of weights (in millionths) within 2 of theta, and no single
\* nonzero weight within 2 of an integer (ltf2bool truncates each weight).
MarginOK ==
  /\ \A w \in [Attrs -> {ZeroW} \cup Exps] :
       \A S \in SUBSET Attrs :
         MapThenSumSet(LAMBDA j : Val(w[j]), S) - ThetaMicro \notin -2..2
  /\ \A e \in Exps : Val(e) % Micro \notin 0..2 \cup (Micro - 2)..(Micro - 1)
ASSUME MarginOK

\* The tree writer, applied to the weights the training left.
L == INSTANCE LTFLowering WITH
       WeightValues <- {Val(e) : e \in {ZeroW} \cup Exps},
       Theta <- ThetaMicro,
       Scale <- Micro,
       weights <- [j \in Attrs |-> Val(weights[j])],
       pc <- IF pc = "done" /\ ltf_json = 2 THEN "done" ELSE "write"

\* winnow::predict: sum of weights[j] * x[j] >= theta (x the set bits).
predict(w, x) == MapThenSumSet(LAMBDA j : Val(w[j]), x) >= ThetaMicro

\* The label execute_algorithm gives point q before inverting it.
Label(q) ==
  IF datapoints[q].label = Unl THEN satisfies(datapoints[q], H)
  ELSE datapoints[q].label = Pos

-----------------------------------------------------------------------------
Init ==
  /\ datapoints \in Datasets
  /\ H \in MaskSets(datapoints)
  /\ weights \in StartWeights
  /\ examples = <<>>
  /\ i = 1
  /\ write_true \in BOOLEAN
  /\ ltf_json \in LtfModes
  /\ tree = L!Leaf(FALSE)
  /\ ltf = NoFile
  /\ pc = "prepare"

(* execute_algorithm: label the unlabeled points by H, invert bits and    *)
(* labels (x_j := 1 - x_j, y := !y), and zero the weights outside H.      *)
Prepare ==
  /\ pc = "prepare"
  /\ examples' = [q \in Pts |-> [x |-> Attrs \ datapoints[q].bits,
                                 y |-> ~Label(q)]]
  /\ weights' = [j \in Attrs |-> IF j \in H THEN weights[j] ELSE ZeroW]
  /\ pc' = "check"
  /\ UNCHANGED <<datapoints, H, i, write_true, tree, ltf_json, ltf>>

Correct(k) == predict(weights, examples[k].x) = examples[k].y

(* check_acc finds every example predicted right: train returns.          *)
Converged ==
  /\ pc = "check"
  /\ \A k \in DOMAIN examples : Correct(k)
  /\ pc' = "write"
  /\ UNCHANGED <<datapoints, H, weights, examples, i, write_true, tree, ltf_json, ltf>>

(* check_acc finds a wrong prediction: another train_once pass.           *)
StartPass ==
  /\ pc = "check"
  /\ \E k \in DOMAIN examples : ~Correct(k)
  /\ i' = 1
  /\ pc' = "epoch"
  /\ UNCHANGED <<datapoints, H, weights, examples, write_true, tree, ltf_json, ltf>>

\* w /= lr and w *= lr on an exponent (0 stays 0).
Demote(e) == IF e = ZeroW THEN e ELSE e - 1
\* Plausible bug: the promotion lost (w *= lr written as w * lr).
PromoteLost(e) == e
Promote(e) == IF e = ZeroW THEN e ELSE e + 1

\* Plausible bug: the loop bound tested with > instead of ==.
TrainStepPastEnd ==
  /\ pc = "epoch"
  /\ LET ex == examples[i]
         pred == predict(weights, ex.x)
         new == [j \in Attrs |->
                   IF j \in ex.x /\ ~ex.y /\ pred THEN Demote(weights[j])
                   ELSE IF j \in ex.x /\ ex.y /\ ~pred THEN Promote(weights[j])
                   ELSE weights[j]]
     IN  /\ \A j \in Attrs : new[j] \in {ZeroW} \cup Exps
         /\ weights' = new
  /\ IF i > Len(examples) THEN i' = 1 /\ pc' = "check"
                          ELSE i' = i + 1 /\ pc' = "epoch"
  /\ UNCHANGED <<datapoints, H, examples, write_true, tree, ltf_json, ltf>>

(* One iteration of train_once: predict example i with the current        *)
(* weights, then update: a false positive divides the weights of its set  *)
(* bits by lr, a false negative multiplies them.                           *)
TrainStep ==
  /\ pc = "epoch"
  /\ LET ex == examples[i]
         pred == predict(weights, ex.x)
         new == [j \in Attrs |->
                   IF j \in ex.x /\ ~ex.y /\ pred THEN Demote(weights[j])
                   ELSE IF j \in ex.x /\ ex.y /\ ~pred THEN Promote(weights[j])
                   ELSE weights[j]]
     IN  /\ \A j \in Attrs : new[j] \in {ZeroW} \cup Exps
         /\ weights' = new
  /\ IF i = Len(examples) THEN i' = 1 /\ pc' = "check"
                          ELSE i' = i + 1 /\ pc' = "epoch"
  /\ UNCHANGED <<datapoints, H, examples, write_true, tree, ltf_json, ltf>>

(* -l 2, write_ltf2bool_json: the tree of ltf2bool, or the single true    *)
(* leaf.                                                                   *)
WriteTree ==
  /\ pc = "write"
  /\ ltf_json = 2
  /\ pc' = "done"
  /\ UNCHANGED <<datapoints, H, weights, examples, i, ltf_json, ltf>>
  /\ L!WriteTree

WriteTrue ==
  /\ pc = "write"
  /\ ltf_json = 2
  /\ pc' = "done"
  /\ UNCHANGED <<datapoints, H, weights, examples, i, ltf_json, ltf>>
  /\ L!WriteTrue

(* -l 1, write_ltf_json: the root's cut theta * 1000 (printed 441) and a   *)
(* child per predicate with cut (int) weights[j] * 1000: the cast binds   *)
(* tighter than the product, so the weight is truncated before scaling.   *)
WriteLTF ==
  /\ pc = "write"
  /\ ltf_json = 1
  /\ ltf' = [root |-> (ThetaMicro * 1000) \div Micro,
             cut |-> [j \in Attrs |-> (Val(weights[j]) \div Micro) * 1000]]
  /\ pc' = "done"
  /\ UNCHANGED <<datapoints, H, weights, examples, i, write_true, ltf_json, tree>>

Next ==
  \/ Prepare \/ Converged \/ StartPass \/ TrainStep
  \/ WriteTree \/ WriteTrue \/ WriteLTF

\* A sequential function: the next statement always executes.
Spec == Init /\ [][Next]_vars /\ WF_vars(Next)

-----------------------------------------------------------------------------
TypeOK ==
  /\ weights \in [Attrs -> {ZeroW} \cup Exps]
  /\ examples \in Seq([x : SUBSET Attrs, y : BOOLEAN])
  /\ i \in 1..NumPoints
  /\ L!IsTree(tree, Attrs)
  /\ ltf \in [root : Int, cut : [Attrs -> Nat]]
  /\ pc \in {"prepare", "check", "epoch", "write", "done"}

(* train's loop ends: some pass leaves every example predicted right, and *)
(* the tree is written.                                                    *)
Terminates == <>(pc = "done")

(* ltf2bool on the trained weights decides the integer threshold function *)
(* it is handed, up to the boundary (LTFLowering).                         *)
TreeBetweenThresholds == L!TreeBetweenThresholds

\* The tree's answer on the (not inverted) bits of point q.
TreeAccepts(q) ==
  L!Accepts(tree, [j \in Attrs |-> IF j \in datapoints[q].bits THEN 1 ELSE 0])

\* The LTF file's answer on the bits of point q, undoing the inversion the
\* weights were trained on (as ltf2bool's root theta, sum - theta, does):
\* accept iff the sum of cut[j] * (1 - x_j) stays below the root's cut.
LTFAccepts(q) ==
  MapThenSumSet(LAMBDA j : ltf.cut[j], Attrs \ datapoints[q].bits) < ltf.root

EmittedAccepts(q) == IF ltf_json = 1 THEN LTFAccepts(q) ELSE TreeAccepts(q)

(* The JSON hypothesis, the LTF of -l 1 or the tree of -l 2, is           *)
(* consistent with the labelled examples it was trained on: positive      *)
(* points are accepted and negative points rejected (spec S5), through    *)
(* inversion, training and the int conversions of the writers. The single *)
(* true leaf that -f asks for in round 1 is left out.                      *)
EmittedHypothesisConsistent ==
  pc = "done" /\ ~(ltf_json = 2 /\ write_true) =>
    \A q \in Pts :
      /\ datapoints[q].label = Pos => EmittedAccepts(q)
      /\ datapoints[q].label = Neg => ~EmittedAccepts(q)
=============================================================================
