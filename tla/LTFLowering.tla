----------------------------- MODULE LTFLowering -----------------------------
(***************************************************************************)
(* winnow::write_ltf2bool_json and winnow::ltf2bool (sorcar.h): lower the  *)
(* trained threshold function of one location into a Boolean decision     *)
(* tree, largest weight first.                                             *)
(*                                                                         *)
(* The float weights and theta are given as multiples of 1/Scale (Winnow *)
(* instantiates it with its weights in millionths, see MarginOK). Every   *)
(* int the code assigns a float to is the float truncated toward zero:    *)
(* "sum += w" with an int sum adds the truncated weight (w >= 0), and     *)
(* "max = w" keeps the truncated weight, while the test "w > max" compares *)
(* the float with the int.                                                 *)
(*                                                                         *)
(* A tree is a leaf [classification |-> b] ("children":null) or a node    *)
(* [attribute |-> j, children |-> <<t0, t1>>] (cut 0: t0 for j false,     *)
(* t1 for j true).                                                         *)
(***************************************************************************)
EXTENDS Integers, FiniteSets, FiniteSetsExt

CONSTANTS
  Attrs,         \* predicate indices of the location: 0..P-1
  WeightValues,  \* the weights the trained Winnow can hold, in 1/Scale units
  Theta,         \* winnow::theta in 1/Scale units (0.441)
  Scale          \* the unit of WeightValues and Theta: 1/Scale

ASSUME Scale \in Nat \ {0} /\ Theta \in Nat
ASSUME WeightValues \subseteq Nat

VARIABLES
  weights,     \* w_obj.weights (read only)
  write_true,  \* the write_true argument (read only)
  tree,        \* the tree written to the JSON file
  pc           \* "write" or "done"

vars == <<weights, write_true, tree, pc>>

\* (int) of a value given in 1/Scale units: truncation toward zero.
Trunc(a) == IF a >= 0 THEN a \div Scale ELSE -((-a) \div Scale)

\* The int the weight becomes when added to an int sum or stored in max.
IntW(j) == Trunc(weights[j])

\* int sum = 0; for j in J: sum += weights[j]
IntSum(J) == MapThenSumSet(IntW, J)

Leaf(b) == [classification |-> b]

(* The argmax loop over J in increasing order: max starts at -1 and idx   *)
(* at -1; "weights[j] > max" compares the float with the int max.         *)
RECURSIVE ArgMaxFrom(_, _, _)
ArgMaxFrom(J, max, idx) ==
  IF J = {} THEN <<max, idx>>
  ELSE LET j == Min(J)
       IN  IF weights[j] > max * Scale
             THEN ArgMaxFrom(J \ {j}, IntW(j), j)
             ELSE ArgMaxFrom(J \ {j}, max, idx)

ArgMax(J) == ArgMaxFrom(J, -1, -1)

\* Plausible bug: the attribute written off by one (int_names()[idx + 1]).
RECURSIVE ltf2boolNameShifted(_, _)
ltf2boolNameShifted(J, theta) ==
  IF theta <= 0 THEN Leaf(TRUE)
  ELSE IF IntSum(J) > theta
         THEN LET max == ArgMax(J)[1]
                  idx == ArgMax(J)[2]
              IN  [attribute |-> idx + 1,
                   children |-> <<ltf2boolNameShifted(J \ {idx}, theta),
                                  ltf2boolNameShifted(J \ {idx}, theta - max)>>]
         ELSE Leaf(FALSE)

\* Plausible bug: the children written in the other order.
RECURSIVE ltf2boolSwapped(_, _)
ltf2boolSwapped(J, theta) ==
  IF theta <= 0 THEN Leaf(TRUE)
  ELSE IF IntSum(J) > theta
         THEN LET max == ArgMax(J)[1]
                  idx == ArgMax(J)[2]
              IN  [attribute |-> idx,
                   children |-> <<ltf2boolSwapped(J \ {idx}, theta - max),
                                  ltf2boolSwapped(J \ {idx}, theta)>>]
         ELSE Leaf(FALSE)

(* ltf2bool(w_obj, metadata, J, theta): a true leaf once the residual     *)
(* threshold is reached; a node on the heaviest attribute while the       *)
(* remaining weight can still exceed it; a false leaf otherwise.          *)
RECURSIVE ltf2bool(_, _)
ltf2bool(J, theta) ==
  IF theta <= 0 THEN Leaf(TRUE)
  ELSE IF IntSum(J) > theta
         THEN LET max == ArgMax(J)[1]
                  idx == ArgMax(J)[2]
              IN  [attribute |-> idx,
                   children |-> <<ltf2bool(J \ {idx}, theta),
                                  ltf2bool(J \ {idx}, theta - max)>>]
         ELSE Leaf(FALSE)

\* The int theta passed at the top: (int)(sum - w_obj.theta), sum an int.
RootTheta == Trunc(IntSum(Attrs) * Scale - Theta)

-----------------------------------------------------------------------------
Init ==
  /\ weights \in [Attrs -> WeightValues]
  /\ write_true \in BOOLEAN
  /\ tree = Leaf(FALSE)
  /\ pc = "write"

(* !write_true: J := every attribute, and the tree of ltf2bool(J, sum -    *)
(* theta).                                                                  *)
WriteTree ==
  /\ pc = "write"
  /\ ~write_true
  /\ tree' = ltf2bool(Attrs, RootTheta)
  /\ pc' = "done"
  /\ UNCHANGED <<weights, write_true>>

(* write_true: a single leaf with classification true.                     *)
WriteTrue ==
  /\ pc = "write"
  /\ write_true
  /\ tree' = Leaf(TRUE)
  /\ pc' = "done"
  /\ UNCHANGED <<weights, write_true>>

Next == WriteTree \/ WriteTrue

Spec == Init /\ [][Next]_vars

-----------------------------------------------------------------------------
Inputs == [Attrs -> {0, 1}]

\* The classification the tree gives input x.
RECURSIVE Accepts(_, _)
Accepts(t, x) ==
  IF "attribute" \in DOMAIN t
    THEN Accepts(t.children[x[t.attribute] + 1], x)
    ELSE t.classification

\* The weight of the attributes x sets, as the ints ltf2bool works with.
IntDot(x) == IntSum({j \in Attrs : x[j] = 1})

\* A decision tree over the attributes of J that tests each at most once
\* on a path.
RECURSIVE IsTree(_, _)
IsTree(t, J) ==
  IF "attribute" \in DOMAIN t
    THEN /\ t.attribute \in J
         /\ \A c \in 1..2 : IsTree(t.children[c], J \ {t.attribute})
    ELSE t.classification \in BOOLEAN

TypeOK ==
  /\ IsTree(tree, Attrs)
  /\ weights \in [Attrs -> WeightValues]
  /\ write_true \in BOOLEAN
  /\ pc \in {"write", "done"}

(* The lowering decides the integer threshold function it is handed up to *)
(* the boundary: across every split on the heaviest attribute and every   *)
(* prune, an input whose int weight exceeds the root theta is accepted,   *)
(* and an accepted input reaches it.                                       *)
TreeBetweenThresholds ==
  pc = "done" /\ ~write_true =>
    \A x \in Inputs :
      /\ IntDot(x) > RootTheta => Accepts(tree, x)
      /\ Accepts(tree, x) => IntDot(x) >= RootTheta

=============================================================================
