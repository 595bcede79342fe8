# TLA+ models of the Sorcar / Horn-ICE learner

This directory holds TLA+ models of the learning algorithms in
`src/include/sorcar copy.h`, the TLC configurations that check them, and the
record of what the checks show (`PROJECT.json`). Every module is translated
from the C++ source. `PROJECT.json` ("map") names the lines each definition
stands for.

## 1. The system

The learner is one round of an ICE (implication counterexample) loop. The
driver `src/src/src/sorcar.cpp` (`main`) reads the following from files:

- the data points: Boolean vectors over the predicates, each with a location
  (category) and a label of positive, negative or unlabeled;
- the Horn constraints: premises ⇒ conclusion, where the conclusion may be ⊥;
- the predicate interval of each location;
- the round number.

It then runs the following steps:

1. **Horndini** (`sorcar::horndini`). Starting from the full intervals, it
   computes the greatest conjunction per location consistent with the positive
   points and the Horn constraints. It knocks out the predicates each positive
   point falsifies, discharges satisfied premises, and turns the conclusion of
   a fully discharged constraint into a new positive. If that conclusion is ⊥,
   it throws. `main` asserts `is_consistent(X)` right after this step.
2. **A reducer** (`reduce_predicates_all | _first | _greedy | _minimal`). It
   grows a small `R ⊆ X`, starting from the previous round's `.R` file or from
   empty, until `R` is consistent. A misclassified negative point, or a
   violated Horn constraint, is fixed by adding predicates of `X \ R` that are
   false on it, or on one of its premises:
   - *all* adds every such predicate;
   - *first* adds the first one;
   - *greedy* adds a greedy hitting set;
   - *minimal* adds a minimum set found with Z3 and a cardinality bound.
3. **Or a linear-threshold learner** (Winnow or Perceptron). It trains on
   inverted examples (unlabeled ones are first labeled by `X` or `R`). The
   result is written either as an LTF JSON or, through **ltf2bool**, as a
   Boolean decision tree.

The helpers `satisfies`, `prepare_sets` (`R := R ∩ X`, `X_minus_R := X \ R`)
and `is_consistent` are shared by all of these steps.

The steps are sequential. There are no threads, and nothing is persisted
within a call. The hard parts are:

- loops that walk containers while erasing from them;
- fixed points that must terminate;
- predicates kept, dropped or added against a conjunction that keeps
  changing;
- float-to-int conversions;
- a driver that feeds one algorithm's output, possibly violating an assumed
  precondition, into the next.

Note that `sorcar.cpp` calls a `winnow` interface (a one-argument
constructor, an `execute_algorithm(…, X_or_R, horn_constraints)`, and a
`write_ltf2bool_json` that returns an int) that differs from the one in
`sorcar copy.h`. The models follow the header.

## 2. Modules

| module | models | state | actions |
|---|---|---|---|
| `HornData` | data points, Horn constraints, `satisfies`, `prepare_sets`, `is_consistent`; reference definitions `ConsistentPH`, `GreatestPH` | — (constants and operators) | — |
| `Horndini` | `horndini` (both overloads) | `conjunctions`, `positive`, `copy_of_hc`, `lhs`, `horn_it`, `pc` | `KnockOut`, `StartFiring`, `Discharge`, `Fire`, `Fail`, `NextRound`, `Finish` |
| `SorcarAll` | `reduce_predicates_all` | `R`, `X_minus_R`, `dp_it`, `horn_constraint_pointers`, `hc_it`, `added_relevant_predicate`, `pc` | `Prepare`, `FixNegative`, `SkipPoint`, `StartHorns`, `DropVacuous`, `KeepSatisfied`, `RepairHorn`, `NextPass`, `Return` |
| `SorcarFirst` | `reduce_predicates_first` | as `SorcarAll` | as `SorcarAll`; one predicate per fix |
| `SorcarGreedy` | `reduce_predicates_greedy` | `R`, `X_minus_R`, `predicates` (the map of entries), `new_relevant_predicates`, `done`, `pc` | `Prepare`, `CollectNegatives`, `CollectHorns`, `PickBest`, `PickBestUndefined`, `Commit` |
| `SorcarMinimal` | `reduce_predicates_minimal` | `R`, `X_minus_R`, `neg_expr`, `horn_expr`, `protect_expr`, `k`, `pc`, `unknowns` (history: the unknown answers) | `Prepare`, `Encode`, `SolveSat`, `SolveGiveUp(ans)`, `RaiseBound(ans)` with `ans` unsat or unknown |
| `SorcarSpec` | what every reducer promises (abstract): `R` grows within `X`, is consistent on return, and gives up only when nothing between `R` and `X` is consistent | `R`, `status` (and the inputs, `X`) | `Grow`, `Return`, `GiveUp` |
| `LTFLowering` | `write_ltf2bool_json`, `ltf2bool` | `weights`, `write_true`, `tree`, `pc` | `WriteTree`, `WriteTrue` |
| `Winnow` | the winnow constructor, `execute_algorithm`, `train`, `check_acc`, `train_once`, `predict`, `update`, then, by option `-l` (`ltf_json`), `write_ltf_json` (1) or `write_ltf2bool_json` through an `INSTANCE` of `LTFLowering` (2) | `H` (the `X` or `R` handed in), `weights`, `examples`, `i`, `ltf_json`, `ltf` (the integers of the LTF file), `write_true`, `tree`, `pc` | `Prepare`, `Converged`, `StartPass`, `TrainStep`, `WriteLTF`, `WriteTree`, `WriteTrue` |
| `Perceptron` | the driver's perceptron branch: the constructor (or `.W` weights), `execute_algorithm`, `train`, `check_acc`, `train_once`, `predict`, `update`, `write_ltf_json` | `X`, `weights` (hundredths), `examples`, `tie` (the float sign of exact-zero sums), `i`, `ltf`, `pc` | `Prepare`, `Converged`, `StartPass`, `TrainStep`, `WriteLTF` |
| `DriverRounds` | `main` over successive rounds, for every branch that touches `R`: horndini and its assert, `-a horndini`, Sorcar's starting `R` (`R.resize` or `read_R_file`) with `-r`, `-f`, `-t` and the reducer (as `SorcarSpec`), Winnow `-s`, Perceptron's `.R` read, `write_R_file` | `opts` (algorithm, `-r`, `-f`, `-t`), `round`, the revealed data (`n`, `h`), `X`, `Rvec`, `r_exists`, `rfile` (lines of tokens), `last` (history: the vector last written), `status` (`start`, `run`, `written`, `thrown`) | `HorndiniBranch`, `ResizeR`, `ReadR`, `MissingRFile`, `WriteX`, `Reduce`, `PerceptronBranch`, `NextRound` |

Each `MC_<Module>.tla` instantiates a module with small constants. The
`.cfg` files select the bounds and the properties.

### Abstractions

- **Data.** A data point's bit vector is the set of true predicate indices
  inside its location's interval, since `satisfies` only reads those. Labels
  are `pos`, `neg` and `unl`. Premises are a vector of distinct points. The
  conclusion ⊥ (`nullptr`) is the model value `Bottom`.
- **Inputs.** The input is chosen in `Init` from every data set and Horn list
  within the bounds, and never changes. The reducers receive
  `X = GreatestPH(...)`: `Horndini` checks that horndini computes exactly
  that. Each reducer gets the inputs the driver can give it:
  - *all*, *first* and *greedy* get those on which `X` is also consistent
    with the negatives (`SorcarInputs`), the precondition they assert;
  - *minimal* gets every input on which horndini returns
    (`HorndiniReturns`), so its give-up branch is reachable.

  The starting `R` is any prior round's `R` (`StartRs`). The argument checks
  are assumed to pass, because `main` builds `R` of the right size.
- **Granularity.** One step is one iteration of a loop. The only exception is
  greedy, where one step is a whole statement group: the negative pass, a
  round's Horn pass, one greedy choice, or the commit. Nothing runs
  concurrently, so a coarser step hides no interleaving. Each action keeps
  every state change of the code it stands for.
- **Z3** (minimal). A model is any assignment with at most `k` true variables
  that satisfies the clauses. Which model the solver picks is a
  nondeterministic choice. Fault model: `check()` may also answer
  `unknown` whatever the clauses are (a resource limit or an interrupt),
  when `MayAnswerUnknown` holds, at most `MaxUnknowns` times per call. The
  code tests for `sat` only, so `unknown` takes the unsat branch
  (`NotSat`), and `unknowns` counts those answers.
- **Undefined behaviour** (greedy). After the walk erases the element under
  its own iterator, the outcome is nondeterministic. Either the walk goes on
  over the elements it started with (`PickBest`), or the run is in an
  undefined state (`PickBestUndefined`, enabled when an element of the
  walked set has the chosen key among its current 0-entries).
- **Floats** (Winnow, LTF). A Winnow weight is 0 (masked) or
  `w0 · 2.4^e` with `w0 = 2P/5`, and `update` only multiplies or divides
  by 2.4, so the model keeps the exponent `e` (`ZeroW` stands for 0,
  and 0 stays 0). `Val(e)` gives the weight in millionths. The assumption
  `MarginOK` checks that no sum of reachable weights lies within the
  rounding error of θ = 0.441, and that no single weight lies within it of an
  integer, so float rounding cannot change a prediction or a truncation.
  Every assignment of a float to an `int` truncates toward zero. The
  comparison `w > max` compares the float with the int.
- **Winnow's inputs.** One location only: `predict` and `update` index the
  location's weights by the global predicate index, which runs out of range
  when there are several locations. The conjunction `H` is any conjunction
  that is right on the labelled points, which is the precondition the
  reducers establish (and which horndini can break, see
  `horndini_negatives`). The start weights are the constructor's, or (with
  `-w`) any vector an earlier round could have written to the `.W` file.
- **Perceptron's floats.** The constructor sets every weight to 1.0 and
  `lr = 0.01`, and `update` adds `±0.01` per feature and, because the bias
  is updated inside the loop over the `P` features, `±0.01·P` to the bias.
  So the model keeps the weights in hundredths. A sum that is not 0 in
  hundredths has the float sum's sign (the float error stays far below
  0.01 over the bounded runs). For a sum that is exactly 0 the float sign
  is unknown: `tie` chooses it, equal for equal inputs, and is chosen again
  whenever the weights change. `int(w·1000)` of a float `w` of `h`
  hundredths is `10h`, or one less in magnitude when the float product
  falls just short (`Milli`). The file's LTF is read as the tree it
  stands for: the root's cut `-int(w0·1000)` and a child cut per predicate,
  on the bits inverted back.
- **Rounds.** `DriverRounds` keeps the final data set in `all_points` and
  `all_horns` and reveals a prefix each round (`n`, `h`). A hidden point
  is unlabeled and no revealed constraint names it, so no algorithm reads
  it, and the data only grows as it does between ICE rounds (the verifier
  is outside this repository and is modelled from the spec). Every round's
  data is one on which horndini returns a consistent `X`, since `main`
  asserts it. The reducer is `SorcarSpec`'s contract (any consistent `R`
  between the starting `R` cut down to `X` and `X`), which Sorcar-all and
  Sorcar-first are shown to refine. The `.R` file is a sequence of lines,
  each a sequence of tokens: predicate numbers, or the sentinel `e` (a
  model value). The argument check "R and X must be of same size" is kept.
  Whether the file exists is `r_exists`; `read_R_file` on a missing file
  throws, `main` catches nothing, and the process ends (`MissingRFile`,
  `status = "thrown"`). Perceptron's training and Winnow's are not repeated
  here: their modules check them one round at a time.
- **Refinement.** `SorcarSpec` states the reducers' contract without their
  loops. `SorcarAll` and `SorcarFirst` map onto it (`Abs == INSTANCE
  SorcarSpec WITH ...`): the abstract `R` is the code's `R`, cut down to `X`
  while `prepare_sets` has not run yet, and the abstract status is `done` once
  the function returns. `ImplementsSorcarSpec == Abs!Spec` is checked as a
  property. Every step of the code is then a `Grow`, a `Return` or a
  stutter.

## 3. Runs

All configs set `CHECK_DEADLOCK FALSE`: each algorithm returns, and its final
state has no successor. Termination is checked as a liveness property instead,
under `WF_vars(Next)`. The code is a sequential function whose next statement
always executes, which justifies weak fairness. Horndini, Sorcar-all,
Sorcar-greedy, Sorcar-minimal (with unknown answers), Winnow and
Perceptron check `Terminates` in their main run.
Sorcar-first checks `ReturnsByMeasure` instead: every step either lowers a
lexicographic measure (passes left, Horn constraints left, iterator
position) or returns. `DriverRounds` has no fairness and no liveness
property: the verifier decides whether there is a next round, and the
model stops after `MaxRound` rounds. For the Sorcar-all and greedy runs the
prior `R` is ∅ or {1}; the Sorcar-first run starts from ∅ only
(`MCFirstStartRs`), since it also enumerates every premise order. Those runs, and minimal's, also leave out Horn constraints whose
conclusion is one of their own premises (`MCHornConstraints`). Every
hypothesis satisfies such a constraint, so a Horn pass never finds it active.

| run | cfg | expect | checks |
|---|---|---|---|
| horndini | `Horndini.cfg` (3 points, ≤2 Horns, ≤2 premises) | pass | `Terminates`, `TypeOK`, `XAboveEveryConsistent`, `ReturnsConsistent`, `ThrowsOnlyWhenInfeasible` |
| horndini_negatives | `Horndini_negatives.cfg` | violation | `ReturnsFullyConsistent` |
| sorcar_all | `SorcarAll.cfg` (3/2/2) | pass | `ImplementsSorcarSpec`, `Terminates`, `TypeOK` |
| sorcar_first | `SorcarFirst.cfg` (3/2/2, premises in any order) | pass | `ImplementsSorcarSpec`, `ReturnsByMeasure`, `TypeOK` |
| sorcar_greedy | `SorcarGreedy.cfg` (3/2/2) | pass | `Terminates`, `TypeOK`, `ReturnsConsistent`, `AtFindsEntries`, `EntriesFixTheirElements` |
| sorcar_minimal | `SorcarMinimal.cfg` (3/2/1, up to 2 unknown answers) | pass | `Terminates`, `TypeOK`, `ReturnsConsistent`, `GivesUpOnlyAfterUnknowns`, `AddsAtMostOptimumPlusUnknowns` |
| winnow | `Winnow.cfg` (1 predicate, 4 points, `-l` 1 or 2) | pass | `Terminates`, `TypeOK` |
| ltf_lowering | `LTFLowering.cfg` (3 predicates, weights 0 or 1.2·2.4^e, e ≤ 3) | pass | `TypeOK`, `TreeBetweenThresholds` |
| winnow_json | `Winnow_json.cfg` (2 predicates, 2 points, `-l` 1 or 2) | violation | `EmittedHypothesisConsistent` |
| perceptron | `Perceptron.cfg` (2 predicates, 3 points) | pass | `Terminates`, `TypeOK`, `LTFConsistent` |
| driver_rounds | `DriverRounds.cfg` (2 locations, 2 points, 1 Horn, 3 rounds, 9 option sets) | pass | `TypeOK`, `RFileRoundTrip`, `ThrowsOnlyOnMissingRFile`, `XFixesLaterRounds` |
| winnow_stale | `Winnow_stale.cfg` (3 predicates, 2 points, `.W` weights) | violation | `Terminates` |

What the passing runs show:

- **Horndini.** At every step, `X` contains every hypothesis consistent with
  the positives and the Horn constraints. When horndini returns, `X` is such
  a hypothesis, so it is the greatest one (spec 8.2). It throws only when no
  such hypothesis exists, and its loop ends.
- **The reducers.** All and first refine `SorcarSpec`: `R` only gains
  predicates of `X`, and the final debug assertion `is_consistent(R)` holds
  for every input within the bounds and every prior `R`. Greedy and minimal
  check the assertion as an invariant. This holds even though:
  - satisfied Horn constraints are kept and may later be broken by
    additions in the same pass;
  - greedy records the negatives only once;
  - minimal relies on its protecting clauses.

  Greedy's `.at` lookups never miss. Every loop ends.
- **Greedy's erasing walk.** Every entry of greedy's map records only the
  points and constraints its key would fix: the key is one of their
  current 0-entries in `X \ R`. This holds across rounds, though negatives
  are recorded once, `X \ R` shrinks at every commit, and entries stay,
  emptied, until chosen. So at every pick, the walk over the chosen
  entry's sets (line 780, and 794 for Horn constraints) erases the element
  under its own range-for iterator. This is undefined behaviour, and spec 9
  rules it out (a `code_bug` finding). The run reaches `PickBestUndefined`,
  whose guard is exactly that condition.
- **Sorcar-minimal and the solver's unknown.** Without unknown answers,
  minimal throws `k >= var_count` only when no hypothesis is consistent.
  It adds at most the optimum number of predicates, or one: `k` starts at
  1, so when `R` is already consistent the solver may still add a
  predicate, against spec 8.4 (a finding on this run). Each unknown answer
  raises `k` past a bound that had a model, so it can add one more
  predicate. On an input that has a consistent hypothesis, the throw needs
  an unknown answer at every bound from the first with a model up to
  `max(var_count, 1)`; with `X = {}` and nothing to add, one unknown
  answer is enough. Spec 7 calls an unknown answer `SolverFailure`, but the
  code reports it as the `Inconsistent` "k >= var_count" (a finding on this
  run). The loop still ends whatever the solver answers.
- **Winnow.** With the one-predicate instance (w0 = 0.4 < θ, so training
  really promotes), `train` ends for every data set and every conjunction
  that is right on the labelled points, from fresh or earlier-round weights.
- **ltf2bool** (run ltf_lowering, over every weight vector of three
  predicates that Winnow can hold: equal weights tie after truncation and
  the argmax takes the later index, and inputs sit exactly at the root
  theta). The tree accepts every input whose integer weight exceeds
  the threshold it is handed, and accepts nothing below it. Every path
  tests an attribute at most once. On the boundary, the strict
  `sum > theta` (line 1648) rejects an input whose weight is exactly the
  threshold. This follows spec 4.6 but not the "iff ≥ θ" of spec 8.7.
- **Perceptron.** For every data set of 3 points over two predicates whose
  labels agree with a conjunction `X`, from the constructor's weights or
  any small earlier-round vector, and whichever way the float sign of an
  exact-zero sum falls, `train` ends. The integers of the LTF file then
  classify every point as it was trained, except points whose sum is
  exactly 0, which the file's rounding may decide either way. This holds
  through the inversion, the `P`-fold bias steps, the negated root cut and
  the truncation.
- **Rounds.** The `.R` file reads back as the vector written, in every
  round and with every option, so no round throws "R and X must be of same
  size". With `-f` or `-t` and without
  `-r`, once a Horndini round has written `X`, every later round returns
  that round's `X`: the reducer starts from `X`, `X` only shrinks as data
  grows, and the reducers never drop a predicate. So these options make
  Sorcar a no-op unless `-r` is also given, which spec 6 does not say (a
  `spec_gap` finding). A round throws only in one case: Perceptron
  without `-r`, in a round after the first, when no round has written a
  `.R` file. The Perceptron branch reads `.R` (sorcar.cpp:394-401) but
  never writes it and never uses it, so `-a perceptron` fails in round 2
  on a fresh directory (a `code_bug` finding; `MissingRFile` fires in the
  run). Winnow `-s` reads `.R` in every later round whatever `-r` says
  (a `spec_code_divergence` finding).

What the violation runs show (details in `PROJECT.json`, "findings"):

- **horndini_negatives.** Horndini ignores negative points. `main` then
  asserts `is_consistent(X)` (sorcar.cpp:272). The reducers' precondition
  asserts fail on such an `X`.
- **winnow_json.** Spec scenario S5 with two predicates: with `X = {0}`,
  masking leaves the weights (0.8, 0), and training has nothing to correct.
  With `-l 1` (the default) `write_ltf_json` writes `(int) w * 1000`: the
  cast binds first, so both cuts are 0 under the root cut 441 and the file
  accepts every point. With `-l 2` `write_ltf2bool_json` computes the int sum
  0 and `theta = (int)(0 - 0.441) = 0`, so `ltf2bool` returns the true leaf.
  Either way the emitted hypothesis accepts the negative point that Winnow
  rejects.
- **winnow_stale.** With `-s -w`, the `.W` file holds 0 for every predicate
  that was outside the earlier `R` (the masking zeroed it). Once `R` has
  grown to include such a predicate and only that predicate separates a
  positive from a negative point, `update` multiplies 0 by 2.4 and `train`
  never ends (sorcar.cpp:329).

Every property of a passing run has a mutant in `PROJECT.json`. A mutant is
a plausible bug in the mapped code (an erased element followed by an
increment, a dropped guard, a missing flag, a wrong starting bound, swapped
children) under which TLC finds the property violated.

### Bounds

- **Horn-clause algorithms:** one location with two predicates, three data
  points, up to two Horn constraints, and up to two premises each. Premises
  are in increasing order except for *first*, whose choice depends on
  premise order. The Sorcar all/first/greedy runs drop constraints that
  conclude one of their own premises, since those can never be active.
  These bounds cover all of the following:
  - a Horn chain firing a conclusion that knocks out a predicate another
    constraint needed;
  - two constraints repaired in the same pass, the second breaking the
    first;
  - ⊥ conclusions, vacuous constraints and negatives that need repair;
  - prior `R`s holding predicates outside `X`.

  Minimal's run allows one premise per constraint (a protecting clause is
  already a pair of premise and conclusion variables) and up to two unknown
  answers. Two is the number of bounds a call with two predicates can
  try, so every pattern of answers is reached. It also checks
  `Terminates`, whose check needs the whole graph.

  The runs take 1 to 2.5 minutes each with 1.7 to 10.6 million distinct states.
- **Winnow:** one location. With `P ≥ 2` the initial weight (0.8 or more)
  exceeds θ, and a conjunction right on the labelled points needs no update
  at all. So the passing run uses `P = 1` (w0 = 0.4), where promotions
  happen, with 4 points, fresh weights or any earlier-round exponent in
  0..4, and exponents bounded to -3..4 (a step leaving them is cut off). The
  violation runs use 2 points, which is enough for a negative point and a
  masked predicate: `P = 2` for `winnow_json` (weights 0.8, below 1, as in
  S5) and `P = 3` for `winnow_stale`.
- **ltf2bool:** three predicates, each weight 0 (masked) or Winnow's
  `1.2 · 2.4^e` for `e` in 0..3: 500 states. Three attributes give trees
  of depth three, argmax ties between equal weights, and subsets whose
  int sum is exactly the root theta. No run of Winnow's own reaches these
  with training: with two or more predicates training never updates, so
  the trained weights are the start weights, which this run enumerates.
  A later, smaller float weight winning the argmax would need two
  different weights with the same integer part, the later one smaller.
  Winnow's trained weights never have that: they are 0 or `w0 · 2.4^e`
  with `e ≥ 0`, and 2.4 separates the integer parts.
- **Perceptron:** one location, two predicates, 3 points, start weights
  fresh (1.0) or any vector of -0.01, 0 and 0.01, and weights bounded to
  -1.5..1.5. On the spec's S5 data the float code converges with weights
  (-0.02, 1, 1), well inside the bound. Every step of the runs stays inside
  it. A float replay of the code on every data set of this size kept the
  weights within -0.82..1.00 and never wrote inconsistent integers.
- **Rounds:** two locations, one with the predicates {0, 1} (so a line holds
  two numbers) and one with an empty interval (its line is always `e`),
  2 points, 1 Horn constraint of 1 premise, 3 rounds (round 3 is odd, so
  `-t` runs Horndini again after a Sorcar round), and each of `-r`, `-f`,
  `-t` alone or none, with `-a horndini`, and with Winnow `-s` and
  Perceptron each with and without `-r` (nine option sets). `-f` with `-t`
  behaves as `-t`. The run takes about 65 s with 1,280,000 distinct states.

## 4. Not modelled

- **Winnow and Perceptron with several locations.** This case is undefined
  behaviour: `predict` and `update` index the location's weights by the
  global predicate index (lines 1370, 1383, 1697), out of range beyond one
  location. `perceptron::write_ltf_json` also writes only location 0's bias
  (line 1873).
- **The driver/header mismatch.** `sorcar.cpp` constructs `winnow(int)` and
  reads an int from `write_ltf2bool_json` for the adaptive `-l` mode,
  neither of which the header provides, so that mode does not build against
  this header. The models follow the header.
- **The `.W` files as text.** `write_weights_file` prints floats with the
  stream's default 6 significant digits, so a round trip can change a
  weight. The models take any earlier-round weight vector as the start
  weights instead.
- **Command-line parsing, the input readers and the JSON text.** These are
  pure I/O. The models start from every input within the bounds, and keep
  only the integers the JSON writers compute.
- **When Z3 answers `unknown`.** The model lets it answer `unknown` at
  any call. It does not model the resource limits that decide when it
  really does.
- **Out-of-range writes of `read_weights_file`, and Winnow's masking with
  local indices.** Both go wrong only with a `.W` file of another shape or
  with several locations (lines 1478, 1524). They are listed as hazards.
- **The rounds of the other reducers and learners.** `DriverRounds` uses
  the reducers' common contract (`SorcarSpec`), which two of them are shown
  to refine. In `DriverRounds`, Winnow `-s` and Perceptron keep their
  handling of `R` and of the `.R` file; their training is checked one
  round at a time in `Winnow` and `Perceptron`, with the `.W` weights as
  their start weights.
