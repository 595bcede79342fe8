---------------------------- MODULE DriverRounds ----------------------------
(***************************************************************************)
(* main in sorcar.cpp over successive CEGIS rounds, one process per round, *)
(* for what it does with R and the .R file: horndini and its assert, then *)
(* the branch of the algorithm chosen with -a:                             *)
(*   horndini    writes X to the .R file;                                  *)
(*   sorcar      starts from the empty R (round 1 or -r) or the .R file,  *)
(*               writes X (-f in round 1, -t in odd rounds) or the        *)
(*               reducer's R to it;                                        *)
(*   winnow -s   starts from the empty R (round 1) or the .R file, and    *)
(*               writes reduce_predicates_all's R to it before training;  *)
(*   perceptron  reads the .R file as sorcar does and writes nothing to   *)
(*               it (the R it reads is not used).                          *)
(* Training and the JSON text are the Winnow and Perceptron modules'.     *)
(*                                                                         *)
(* The reducer is the abstract SorcarSpec, which Sorcar-all and           *)
(* Sorcar-first are shown to refine: any consistent R between the starting *)
(* R cut down to X and X. The verifier between rounds (outside this        *)
(* repository) only adds data: the points and Horn constraints of the     *)
(* final data set are revealed in order, a hidden point being unlabeled   *)
(* and referenced by no revealed Horn constraint, which no algorithm      *)
(* reads. Every round's data is one horndini returns on with a consistent *)
(* X (the driver asserts it). No .R file exists before round 1.           *)
(*                                                                         *)
(* The .R file is a sequence of lines, a line a sequence of tokens: a     *)
(* predicate index or the sentinel "e" (a model value, unequal to every   *)
(* number). An exception is not caught in main: it ends the process and  *)
(* the verifier gets no hypothesis.                                        *)
(***************************************************************************)
EXTENDS HornData, SequencesExt

CONSTANTS
  MaxRound,  \* bound: the number of rounds the verifier runs
  Options,   \* the algorithm (-a, -s) and the flags -r, -f, -t
  Sentinel   \* model value: the token "e" of an empty conjunction

ASSUME Loc = 0..(Cardinality(Loc) - 1) /\ MaxRound \in Nat \ {0}

VARIABLES
  opts,       \* [alg, reset |-> -r, first |-> -f, alternate |-> -t]
  round,      \* the round number read from the .status file
  all_points, all_horns,  \* the data the verifier ends up with
  n, h,       \* the points and Horn constraints revealed so far
  X,          \* Horndini's conjunctions this round
  Rvec,       \* the R vector main prepares
  r_exists,   \* whether the .R file exists
  rfile,      \* the .R file: a sequence of lines
  last,       \* the vector the .R file was last written from (history)
  status      \* "start", "run", "written" or "thrown"

vars == <<opts, round, all_points, all_horns, n, h, X, Rvec, r_exists, rfile,
          last, status>>

L == Cardinality(Loc)

\* The round's data: hidden points unlabeled, hidden constraints absent.
datapoints ==
  [q \in Pts |-> IF q <= n THEN all_points[q]
                 ELSE [all_points[q] EXCEPT !.label = Unl]]
horn_constraints == [k \in 1..h |-> all_horns[k]]

\* The revealed constraints only name revealed points.
Revealable(pts, horns, np, nh) ==
  \A k \in 1..nh : PremiseSet(horns[k]) \cup ({horns[k].conclusion} \ {Bottom})
                     \subseteq 1..np

Hidden(pts, np) ==
  [q \in Pts |-> IF q <= np THEN pts[q] ELSE [pts[q] EXCEPT !.label = Unl]]

\* The data of a round main can get past horndini and its assert.
RoundData(pts, horns, np, nh) ==
  /\ Revealable(pts, horns, np, nh)
  /\ <<Hidden(pts, np), [k \in 1..nh |-> horns[k]]>> \in SorcarInputs

AsVector(H) == [k \in 1..L |-> H[k - 1]]

\* Plausible bug: the predicates written 1-based.
LineShifted(S) == IF S = {} THEN <<Sentinel>> ELSE SetToSortSeq({p + 1 : p \in S}, <)
\* Plausible bug: the empty conjunction written as an empty line.
LineNoSentinel(S) == SetToSortSeq(S, <)

\* write_R_file: the lines are separated by endl; a line holds "e" for the
\* empty conjunction, else its predicates in the set's increasing order.
Line(S) == IF S = {} THEN <<Sentinel>> ELSE SetToSortSeq(S, <)
write_R_file(v) == [k \in DOMAIN v |-> Line(v[k])]

\* read_R_file: empty lines are skipped, "e" is the empty set, and every
\* other line the set of the numbers on it.
ReadLine(line) == IF line = <<Sentinel>> THEN {} ELSE Range(line)
read_R_file(f) ==
  LET lines == SelectSeq(f, LAMBDA line : line /= <<>>)
  IN  [k \in 1..Len(lines) |-> ReadLine(lines[k])]

\* The branches that read the .R file: sorcar and perceptron unless -r or
\* round 1, winnow -s unless round 1 (it has no test of -r).
ReadsRFile(o, r) ==
  /\ o.alg /= "horndini" /\ r > 1
  /\ ~o.reset \/ o.alg = "winnow_s"

\* -f in round 1, -t in odd rounds: Horndini's X is the sorcar round's result.
HorndiniOnly ==
  opts.alg = "sorcar" /\ ((opts.first /\ round = 1) \/ (opts.alternate /\ round % 2 = 1))

\* The .R file written from vector v.
WriteR(v) == r_exists' = TRUE /\ rfile' = write_R_file(v) /\ last' = v

-----------------------------------------------------------------------------
Init ==
  /\ opts \in Options
  /\ round = 1
  /\ all_points \in Datasets
  /\ all_horns \in HornLists
  /\ n \in 0..NumPoints
  /\ h \in 0..Len(all_horns)
  /\ RoundData(all_points, all_horns, n, h)
  /\ X = GreatestPH(datapoints, horn_constraints)
  /\ Rvec = <<>>
  /\ r_exists = FALSE
  /\ rfile = <<>>
  /\ last = <<>>
  /\ status = "start"

(* -a horndini: X is written as the hypothesis and to the .R file.        *)
HorndiniBranch ==
  /\ status = "start"
  /\ opts.alg = "horndini"
  /\ WriteR(AsVector(X))
  /\ status' = "written"
  /\ UNCHANGED <<opts, round, all_points, all_horns, n, h, X, Rvec>>

(* R.resize(X.size()): round 1, or -r where the branch tests it.          *)
ResizeR ==
  /\ status = "start"
  /\ opts.alg /= "horndini"
  /\ ~ReadsRFile(opts, round)
  /\ Rvec' = [k \in 1..L |-> {}]
  /\ status' = "run"
  /\ UNCHANGED <<opts, round, all_points, all_horns, n, h, X, r_exists, rfile,
                 last>>

(* read_R_file of an existing .R file.                                     *)
ReadR ==
  /\ status = "start"
  /\ ReadsRFile(opts, round)
  /\ r_exists
  /\ Rvec' = read_R_file(rfile)
  /\ status' = "run"
  /\ UNCHANGED <<opts, round, all_points, all_horns, n, h, X, r_exists, rfile,
                 last>>

(* read_R_file throws "Error opening": there is no .R file.               *)
MissingRFile ==
  /\ status = "start"
  /\ ReadsRFile(opts, round)
  /\ ~r_exists
  /\ status' = "thrown"
  /\ UNCHANGED <<opts, round, all_points, all_horns, n, h, X, Rvec, r_exists,
                 rfile, last>>

\* Plausible bug: the else branch writing R, as the Sorcar branch does.
WriteXFromR ==
  /\ status = "run"
  /\ HorndiniOnly
  /\ WriteR(Rvec)
  /\ status' = "written"
  /\ UNCHANGED <<opts, round, all_points, all_horns, n, h, X, Rvec>>

\* Plausible bug: the else branch writing only the JSON file.
WriteXNoFile ==
  /\ status = "run"
  /\ HorndiniOnly
  /\ status' = "written"
  /\ UNCHANGED <<opts, round, all_points, all_horns, n, h, X, Rvec, r_exists,
                 rfile, last>>

(* -a sorcar with -f or -t in a Horndini round: X is written as the      *)
(* hypothesis and to the .R file.                                          *)
WriteX ==
  /\ status = "run"
  /\ HorndiniOnly
  /\ WriteR(AsVector(X))
  /\ status' = "written"
  /\ UNCHANGED <<opts, round, all_points, all_horns, n, h, X, Rvec>>

(* The reducer (sorcar, or reduce_predicates_all for winnow -s): its       *)
(* argument check throws "R and X must be of same size"; otherwise it      *)
(* returns a consistent R between R \cap X and X, written to the .R file. *)
Reduce ==
  /\ status = "run"
  /\ opts.alg \in {"sorcar", "winnow_s"}
  /\ ~HorndiniOnly
  /\ IF Len(Rvec) /= L
       THEN status' = "thrown" /\ UNCHANGED <<r_exists, rfile, last>>
       ELSE \E R \in IntervalHypotheses :
              /\ \A l \in Loc : Rvec[l + 1] \cap X[l] \subseteq R[l]
              /\ \A l \in Loc : R[l] \subseteq X[l]
              /\ is_consistent(R, datapoints, horn_constraints)
              /\ WriteR(AsVector(R))
              /\ status' = "written"
  /\ UNCHANGED <<opts, round, all_points, all_horns, n, h, X, Rvec>>

(* -a perceptron: training, the JSON and the .W file; R is not used and   *)
(* the .R file is left as it is.                                           *)
PerceptronBranch ==
  /\ status = "run"
  /\ opts.alg = "perceptron"
  /\ status' = "written"
  /\ UNCHANGED <<opts, round, all_points, all_horns, n, h, X, Rvec, r_exists,
                 rfile, last>>

(* The verifier adds data and starts the next round's process, which runs *)
(* horndini on the new data.                                               *)
NextRound ==
  /\ status = "written"
  /\ round < MaxRound
  /\ round' = round + 1
  /\ \E np \in n..NumPoints, nh \in h..Len(all_horns) :
       /\ RoundData(all_points, all_horns, np, nh)
       /\ n' = np /\ h' = nh
       /\ X' = GreatestPH(Hidden(all_points, np), [k \in 1..nh |-> all_horns[k]])
  /\ Rvec' = <<>>
  /\ status' = "start"
  /\ UNCHANGED <<opts, all_points, all_horns, r_exists, rfile, last>>

Next ==
  \/ HorndiniBranch \/ ResizeR \/ ReadR \/ MissingRFile
  \/ WriteX \/ Reduce \/ PerceptronBranch \/ NextRound

Spec == Init /\ [][Next]_vars

-----------------------------------------------------------------------------
TypeOK ==
  /\ opts \in [alg : {"horndini", "sorcar", "winnow_s", "perceptron"},
               reset : BOOLEAN, first : BOOLEAN, alternate : BOOLEAN]
  /\ round \in 1..MaxRound
  /\ n \in 0..NumPoints /\ h \in 0..Len(all_horns)
  /\ X \in IntervalHypotheses
  /\ Rvec \in Seq(SUBSET Preds)
  /\ last \in Seq(SUBSET Preds)
  /\ status \in {"start", "run", "written", "thrown"}

(* Write-then-read of the .R file gives back the vector written (spec,    *)
(* round trip): a round that reads the file starts from exactly the R (or *)
(* X) the last round that wrote it wrote, one set per location.           *)
RFileRoundTrip ==
  status = "run" /\ ReadsRFile(opts, round) => Rvec = last

(* A round ends in an exception only when it reads a .R file that no      *)
(* round wrote: a perceptron round after the first without -r. The        *)
(* reducers' size check never throws, as the file holds one line per      *)
(* location.                                                               *)
ThrowsOnlyOnMissingRFile ==
  status = "thrown" => opts.alg = "perceptron" /\ ~r_exists

(* With -a sorcar and without -r, once a round has written Horndini's X   *)
(* (-f in round 1, -t in every odd round), every later round returns that *)
(* round's X: as data only grows X only shrinks, and the reducers never   *)
(* drop a predicate of R \cap X.                                           *)
XFixesLaterRounds ==
  status = "written" /\ opts.alg = "sorcar" /\ ~opts.reset
    /\ (opts.first \/ opts.alternate) => last = AsVector(X)
=============================================================================
