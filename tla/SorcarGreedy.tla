----------------------------- MODULE SorcarGreedy -----------------------------
(***************************************************************************)
(* sorcar::reduce_predicates_greedy (sorcar.h): for each misclassified     *)
(* negative point and each violated Horn constraint, record it under      *)
(* every predicate of X \ R that would fix it; then repeatedly add the    *)
(* predicate that fixes the most, forget what it fixed, and start over    *)
(* until no Horn constraint is violated.                                   *)
(*                                                                         *)
(* predicates is the std::map per location, keyed by <<location, p>>: an  *)
(* entry, once created, stays until its predicate is chosen, even when    *)
(* both its sets are empty. A step is one statement group of the code:   *)
(* the negative pass, one round's Horn pass, one iteration of the greedy  *)
(* do-while, and the commit of a round's choices.                         *)
(***************************************************************************)
EXTENDS HornData

VARIABLES
  datapoints, horn_constraints,  \* the input (read only)
  X,                             \* Horndini's result (read only)
  R,
  X_minus_R,
  predicates,               \* <<id, p>> |-> [negs, horns] it would fix
  new_relevant_predicates,  \* the keys chosen this round
  done,
  pc  \* "prepare" "negatives" "collect" "pick" "done" "undefined"

vars == <<datapoints, horn_constraints, X, R, X_minus_R, predicates,
          new_relevant_predicates, done, pc>>

input == <<datapoints, horn_constraints, X>>

\* The keys of the predicates of X \ R that are false on point q.
ZeroKeys(q) ==
  {datapoints[q].loc} \X {p \in X_minus_R[datapoints[q].loc] :
                           p \notin datapoints[q].bits}

PremiseZeroKeys(i) == UNION {ZeroKeys(q) : q \in PremiseSet(horn_constraints[i])}

NoEntry == [negs |-> {}, horns |-> {}]

\* predicates[id][p] (operator[] creates the entry when absent).
Entry(k) == IF k \in DOMAIN predicates THEN predicates[k] ELSE NoEntry

Value(k) == Cardinality(predicates[k].negs) + Cardinality(predicates[k].horns)

\* The iteration order of the keys: location first, then predicate.
KeyBefore(a, b) == a[1] < b[1] \/ (a[1] = b[1] /\ a[2] < b[2])

\* The scan with best_value starting at 0 and a strict ">": the first key
\* of greatest positive value.
Candidates == {k \in DOMAIN predicates : Value(k) > 0}
Best ==
  CHOOSE b \in Candidates :
    \A k \in Candidates : Value(k) < Value(b) \/ (Value(k) = Value(b) /\ ~KeyBefore(k, b))

Init ==
  /\ \E in \in SorcarInputs :
       /\ datapoints = in[1]
       /\ horn_constraints = in[2]
       /\ X = GreatestPH(in[1], in[2])
  /\ R \in StartRs
  /\ X_minus_R = [l \in Loc |-> {}]
  /\ predicates = <<>>
  /\ new_relevant_predicates = {}
  /\ done = TRUE
  /\ pc = "prepare"

Prepare ==
  /\ pc = "prepare"
  /\ R' = prepare_sets(X, R)[1]
  /\ X_minus_R' = prepare_sets(X, R)[2]
  /\ pc' = "negatives"
  /\ UNCHANGED <<input, predicates, new_relevant_predicates, done>>

(* Every negative point that satisfies R is recorded under each of its     *)
(* 0-entries in X \ R.                                                      *)
CollectNegatives ==
  /\ pc = "negatives"
  /\ LET bad == {q \in Pts : datapoints[q].label = Neg /\ Sat(datapoints, R, q)}
         keys == DOMAIN predicates \cup UNION {ZeroKeys(q) : q \in bad}
     IN  predicates' = [k \in keys |->
                          [Entry(k) EXCEPT !.negs =
                             @ \cup {q \in bad : k \in ZeroKeys(q)}]]
  /\ pc' = "collect"
  /\ UNCHANGED <<input, R, X_minus_R, new_relevant_predicates, done>>

\* Plausible bug: done left false by the Horn pass.
CollectHornsNeverDone ==
  /\ pc = "collect"
  /\ LET bad == {i \in DOMAIN horn_constraints :
                   /\ PremisesSat(datapoints, R, horn_constraints[i])
                   /\ ~ConclusionSat(datapoints, R, horn_constraints[i])}
         keys == DOMAIN predicates \cup UNION {PremiseZeroKeys(i) : i \in bad}
     IN  /\ predicates' = [k \in keys |->
                             [Entry(k) EXCEPT !.horns =
                                @ \cup {i \in bad : k \in PremiseZeroKeys(i)}]]
         /\ done' = FALSE
  /\ new_relevant_predicates' = {}
  /\ pc' = "pick"
  /\ UNCHANGED <<input, R, X_minus_R>>

\* Plausible bug: the 0-entry test dropped, so a violated constraint is
\* recorded under every predicate of X \ R at each premise's location.
CollectHornsAllKeys ==
  /\ pc = "collect"
  /\ LET bad == {i \in DOMAIN horn_constraints :
                   /\ PremisesSat(datapoints, R, horn_constraints[i])
                   /\ ~ConclusionSat(datapoints, R, horn_constraints[i])}
         allKeys(i) == UNION {{datapoints[q].loc} \X X_minus_R[datapoints[q].loc] :
                                q \in PremiseSet(horn_constraints[i])}
         keys == DOMAIN predicates \cup UNION {allKeys(i) : i \in bad}
     IN  /\ predicates' = [k \in keys |->
                             [Entry(k) EXCEPT !.horns =
                                @ \cup {i \in bad : k \in allKeys(i)}]]
         /\ done' = (bad = {})
  /\ new_relevant_predicates' = {}
  /\ pc' = "pick"
  /\ UNCHANGED <<input, R, X_minus_R>>

(* The start of a round: done := true; every Horn constraint whose         *)
(* premises satisfy R and whose conclusion is bottom or fails R clears    *)
(* done and is recorded under each 0-entry in X \ R of each premise.      *)
CollectHorns ==
  /\ pc = "collect"
  /\ LET bad == {i \in DOMAIN horn_constraints :
                   /\ PremisesSat(datapoints, R, horn_constraints[i])
                   /\ ~ConclusionSat(datapoints, R, horn_constraints[i])}
         keys == DOMAIN predicates \cup UNION {PremiseZeroKeys(i) : i \in bad}
     IN  /\ predicates' = [k \in keys |->
                             [Entry(k) EXCEPT !.horns =
                                @ \cup {i \in bad : k \in PremiseZeroKeys(i)}]]
         /\ done' = (bad = {})
  /\ new_relevant_predicates' = {}
  /\ pc' = "pick"
  /\ UNCHANGED <<input, R, X_minus_R>>

\* What choosing best fixes: the keys whose sets lose its points and
\* constraints (the .at lookups).
Looked(b) ==
  UNION {ZeroKeys(q) : q \in predicates[b].negs}
    \cup UNION {PremiseZeroKeys(i) : i \in predicates[b].horns}

\* Plausible bug: only the chosen key's own entry is erased; the points
\* and constraints it fixes stay recorded under the other keys.
PickBestErasesOnlyOwn ==
  /\ pc = "pick"
  /\ Candidates /= {}
  /\ LET b == Best
     IN  /\ predicates' = [k \in DOMAIN predicates \ {b} |-> predicates[k]]
         /\ new_relevant_predicates' = new_relevant_predicates \cup {b}
  /\ done' = FALSE
  /\ UNCHANGED <<input, R, X_minus_R, pc>>

\* Plausible bug: the chosen key's entry left in the map.
PickBestKeepsEntry ==
  /\ pc = "pick"
  /\ Candidates /= {}
  /\ LET b == Best
         negs == predicates[b].negs
         horns == predicates[b].horns
     IN  /\ predicates' =
              [k \in DOMAIN predicates |->
                 [negs |-> predicates[k].negs \ {q \in negs : k \in ZeroKeys(q)},
                  horns |-> predicates[k].horns \
                              {i \in horns : k \in PremiseZeroKeys(i)}]]
         /\ new_relevant_predicates' = new_relevant_predicates \cup {b}
  /\ done' = FALSE
  /\ UNCHANGED <<input, R, X_minus_R, pc>>

(* One greedy iteration: erase the points and constraints best fixes from *)
(* every entry, add best to the round's choices and erase its entry.      *)
(* The erasing walks over best's own sets, and erases from them too; here *)
(* the walk goes on over the elements it started with.                     *)
PickBest ==
  /\ pc = "pick"
  /\ Candidates /= {}
  /\ LET b == Best
         negs == predicates[b].negs
         horns == predicates[b].horns
     IN  /\ predicates' =
              [k \in DOMAIN predicates \ {b} |->
                 [negs |-> predicates[k].negs \ {q \in negs : k \in ZeroKeys(q)},
                  horns |-> predicates[k].horns \
                              {i \in horns : k \in PremiseZeroKeys(i)}]]
         /\ new_relevant_predicates' = new_relevant_predicates \cup {b}
  /\ done' = FALSE
  /\ UNCHANGED <<input, R, X_minus_R, pc>>

(* The walk erases the element under its own range-for iterator when one *)
(* of the points or constraints it walks has best's key among its current *)
(* 0-entries in X \ R: the increment that follows is undefined behaviour. *)
PickBestUndefined ==
  /\ pc = "pick"
  /\ Candidates /= {}
  /\ Best \in Looked(Best)
  /\ pc' = "undefined"
  /\ UNCHANGED <<input, R, X_minus_R, predicates, new_relevant_predicates, done>>

\* Plausible bug: a single round, as if the choices could break nothing.
CommitOnce ==
  /\ pc = "pick"
  /\ Candidates = {}
  /\ LET add(l) == {p \in Preds : <<l, p>> \in new_relevant_predicates}
     IN  /\ R' = [l \in Loc |-> R[l] \cup add(l)]
         /\ X_minus_R' = [l \in Loc |-> X_minus_R[l] \ add(l)]
  /\ pc' = "done"
  /\ UNCHANGED <<input, predicates, new_relevant_predicates, done>>

(* No key fixes anything: add the round's choices to R, remove them from  *)
(* X \ R, and loop while done is false.                                     *)
Commit ==
  /\ pc = "pick"
  /\ Candidates = {}
  /\ LET add(l) == {p \in Preds : <<l, p>> \in new_relevant_predicates}
     IN  /\ R' = [l \in Loc |-> R[l] \cup add(l)]
         /\ X_minus_R' = [l \in Loc |-> X_minus_R[l] \ add(l)]
  /\ pc' = IF done THEN "done" ELSE "collect"
  /\ UNCHANGED <<input, predicates, new_relevant_predicates, done>>

Next ==
  \/ Prepare \/ CollectNegatives \/ CollectHorns
  \/ PickBest \/ PickBestUndefined
  \/ Commit

Spec == Init /\ [][Next]_vars /\ WF_vars(Next)

-----------------------------------------------------------------------------
Keys == UNION {{l} \X Preds : l \in Loc}

TypeOK ==
  /\ R \in Hypotheses /\ X_minus_R \in Hypotheses
  /\ DOMAIN predicates \subseteq Keys
  /\ \A k \in DOMAIN predicates :
       predicates[k] \in [negs : SUBSET Pts, horns : SUBSET DOMAIN horn_constraints]
  /\ new_relevant_predicates \subseteq Keys \ DOMAIN predicates
  /\ done \in BOOLEAN
  /\ pc \in {"prepare", "negatives", "collect", "pick", "done", "undefined"}

(* The final debug assertion: when the fixed point is reached, R is       *)
(* consistent, though negatives are recorded only once, before the first  *)
(* round, and later rounds see only the Horn constraints.                 *)
ReturnsConsistent ==
  pc = "done" => is_consistent(R, datapoints, horn_constraints)

(* Every predicates.at(id).at(p) of the erasing walk finds its entry,     *)
(* across rounds in which chosen entries are erased from the map and new  *)
(* ones created: std::out_of_range is never thrown.                        *)
AtFindsEntries ==
  pc = "pick" /\ Candidates /= {} => Looked(Best) \subseteq DOMAIN predicates

(* The fixed-point loop ends: the function returns or reaches the        *)
(* undefined increment.                                                    *)
Terminates == <>(pc \in {"done", "undefined"})

(* Every entry of predicates records only points and constraints that its *)
(* key would fix: its key is among the current 0-entries in X \ R of the   *)
(* point, or of some premise of the constraint. This holds across rounds,  *)
(* although negatives are recorded once, X \ R shrinks at every commit,    *)
(* and entries persist, emptied, until their predicate is chosen. So at    *)
(* every pick the erasing walk at lines 780 and 794 erases the element     *)
(* under its own iterator, which spec 9 rules out.                          *)
EntriesFixTheirElements ==
  \A k \in DOMAIN predicates :
    /\ \A q \in predicates[k].negs : k \in ZeroKeys(q)
    /\ \A i \in predicates[k].horns : k \in PremiseZeroKeys(i)
=============================================================================
