------------------------------- MODULE Dispatch -------------------------------
(***************************************************************************)
(* What the callers of TopKDispatcher may rely on, as operators.  A score  *)
(* matrix gives every workload instance i and candidate state s a score    *)
(* scores[i][s]; states are numbered by their position in the candidate    *)
(* list, and a dispatch map sends every instance to one of them.           *)
(***************************************************************************)
EXTENDS Integers, FiniteSets

Selected(disp) == {disp[i] : i \in DOMAIN disp}

(* Mutant of Favourite: the comparison is swapped. *)
FavouriteWorst(row) ==
  CHOOSE s \in DOMAIN row :
    \A t \in DOMAIN row : row[s] <= row[t] /\ (row[t] = row[s] => s <= t)

(* The first of the best states of an instance. *)
Favourite(row) ==
  CHOOSE s \in DOMAIN row :
    \A t \in DOMAIN row : row[t] <= row[s] /\ (row[t] = row[s] => s <= t)

Favourites(scores) == [i \in DOMAIN scores |-> Favourite(scores[i])]

(* One state per instance, its favourite, as long as that selects at most  *)
(* max states; otherwise some total map that selects at most max.          *)
DispatchOutcomes(scores, states, max) ==
  LET fav == Favourites(scores)
  IN  IF Cardinality(Selected(fav)) <= max
      THEN {fav}
      ELSE {d \in [DOMAIN scores -> states] : Cardinality(Selected(d)) <= max}
=============================================================================
