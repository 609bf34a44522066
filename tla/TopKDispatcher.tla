---------------------------- MODULE TopKDispatcher ----------------------------
(***************************************************************************)
(* TopKDispatcher (utils.cc): assigns every workload instance one of the   *)
(* candidate states so that at most max_num_states_ are used.          *)
(*                                                                         *)
(* dispatch() tries k = 1, 2, ...: every instance puts k states on its     *)
(* scoreboard; then a weighted greedy cover elects states until every      *)
(* instance has one of its scoreboard elected.  MapWklInstsToStates() then *)
(* renumbers the elected states in the order of a hash map's iteration.    *)
(***************************************************************************)
EXTENDS Dispatch, Sequences, Functions

CONSTANTS
  Insts,         \* workload instances
  NumStates,     \* candidate states, numbered 0 .. NumStates - 1
  Capacities,    \* values of max_num_states_ (128 in the code)
  ScoreValues    \* values an adapted score may take

States == 0 .. NumStates - 1

ASSUME DispatcherAssumption ==
  /\ IsFiniteSet(Insts)
  /\ NumStates \in Nat \ {0} /\ Capacities \subseteq Nat \ {0}
  /\ ScoreValues \subseteq Nat

VARIABLES
  max_num_states_,
  scores,     \* the argument: [Insts -> [States -> ScoreValues]]
  pc,
  k,          \* length of the scoreboards
  boards,     \* inst_topK_candidates: a sequence of states per instance
  remainder,  \* inst_disp_remainder
  selected,   \* selected_states
  disp,       \* disp_map_to_ret, a partial map from instances to states
  compact,    \* selected_candidate_state_ids
  instMap     \* inst_id_disp_map, a partial map to positions of compact

arguments == <<max_num_states_, scores>>
vars == <<arguments, pc, k, boards, remainder, selected, disp, compact, instMap>>

-----------------------------------------------------------------------------
(* The standard library's heap steps (libstdc++) on a scoreboard b, under  *)
(* the order "score greater than", whose root is the minimum.  They are    *)
(* applied to scoreboards that were never made a heap.                     *)

(* The element at position x climbs while its parent scores more. *)
SiftUp(row, b, x) ==
  LET stop[y \in 1 .. x] ==
        IF y > 1 /\ row[b[y \div 2]] > row[b[x]] THEN stop[y \div 2] ELSE y
      climbed[y \in 1 .. x] ==
        IF y > stop[x] THEN {y} \cup climbed[y \div 2] ELSE {}
  IN  [y \in DOMAIN b |-> IF y = stop[x] THEN b[x]
                          ELSE IF y \in climbed[x] THEN b[y \div 2] ELSE b[y]]

(* Drop the root: the children of lower score move up along one path, and  *)
(* the last element climbs from the leaf where that path ends.             *)
PopHeap(row, b) ==
  LET n == Len(b) - 1
      LowChild(y) == IF 2 * y = n \/ row[b[2 * y + 1]] > row[b[2 * y]]
                     THEN 2 * y ELSE 2 * y + 1
      leaf[y \in 1 .. n] == IF 2 * y > n THEN y ELSE leaf[LowChild(y)]
      path[y \in 1 .. n] == {y} \cup IF 2 * y > n THEN {} ELSE path[LowChild(y)]
      sunk == [y \in 1 .. n |-> IF y = leaf[1] THEN b[n + 1]
                                ELSE IF y \in path[1] THEN b[LowChild(y)] ELSE b[y]]
  IN  IF n = 0 THEN << >> ELSE SiftUp(row, sunk, leaf[1])

(* Mutant of Offer: a state also displaces an equally good one. *)
OfferOnTie(row, len, b, s) ==
  IF Len(b) < len THEN Append(b, s)
  ELSE IF row[s] >= row[b[1]]
  THEN LET popped == PopHeap(row, b) IN SiftUp(row, Append(popped, s), Len(b))
  ELSE b

(* A state is offered to a scoreboard of at most len states. *)
Offer(row, len, b, s) ==
  IF Len(b) < len THEN Append(b, s)
  ELSE IF row[s] > row[b[1]]
  THEN LET popped == PopHeap(row, b) IN SiftUp(row, Append(popped, s), Len(b))
  ELSE b

Scoreboard(row, len) ==
  LET board[s \in -1 .. NumStates - 1] ==
        IF s = -1 THEN << >>
        ELSE LET sofar == board[s - 1] IN Offer(row, len, sofar, s)
  IN  board[NumStates - 1]

-----------------------------------------------------------------------------
Unset == -1

Init ==
  /\ max_num_states_ \in Capacities
  /\ scores \in [Insts -> [States -> ScoreValues]]
  /\ pc = "fill"
  /\ k = 0
  /\ boards = [i \in Insts |-> << >>]
  /\ remainder = {}
  /\ selected = {}
  /\ disp = [i \in Insts |-> Unset]
  /\ compact = << >>
  /\ instMap = [i \in Insts |-> Unset]

(* One more state per scoreboard, and a fresh cover. *)
Fill ==
  /\ pc = "fill"
  /\ k' = k + 1
  /\ boards' = [i \in Insts |-> Scoreboard(scores[i], k')]
  /\ remainder' = Insts
  /\ selected' = {}
  /\ disp' = [i \in Insts |-> Unset]
  /\ pc' = "elect"
  /\ UNCHANGED <<arguments, compact, instMap>>

OnBoard(i, s) == s \in Range(boards[i])

(* Mutant of Voters: instances that have been dispatched still vote. *)
VotersAll(s) == {i \in Insts : OnBoard(i, s)}

Voters(s) == {i \in remainder : OnBoard(i, s)}
Votes(s) == SumFunctionOnSet([i \in Insts |-> scores[i][s]], Voters(s))

(* The state with the most votes (any of them, on a tie) is elected and    *)
(* serves every waiting instance that has it on its scoreboard.            *)
Elect(s) ==
  /\ pc = "elect"
  /\ Voters(s) # {}
  /\ \A t \in States : Voters(t) # {} => Votes(t) <= Votes(s)
  /\ selected' = selected \cup {s}
  /\ disp' = [i \in Insts |->
                IF i \in remainder /\ OnBoard(i, s) THEN s ELSE disp[i]]
  /\ remainder' = {i \in remainder : ~ OnBoard(i, s)}
  /\ UNCHANGED <<arguments, pc, k, boards, compact, instMap>>

TooMany == Cardinality(selected) > max_num_states_

(* The cover is complete: accept it, or try longer scoreboards. *)
Check ==
  /\ pc = "elect" /\ remainder = {}
  /\ pc' = IF TooMany THEN "fill" ELSE "map"
  /\ UNCHANGED <<arguments, k, boards, remainder, selected, disp, compact, instMap>>

-----------------------------------------------------------------------------
(* Mutant of MapInst: the size is read after the state has been appended. *)
MapInstLate(i) ==
  /\ pc = "map" /\ instMap[i] = Unset
  /\ compact' = IF disp[i] \in Range(compact) THEN compact ELSE Append(compact, disp[i])
  /\ instMap' = [instMap EXCEPT ![i] =
        IF disp[i] \in Range(compact)
        THEN (CHOOSE p \in DOMAIN compact : compact[p] = disp[i]) - 1
        ELSE Len(compact')]
  /\ UNCHANGED <<arguments, pc, k, boards, remainder, selected, disp>>

(* MapWklInstsToStates visits the instances in hash-map order.             *)
MapInst(i) ==
  /\ pc = "map" /\ instMap[i] = Unset
  /\ compact' = IF disp[i] \in Range(compact) THEN compact ELSE Append(compact, disp[i])
  /\ instMap' = [instMap EXCEPT ![i] =
        IF disp[i] \in Range(compact)
        THEN (CHOOSE p \in DOMAIN compact : compact[p] = disp[i]) - 1
        ELSE Len(compact)]
  /\ UNCHANGED <<arguments, pc, k, boards, remainder, selected, disp>>

Return ==
  /\ pc = "map" /\ \A i \in Insts : instMap[i] # Unset
  /\ pc' = "done"
  /\ UNCHANGED <<arguments, k, boards, remainder, selected, disp, compact, instMap>>

Next ==
  \/ Fill
  \/ \E s \in States : Elect(s)
  \/ Check
  \/ \E i \in Insts : MapInst(i)
  \/ Return

Spec == Init /\ [][Next]_vars
FairSpec == Spec /\ WF_vars(Next)

-----------------------------------------------------------------------------
TypeOK ==
  /\ max_num_states_ \in Capacities
  /\ scores \in [Insts -> [States -> ScoreValues]]
  /\ pc \in {"fill", "elect", "map", "done"}
  /\ k \in Nat
  /\ boards \in [Insts -> Seq(States)]
  /\ remainder \subseteq Insts
  /\ selected \subseteq States
  /\ disp \in [Insts -> States \cup {Unset}]
  /\ compact \in Seq(States)
  /\ instMap \in [Insts -> (0 .. Len(compact) - 1) \cup {Unset}]

(* dispatch() keeps its promise to its callers: a total map into the       *)
(* candidates that uses at most max_num_states_ of them, and the best state*)
(* of every instance whenever those are few enough.                        *)
DispatchIsSound ==
  pc \in {"map", "done"} => disp \in DispatchOutcomes(scores, States, max_num_states_)

(* Renumbering keeps every instance on the state it was dispatched to, and *)
(* the compacted list holds each selected state once.                      *)
RenumberingFaithful ==
  pc = "done" =>
    /\ IsInjective(compact) /\ Range(compact) = selected
    /\ \A i \in Insts :
         instMap[i] + 1 \in DOMAIN compact /\ compact[instMap[i] + 1] = disp[i]

Termination == <>(pc = "done")

(* "pick its k most-preferred states": no state left off a scoreboard is   *)
(* better than one on it.                                                  *)
BoardsArePreferred ==
  pc = "elect" => \A i \in Insts : \A s \in Range(boards[i]) :
    \A t \in States \ Range(boards[i]) : scores[i][t] <= scores[i][s]
=============================================================================
