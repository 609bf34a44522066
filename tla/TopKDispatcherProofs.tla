------------------------- MODULE TopKDispatcherProofs -------------------------
(***************************************************************************)
(* The top-k dispatcher (TopKDispatcher): for any number of instances,     *)
(* states and slots, what dispatch() returns is a total map within the     *)
(* limit, and everybody's favourite if that is within it; and renumbering  *)
(* loses nothing.                                                          *)
(***************************************************************************)
EXTENDS TopKDispatcher, DispatchProofs

-----------------------------------------------------------------------------
(* The boards of length one.                                               *)

LEMMA Sizes ==
  /\ IsFiniteSet(Insts) /\ NumStates \in Nat /\ NumStates > 0 /\ States = 0 .. NumStates - 1
  /\ States \subseteq Nat /\ IsFiniteSet(States) /\ States # {}
  /\ Capacities \subseteq Nat /\ ScoreValues \subseteq Nat
<1>1. NumStates \in Nat /\ NumStates > 0
  BY DispatcherAssumption
<1>2. IsFiniteSet(States)
  BY <1>1, FS_Interval DEF States
<1> QED
  BY <1>1, <1>2, DispatcherAssumption DEF States

LEMMA RootOnly == \A row, s : SiftUp(row, <<s>>, 1) = <<s>>
<1> TAKE row, s
<1> DEFINE b == <<s>>
           EqS(stop) == stop = [y \in 1 .. 1 |->
               IF y > 1 /\ row[b[y \div 2]] > row[b[1]] THEN stop[y \div 2] ELSE y]
           stop == CHOOSE f : EqS(f)
           EqC(climbed) == climbed = [y \in 1 .. 1 |->
               IF y > stop[1] THEN {y} \cup climbed[y \div 2] ELSE {}]
           climbed == CHOOSE f : EqC(f)
<1>1. EqS([y \in 1 .. 1 |-> y])
  OBVIOUS
<1>2. EqS(stop)
  BY <1>1
<1>3. stop[1] = 1
  BY <1>2
<1> HIDE DEF stop
<1>4. EqC([y \in 1 .. 1 |-> {}])
  BY <1>3
<1>5. EqC(climbed)
  BY <1>4
<1>6. SiftUp(row, b, 1) = [y \in DOMAIN b |-> IF y = stop[1] THEN b[1]
                          ELSE IF y \in climbed[1] THEN b[y \div 2] ELSE b[y]]
  BY DEF SiftUp, stop
<1>7. DOMAIN b = 1 .. 1 /\ b[1] = s
  OBVIOUS
<1> HIDE DEF climbed
<1>8. SiftUp(row, b, 1) = [y \in 1 .. 1 |-> s]
  BY <1>3, <1>6, <1>7
<1> QED
  BY <1>8

LEMMA PopRoot == \A row, x : PopHeap(row, <<x>>) = << >>
<1> TAKE row, x
<1>1. Len(<<x>>) - 1 = 0
  OBVIOUS
<1> QED
  BY <1>1 DEF PopHeap

LEMMA OfferToOne ==
  /\ \A row, s : Offer(row, 1, << >>, s) = <<s>>
  /\ \A row, s, x : Offer(row, 1, <<x>>, s) = IF row[s] > row[x] THEN <<s>> ELSE <<x>>
<1>0. /\ \A s : Append(<< >>, s) = <<s>>
      /\ Len(<< >>) = 0 /\ \A x : Len(<<x>>) = 1 /\ <<x>>[1] = x
  OBVIOUS
<1>1. \A row, s : Offer(row, 1, << >>, s) = <<s>>
  BY <1>0 DEF Offer
<1>2. ASSUME NEW row, NEW s, NEW x
      PROVE  Offer(row, 1, <<x>>, s) = IF row[s] > row[x] THEN <<s>> ELSE <<x>>
  <2>1. Offer(row, 1, <<x>>, s) =
          IF row[s] > row[x]
          THEN SiftUp(row, Append(PopHeap(row, <<x>>), s), 1) ELSE <<x>>
    BY <1>0 DEF Offer
  <2>2. Append(PopHeap(row, <<x>>), s) = <<s>>
    BY <1>0, PopRoot
  <2> QED
    BY <2>1, <2>2, RootOnly
<1> QED
  BY <1>1, <1>2

(* A scoreboard of length one holds the instance's favourite: what         *)
(* dispatch() tries first.                                                 *)
LEMMA OneOnBoard ==
  ASSUME NEW row \in [States -> ScoreValues]
  PROVE  Scoreboard(row, 1) = <<Favourite(row)>>
<1>0. row \in [States -> Nat]
  BY Sizes
<1> DEFINE Upto(s) == [t \in 0 .. s |-> row[t]]
           First(s) == Favourite(Upto(s))
<1>1. \A s \in States : /\ Upto(s) \in [0 .. s -> Nat] /\ IsFiniteSet(0 .. s)
                         /\ 0 .. s \in SUBSET Nat /\ 0 .. s # {}
  <2> TAKE s \in States
  <2>1. s \in Nat /\ 0 .. s \subseteq States
    BY Sizes
  <2>2. IsFiniteSet(0 .. s)
    BY <2>1, FS_Interval
  <2>3. Upto(s) \in [0 .. s -> Nat]
    BY <1>0, <2>1
  <2> HIDE DEF Upto
  <2> QED
    BY <2>1, <2>2, <2>3
<1>2. \A s \in States : IsFavourite(First(s), Upto(s))
  <2> HIDE DEF Upto
  <2> QED
    BY <1>1, FavouriteExists
<1> HIDE DEF First
(* The next state displaces the best so far if it is better. *)
<1>3. ASSUME NEW s \in States, s > 0
      PROVE  s - 1 \in States /\ First(s) = IF row[s] > row[First(s - 1)] THEN s ELSE First(s - 1)
  <2> DEFINE x == First(s - 1)
             y == IF row[s] > row[x] THEN s ELSE x
  <2>1. s - 1 \in States /\ s \in Nat
    BY <1>3, Sizes
  <2>2. /\ x \in 0 .. s - 1
        /\ \A t \in 0 .. s - 1 : row[t] <= row[x] /\ (row[t] = row[x] => x <= t)
    BY <1>2, <2>1 DEF IsFavourite
  <2> HIDE DEF x
  <2>3. y \in 0 .. s
    BY <2>1, <2>2
  <2>4. \A t \in 0 .. s : row[t] \in Nat
    BY <1>0, Sizes
  <2>5. ASSUME NEW t \in 0 .. s PROVE row[t] <= row[y] /\ (row[t] = row[y] => y <= t)
    <3>1. t = s \/ t \in 0 .. s - 1
      BY <2>1
    <3>2. row[x] \in Nat /\ row[s] \in Nat /\ row[t] \in Nat /\ x \in 0 .. s - 1
      BY <2>1, <2>2, <2>4
    <3> QED
      BY <2>1, <2>2, <3>1, <3>2
  <2> HIDE DEF y
  <2>6. IsFavourite(y, Upto(s))
    BY <2>3, <2>5 DEF IsFavourite
  <2>7. First(s) = y
    <3> HIDE DEF Upto
    <3> QED
      BY <1>1, <1>2, <2>6, FavouriteUnique
  <2> QED
    BY <2>1, <2>7 DEF x, y
<1>4. First(0) = 0
  <2>1. 0 \in States
    BY Sizes
  <2>2. First(0) \in 0 .. 0
    BY <1>2, <2>1 DEF IsFavourite
  <2> QED
    BY <2>2
<1>5. First(NumStates - 1) = Favourite(row)
  <2>1. Upto(NumStates - 1) = row
    BY <1>0, Sizes
  <2> QED
    BY <2>1 DEF First
<1> HIDE DEF Upto
<1> DEFINE Eq(f) == f = [s \in -1 .. NumStates - 1 |->
             IF s = -1 THEN << >> ELSE LET sofar == f[s - 1] IN Offer(row, 1, sofar, s)]
           board == CHOOSE f : Eq(f)
           g == [s \in -1 .. NumStates - 1 |-> IF s = -1 THEN << >> ELSE <<First(s)>>]
<1>6. ASSUME NEW s \in States
      PROVE  <<First(s)>> = Offer(row, 1, IF s = 0 THEN << >> ELSE <<First(s - 1)>>, s)
  <2>1. s \in Nat
    BY Sizes
  <2>2. CASE s = 0
    BY <1>4, <2>2, OfferToOne
  <2>3. CASE s # 0
    <3>1. Offer(row, 1, <<First(s - 1)>>, s)
            = IF row[s] > row[First(s - 1)] THEN <<s>> ELSE <<First(s - 1)>>
      BY OfferToOne
    <3>2. First(s) = IF row[s] > row[First(s - 1)] THEN s ELSE First(s - 1)
      BY <1>3, <2>1, <2>3
    <3> QED
      BY <2>3, <3>1, <3>2
  <2> QED
    BY <2>2, <2>3
<1>7. Eq(g)
  <2>1. ASSUME NEW s \in -1 .. NumStates - 1, s # -1 PROVE g[s] = Offer(row, 1, g[s - 1], s)
    <3>1. s \in States /\ s - 1 \in -1 .. NumStates - 1
      BY <2>1, Sizes
    <3>2. g[s] = <<First(s)>> /\ g[s - 1] = IF s = 0 THEN << >> ELSE <<First(s - 1)>>
      BY <2>1, <3>1, Sizes
    <3> QED
      BY <1>6, <3>1, <3>2
  <2>2. g[-1] = << >>
    BY Sizes
  <2> QED
    BY <2>1, <2>2
<1>8. Eq(board)
  <2> HIDE DEF Eq, g
  <2> QED
    BY <1>7
<1>9. Scoreboard(row, 1) = board[NumStates - 1]
  BY DEF Scoreboard
<1> HIDE DEF board
<1>10. ASSUME NEW s \in States, IF s = 0 THEN board[s - 1] = << >> ELSE board[s - 1] = <<First(s - 1)>>
       PROVE  board[s] = <<First(s)>>
  <2>1. s \in -1 .. NumStates - 1 /\ s # -1
    BY Sizes
  <2>2. board[s] = Offer(row, 1, board[s - 1], s)
    BY <1>8, <2>1
  <2> QED
    BY <1>6, <1>10, <2>2
<1> DEFINE P == {s \in Nat : board[s] = <<First(s)>>}
<1>11. 0 \in P
  <2>1. board[-1] = << >>
    BY <1>8, Sizes
  <2>2. 0 \in States /\ 0 - 1 = -1
    BY Sizes
  <2> QED
    BY <1>10, <2>1, <2>2
<1>12. ASSUME NEW s \in 0 .. (NumStates - 1) - 1, s \in P PROVE s + 1 \in P
  <2>1. s + 1 \in States /\ (s + 1) - 1 = s /\ s + 1 # 0 /\ s + 1 \in Nat
    BY Sizes
  <2>2. board[(s + 1) - 1] = <<First((s + 1) - 1)>>
    BY <1>12, <2>1
  <2> QED
    BY <1>10, <2>1, <2>2
<1>13. NumStates - 1 \in P
  <2> HIDE DEF P
  <2>1. NumStates - 1 \in Nat /\ NumStates - 1 \in 0 .. NumStates - 1
    BY Sizes
  <2> QED
    BY <1>11, <1>12, <2>1, IntervalInduction
<1> QED
  BY <1>5, <1>9, <1>13

-----------------------------------------------------------------------------
Best == Favourites(scores)
BestFits == Cardinality(Selected(Best)) <= max_num_states_

(* What everything else is about: types, without those of the boards.      *)
Arguments ==
  /\ max_num_states_ \in Capacities
  /\ scores \in [Insts -> [States -> ScoreValues]]
  /\ pc \in {"fill", "elect", "map", "done"}
  /\ k \in Nat /\ remainder \subseteq Insts
  /\ selected \subseteq States
  /\ disp \in [Insts -> States \cup {Unset}]

(* The cover: who was served is on an elected state, and every elected     *)
(* state serves somebody.                                                  *)
Cover ==
  pc # "fill" =>
    /\ \A i \in Insts \ remainder : disp[i] \in selected
    /\ \A s \in selected : \E i \in Insts \ remainder : disp[i] = s

(* The first cover is by favourites; there is another only if they are     *)
(* too many.                                                               *)
Tries ==
  /\ pc = "fill" => k = 0 \/ ~ BestFits
  /\ pc = "elect" =>
       \/ k = 1 /\ \A i \in Insts : /\ boards[i] = <<Best[i]>>
                                    /\ i \notin remainder => disp[i] = Best[i]
       \/ ~ BestFits

Accepted ==
  pc \in {"map", "done"} =>
    /\ remainder = {} /\ Cardinality(selected) <= max_num_states_
    /\ disp = Best \/ ~ BestFits

Mapped == {i \in Insts : instMap[i] # Unset}
Compacted ==
  /\ compact \in Seq(States) /\ instMap \in [Insts -> (0 .. Len(compact) - 1) \cup {Unset}]
  /\ IsInjective(compact) /\ Range(compact) = {disp[i] : i \in Mapped}
  /\ \A i \in Mapped : compact[instMap[i] + 1] = disp[i]
  /\ pc \in {"fill", "elect"} => Mapped = {}
  /\ pc = "done" => Mapped = Insts

DispatcherInv == Arguments /\ Cover /\ Tries /\ Accepted /\ Compacted

LEMMA BestTyped ==
  ASSUME Arguments
  PROVE  /\ \A i \in Insts : /\ Best[i] = Favourite(scores[i]) /\ Best[i] \in States
                            /\ Scoreboard(scores[i], 1) = <<Best[i]>>
         /\ DOMAIN Best = Insts /\ Best \in [Insts -> States]
<1>1. DOMAIN Best = Insts /\ \A i \in Insts : Best[i] = Favourite(scores[i])
  BY DEF Arguments, Best, Favourites
<1>2. ASSUME NEW i \in Insts PROVE Best[i] \in States /\ Scoreboard(scores[i], 1) = <<Best[i]>>
  <2>1. scores[i] \in [States -> ScoreValues] /\ scores[i] \in [States -> Nat]
    BY Sizes DEF Arguments
  <2>2. IsFavourite(Favourite(scores[i]), scores[i])
    BY <2>1, Sizes, FavouriteExists
  <2>3. Favourite(scores[i]) \in States
    BY <2>1, <2>2 DEF IsFavourite
  <2> QED
    BY <1>1, <2>1, <2>3, OneOnBoard
<1>3. Best \in [Insts -> States]
  BY <1>1, <1>2 DEF Best, Favourites, Arguments
<1> QED
  BY <1>1, <1>2, <1>3

LEMMA DispatcherInit == Init => DispatcherInv
<1> SUFFICES ASSUME Init PROVE DispatcherInv
  OBVIOUS
<1>1. Arguments /\ Cover
  BY Sizes DEF Init, Arguments, Cover, Unset
<1>2. Tries /\ Accepted
  BY DEF Init, Tries, Accepted
<1>3. Compacted
  BY DEF Init, Compacted, Mapped, Unset, IsInjective, Range
<1> QED
  BY <1>1, <1>2, <1>3 DEF DispatcherInv

LEMMA FillKeeps == ASSUME DispatcherInv, Fill PROVE DispatcherInv'
<1> USE DEF DispatcherInv
<1>1. Arguments'
  BY DEF Fill, Arguments, arguments, Unset
<1>2. Cover'
  BY DEF Fill, Cover
<1>3. Tries'
  <2>1. UNCHANGED <<Best, BestFits>>
    BY DEF Fill, arguments, Best, BestFits
  <2>2. CASE k = 0
    <3>1. k' = 1 /\ remainder' = Insts /\ boards' = [i \in Insts |-> Scoreboard(scores[i], 1)]
          /\ pc' = "elect"
      BY <2>2 DEF Fill
    <3>2. \A i \in Insts : boards'[i] = <<Best[i]>>
      BY <3>1, BestTyped
    <3> QED
      BY <2>1, <3>1, <3>2 DEF Tries
  <2>3. CASE ~ BestFits
    BY <2>1, <2>3 DEF Tries, Fill
  <2> QED
    BY <2>2, <2>3 DEF Tries, Fill
<1>4. Accepted' /\ Compacted'
  <2>1. Mapped = {} /\ Mapped' = {}
    BY DEF Fill, Compacted, Mapped
  <2> QED
    BY <2>1 DEF Fill, Accepted, Compacted
<1> QED
  BY <1>1, <1>2, <1>3, <1>4

LEMMA ElectKeeps == ASSUME DispatcherInv, NEW s \in States, Elect(s) PROVE DispatcherInv'
<1> USE DEF DispatcherInv
<1>0. /\ pc = "elect" /\ pc' = "elect" /\ selected' = selected \cup {s}
      /\ remainder' = {i \in remainder : ~ OnBoard(i, s)}
      /\ disp' = [i \in Insts |-> IF i \in remainder /\ OnBoard(i, s) THEN s ELSE disp[i]]
      /\ UNCHANGED <<max_num_states_, scores, k, boards, compact, instMap>>
      /\ \E i \in remainder : OnBoard(i, s)
  BY DEF Elect, Voters, arguments
<1>1. Arguments'
  BY <1>0 DEF Arguments
<1>2. Cover'
  BY <1>0 DEF Cover, Arguments
<1>3. Tries'
  <2>1. UNCHANGED <<Best, BestFits>>
    BY <1>0 DEF Best, BestFits
  <2>2. ASSUME k = 1, NEW i \in Insts, boards[i] = <<Best[i]>>, i \notin remainder => disp[i] = Best[i],
               i \notin remainder'
        PROVE  disp'[i] = Best[i]
    <3>1. OnBoard(i, s) => s = Best[i]
      BY <2>2 DEF OnBoard, Range
    <3> QED
      BY <1>0, <2>2, <3>1
  <2> QED
    BY <1>0, <2>1, <2>2 DEF Tries
<1>4. Accepted' /\ Compacted'
  <2>1. Mapped = {} /\ Mapped' = {}
    BY <1>0 DEF Compacted, Mapped
  <2> QED
    BY <1>0, <2>1 DEF Accepted, Compacted
<1> QED
  BY <1>1, <1>2, <1>3, <1>4

LEMMA CheckKeeps == ASSUME DispatcherInv, Check PROVE DispatcherInv'
<1> USE DEF DispatcherInv
<1>0. /\ pc = "elect" /\ remainder = {} /\ pc' = IF TooMany THEN "fill" ELSE "map"
      /\ UNCHANGED <<max_num_states_, scores, k, boards, remainder, selected, disp, compact, instMap>>
  BY DEF Check, arguments
<1>1. Arguments' /\ Cover'
  BY <1>0 DEF Arguments, Cover
<1>2. UNCHANGED <<Best, BestFits, Mapped>>
  BY <1>0 DEF Best, BestFits, Mapped
<1>3. \A i \in Insts : disp[i] \in selected
  BY <1>0 DEF Cover
<1>4. selected = Selected(disp)
  BY <1>0, <1>3 DEF Cover, Selected, Arguments
<1>5. ASSUME k = 1, \A i \in Insts : i \notin remainder => disp[i] = Best[i] PROVE disp = Best
  BY <1>0, <1>5, BestTyped DEF Arguments
<1>6. Cardinality(selected) \in Nat /\ max_num_states_ \in Nat
  BY <1>4, Sizes, SelectedFew DEF Arguments
<1>7. CASE TooMany
  <2>1. ~ BestFits
    BY <1>0, <1>4, <1>5, <1>6, <1>7 DEF Tries, BestFits, TooMany
  <2>2. pc' = "fill"
    BY <1>0, <1>7
  <2> QED
    BY <1>0, <1>1, <1>2, <2>1, <2>2 DEF Tries, Accepted, Compacted
<1>8. CASE ~ TooMany
  <2>1. disp = Best \/ ~ BestFits
    BY <1>0, <1>5 DEF Tries
  <2>2. pc' = "map"
    BY <1>0, <1>8
  <2>3. Cardinality(selected) <= max_num_states_
    BY <1>6, <1>8 DEF TooMany
  <2> QED
    BY <1>0, <1>1, <1>2, <2>1, <2>2, <2>3 DEF Tries, Accepted, Compacted
<1> QED
  BY <1>7, <1>8

LEMMA MapKeeps == ASSUME DispatcherInv, NEW i \in Insts, MapInst(i) PROVE DispatcherInv'
<1> USE DEF DispatcherInv
<1>0. /\ pc = "map" /\ pc' = "map" /\ instMap[i] = Unset
      /\ UNCHANGED <<max_num_states_, scores, k, boards, remainder, selected, disp>>
  BY DEF MapInst, arguments
<1>1. Arguments' /\ Cover'
  BY <1>0 DEF Arguments, Cover
<1>2. UNCHANGED <<Best, BestFits>>
  BY <1>0 DEF Best, BestFits
<1>3. Tries' /\ Accepted'
  BY <1>0, <1>2 DEF Tries, Accepted
<1>4. disp[i] \in States
  BY <1>0 DEF Accepted, Cover, Arguments
<1>5. /\ compact \in Seq(States) /\ Len(compact) \in Nat /\ DOMAIN compact = 1 .. Len(compact)
      /\ instMap \in [Insts -> (0 .. Len(compact) - 1) \cup {Unset}]
  BY DEF Compacted
(* The state is in the list already. *)
<1>6. CASE disp[i] \in Range(compact)
  <2> DEFINE p == CHOOSE p \in DOMAIN compact : compact[p] = disp[i]
  <2>1. p \in DOMAIN compact /\ compact[p] = disp[i]
    BY <1>6 DEF Range
  <2>2. compact' = compact /\ instMap' = [instMap EXCEPT ![i] = p - 1]
    BY <1>6 DEF MapInst
  <2> HIDE DEF p
  <2>3. p - 1 \in 0 .. Len(compact) - 1 /\ p - 1 # Unset /\ (p - 1) + 1 = p
    BY <1>5, <2>1 DEF Unset
  <2>4. instMap' \in [Insts -> (0 .. Len(compact) - 1) \cup {Unset}]
    BY <1>5, <2>2, <2>3
  <2>5. Mapped' = Mapped \cup {i}
    BY <1>5, <2>2, <2>3 DEF Mapped
  <2>6. \A j \in Mapped' : compact[instMap'[j] + 1] = disp[j]
    BY <1>5, <2>1, <2>2, <2>3, <2>5 DEF Compacted, Mapped
  <2>7. {disp[j] : j \in Mapped'} = Range(compact)
    BY <1>6, <2>5 DEF Compacted
  <2>8. compact \in Seq(States) /\ IsInjective(compact)
    BY DEF Compacted
  <2>9. Compacted'
    <3>1. compact' = compact /\ disp' = disp /\ pc' = "map"
      BY <1>0, <2>2
    <3>2. compact' \in Seq(States) /\ IsInjective(compact)'
      BY <2>8, <3>1
    <3>3. instMap' \in [Insts -> (0 .. Len(compact') - 1) \cup {Unset}]
      BY <2>4, <3>1
    <3>4. Range(compact)' = {disp'[j] : j \in Mapped'}
      BY <2>7, <3>1
    <3>5. \A j \in Mapped' : compact'[instMap'[j] + 1] = disp'[j]
      BY <2>6, <3>1
    <3> QED
      BY <3>1, <3>2, <3>3, <3>4, <3>5 DEF Compacted
  <2> QED
    BY <1>1, <1>3, <2>9
(* The state is appended. *)
<1>7. CASE disp[i] \notin Range(compact)
  <2> DEFINE n == Len(compact)
  <2>1. compact' = Append(compact, disp[i]) /\ instMap' = [instMap EXCEPT ![i] = n]
    BY <1>7 DEF MapInst
  <2>2. /\ compact' \in Seq(States) /\ Len(compact') = n + 1 /\ compact'[n + 1] = disp[i]
        /\ DOMAIN compact' = DOMAIN compact \cup {n + 1} /\ n + 1 \notin DOMAIN compact
        /\ \A p \in DOMAIN compact : compact'[p] = compact[p]
    BY <1>4, <1>5, <2>1
  <2>3. n \in Nat /\ n # Unset /\ n \in 0 .. (n + 1) - 1 /\ 0 .. n - 1 \subseteq 0 .. (n + 1) - 1
    BY <1>5 DEF Unset
  <2>4. instMap' \in [Insts -> (0 .. Len(compact') - 1) \cup {Unset}]
    BY <1>5, <2>1, <2>2, <2>3
  <2>5. Mapped' = Mapped \cup {i}
    BY <1>5, <2>1, <2>3 DEF Mapped
  <2>6. \A j \in Mapped \ {i} : instMap'[j] = instMap[j] /\ instMap[j] + 1 \in DOMAIN compact
    BY <1>5, <2>1 DEF Mapped
  <2>7. \A j \in Mapped' : compact'[instMap'[j] + 1] = disp[j]
    <3> TAKE j \in Mapped'
    <3>1. CASE j = i
      BY <1>5, <2>1, <2>2, <3>1
    <3>2. CASE j # i
      BY <2>2, <2>5, <2>6, <3>2 DEF Compacted
    <3> QED
      BY <3>1, <3>2
  <2>8. Range(compact') = Range(compact) \cup {disp[i]}
    BY <2>2 DEF Range
  <2>9. IsInjective(compact')
    BY <1>7, <2>2 DEF Compacted, IsInjective, Range
  <2>10. {disp[j] : j \in Mapped'} = Range(compact')
    BY <2>5, <2>8 DEF Compacted
  <2> HIDE DEF n
  <2>11. Compacted'
    <3>1. disp' = disp /\ pc' = "map"
      BY <1>0
    <3>2. \A j \in Mapped' : compact'[instMap'[j] + 1] = disp'[j]
      BY <2>7, <3>1
    <3>3. Range(compact)' = {disp'[j] : j \in Mapped'}
      BY <2>10, <3>1
    <3> QED
      BY <2>2, <2>4, <2>9, <3>1, <3>2, <3>3 DEF Compacted
  <2> QED
    BY <1>1, <1>3, <2>11
<1> QED
  BY <1>6, <1>7

LEMMA ReturnKeeps == ASSUME DispatcherInv, Return \/ UNCHANGED vars PROVE DispatcherInv'
<1> USE DEF DispatcherInv
<1>0. /\ UNCHANGED <<max_num_states_, scores, k, boards, remainder, selected, disp, compact, instMap>>
      /\ pc' = pc \/ (pc = "map" /\ pc' = "done" /\ \A i \in Insts : instMap[i] # Unset)
  BY DEF Return, vars, arguments
<1>1. UNCHANGED <<Best, BestFits, Mapped>>
  BY <1>0 DEF Best, BestFits, Mapped
<1>2. Arguments' /\ Cover' /\ Tries' /\ Accepted'
  BY <1>0, <1>1 DEF Arguments, Cover, Tries, Accepted
<1>3. Compacted'
  BY <1>0, <1>1 DEF Compacted, Mapped
<1> QED
  BY <1>2, <1>3

LEMMA DispatcherInvariant == Spec => []DispatcherInv
<1>1. DispatcherInv /\ [Next]_vars => DispatcherInv'
  BY FillKeeps, ElectKeeps, CheckKeeps, MapKeeps, ReturnKeeps DEF Next
<1> QED
  BY <1>1, DispatcherInit, PTL DEF Spec

LEMMA InvSound == DispatcherInv => DispatchIsSound
<1> SUFFICES ASSUME DispatcherInv, pc \in {"map", "done"}
             PROVE  disp \in DispatchOutcomes(scores, States, max_num_states_)
  BY DEF DispatchIsSound
<1>1. /\ remainder = {} /\ Cardinality(selected) <= max_num_states_
      /\ (disp = Best \/ ~ BestFits) /\ Arguments
  BY DEF DispatcherInv, Accepted
<1>2. selected = Selected(disp) /\ disp \in [Insts -> States]
  BY <1>1 DEF DispatcherInv, Cover, Arguments, Selected
<1>3. DOMAIN scores = Insts
  BY <1>1 DEF DispatcherInv, Arguments
<1> QED
  BY <1>1, <1>2, <1>3 DEF DispatchOutcomes, Best, BestFits

LEMMA InvFaithful == DispatcherInv => RenumberingFaithful
<1> SUFFICES ASSUME DispatcherInv, pc = "done"
             PROVE  /\ IsInjective(compact) /\ Range(compact) = selected
                    /\ \A i \in Insts : /\ instMap[i] + 1 \in DOMAIN compact
                                        /\ compact[instMap[i] + 1] = disp[i]
  BY DEF RenumberingFaithful
<1>1. remainder = {} /\ Mapped = Insts
  BY DEF DispatcherInv, Accepted, Compacted
<1>2. {disp[i] : i \in Insts} = selected
  BY <1>1 DEF DispatcherInv, Cover
<1>3. \A i \in Insts : instMap[i] + 1 \in DOMAIN compact
  BY <1>1 DEF DispatcherInv, Compacted, Mapped
<1> QED
  BY <1>1, <1>2, <1>3 DEF DispatcherInv, Compacted

-----------------------------------------------------------------------------
(* dispatch() returns a total map into the candidates within               *)
(* max_num_states_, and the favourites whenever these fit.                 *)
THEOREM TopKDispatchIsSound == Spec => []DispatchIsSound
BY DispatcherInvariant, InvSound, PTL

(* MapWklInstsToStates, in whatever order the hash map is iterated, loses  *)
(* no state, lists none twice, and leaves every instance on its state.     *)
THEOREM TopKRenumberingFaithful == Spec => []RenumberingFaithful
BY DispatcherInvariant, InvFaithful, PTL
=============================================================================
