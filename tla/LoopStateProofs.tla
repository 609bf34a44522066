--------------------------- MODULE LoopStateProofs ---------------------------
(***************************************************************************)
(* Proofs about LoopState, for every bound on stages and iterators.  Until *)
(* a nest is replaced with stages attached to it, the two maps of an       *)
(* AttachMap stay inverse and every attach point exists; the kinds of the  *)
(* stages agree with the map whatever is replaced.                         *)
(***************************************************************************)
EXTENDS LoopState, TLAPS

(* What the steps on the maps need to know of them. *)
MapTypes ==
  /\ DOMAIN stageToIter \subseteq Nat
  /\ \A s \in DOMAIN stageToIter : stageToIter[s] \in Nat \X Nat
  /\ DOMAIN iterToStages \subseteq Nat \X Nat

(* DeleteStage removes one stage and keeps the maps inverse. *)
LEMMA DeleteStageAgrees ==
  ASSUME NEW s \in Nat, MapTypes, MapsInverse, DeleteStage(s)
  PROVE  /\ MapTypes' /\ MapsInverse'
         /\ DOMAIN stageToIter' = DOMAIN stageToIter \ {s}
         /\ \A x \in DOMAIN stageToIter' : stageToIter'[x] = stageToIter[x]
         /\ DOMAIN iterToStages' \subseteq DOMAIN iterToStages
<1>1. /\ DOMAIN stageToIter' = DOMAIN stageToIter \ {s}
      /\ \A x \in DOMAIN stageToIter' : stageToIter'[x] = stageToIter[x]
  BY DEF DeleteStage, Without, Restrict
<1>2. CASE s \notin DOMAIN stageToIter
  <2>1. iterToStages' = iterToStages
    BY <1>2 DEF DeleteStage, EntryWithout
  <2> QED BY <1>1, <1>2, <2>1 DEF MapTypes, MapsInverse, Attached
<1>3. CASE s \in DOMAIN stageToIter
  <2> DEFINE k == stageToIter[s]
  <2>1. k \in DOMAIN iterToStages /\ s \in iterToStages[k]
    BY <1>3 DEF MapsInverse, Attached
  <2>2. CASE iterToStages[k] = {s}
    <3>1. /\ DOMAIN iterToStages' = DOMAIN iterToStages \ {k}
          /\ \A x \in DOMAIN iterToStages' : iterToStages'[x] = iterToStages[x]
      BY <1>3, <2>2 DEF DeleteStage, EntryWithout, Without, Restrict
    <3>2. \A x \in DOMAIN stageToIter' : stageToIter[x] # k
      BY <1>1, <2>2 DEF MapsInverse, Attached
    <3> QED BY <1>1, <2>2, <3>1, <3>2 DEF MapTypes, MapsInverse, Attached
  <2>3. CASE iterToStages[k] # {s}
    <3>1. /\ DOMAIN iterToStages' = DOMAIN iterToStages
          /\ \A x \in DOMAIN iterToStages' :
               iterToStages'[x] = IF x = k THEN iterToStages[x] \ {s} ELSE iterToStages[x]
      BY <1>3, <2>1, <2>3 DEF DeleteStage, EntryWithout
    <3>2. iterToStages[k] \ {s} # {}
      BY <2>1, <2>3
    <3> QED BY <1>1, <3>1, <3>2 DEF MapTypes, MapsInverse, Attached
  <2> QED BY <2>2, <2>3
<1> QED BY <1>2, <1>3

(* SetComputeAtIter moves one stage and keeps the maps inverse. *)
LEMMA SetComputeAtIterAgrees ==
  ASSUME NEW s \in Nat, NEW k \in Nat \X Nat, MapTypes, MapsInverse, SetComputeAtIter(s, k)
  PROVE  /\ MapTypes' /\ MapsInverse'
         /\ DOMAIN stageToIter' = DOMAIN stageToIter \cup {s}
         /\ \A x \in DOMAIN stageToIter' :
              stageToIter'[x] = IF x = s THEN k ELSE stageToIter[x]
<1> DEFINE rest == EntryWithout(s)
<1>1. /\ DOMAIN stageToIter' = DOMAIN stageToIter \cup {s}
      /\ \A x \in DOMAIN stageToIter' :
           stageToIter'[x] = IF x = s THEN k ELSE stageToIter[x]
  BY DEF SetComputeAtIter
<1>2. /\ DOMAIN rest \subseteq DOMAIN iterToStages
      /\ \A x \in DOMAIN rest : rest[x] = iterToStages[x] \ {s} /\ rest[x] # {}
      /\ \A x \in DOMAIN iterToStages :
           (\E y \in iterToStages[x] : y # s) => x \in DOMAIN rest
  <2>1. CASE s \notin DOMAIN stageToIter
    BY <2>1 DEF EntryWithout, MapsInverse
  <2>2. CASE s \in DOMAIN stageToIter
    <3>1. CASE iterToStages[stageToIter[s]] = {s}
      BY <2>2, <3>1 DEF EntryWithout, MapsInverse, Attached, Without, Restrict
    <3>2. CASE iterToStages[stageToIter[s]] # {s}
      BY <2>2, <3>2 DEF EntryWithout, MapsInverse, Attached
    <3> QED BY <3>1, <3>2
  <2> QED BY <2>1, <2>2
<1>3. /\ DOMAIN iterToStages' = DOMAIN rest \cup {k}
      /\ \A x \in DOMAIN iterToStages' :
           iterToStages'[x] = IF x # k THEN rest[x]
                              ELSE (IF k \in DOMAIN rest THEN rest[k] ELSE {}) \cup {s}
  BY DEF SetComputeAtIter
<1> HIDE DEF rest
<1>4. MapTypes'
  BY <1>1, <1>2, <1>3 DEF MapTypes
<1>5. \A x \in DOMAIN stageToIter' :
        stageToIter'[x] \in DOMAIN iterToStages' /\ x \in iterToStages'[stageToIter'[x]]
  <2> SUFFICES ASSUME NEW x \in DOMAIN stageToIter'
               PROVE  stageToIter'[x] \in DOMAIN iterToStages'
                      /\ x \in iterToStages'[stageToIter'[x]]
    OBVIOUS
  <2>1. CASE x = s
    BY <1>1, <1>3, <2>1
  <2>2. CASE x # s
    <3>1. /\ stageToIter'[x] = stageToIter[x]
          /\ stageToIter[x] \in DOMAIN iterToStages /\ x \in iterToStages[stageToIter[x]]
      BY <1>1, <2>2 DEF MapsInverse, Attached
    <3>2. stageToIter[x] \in DOMAIN rest /\ x \in rest[stageToIter[x]]
      BY <1>2, <2>2, <3>1
    <3> QED BY <1>3, <3>1, <3>2
  <2> QED BY <2>1, <2>2
<1>6. \A x \in DOMAIN iterToStages' :
        /\ iterToStages'[x] # {}
        /\ \A y \in iterToStages'[x] : y \in DOMAIN stageToIter' /\ stageToIter'[y] = x
  BY <1>1, <1>2, <1>3 DEF MapsInverse
<1> QED BY <1>1, <1>4, <1>5, <1>6 DEF MapsInverse, Attached

(* UpdateIters renames iterators of one stage: the maps stay inverse when  *)
(* no two iterators with entries, renamed or not, end under one key.       *)
LEMMA UpdateItersAgrees ==
  ASSUME NEW t \in Nat, NEW to, DOMAIN to \subseteq Nat, \A i \in DOMAIN to : to[i] \in Nat,
         MapTypes, MapsInverse, UpdateIters(t, to),
         \A i, j \in DOMAIN to :
           Attached(<<t, i>>) /\ Attached(<<t, j>>) /\ to[i] = to[j] => i = j,
         \A i \in DOMAIN to, j \in Nat \ DOMAIN to :
           Attached(<<t, i>>) /\ Attached(<<t, j>>) => to[i] # j
  PROVE  /\ MapTypes' /\ MapsInverse'
         /\ DOMAIN stageToIter' = DOMAIN stageToIter
         /\ \A s \in DOMAIN stageToIter : \A i \in DOMAIN to :
              stageToIter[s] = <<t, i>> => stageToIter'[s] = <<t, to[i]>>
         /\ \A s \in DOMAIN stageToIter :
              (\A i \in DOMAIN to : stageToIter[s] # <<t, i>>) =>
                stageToIter'[s] = stageToIter[s]
<1> DEFINE hit == {i \in DOMAIN to : Attached(<<t, i>>)}
           from(k) == CHOOSE i \in hit :
                        /\ <<t, to[i]>> = k
                        /\ \A j \in hit : <<t, to[j]>> = k => j <= i
           new == {<<t, to[i]>> : i \in hit}
           moves(s) == {i \in hit : s \in iterToStages[<<t, i>>]}
           gone == {<<t, i>> : i \in hit}
<1>1. /\ DOMAIN stageToIter' = DOMAIN stageToIter
      /\ \A s \in DOMAIN stageToIter :
           stageToIter'[s] = IF moves(s) = {} THEN stageToIter[s]
                             ELSE <<t, to[CHOOSE i \in moves(s) : TRUE]>>
      /\ DOMAIN iterToStages' = (DOMAIN iterToStages \ gone) \cup new
      /\ \A k \in DOMAIN iterToStages' :
           iterToStages'[k] = IF k \in new THEN iterToStages[<<t, from(k)>>] ELSE iterToStages[k]
  BY DEF UpdateIters
<1>2. \A i \in hit : from(<<t, to[i]>>) = i
  <2> SUFFICES ASSUME NEW i \in hit PROVE from(<<t, to[i]>>) = i
    OBVIOUS
  <2>1. \A j \in hit : <<t, to[j]>> = <<t, to[i]>> => j = i
    OBVIOUS
  <2>2. i <= i
    OBVIOUS
  <2> QED BY <2>1, <2>2
<1>3. \A s \in DOMAIN stageToIter : \A i \in DOMAIN to :
        stageToIter[s] = <<t, i>> => i \in hit /\ moves(s) = {i}
  BY DEF MapsInverse, Attached
<1>4. \A s \in DOMAIN stageToIter :
        (\A i \in DOMAIN to : stageToIter[s] # <<t, i>>) => moves(s) = {}
  BY DEF MapsInverse, Attached
<1>5. \A s \in DOMAIN stageToIter : \A i \in DOMAIN to :
        stageToIter[s] = <<t, i>> => stageToIter'[s] = <<t, to[i]>>
  <2> SUFFICES ASSUME NEW s \in DOMAIN stageToIter, NEW i \in DOMAIN to,
                      stageToIter[s] = <<t, i>>
               PROVE  stageToIter'[s] = <<t, to[i]>>
    OBVIOUS
  <2>1. moves(s) = {i}
    BY <1>3
  <2> HIDE DEF moves
  <2>2. (CHOOSE x \in moves(s) : TRUE) = i
    BY <2>1
  <2> QED BY <1>1, <2>1, <2>2
<1>6. \A s \in DOMAIN stageToIter :
        (\A i \in DOMAIN to : stageToIter[s] # <<t, i>>) =>
          stageToIter'[s] = stageToIter[s]
  BY <1>1, <1>4
<1>7. \A i \in hit : /\ <<t, to[i]>> \in DOMAIN iterToStages'
                     /\ iterToStages'[<<t, to[i]>>] = iterToStages[<<t, i>>]
  <2> SUFFICES ASSUME NEW i \in hit
               PROVE  /\ <<t, to[i]>> \in DOMAIN iterToStages'
                      /\ iterToStages'[<<t, to[i]>>] = iterToStages[<<t, i>>]
    OBVIOUS
  <2>1. <<t, to[i]>> \in new /\ from(<<t, to[i]>>) = i
    BY <1>2
  <2> HIDE DEF from, new
  <2>2. <<t, to[i]>> \in DOMAIN iterToStages'
    BY <1>1, <2>1
  <2> QED BY <1>1, <2>1, <2>2
<1>8. \A k \in DOMAIN iterToStages \ gone :
        k \in DOMAIN iterToStages' /\ k \notin new /\ iterToStages'[k] = iterToStages[k]
  <2> SUFFICES ASSUME NEW k \in DOMAIN iterToStages \ gone PROVE k \notin new
    BY <1>1
  <2> SUFFICES ASSUME NEW i \in hit, k = <<t, to[i]>> PROVE FALSE
    OBVIOUS
  <2>1. to[i] \in Nat \ DOMAIN to /\ Attached(<<t, to[i]>>)
    BY DEF Attached
  <2> QED BY <2>1
<1> HIDE DEF from, moves
<1>9. MapTypes'
  <2>1. \A s \in DOMAIN stageToIter : stageToIter'[s] \in Nat \X Nat
    BY <1>5, <1>6 DEF MapTypes
  <2>2. \A i \in hit : <<t, to[i]>> \in Nat \X Nat
    OBVIOUS
  <2>3. DOMAIN iterToStages' \subseteq DOMAIN iterToStages \cup new
    BY <1>1
  <2>4. DOMAIN iterToStages' \subseteq Nat \X Nat
    BY <2>2, <2>3 DEF MapTypes
  <2> QED BY <1>1, <2>1, <2>4 DEF MapTypes
<1>10. \A s \in DOMAIN stageToIter' :
         stageToIter'[s] \in DOMAIN iterToStages' /\ s \in iterToStages'[stageToIter'[s]]
  <2> SUFFICES ASSUME NEW s \in DOMAIN stageToIter
               PROVE  stageToIter'[s] \in DOMAIN iterToStages'
                      /\ s \in iterToStages'[stageToIter'[s]]
    BY <1>1
  <2>1. stageToIter[s] \in DOMAIN iterToStages /\ s \in iterToStages[stageToIter[s]]
    BY DEF MapsInverse, Attached
  <2>2. CASE \E i \in DOMAIN to : stageToIter[s] = <<t, i>>
    BY <1>3, <1>5, <1>7, <2>1, <2>2
  <2>3. CASE \A i \in DOMAIN to : stageToIter[s] # <<t, i>>
    BY <1>6, <1>8, <2>1, <2>3
  <2> QED BY <2>2, <2>3
<1>11. \A k \in DOMAIN iterToStages' :
         /\ iterToStages'[k] # {}
         /\ \A s \in iterToStages'[k] : s \in DOMAIN stageToIter' /\ stageToIter'[s] = k
  <2> SUFFICES ASSUME NEW k \in DOMAIN iterToStages'
               PROVE  /\ iterToStages'[k] # {}
                      /\ \A s \in iterToStages'[k] :
                           s \in DOMAIN stageToIter' /\ stageToIter'[s] = k
    OBVIOUS
  <2>1. CASE k \in new
    <3> PICK i \in hit : k = <<t, to[i]>>
      BY <2>1
    <3>1. iterToStages'[k] = iterToStages[<<t, i>>] /\ <<t, i>> \in DOMAIN iterToStages
      BY <1>7 DEF Attached
    <3>2. /\ iterToStages[<<t, i>>] # {}
          /\ \A s \in iterToStages[<<t, i>>] :
               s \in DOMAIN stageToIter /\ stageToIter[s] = <<t, i>>
      BY <3>1 DEF MapsInverse
    <3>3. \A s \in iterToStages[<<t, i>>] : stageToIter'[s] = k
      BY <1>5, <3>2
    <3>4. DOMAIN stageToIter' = DOMAIN stageToIter
      BY <1>1
    <3> QED BY <3>1, <3>2, <3>3, <3>4
  <2>2. CASE k \notin new
    <3>1. k \in DOMAIN iterToStages \ gone
      BY <1>1, <2>2
    <3>2. iterToStages'[k] = iterToStages[k]
      BY <1>8, <3>1
    <3>3. \A s \in iterToStages[k] : s \in DOMAIN stageToIter /\ stageToIter[s] = k
      BY <3>1 DEF MapsInverse
    <3>4. \A i \in DOMAIN to : k # <<t, i>>
      BY <3>1 DEF Attached
    <3>5. \A s \in iterToStages[k] : stageToIter'[s] = k
      BY <1>6, <3>3, <3>4
    <3>6. iterToStages[k] # {}
      BY <3>1 DEF MapsInverse
    <3>7. DOMAIN stageToIter' = DOMAIN stageToIter
      BY <1>1
    <3> QED BY <3>2, <3>3, <3>5, <3>6, <3>7
  <2> QED BY <2>1, <2>2
<1> QED BY <1>1, <1>5, <1>6, <1>9, <1>10, <1>11 DEF MapsInverse, Attached

(* ApplyStageIdOffset renames stages in both maps alike. *)
LEMMA ApplyStageIdOffsetAgrees ==
  ASSUME NEW start \in Nat, NEW n \in Nat, MapTypes, MapsInverse, ApplyStageIdOffset(start, n)
  PROVE  /\ MapTypes' /\ MapsInverse'
         /\ \A x \in DOMAIN stageToIter : Offset(x, start, n) \in DOMAIN stageToIter'
         /\ \A s \in DOMAIN stageToIter' : \E x \in DOMAIN stageToIter :
              /\ s = Offset(x, start, n)
              /\ stageToIter'[s] = <<Offset(stageToIter[x][1], start, n), stageToIter[x][2]>>
<1> DEFINE old(x) == IF x >= start + n THEN x - n ELSE x
           key(k) == <<Offset(k[1], start, n), k[2]>>
<1>1. \A x \in Nat : Offset(x, start, n) \in Nat /\ old(Offset(x, start, n)) = x
  BY DEF Offset
<1>2. /\ DOMAIN stageToIter' = {Offset(x, start, n) : x \in DOMAIN stageToIter}
      /\ \A x \in DOMAIN stageToIter :
           stageToIter'[Offset(x, start, n)] = key(stageToIter[x])
  BY <1>1 DEF ApplyStageIdOffset, MapTypes
<1>3. \A s \in DOMAIN iterToStages : iterToStages[s] \subseteq Nat
  BY DEF MapsInverse, MapTypes
<1>4. \A k \in Nat \X Nat : key(k) \in Nat \X Nat /\ <<old(key(k)[1]), key(k)[2]>> = k
  BY <1>1
<1>5. /\ DOMAIN iterToStages' = {key(k) : k \in DOMAIN iterToStages}
      /\ \A k \in DOMAIN iterToStages :
           iterToStages'[key(k)] = {Offset(s, start, n) : s \in iterToStages[k]}
  BY <1>4 DEF ApplyStageIdOffset, MapTypes
<1> HIDE DEF old, key
<1>6. MapTypes'
  BY <1>1, <1>2, <1>4, <1>5 DEF MapTypes
<1>7. MapsInverse'
  <2>1. \A x \in DOMAIN stageToIter :
          /\ stageToIter'[Offset(x, start, n)] \in DOMAIN iterToStages'
          /\ Offset(x, start, n) \in iterToStages'[stageToIter'[Offset(x, start, n)]]
    BY <1>2, <1>5 DEF MapsInverse, Attached
  <2>2. \A k \in DOMAIN iterToStages :
          /\ iterToStages'[key(k)] # {}
          /\ \A s \in iterToStages[k] :
               /\ Offset(s, start, n) \in DOMAIN stageToIter'
               /\ stageToIter'[Offset(s, start, n)] = key(k)
    BY <1>2, <1>5 DEF MapsInverse
  <2> QED BY <1>2, <1>5, <2>1, <2>2 DEF MapsInverse, Attached
<1> QED BY <1>2, <1>6, <1>7 DEF key

-----------------------------------------------------------------------------
(* The nests and sequences of stages that the steps build. *)

Places == SUBSET Nat
Nest == Seq(Places)
Kinds == {"root", "inlined", "iter"}
StageRec == [iters : Nest, compute_at : Kinds, moved : BOOLEAN]

LEMMA NewStageType == ASSUME NEW n \in Nat
                      PROVE  NewStage(n) \in StageRec /\ Len(NewStage(n).iters) = n
BY DEF NewStage, StageRec, Nest, Kinds, Places

(* A split keeps the iterators before i and moves the others by n. *)
LEMMA SplitNest ==
  ASSUME NEW nest \in Nest, NEW i \in 1 .. Len(nest), NEW n \in Nat
  PROVE  LET new == Divided(nest, i, n) IN
         /\ new \in Nest /\ Len(new) = Len(nest) + n
         /\ \A x \in 1 .. i - 1 : new[x] = nest[x]
         /\ \A x \in i .. Len(nest) : new[x + n] = nest[x]
         /\ \A x \in 1 .. Len(new) : \A s \in new[x] : \E y \in 1 .. Len(nest) : s \in nest[y]
<1> DEFINE new == Divided(nest, i, n)
           mid == NewStage(n).iters
           m == i - 1 + n
           elem(x) == IF x <= i - 1 THEN nest[x] ELSE IF x <= m THEN mid[x - (i - 1)]
                      ELSE nest[x - m + i - 1]
<1>1. mid \in Nest /\ Len(mid) = n
  BY NewStageType DEF StageRec
<1>2. Len(nest) \in Nat /\ i \in Nat /\ m + Len(nest) - i + 1 = Len(nest) + n
  BY DEF Nest
<1> HIDE DEF mid
<1>3. new = [x \in 1 .. Len(nest) + n |-> elem(x)]
  BY <1>1, <1>2 DEF Splice, Divided, mid
<1>4. \A x \in 1 .. Len(nest) + n : elem(x) \in Places
  BY <1>1, <1>2 DEF Nest
<1> HIDE DEF elem, new
<1>5. new \in Nest /\ Len(new) = Len(nest) + n
  BY <1>2, <1>3, <1>4 DEF Nest
<1>6. \A x \in 1 .. i - 1 : x \in 1 .. Len(nest) + n /\ elem(x) = nest[x]
  BY <1>2 DEF elem
<1>7. \A x \in i .. Len(nest) : x + n \in 1 .. Len(nest) + n /\ elem(x + n) = nest[x]
  BY <1>2 DEF elem
<1>8. \A x \in 1 .. Len(nest) + n : \A s \in elem(x) : \E y \in 1 .. Len(nest) : s \in nest[y]
  <2> SUFFICES ASSUME NEW x \in 1 .. Len(nest) + n, NEW s \in elem(x)
               PROVE  \E y \in 1 .. Len(nest) : s \in nest[y]
    OBVIOUS
  <2>1. CASE x <= i - 1
    BY <1>2, <2>1 DEF elem
  <2>2. CASE i - 1 < x /\ x <= m
    <3>1. x - (i - 1) \in 1 .. n /\ elem(x) = mid[x - (i - 1)]
      BY <1>2, <2>2 DEF elem
    <3>2. \A y \in 1 .. n : mid[y] = {}
      BY DEF mid, NewStage
    <3> QED BY <3>1, <3>2
  <2>3. CASE x > m
    <3>1. x - m + i - 1 \in 1 .. Len(nest) /\ elem(x) = nest[x - m + i - 1]
      BY <1>2, <2>3 DEF elem
    <3> QED BY <3>1
  <2> QED BY <1>2, <2>1, <2>2, <2>3
<1> QED BY <1>3, <1>5, <1>6, <1>7, <1>8 DEF new

(* A fuse keeps the iterators before i, moves those after j, and its result *)
(* holds what was placed at i and at j.                                     *)
LEMMA FuseNest ==
  ASSUME NEW nest \in Nest, NEW i \in 1 .. Len(nest), NEW j \in i .. Len(nest)
  PROVE  LET new == Fused(nest, i, j) IN
         /\ new \in Nest /\ Len(new) = Len(nest) - j + i
         /\ \A x \in 1 .. i - 1 : new[x] = nest[x]
         /\ nest[j] \subseteq new[i] /\ nest[i] \subseteq new[i]
         /\ \A x \in j + 1 .. Len(nest) : new[x - j + i] = nest[x]
         /\ \A x \in 1 .. Len(new) : \A s \in new[x] : \E y \in 1 .. Len(nest) : s \in nest[y]
<1> DEFINE new == Fused(nest, i, j)
           u == UNION {nest[x] : x \in i .. j}
           mid == <<u>>
           len == Len(nest) - j + i
           m == i - 1 + Len(mid)
           elem(x) == IF x <= i - 1 THEN nest[x] ELSE IF x <= m THEN mid[x - (i - 1)]
                      ELSE nest[x - m + (j + 1) - 1]
<1>1. /\ u \in Places /\ nest[j] \subseteq u /\ nest[i] \subseteq u
      /\ \A s \in u : \E y \in 1 .. Len(nest) : s \in nest[y]
  BY DEF Nest, Places
<1> HIDE DEF u
<1>2. mid \in Nest /\ Len(mid) = 1 /\ mid[1] = u
  BY <1>1 DEF Nest
<1>3. /\ Len(nest) \in Nat /\ i \in Nat /\ j \in Nat /\ len \in Nat
      /\ 1 <= i /\ i <= j /\ j <= Len(nest)
  BY DEF Nest
<1>4. new = Splice(nest, i - 1, mid, j + 1)
  BY DEF u, Fused
<1> HIDE DEF mid, new
<1>5. new = [x \in 1 .. len |-> elem(x)]
  <2>1. new = [x \in 1 .. m + Len(nest) - (j + 1) + 1 |-> elem(x)]
    BY <1>4 DEF Splice
  <2>2. m + Len(nest) - (j + 1) + 1 = len
    BY <1>2, <1>3
  <2> QED BY <2>1, <2>2
<1>6. \A x \in 1 .. len : elem(x) \in Places
  <2>1. \A x \in 1 .. Len(nest) : nest[x] \in Places
    BY DEF Nest
  <2>2. mid[1] \in Places
    BY <1>1, <1>2
  <2> QED BY <1>2, <1>3, <2>1, <2>2
<1>7. i \in 1 .. len /\ elem(i) = u
  BY <1>2, <1>3
<1>8. \A x \in 1 .. i - 1 : x \in 1 .. len /\ elem(x) = nest[x]
  BY <1>3
<1>9. \A x \in j + 1 .. Len(nest) : x - j + i \in 1 .. len /\ elem(x - j + i) = nest[x]
  BY <1>2, <1>3
<1>11. \A x \in 1 .. len : \A s \in elem(x) : \E y \in 1 .. Len(nest) : s \in nest[y]
  <2> SUFFICES ASSUME NEW x \in 1 .. len, NEW s \in elem(x)
               PROVE  \E y \in 1 .. Len(nest) : s \in nest[y]
    OBVIOUS
  <2>1. CASE x <= i - 1
    BY <1>3, <2>1
  <2>2. CASE x = i
    BY <1>1, <1>7, <2>2
  <2>3. CASE x > i
    <3>1. x - m + (j + 1) - 1 \in 1 .. Len(nest) /\ elem(x) = nest[x - m + (j + 1) - 1]
      BY <1>2, <1>3, <2>3
    <3> QED BY <3>1
  <2> QED BY <1>3, <2>1, <2>2, <2>3
<1> HIDE DEF elem, len
<1>10. new \in Nest /\ Len(new) = len
  BY <1>3, <1>5, <1>6 DEF Nest
<1> QED BY <1>1, <1>5, <1>7, <1>8, <1>9, <1>10, <1>11 DEF len, new

-----------------------------------------------------------------------------
(* The invariant: well-formed stages, inverse maps between stages that     *)
(* exist, and attach points that exist and hold what was placed there.     *)

StagesOK == stages \in Seq(StageRec) /\ DOMAIN stageToIter \subseteq StageIds

IInv == StagesOK /\ MapTypes /\ MapsInverse /\ EveryPointExists /\ EveryGoalKept

(* Every entry of the second map is about an existing iterator. *)
LEMMA EntriesExist ==
  ASSUME IInv, NEW t \in Nat, NEW i \in Nat, Attached(<<t, i>>)
  PROVE  t \in StageIds /\ i \in IterIds(t)
<1>1. PICK s \in DOMAIN stageToIter : stageToIter[s] = <<t, i>>
  BY DEF IInv, MapsInverse, Attached
<1> QED BY <1>1 DEF IInv, EveryPointExists

LEMMA StageTypes ==
  ASSUME StagesOK, NEW t \in StageIds
  PROVE  /\ stages[t] \in StageRec /\ Iters(t) \in Nest /\ Len(Iters(t)) \in Nat
         /\ t \in Nat /\ Len(stages) \in Nat /\ stages \in Seq(StageRec)
<1>1. stages \in Seq(StageRec)
  BY DEF StagesOK
<1>2. Len(stages) \in Nat /\ t \in Nat /\ stages[t] \in StageRec
  BY <1>1 DEF StageIds
<1>3. Iters(t) \in Nest
  BY <1>2 DEF Iters, StageRec
<1>4. Len(Iters(t)) \in Nat
  BY <1>3 DEF Nest
<1> QED BY <1>1, <1>2, <1>3, <1>4

LEMMA InvStageTypes ==
  ASSUME IInv, NEW t \in StageIds
  PROVE  /\ stages[t] \in StageRec /\ Iters(t) \in Nest /\ Len(Iters(t)) \in Nat
         /\ t \in Nat /\ Len(stages) \in Nat /\ stages \in Seq(StageRec)
BY StageTypes DEF IInv

(* A step on the nest of one stage leaves the others alone. *)
LEMMA SetItersStages ==
  ASSUME StagesOK, NEW t \in StageIds, NEW nest \in Nest, SetIters(t, nest)
  PROVE  /\ stages' \in Seq(StageRec) /\ Len(stages') = Len(stages)
         /\ \A x \in 1 .. Len(stages) :
              /\ stages'[x].iters = (IF x = t THEN nest ELSE stages[x].iters)
              /\ stages'[x].compute_at = stages[x].compute_at
              /\ stages'[x].moved = stages[x].moved
<1> USE DEF StageIds, Iters, IterIds
<1>1. stages' = [x \in 1 .. Len(stages) |->
                   IF x = t THEN [stages[t] EXCEPT !.iters = nest] ELSE stages[x]]
  <2>1. t \in 1 .. Len(stages) /\ DOMAIN stages = 1 .. Len(stages)
    BY StageTypes
  <2> HIDE DEF StageIds, Iters, IterIds
  <2> QED BY <2>1 DEF SetIters
<1>2. \A x \in 1 .. Len(stages) : stages[x] \in StageRec
  BY StageTypes
<1>3. [stages[t] EXCEPT !.iters = nest] \in StageRec
  BY <1>2 DEF StageRec
<1>4. \A x \in 1 .. Len(stages) : stages'[x] \in StageRec
  BY <1>1, <1>2, <1>3
<1>5. stages' \in Seq(StageRec) /\ Len(stages') = Len(stages)
  <2> HIDE DEF StageIds, Iters, IterIds
  <2>1. PICK n \in Nat : n = Len(stages)
    BY StageTypes
  <2>2. PICK f : f = stages'
    OBVIOUS
  <2>3. f = [x \in 1 .. n |-> f[x]] /\ \A x \in 1 .. n : f[x] \in StageRec
    BY <1>1, <1>4, <2>1, <2>2
  <2>4. f \in Seq(StageRec) /\ Len(f) = n
    BY <2>3
  <2> QED BY <2>1, <2>2, <2>4
<1> QED BY <1>1, <1>2, <1>5 DEF StageRec

(* A step on the nest of one stage that renames its iterators. *)
LEMMA NestStep ==
  ASSUME IInv, NEW t \in StageIds, NEW nest \in Nest, NEW to,
         SetIters(t, nest), UpdateIters(t, to),
         DOMAIN to \subseteq Nat, \A i \in DOMAIN to : to[i] \in Nat,
         \A i, j \in DOMAIN to :
           Attached(<<t, i>>) /\ Attached(<<t, j>>) /\ to[i] = to[j] => i = j,
         \A i \in DOMAIN to, j \in Nat \ DOMAIN to :
           Attached(<<t, i>>) /\ Attached(<<t, j>>) => to[i] # j,
         \A i \in DOMAIN to : Attached(<<t, i>>) =>
           to[i] \in 1 .. Len(nest) /\ Iters(t)[i] \subseteq nest[to[i]],
         \A i \in IterIds(t) \ DOMAIN to : Attached(<<t, i>>) =>
           i \in 1 .. Len(nest) /\ Iters(t)[i] \subseteq nest[i]
  PROVE  IInv'
<1> USE DEF StageIds, Iters, IterIds
<1>1. /\ MapTypes' /\ MapsInverse' /\ DOMAIN stageToIter' = DOMAIN stageToIter
      /\ \A s \in DOMAIN stageToIter : \A i \in DOMAIN to :
           stageToIter[s] = <<t, i>> => stageToIter'[s] = <<t, to[i]>>
      /\ \A s \in DOMAIN stageToIter :
           (\A i \in DOMAIN to : stageToIter[s] # <<t, i>>) => stageToIter'[s] = stageToIter[s]
  <2>1. t \in Nat
    BY InvStageTypes
  <2> QED BY <2>1, UpdateItersAgrees DEF IInv
<1>2. /\ stages' \in Seq(StageRec) /\ Len(stages') = Len(stages)
      /\ \A x \in 1 .. Len(stages) :
           /\ stages'[x].iters = (IF x = t THEN nest ELSE stages[x].iters)
           /\ stages'[x].compute_at = stages[x].compute_at
           /\ stages'[x].moved = stages[x].moved
  BY SetItersStages DEF IInv
<1>3. StagesOK'
  BY <1>1, <1>2 DEF IInv, StagesOK
<1>4. ASSUME NEW s \in DOMAIN stageToIter
      PROVE  /\ stageToIter'[s][1] \in 1 .. Len(stages') /\ stageToIter'[s][1] > s
             /\ stages'[stageToIter'[s][1]].compute_at # "inlined"
             /\ stageToIter'[s][2] \in 1 .. Len(stages'[stageToIter'[s][1]].iters)
             /\ ~stages'[s].moved =>
                  s \in stages'[stageToIter'[s][1]].iters[stageToIter'[s][2]]
  <2>1. /\ stageToIter[s] \in Nat \X Nat
        /\ stageToIter[s][1] \in StageIds /\ stageToIter[s][1] > s
        /\ stages[stageToIter[s][1]].compute_at # "inlined"
        /\ stageToIter[s][2] \in IterIds(stageToIter[s][1])
        /\ ~stages[s].moved => s \in Iters(stageToIter[s][1])[stageToIter[s][2]]
        /\ Attached(stageToIter[s]) /\ s \in StageIds
    BY DEF IInv, StagesOK, EveryPointExists, EveryGoalKept, AtGoal, MapTypes, MapsInverse
  <2>2. CASE \E i \in DOMAIN to : stageToIter[s] = <<t, i>>
    BY <1>1, <1>2, <2>1, <2>2
  <2>3. CASE \A i \in DOMAIN to : stageToIter[s] # <<t, i>>
    <3>1. stageToIter'[s] = stageToIter[s]
      BY <1>1, <2>3
    <3>2. CASE stageToIter[s][1] = t
      <4>1. /\ stageToIter[s] = <<t, stageToIter[s][2]>>
            /\ stageToIter[s][2] \in IterIds(t) \ DOMAIN to
        BY <2>1, <2>3, <3>2
      <4> QED BY <1>2, <2>1, <3>1, <3>2, <4>1
    <3>3. CASE stageToIter[s][1] # t
      BY <1>2, <2>1, <3>1, <3>3
    <3> QED BY <3>2, <3>3
  <2> QED BY <2>2, <2>3
<1>5. EveryPointExists'
  BY <1>1, <1>4 DEF EveryPointExists
<1>6. EveryGoalKept'
  BY <1>1, <1>4 DEF EveryGoalKept, AtGoal
<1> QED BY <1>1, <1>3, <1>5, <1>6 DEF IInv

(* A split keeps the invariant. *)
LEMMA SplitKeeps ==
  ASSUME IInv, NEW t \in StageIds, NEW i \in IterIds(t), NEW n \in Nat, Split(t, i, n)
  PROVE  IInv'
<1> DEFINE nest == Iters(t)
<1>1. PICK new : new = Divided(nest, i, n)
  OBVIOUS
<1>2. PICK to : to = SplitTargets(t, i, n)
  OBVIOUS
<1>3. nest \in Nest /\ Len(nest) \in Nat /\ i \in 1 .. Len(nest) /\ t \in Nat
  BY InvStageTypes DEF IterIds
<1>4. /\ new \in Nest /\ Len(new) = Len(nest) + n
      /\ \A x \in 1 .. i - 1 : new[x] = nest[x]
      /\ \A x \in i .. Len(nest) : new[x + n] = nest[x]
  BY <1>1, <1>3, SplitNest
<1>5. SetIters(t, new) /\ UpdateIters(t, to)
  BY <1>1, <1>2 DEF Split
<1>6. DOMAIN to = i .. Len(nest) /\ \A j \in DOMAIN to : to[j] = j + n
  BY <1>2 DEF SplitTargets
<1>7. \A j \in Nat : Attached(<<t, j>>) => j \in 1 .. Len(nest)
  BY <1>3, EntriesExist DEF IterIds
<1> HIDE DEF nest
<1>8. /\ DOMAIN to \subseteq Nat /\ \A j \in DOMAIN to : to[j] \in Nat
      /\ \A j, k \in DOMAIN to : to[j] = to[k] => j = k
      /\ \A j \in DOMAIN to, k \in Nat \ DOMAIN to : Attached(<<t, k>>) => to[j] # k
  BY <1>3, <1>6, <1>7
<1>9. \A j \in DOMAIN to : to[j] \in 1 .. Len(new) /\ new[to[j]] = nest[j]
  BY <1>3, <1>4, <1>6
<1>10. \A j \in IterIds(t) \ DOMAIN to : j \in 1 .. Len(new) /\ new[j] = nest[j]
  BY <1>3, <1>4, <1>6 DEF IterIds, nest
<1> QED BY <1>4, <1>5, <1>8, <1>9, <1>10, NestStep DEF nest

(* A fuse keeps the invariant, since only its last iterator has entries. *)
LEMMA FuseKeeps ==
  ASSUME IInv, NEW t \in StageIds, NEW i \in IterIds(t), NEW j \in IterIds(t), i <= j,
         Fuse(t, i, j)
  PROVE  IInv'
<1> DEFINE nest == Iters(t)
<1>1. PICK new : new = Fused(nest, i, j)
  OBVIOUS
<1>2. PICK to : to = FuseTargets(t, i, j)
  OBVIOUS
<1>3. /\ nest \in Nest /\ Len(nest) \in Nat /\ i \in 1 .. Len(nest)
      /\ j \in i .. Len(nest) /\ t \in Nat
  BY InvStageTypes DEF IterIds
<1>4. /\ new \in Nest /\ Len(new) = Len(nest) - j + i
      /\ \A x \in 1 .. i - 1 : new[x] = nest[x]
      /\ nest[j] \subseteq new[i] /\ nest[i] \subseteq new[i]
      /\ \A x \in j + 1 .. Len(nest) : new[x - j + i] = nest[x]
  BY <1>1, <1>3, FuseNest
<1>5. SetIters(t, new) /\ UpdateIters(t, to)
  BY <1>1, <1>2 DEF Fuse
<1>6. /\ DOMAIN to = i + 1 .. Len(nest)
      /\ \A x \in DOMAIN to : to[x] = IF x > j THEN x - j + i ELSE i
  BY <1>2 DEF FuseTargets
<1>7. \A x \in Nat : Attached(<<t, x>>) => x \in 1 .. Len(nest)
  BY <1>3, EntriesExist DEF IterIds
<1>8. \A x \in i .. j - 1 : ~Attached(<<t, x>>)
  BY DEF Fuse, MayFuse
<1> HIDE DEF nest
<1>9. DOMAIN to \subseteq Nat /\ \A x \in DOMAIN to : to[x] \in Nat
  BY <1>3, <1>6
<1>10. \A x \in DOMAIN to : Attached(<<t, x>>) => x >= j
  BY <1>3, <1>6, <1>8
<1>11. \A x, y \in DOMAIN to :
         Attached(<<t, x>>) /\ Attached(<<t, y>>) /\ to[x] = to[y] => x = y
  BY <1>3, <1>6, <1>10
<1>12. \A x \in DOMAIN to, y \in Nat \ DOMAIN to :
         Attached(<<t, x>>) /\ Attached(<<t, y>>) => to[x] # y
  BY <1>3, <1>6, <1>7, <1>8, <1>10
<1>13. \A x \in DOMAIN to : Attached(<<t, x>>) =>
         to[x] \in 1 .. Len(new) /\ nest[x] \subseteq new[to[x]]
  <2> SUFFICES ASSUME NEW x \in DOMAIN to, Attached(<<t, x>>)
               PROVE  to[x] \in 1 .. Len(new) /\ nest[x] \subseteq new[to[x]]
    OBVIOUS
  <2>1. x \in i + 1 .. Len(nest) /\ x >= j /\ i \in Nat /\ j \in Nat /\ i <= j
    BY <1>3, <1>6, <1>10
  <2>2. CASE x = j
    <3>1. to[x] = i
      BY <1>6, <2>1, <2>2
    <3> QED BY <1>3, <1>4, <2>1, <2>2, <3>1
  <2>3. CASE x > j
    <3>1. to[x] = x - j + i
      BY <1>6, <2>1, <2>3
    <3>2. to[x] \in 1 .. Len(new)
      BY <1>3, <1>4, <2>1, <2>3, <3>1
    <3>3. x \in j + 1 .. Len(nest)
      BY <1>3, <2>1, <2>3
    <3>4. new[x - j + i] = nest[x]
      BY <1>4, <3>3
    <3>5. nest[x] = new[to[x]]
      BY <3>1, <3>4
    <3> QED BY <3>2, <3>5
  <2> QED BY <2>1, <2>2, <2>3
<1>14. \A x \in IterIds(t) \ DOMAIN to :
         x \in 1 .. Len(new) /\ nest[x] \subseteq new[x]
  BY <1>3, <1>4, <1>6 DEF IterIds, nest
<1> QED BY <1>4, <1>5, <1>9, <1>11, <1>12, <1>13, <1>14, NestStep DEF nest

-----------------------------------------------------------------------------
(* The other steps.  What they must show of one attached stage: *)

PointOK(s) ==
  /\ s \in StageIds /\ stageToIter[s][1] \in StageIds /\ stageToIter[s][1] > s
  /\ stages[stageToIter[s][1]].compute_at # "inlined"
  /\ stageToIter[s][2] \in IterIds(stageToIter[s][1])
  /\ ~stages[s].moved => AtGoal(s)

LEMMA PointsOK == IInv <=> /\ stages \in Seq(StageRec) /\ MapTypes /\ MapsInverse
                           /\ \A s \in DOMAIN stageToIter : PointOK(s)
BY DEF IInv, StagesOK, EveryPointExists, EveryGoalKept, PointOK

LEMMA PointsOKNext ==
  ASSUME stages' \in Seq(StageRec), MapTypes', MapsInverse',
         \A s \in DOMAIN stageToIter' : PointOK(s)'
  PROVE  IInv'
BY DEF IInv, StagesOK, EveryPointExists, EveryGoalKept, PointOK

(* A nest with nothing attached to it can be replaced.                     *)
LEMMA FuseNoneKeeps ==
  ASSUME IInv, NEW t \in StageIds, FuseNone(t), ~AttachedToStage(t)
  PROVE  IInv'
<1>1. stages \in Seq(StageRec) /\ MapTypes /\ MapsInverse
      /\ \A s \in DOMAIN stageToIter : PointOK(s)
  BY PointsOK
<1>2. PICK nest : nest = NewStage(1).iters
  OBVIOUS
<1>3. nest \in Nest
  BY <1>2, NewStageType DEF StageRec
<1>4. DOMAIN stages = 1 .. Len(stages) /\ t \in 1 .. Len(stages) /\ Len(stages) \in Nat
  BY <1>1 DEF StageIds
<1>5. stages' = [x \in 1 .. Len(stages) |->
                   IF x = t THEN [stages[t] EXCEPT !.iters = nest] ELSE stages[x]]
  BY <1>2, <1>4 DEF FuseNone, SetIters
<1>6. \A x \in 1 .. Len(stages) : stages[x] \in StageRec /\ stages'[x] \in StageRec
  <2>1. \A x \in 1 .. Len(stages) : stages[x] \in StageRec
    BY <1>1
  <2>2. [stages[t] EXCEPT !.iters = nest] \in StageRec
    BY <1>3, <1>4, <2>1 DEF StageRec
  <2> QED BY <1>5, <2>1, <2>2
<1>7. stages' \in Seq(StageRec) /\ Len(stages') = Len(stages)
  <2>1. stages' = [x \in 1 .. Len(stages) |-> stages'[x]]
    BY <1>5
  <2> QED BY <1>4, <1>6, <2>1
<1>8. stageToIter' = stageToIter /\ iterToStages' = iterToStages
  BY DEF FuseNone, attach_map
<1>9. MapTypes' /\ MapsInverse'
  BY <1>1, <1>8 DEF MapTypes, MapsInverse, Attached
<1>10. ASSUME NEW s \in DOMAIN stageToIter PROVE PointOK(s)'
  <2>1. stageToIter[s][1] # t
    <3> SUFFICES ASSUME stageToIter[s][1] = t PROVE FALSE
      OBVIOUS
    <3>1. stageToIter[s] = <<t, stageToIter[s][2]>> /\ Attached(stageToIter[s])
      BY <1>1 DEF MapTypes, MapsInverse
    <3>2. stageToIter[s][2] \in IterIds(t)
      BY <1>1 DEF PointOK
    <3> QED BY <3>1, <3>2 DEF AttachedToStage
  <2>2. stages'[stageToIter[s][1]] = stages[stageToIter[s][1]]
    BY <1>1, <1>5, <2>1 DEF PointOK, StageIds
  <2>3. s \in 1 .. Len(stages) /\ stages'[s].moved = stages[s].moved
    BY <1>1, <1>5, <1>6 DEF PointOK, StageIds, StageRec
  <2> QED BY <1>1, <1>7, <1>8, <2>2, <2>3 DEF PointOK, AtGoal, StageIds, IterIds, Iters
<1> QED BY <1>7, <1>8, <1>9, <1>10, PointsOKNext

(* reorder permutes a nest and marks what is attached to it as moved.      *)
LEMMA ReorderStages ==
  ASSUME StagesOK, NEW t \in StageIds, NEW p \in [IterIds(t) -> IterIds(t)], Reorder(t, p)
  PROVE  /\ stageToIter' = stageToIter /\ iterToStages' = iterToStages
         /\ stages' \in Seq(StageRec) /\ Len(stages') = Len(stages)
         /\ \A x \in StageIds :
              /\ stages'[x].compute_at = stages[x].compute_at
              /\ Len(stages'[x].iters) = Len(stages[x].iters)
              /\ x # t => stages'[x].iters = stages[x].iters
              /\ ~stages'[x].moved =>
                   /\ ~stages[x].moved
                   /\ x # t => ~(x \in DOMAIN stageToIter /\ stageToIter[x][1] = t)
         /\ \A i \in IterIds(t) : stages'[t].iters[i] = Iters(t)[p[i]]
<1>1. PICK nest : nest = [i \in IterIds(t) |-> stages[t].iters[p[i]]]
  OBVIOUS
<1>2. /\ nest \in Nest /\ Len(nest) = Len(Iters(t))
      /\ \A i \in IterIds(t) : nest[i] = Iters(t)[p[i]]
  <2>1. Iters(t) \in Nest /\ Len(Iters(t)) \in Nat
    BY StageTypes
  <2>2. \A i \in IterIds(t) : Iters(t)[p[i]] \in Places
    BY <2>1 DEF IterIds, Nest
  <2>3. nest = [i \in 1 .. Len(Iters(t)) |-> Iters(t)[p[i]]]
    BY <1>1 DEF IterIds, Iters
  <2>4. \A i \in 1 .. Len(Iters(t)) : Iters(t)[p[i]] \in Places
    BY <2>2 DEF IterIds
  <2>5. \A i \in IterIds(t) : nest[i] = Iters(t)[p[i]]
    BY <1>1 DEF Iters
  <2> QED BY <2>1, <2>3, <2>4, <2>5 DEF Nest
<1>3. /\ stages' = [s \in StageIds |->
             IF s = t THEN [stages[t] EXCEPT !.iters = nest]
             ELSE IF s \in DOMAIN stageToIter /\ stageToIter[s][1] = t
                  THEN [stages[s] EXCEPT !.moved = TRUE] ELSE stages[s]]
      /\ stageToIter' = stageToIter /\ iterToStages' = iterToStages
  BY <1>1 DEF Reorder, attach_map
<1>4. \A x \in StageIds : stages[x] \in StageRec
  BY StageTypes
<1>5. ASSUME NEW x \in StageIds
      PROVE  /\ stages'[x] \in StageRec
             /\ stages'[x].compute_at = stages[x].compute_at
             /\ Len(stages'[x].iters) = Len(stages[x].iters)
             /\ x # t => stages'[x].iters = stages[x].iters
             /\ x = t => stages'[x].iters = nest
             /\ ~stages'[x].moved =>
                  /\ ~stages[x].moved
                  /\ x # t => ~(x \in DOMAIN stageToIter /\ stageToIter[x][1] = t)
  <2>1. CASE x = t
    <3>1. stages'[x] = [stages[t] EXCEPT !.iters = nest]
      BY <1>3, <2>1
    <3> QED BY <1>2, <1>4, <2>1, <3>1 DEF StageRec, Iters
  <2>2. CASE x # t /\ x \in DOMAIN stageToIter /\ stageToIter[x][1] = t
    <3>1. stages'[x] = [stages[x] EXCEPT !.moved = TRUE]
      BY <1>3, <2>2
    <3> QED BY <1>4, <2>2, <3>1 DEF StageRec
  <2>3. CASE x # t /\ ~(x \in DOMAIN stageToIter /\ stageToIter[x][1] = t)
    <3>1. stages'[x] = stages[x]
      BY <1>3, <2>3
    <3> QED BY <1>4, <2>3, <3>1 DEF StageRec
  <2> QED BY <2>1, <2>2, <2>3
<1>6. stages' \in Seq(StageRec) /\ Len(stages') = Len(stages)
  <2>1. Len(stages) \in Nat
    BY StageTypes
  <2>2. stages' = [x \in 1 .. Len(stages) |-> stages'[x]]
    BY <1>3 DEF StageIds
  <2>3. \A x \in 1 .. Len(stages) : stages'[x] \in StageRec
    BY <1>5 DEF StageIds
  <2> QED BY <2>1, <2>2, <2>3
<1>7. \A i \in IterIds(t) : stages'[t].iters[i] = Iters(t)[p[i]]
  BY <1>2, <1>5
<1> QED BY <1>3, <1>5, <1>6, <1>7

(* The attach points still exist, and every stage attached to the nest      *)
(* counts as moved.                                                         *)
LEMMA ReorderKeeps ==
  ASSUME IInv, NEW t \in StageIds, NEW p \in [IterIds(t) -> IterIds(t)], Reorder(t, p)
  PROVE  IInv'
<1>1. stages \in Seq(StageRec) /\ MapTypes /\ MapsInverse
      /\ \A s \in DOMAIN stageToIter : PointOK(s)
  BY PointsOK
<1>2. /\ stageToIter' = stageToIter /\ iterToStages' = iterToStages
      /\ stages' \in Seq(StageRec) /\ Len(stages') = Len(stages)
      /\ \A x \in StageIds :
           /\ stages'[x].compute_at = stages[x].compute_at
           /\ Len(stages'[x].iters) = Len(stages[x].iters)
           /\ x # t => stages'[x].iters = stages[x].iters
           /\ ~stages'[x].moved =>
                /\ ~stages[x].moved
                /\ x # t => ~(x \in DOMAIN stageToIter /\ stageToIter[x][1] = t)
  BY ReorderStages DEF IInv
<1>3. MapTypes' /\ MapsInverse'
  BY <1>1, <1>2 DEF MapTypes, MapsInverse, Attached
<1>4. ASSUME NEW s \in DOMAIN stageToIter PROVE PointOK(s)'
  <2> DEFINE a == stageToIter[s][1]
  <2>1. PointOK(s)
    BY <1>1
  <2>2. s \in StageIds /\ a \in StageIds /\ a > s /\ a # s
    BY <2>1 DEF PointOK, StageIds
  <2>3. /\ stages'[a].compute_at # "inlined"
        /\ stageToIter[s][2] \in 1 .. Len(stages'[a].iters)
    BY <1>2, <2>1, <2>2 DEF PointOK, IterIds, Iters
  <2>4. ASSUME ~stages'[s].moved PROVE s \in stages'[a].iters[stageToIter[s][2]]
    <3>1. CASE s = t
      BY <1>2, <2>1, <2>2, <2>4, <3>1 DEF PointOK, AtGoal, Iters
    <3>2. CASE s # t
      BY <1>2, <2>1, <2>2, <2>4, <3>2 DEF PointOK, AtGoal, Iters
    <3> QED BY <3>1, <3>2
  <2> QED BY <1>2, <2>2, <2>3, <2>4 DEF PointOK, AtGoal, StageIds, IterIds, Iters
<1> QED BY <1>2, <1>3, <1>4, PointsOKNext

-----------------------------------------------------------------------------
(* Steps on the place of one stage. *)

(* Only the stage s changes its kind and its place. *)
LEMMA PlacedStages ==
  ASSUME StagesOK, NEW s \in StageIds, NEW kind \in Kinds, NEW t \in Nat, NEW i \in Nat,
         Placed(s, kind, t, i)
  PROVE  /\ stages' \in Seq(StageRec) /\ Len(stages') = Len(stages)
         /\ \A x \in StageIds :
              /\ Len(stages'[x].iters) = Len(Iters(x))
              /\ \A j \in IterIds(x) : \A y \in Iters(x)[j] :
                   y # s => y \in stages'[x].iters[j]
              /\ \A j \in IterIds(x) : \A y \in stages'[x].iters[j] :
                   IF y = s THEN x = t /\ j = i ELSE y \in Iters(x)[j]
              /\ stages'[x].compute_at = IF x = s THEN kind ELSE stages[x].compute_at
              /\ x # s /\ ~stages'[x].moved => ~stages[x].moved
         /\ t \in StageIds /\ i \in IterIds(t) => s \in stages'[t].iters[i]
<1> DEFINE nest(x) == [j \in IterIds(x) |-> IF x = t /\ j = i THEN Iters(x)[j] \cup {s}
                                            ELSE Iters(x)[j] \ {s}]
<1>1. stages' = [x \in StageIds |->
                   [iters |-> nest(x),
                    compute_at |-> IF x = s THEN kind ELSE stages[x].compute_at,
                    moved |-> stages[x].moved /\ x # s]]
  BY DEF Placed
<1>2. \A x \in StageIds : nest(x) \in Nest /\ Len(nest(x)) = Len(Iters(x))
  <2> SUFFICES ASSUME NEW x \in StageIds
               PROVE  nest(x) \in Nest /\ Len(nest(x)) = Len(Iters(x))
    OBVIOUS
  <2>1. Iters(x) \in Nest /\ Len(Iters(x)) \in Nat /\ s \in Nat
    BY StageTypes
  <2>2. \A j \in 1 .. Len(Iters(x)) : nest(x)[j] \in Places
    BY <2>1 DEF Nest, Places, IterIds
  <2>3. nest(x) = [j \in 1 .. Len(Iters(x)) |-> nest(x)[j]]
    BY DEF IterIds
  <2> HIDE DEF nest
  <2> QED BY <2>1, <2>2, <2>3 DEF Nest
<1>3. \A x \in StageIds : /\ stages[x].compute_at \in Kinds /\ stages[x].moved \in BOOLEAN
  BY StageTypes DEF StageRec
<1>4. \A x \in StageIds : \A j \in IterIds(x) :
        /\ \A y \in Iters(x)[j] : y # s => y \in nest(x)[j]
        /\ \A y \in nest(x)[j] : IF y = s THEN x = t /\ j = i ELSE y \in Iters(x)[j]
  OBVIOUS
<1>5. t \in StageIds /\ i \in IterIds(t) => s \in nest(t)[i]
  OBVIOUS
<1> HIDE DEF nest
<1>6. \A x \in StageIds :
        /\ stages'[x].iters = nest(x)
        /\ stages'[x].compute_at = IF x = s THEN kind ELSE stages[x].compute_at
        /\ x # s /\ ~stages'[x].moved => ~stages[x].moved
  BY <1>1
<1>7. \A x \in StageIds : stages'[x] \in StageRec
  BY <1>1, <1>2, <1>3 DEF StageRec
<1>8. stages' \in Seq(StageRec) /\ Len(stages') = Len(stages)
  <2>1. Len(stages) \in Nat
    BY StageTypes
  <2>2. stages' = [x \in 1 .. Len(stages) |-> stages'[x]]
    BY <1>1 DEF StageIds
  <2> QED BY <1>7, <2>1, <2>2 DEF StageIds
<1> QED BY <1>2, <1>4, <1>5, <1>6, <1>8

(* A stage y whose attach point was not touched keeps it. *)
LEMMA PlacedKeepsPoint ==
  ASSUME IInv, NEW s \in StageIds, NEW kind \in Kinds, NEW t \in Nat, NEW i \in Nat,
         Placed(s, kind, t, i), NEW y \in DOMAIN stageToIter, y # s,
         y \in DOMAIN stageToIter', stageToIter'[y] = stageToIter[y],
         stageToIter[y][1] = s => kind # "inlined"
  PROVE  PointOK(y)'
<1> DEFINE a == stageToIter[y][1]
           b == stageToIter[y][2]
<1>1. PointOK(y)
  BY PointsOK
<1>2. /\ Len(stages') = Len(stages)
      /\ \A x \in StageIds :
           /\ Len(stages'[x].iters) = Len(Iters(x))
           /\ \A j \in IterIds(x) : \A z \in Iters(x)[j] : z # s => z \in stages'[x].iters[j]
           /\ stages'[x].compute_at = IF x = s THEN kind ELSE stages[x].compute_at
           /\ x # s /\ ~stages'[x].moved => ~stages[x].moved
  BY PlacedStages DEF IInv
<1>3. y \in StageIds /\ a \in StageIds /\ a > y /\ b \in IterIds(a)
  BY <1>1 DEF PointOK
<1>4. stages'[a].compute_at # "inlined" /\ b \in 1 .. Len(stages'[a].iters)
  BY <1>1, <1>2, <1>3 DEF PointOK, IterIds
<1>5. ~stages'[y].moved => y \in stages'[a].iters[b]
  BY <1>1, <1>2, <1>3 DEF PointOK, AtGoal
<1> QED BY <1>2, <1>3, <1>4, <1>5 DEF PointOK, AtGoal, StageIds, IterIds, Iters

(* A stage that is computed at no iterator any more: compute_root,         *)
(* compute_inline, skipped by a pragma.                                    *)
LEMMA DetachKeeps ==
  ASSUME IInv, NEW s \in StageIds, NEW kind \in Kinds, Placed(s, kind, 0, 0), DeleteStage(s),
         kind = "inlined" => (~AttachedToStage(s) \/ stages[s].compute_at = "inlined")
  PROVE  IInv'
<1>1. /\ MapTypes' /\ MapsInverse' /\ DOMAIN stageToIter' = DOMAIN stageToIter \ {s}
      /\ \A x \in DOMAIN stageToIter' : stageToIter'[x] = stageToIter[x]
  <2>1. s \in Nat
    BY InvStageTypes
  <2> QED BY <2>1, DeleteStageAgrees DEF IInv
<1>2. stages' \in Seq(StageRec)
  BY PlacedStages DEF IInv
<1>3. ASSUME NEW y \in DOMAIN stageToIter', stageToIter[y][1] = s PROVE kind # "inlined"
  <2>1. y \in DOMAIN stageToIter /\ PointOK(y) /\ Attached(stageToIter[y])
        /\ stageToIter[y] \in Nat \X Nat
    BY <1>1, PointsOK DEF MapsInverse, MapTypes
  <2>2. stageToIter[y] = <<s, stageToIter[y][2]>> /\ stageToIter[y][2] \in IterIds(s)
    BY <1>3, <2>1 DEF PointOK
  <2>3. AttachedToStage(s)
    BY <2>1, <2>2 DEF AttachedToStage
  <2>4. stages[s].compute_at # "inlined"
    BY <1>3, <2>1 DEF PointOK
  <2> QED BY <2>3, <2>4
<1>4. \A y \in DOMAIN stageToIter' : PointOK(y)'
  BY <1>1, <1>3, PlacedKeepsPoint
<1> QED BY <1>1, <1>2, <1>4, PointsOKNext

LEMMA DetachStepsKeep ==
  ASSUME IInv, NEW s \in StageIds, SkipRegion(s) \/ ComputeInline(s) \/ ComputeRoot(s)
  PROVE  IInv'
<1>1. CASE SkipRegion(s)
  <2>1. stages[s].compute_at \in Kinds
    BY InvStageTypes DEF StageRec
  <2> QED BY <1>1, <2>1, DetachKeeps DEF SkipRegion
<1>2. CASE ComputeInline(s)
  BY <1>2, DetachKeeps DEF ComputeInline, MayInline, Kinds
<1>3. CASE ComputeRoot(s)
  BY <1>3, DetachKeeps DEF ComputeRoot, Kinds
<1> QED BY <1>1, <1>2, <1>3

LEMMA ComputeAtKeeps ==
  ASSUME IInv, NEW s \in StageIds, NEW t \in StageIds, NEW i \in IterIds(t), ComputeAt(s, t, i)
  PROVE  IInv'
<1>1. s \in Nat /\ t \in Nat /\ i \in Nat
  BY InvStageTypes DEF IterIds
<1>2. /\ MapTypes' /\ MapsInverse' /\ DOMAIN stageToIter' = DOMAIN stageToIter \cup {s}
      /\ \A x \in DOMAIN stageToIter' :
           stageToIter'[x] = IF x = s THEN <<t, i>> ELSE stageToIter[x]
  BY <1>1, SetComputeAtIterAgrees DEF ComputeAt, IInv
<1>3. Placed(s, "iter", t, i) /\ "iter" \in Kinds /\ t > s
      /\ stages[t].compute_at # "inlined"
  BY DEF ComputeAt, Kinds
<1>4. /\ stages' \in Seq(StageRec) /\ Len(stages') = Len(stages)
      /\ Len(stages'[t].iters) = Len(Iters(t))
      /\ stages'[t].compute_at # "inlined"
      /\ s \in stages'[t].iters[i]
  BY <1>1, <1>3, PlacedStages DEF IInv
<1>5. \A y \in DOMAIN stageToIter' : y # s => PointOK(y)'
  BY <1>1, <1>2, <1>3, PlacedKeepsPoint
<1>6. PointOK(s)'
  <2>1. stageToIter'[s][1] = t /\ stageToIter'[s][2] = i
    BY <1>2
  <2> QED BY <1>3, <1>4, <2>1 DEF PointOK, AtGoal, StageIds, IterIds, Iters
<1> QED BY <1>2, <1>4, <1>5, <1>6, PointsOKNext

-----------------------------------------------------------------------------
(* Steps that insert stages. *)

(* The sequence s grows by d when the k elements of mid replace those       *)
(* between a and b.                                                         *)
Grown(new, s, mid, a, b, k, d) ==
  /\ new \in Seq(StageRec) /\ Len(new) = Len(s) + d
  /\ \A x \in 1 .. a : new[x] = s[x]
  /\ \A x \in 1 .. k : new[a + x] = mid[x]
  /\ \A x \in b .. Len(s) : new[x + d] = s[x]
  /\ \A x \in 1 .. Len(new) : (\E y \in 1 .. Len(s) : new[x] = s[y])
                             \/ \E y \in 1 .. k : new[x] = mid[y]

LEMMA SpliceStages ==
  ASSUME NEW s \in Seq(StageRec), NEW mid \in Seq(StageRec),
         NEW a \in 0 .. Len(s), NEW b \in a + 1 .. Len(s) + 1,
         NEW k \in Nat, k = Len(mid), NEW d \in Nat, d = k + a + 1 - b,
         NEW new, new = Splice(s, a, mid, b)
  PROVE  Grown(new, s, mid, a, b, k, d)
<1> DEFINE m == a + Len(mid)
           elem(x) == IF x <= a THEN s[x] ELSE IF x <= m THEN mid[x - a] ELSE s[x - m + b - 1]
<1>1. Len(s) \in Nat /\ a \in Nat /\ b \in Nat /\ m + Len(s) - b + 1 = Len(s) + d
  OBVIOUS
<1>2. new = [x \in 1 .. Len(s) + d |-> elem(x)]
  BY <1>1 DEF Splice
<1>3. /\ \A x \in 1 .. Len(s) : s[x] \in StageRec
      /\ \A x \in 1 .. k : mid[x] \in StageRec
  OBVIOUS
<1>4. \A x \in 1 .. Len(s) + d : elem(x) \in StageRec
  BY <1>1, <1>3
<1>5. \A x \in 1 .. a : x \in 1 .. Len(s) + d /\ elem(x) = s[x]
  BY <1>1
<1>6. \A x \in 1 .. k : a + x \in 1 .. Len(s) + d /\ elem(a + x) = mid[x]
  BY <1>1
<1>7. \A x \in b .. Len(s) : x + d \in 1 .. Len(s) + d /\ elem(x + d) = s[x]
  BY <1>1
<1>8. \A x \in 1 .. Len(s) + d : (\E y \in 1 .. Len(s) : elem(x) = s[y])
                               \/ \E y \in 1 .. k : elem(x) = mid[y]
  <2> SUFFICES ASSUME NEW x \in 1 .. Len(s) + d
               PROVE  (\E y \in 1 .. Len(s) : elem(x) = s[y]) \/ \E y \in 1 .. k : elem(x) = mid[y]
    OBVIOUS
  <2>1. CASE x <= a
    BY <1>1, <2>1
  <2>2. CASE a < x /\ x <= m
    <3>1. x - a \in 1 .. k /\ elem(x) = mid[x - a]
      BY <1>1, <2>2
    <3> QED BY <3>1
  <2>3. CASE x > m
    <3>1. x - m + b - 1 \in 1 .. Len(s)
      BY <1>1, <2>3
    <3>2. elem(x) = s[x - m + b - 1]
      BY <1>1, <2>3
    <3> QED BY <3>1, <3>2
  <2> QED BY <1>1, <2>1, <2>2, <2>3
<1> HIDE DEF elem
<1>9. new \in Seq(StageRec) /\ Len(new) = Len(s) + d
  BY <1>1, <1>2, <1>4
<1>10. /\ \A x \in 1 .. a : new[x] = s[x]
       /\ \A x \in 1 .. k : new[a + x] = mid[x]
       /\ \A x \in b .. Len(s) : new[x + d] = s[x]
  BY <1>2, <1>5, <1>6, <1>7
<1>11. \A x \in 1 .. Len(s) + d : new[x] = elem(x)
  BY <1>2
<1>12. \A x \in 1 .. Len(new) : (\E y \in 1 .. Len(s) : new[x] = s[y])
                                \/ \E y \in 1 .. k : new[x] = mid[y]
  <2> SUFFICES ASSUME NEW x \in 1 .. Len(s) + d
               PROVE  (\E y \in 1 .. Len(s) : new[x] = s[y]) \/ \E y \in 1 .. k : new[x] = mid[y]
    BY <1>9
  <2>1. new[x] = elem(x)
    BY <1>11
  <2>2. (\E y \in 1 .. Len(s) : elem(x) = s[y]) \/ \E y \in 1 .. k : elem(x) = mid[y]
    BY <1>8
  <2>3. CASE \E y \in 1 .. Len(s) : elem(x) = s[y]
    BY <2>1, <2>3
  <2>4. CASE \E y \in 1 .. k : elem(x) = mid[y]
    BY <2>1, <2>4
  <2> QED BY <2>2, <2>3, <2>4
<1> QED BY <1>9, <1>10, <1>12 DEF Grown

Renamed(nest, start, n) == [i \in DOMAIN nest |-> {Offset(s, start, n) : s \in nest[i]}]

LEMMA OffsetNest ==
  ASSUME NEW nest \in Nest, NEW start \in Nat, NEW n \in Nat
  PROVE  LET new == Renamed(nest, start, n) IN
         /\ new \in Nest /\ Len(new) = Len(nest)
         /\ \A i \in 1 .. Len(nest) : new[i] = {Offset(s, start, n) : s \in nest[i]}
<1> DEFINE new == Renamed(nest, start, n)
<1>1. Len(nest) \in Nat /\ DOMAIN nest = 1 .. Len(nest)
      /\ \A i \in 1 .. Len(nest) : nest[i] \in Places
  BY DEF Nest
<1>2. \A s \in Nat : Offset(s, start, n) \in Nat
  BY DEF Offset
<1>3. \A i \in 1 .. Len(nest) :
        new[i] \in Places /\ new[i] = {Offset(s, start, n) : s \in nest[i]}
  BY <1>1, <1>2 DEF Places, Renamed
<1>4. new = [i \in 1 .. Len(nest) |-> new[i]]
  BY <1>1 DEF Renamed
<1> HIDE DEF new
<1>5. new \in Seq(Places) /\ Len(new) = Len(nest)
  BY <1>1, <1>3, <1>4
<1> QED BY <1>3, <1>5 DEF Nest, new

LEMMA InsertedStages ==
  ASSUME NEW all \in Seq(StageRec), NEW start \in Nat, NEW n \in Nat, Insertion(all, start, n)
  PROVE  /\ stages' \in Seq(StageRec) /\ Len(stages') = Len(all)
         /\ \A x \in 1 .. Len(all) :
              /\ stages'[x].compute_at = all[x].compute_at
              /\ stages'[x].moved = all[x].moved
              /\ Len(stages'[x].iters) = Len(all[x].iters)
              /\ \A i \in 1 .. Len(all[x].iters) :
                   stages'[x].iters[i] = {Offset(s, start, n) : s \in all[x].iters[i]}
<1>1. Len(all) \in Nat /\ DOMAIN all = 1 .. Len(all)
      /\ \A x \in 1 .. Len(all) : all[x] \in StageRec
  OBVIOUS
<1>2. stages' = [x \in 1 .. Len(all) |->
                  [all[x] EXCEPT !.iters = Renamed(all[x].iters, start, n)]]
  BY <1>1 DEF Insertion, Renamed
<1>3. ASSUME NEW x \in 1 .. Len(all)
      PROVE  /\ stages'[x] \in StageRec
             /\ stages'[x].compute_at = all[x].compute_at
             /\ stages'[x].moved = all[x].moved
             /\ Len(stages'[x].iters) = Len(all[x].iters)
             /\ \A i \in 1 .. Len(all[x].iters) :
                  stages'[x].iters[i] = {Offset(s, start, n) : s \in all[x].iters[i]}
  <2>1. PICK new : new = Renamed(all[x].iters, start, n)
    OBVIOUS
  <2>2. all[x] \in StageRec /\ all[x].iters \in Nest
    BY <1>1 DEF StageRec
  <2>3. /\ new \in Nest /\ Len(new) = Len(all[x].iters)
        /\ \A i \in 1 .. Len(all[x].iters) :
             new[i] = {Offset(s, start, n) : s \in all[x].iters[i]}
    BY <2>1, <2>2, OffsetNest
  <2>4. stages'[x] = [all[x] EXCEPT !.iters = new]
    BY <1>2, <2>1
  <2>5. /\ stages'[x] \in StageRec /\ stages'[x].iters = new
        /\ stages'[x].compute_at = all[x].compute_at
        /\ stages'[x].moved = all[x].moved
    BY <2>2, <2>3, <2>4 DEF StageRec
  <2> QED BY <2>3, <2>5
<1>4. stages' \in Seq(StageRec) /\ Len(stages') = Len(all)
  <2>1. stages' = [x \in 1 .. Len(all) |-> stages'[x]]
    BY <1>2
  <2> QED BY <1>1, <1>3, <2>1
<1> QED BY <1>3, <1>4

(* What the three insertions have in common: every stage keeps its kind,    *)
(* and nothing is placed in a new nest.                                     *)
Blank(stage) == \A i \in 1 .. Len(stage.iters) : stage.iters[i] = {}

Inserts(all, start, n) ==
  /\ all \in Seq(StageRec) /\ start \in Nat /\ n \in Nat
  /\ Insertion(all, start, n) /\ ApplyStageIdOffset(start, n)
  /\ \A x \in StageIds :
       /\ Offset(x, start, n) \in 1 .. Len(all)
       /\ all[Offset(x, start, n)].compute_at = stages[x].compute_at
       /\ all[Offset(x, start, n)].moved = stages[x].moved
  /\ \A y \in 1 .. Len(all) : (\E x \in StageIds : all[y] = stages[x]) \/ Blank(all[y])

(* A stage with something attached to it keeps its nest. *)
NestsKept(all, start, n) ==
  \A x \in StageIds : AttachedToStage(x) => all[Offset(x, start, n)].iters = Iters(x)

(* Stages keep their attach points when others are inserted among them.     *)
LEMMA InsertKeeps ==
  ASSUME IInv, NEW all, NEW start, NEW n, Inserts(all, start, n), NestsKept(all, start, n)
  PROVE  IInv'
<1> USE DEF Inserts, NestsKept
<1>1. /\ MapTypes' /\ MapsInverse'
      /\ \A s \in DOMAIN stageToIter' : \E x \in DOMAIN stageToIter :
           /\ s = Offset(x, start, n)
           /\ stageToIter'[s] = <<Offset(stageToIter[x][1], start, n), stageToIter[x][2]>>
  BY ApplyStageIdOffsetAgrees DEF IInv
<1>2. /\ stages' \in Seq(StageRec) /\ Len(stages') = Len(all)
      /\ \A x \in 1 .. Len(all) :
           /\ stages'[x].compute_at = all[x].compute_at
           /\ stages'[x].moved = all[x].moved
           /\ Len(stages'[x].iters) = Len(all[x].iters)
           /\ \A i \in 1 .. Len(all[x].iters) :
                stages'[x].iters[i] = {Offset(s, start, n) : s \in all[x].iters[i]}
  BY InsertedStages
<1>3. ASSUME NEW s \in DOMAIN stageToIter' PROVE PointOK(s)'
  <2>1. PICK x \in DOMAIN stageToIter :
          /\ s = Offset(x, start, n)
          /\ stageToIter'[s] = <<Offset(stageToIter[x][1], start, n), stageToIter[x][2]>>
    BY <1>1
  <2> DEFINE a == stageToIter[x][1]
             b == stageToIter[x][2]
             c == Offset(a, start, n)
  <2>2. PointOK(x) /\ Attached(stageToIter[x]) /\ stageToIter[x] \in Nat \X Nat
    BY PointsOK DEF MapsInverse, MapTypes
  <2>3. x \in StageIds /\ a \in StageIds /\ a > x /\ b \in IterIds(a) /\ stageToIter[x] = <<a, b>>
    BY <2>2 DEF PointOK
  <2>4. AttachedToStage(a)
    BY <2>2, <2>3 DEF AttachedToStage
  <2>5. c \in 1 .. Len(all) /\ all[c].iters = Iters(a) /\ all[c].compute_at = stages[a].compute_at
    BY <2>3, <2>4
  <2>6. s \in 1 .. Len(all) /\ all[s].moved = stages[x].moved
    BY <2>1, <2>3
  <2>7. c > s
    BY <2>1, <2>3, InvStageTypes DEF Offset
  <2>8. stages'[c].compute_at # "inlined" /\ b \in 1 .. Len(stages'[c].iters)
    BY <1>2, <2>2, <2>3, <2>5 DEF PointOK, IterIds
  <2>9. ~stages'[s].moved => s \in stages'[c].iters[b]
    <3>1. ~stages'[s].moved => x \in Iters(a)[b]
      BY <1>2, <2>2, <2>6 DEF PointOK, AtGoal
    <3>2. b \in 1 .. Len(all[c].iters)
      BY <2>3, <2>5 DEF IterIds
    <3> QED BY <1>2, <2>1, <2>5, <3>1, <3>2
  <2>10. stageToIter'[s][1] = c /\ stageToIter'[s][2] = b
    BY <2>1
  <2> HIDE DEF a, b, c
  <2> QED BY <1>2, <2>5, <2>6, <2>7, <2>8, <2>9, <2>10 DEF PointOK, AtGoal, StageIds, IterIds, Iters
<1> QED BY <1>1, <1>2, <1>3, PointsOKNext

LEMMA BlankStage ==
  ASSUME NEW n \in Nat
  PROVE  Blank(NewStage(n))
BY DEF Blank, NewStage

LEMMA CacheReadInserts ==
  ASSUME StagesOK, NEW t \in StageIds, NEW n \in Nat, CacheRead(t, n)
  PROVE  \E all : Inserts(all, t + 1, 1) /\ NestsKept(all, t + 1, 1)
<1>1. PICK mid : mid = <<NewStage(n)>>
  OBVIOUS
<1>2. PICK all : all = Splice(stages, t, mid, t + 1)
  OBVIOUS
<1>3. mid \in Seq(StageRec) /\ Len(mid) = 1
  <2>1. NewStage(n) \in StageRec
    BY NewStageType
  <2> QED BY <1>1, <2>1
<1>0. Blank(NewStage(n)) /\ mid[1] = NewStage(n)
  BY <1>1, BlankStage
<1>4. /\ stages \in Seq(StageRec) /\ Len(stages) \in Nat /\ t \in 1 .. Len(stages)
      /\ t \in 0 .. Len(stages) /\ t + 1 \in t + 1 .. Len(stages) + 1 /\ t + 1 \in Nat
  BY StageTypes DEF StageIds
<1>5. /\ all \in Seq(StageRec) /\ Len(all) = Len(stages) + 1
      /\ \A x \in 1 .. t : all[x] = stages[x]
      /\ \A x \in t + 1 .. Len(stages) : all[x + 1] = stages[x]
      /\ \A x \in 1 .. Len(all) : (\E y \in 1 .. Len(stages) : all[x] = stages[y])
                                 \/ \E y \in 1 .. 1 : all[x] = mid[y]
  <2>1. 1 \in Nat /\ 1 = 1 + t + 1 - (t + 1)
    BY <1>4
  <2>2. Grown(all, stages, mid, t, t + 1, 1, 1)
    BY <1>2, <1>3, <1>4, <2>1, SpliceStages
  <2> QED BY <2>2 DEF Grown
<1>6. Insertion(all, t + 1, 1) /\ ApplyStageIdOffset(t + 1, 1)
  BY <1>1, <1>2 DEF CacheRead
<1>7. \A x \in StageIds : /\ Offset(x, t + 1, 1) \in 1 .. Len(all)
                          /\ all[Offset(x, t + 1, 1)] = stages[x]
  BY <1>4, <1>5 DEF Offset, StageIds
<1>8. all \in Seq(StageRec) /\ t + 1 \in Nat /\ 1 \in Nat
  BY <1>4, <1>5
<1>9. \A x \in StageIds :
        /\ Offset(x, t + 1, 1) \in 1 .. Len(all)
        /\ all[Offset(x, t + 1, 1)].compute_at = stages[x].compute_at
        /\ all[Offset(x, t + 1, 1)].moved = stages[x].moved
        /\ AttachedToStage(x) => all[Offset(x, t + 1, 1)].iters = Iters(x)
  BY <1>7 DEF Iters
<1>10. \A y \in 1 .. Len(all) : (\E x \in StageIds : all[y] = stages[x]) \/ Blank(all[y])
  <2>1. \A y \in 1 .. 1 : Blank(mid[y])
    BY <1>0
  <2> QED BY <1>5, <2>1 DEF StageIds
<1> QED BY <1>6, <1>8, <1>9, <1>10 DEF Inserts, NestsKept

LEMMA CacheWriteInserts ==
  ASSUME StagesOK, NEW t \in StageIds, NEW n \in Nat, NEW added \in Nat \ {0},
         CacheWrite(t, n, added)
  PROVE  \E all : Inserts(all, t, added) /\ NestsKept(all, t, added)
<1>1. PICK mid : mid = [x \in 1 .. added |-> NewStage(n)]
  OBVIOUS
<1>2. PICK all : all = Splice(stages, t, mid, t + 1)
  OBVIOUS
<1>3. mid \in Seq(StageRec) /\ Len(mid) = added /\ mid[added] = NewStage(n)
  <2>1. NewStage(n) \in StageRec
    BY NewStageType
  <2> QED BY <1>1, <2>1
<1>0. Blank(NewStage(n)) /\ \A x \in 1 .. added : mid[x] = NewStage(n)
  BY <1>1, BlankStage
<1>4. /\ stages \in Seq(StageRec) /\ Len(stages) \in Nat /\ t \in 1 .. Len(stages)
      /\ t \in 0 .. Len(stages) /\ t + 1 \in t + 1 .. Len(stages) + 1
  BY StageTypes DEF StageIds
<1>5. /\ all \in Seq(StageRec) /\ Len(all) = Len(stages) + added
      /\ \A x \in 1 .. t : all[x] = stages[x]
      /\ \A x \in 1 .. added : all[t + x] = mid[x]
      /\ \A x \in t + 1 .. Len(stages) : all[x + added] = stages[x]
      /\ \A x \in 1 .. Len(all) : (\E y \in 1 .. Len(stages) : all[x] = stages[y])
                                 \/ \E y \in 1 .. added : all[x] = mid[y]
  <2>1. added \in Nat /\ added = added + t + 1 - (t + 1)
    BY <1>4
  <2>2. Grown(all, stages, mid, t, t + 1, added, added)
    BY <1>2, <1>3, <1>4, <2>1, SpliceStages
  <2> QED BY <2>2 DEF Grown
<1>6. Insertion(all, t, added) /\ ApplyStageIdOffset(t, added)
  BY <1>1, <1>2 DEF CacheWrite
<1>7. /\ ~AttachedToStage(t)
      /\ stages[t].compute_at = NewStage(n).compute_at /\ stages[t].moved = NewStage(n).moved
  BY DEF CacheWrite, NewStage
<1>8. all[t + added] = NewStage(n)
  BY <1>3, <1>5
<1>9. ASSUME NEW x \in StageIds
      PROVE  /\ Offset(x, t, added) \in 1 .. Len(all)
             /\ all[Offset(x, t, added)].compute_at = stages[x].compute_at
             /\ all[Offset(x, t, added)].moved = stages[x].moved
             /\ AttachedToStage(x) => all[Offset(x, t, added)].iters = Iters(x)
  <2>1. CASE x = t
    BY <1>4, <1>5, <1>7, <1>8, <2>1 DEF Offset
  <2>2. CASE x # t
    <3>1. Offset(x, t, added) \in 1 .. Len(all) /\ all[Offset(x, t, added)] = stages[x]
      <4>1. x \in 1 .. Len(stages) /\ added \in Nat
        BY DEF StageIds
      <4>2. CASE x < t
        <5>1. Offset(x, t, added) = x
          BY <1>4, <4>1, <4>2 DEF Offset
        <5>2. x \in 1 .. t /\ x \in 1 .. Len(all)
          BY <1>4, <1>5, <4>1, <4>2
        <5>3. all[x] = stages[x]
          BY <1>5, <5>2
        <5> QED BY <5>1, <5>2, <5>3
      <4>3. CASE x > t
        <5>1. Offset(x, t, added) = x + added /\ x \in t + 1 .. Len(stages)
          BY <1>4, <4>1, <4>3 DEF Offset
        <5>2. all[x + added] = stages[x] /\ x + added \in 1 .. Len(all)
          BY <1>4, <1>5, <4>1, <5>1
        <5> QED BY <5>1, <5>2
      <4> QED BY <1>4, <2>2, <4>1, <4>2, <4>3
    <3> QED BY <3>1 DEF Iters
  <2> QED BY <2>1, <2>2
<1>10. all \in Seq(StageRec) /\ t \in Nat /\ added \in Nat
  BY <1>4, <1>5
<1>11. \A y \in 1 .. Len(all) : (\E x \in StageIds : all[y] = stages[x]) \/ Blank(all[y])
  BY <1>0, <1>5 DEF StageIds
<1> QED BY <1>6, <1>9, <1>10, <1>11 DEF Inserts, NestsKept

LEMMA RfactorInserts ==
  ASSUME StagesOK, NEW t \in StageIds, NEW n \in Nat, Rfactor(t, n)
  PROVE  \E all : Inserts(all, t, 1) /\ (~AttachedToStage(t) => NestsKept(all, t, 1))
<1>1. PICK moved : moved = [stages[t] EXCEPT !.iters = NewStage(n).iters]
  OBVIOUS
<1>2. PICK mid : mid = <<NewStage(Len(Iters(t))), moved>>
  OBVIOUS
<1>3. PICK all : all = Splice(stages, t - 1, mid, t + 1)
  OBVIOUS
<1>4. /\ moved \in StageRec /\ moved.compute_at = stages[t].compute_at
      /\ moved.moved = stages[t].moved
  <2>1. NewStage(n).iters \in Nest /\ stages[t] \in StageRec
    BY NewStageType, StageTypes DEF StageRec
  <2> QED BY <1>1, <2>1 DEF StageRec
<1>5. mid \in Seq(StageRec) /\ Len(mid) = 2 /\ mid[2] = moved
  <2>1. NewStage(Len(Iters(t))) \in StageRec
    BY NewStageType, StageTypes
  <2> QED BY <1>2, <1>4, <2>1
<1>0. \A x \in 1 .. 2 : Blank(mid[x])
  <2>1. Blank(NewStage(n)) /\ Blank(NewStage(Len(Iters(t))))
    BY BlankStage, StageTypes
  <2>2. moved.iters = NewStage(n).iters
    BY <1>1, StageTypes DEF StageRec
  <2>3. Blank(moved)
    BY <2>1, <2>2 DEF Blank
  <2>4. mid[1] = NewStage(Len(Iters(t))) /\ mid[2] = moved /\ \A x \in 1 .. 2 : x = 1 \/ x = 2
    BY <1>2
  <2> QED BY <2>1, <2>3, <2>4
<1>6. /\ stages \in Seq(StageRec) /\ Len(stages) \in Nat /\ t \in 1 .. Len(stages)
      /\ t - 1 \in 0 .. Len(stages) /\ t + 1 \in (t - 1) + 1 .. Len(stages) + 1
  BY StageTypes DEF StageIds
<1>7. /\ all \in Seq(StageRec) /\ Len(all) = Len(stages) + 1
      /\ \A x \in 1 .. t - 1 : all[x] = stages[x]
      /\ all[t + 1] = moved
      /\ \A x \in t + 1 .. Len(stages) : all[x + 1] = stages[x]
      /\ \A x \in 1 .. Len(all) : (\E y \in 1 .. Len(stages) : all[x] = stages[y])
                                 \/ \E y \in 1 .. 2 : all[x] = mid[y]
  <2>1. 1 \in Nat /\ 2 \in Nat /\ 1 = 2 + (t - 1) + 1 - (t + 1) /\ (t - 1) + 2 = t + 1
    BY <1>6
  <2>2. /\ all \in Seq(StageRec) /\ Len(all) = Len(stages) + 1
        /\ \A x \in 1 .. t - 1 : all[x] = stages[x]
        /\ \A x \in 1 .. 2 : all[(t - 1) + x] = mid[x]
        /\ \A x \in t + 1 .. Len(stages) : all[x + 1] = stages[x]
        /\ \A x \in 1 .. Len(all) : (\E y \in 1 .. Len(stages) : all[x] = stages[y])
                                   \/ \E y \in 1 .. 2 : all[x] = mid[y]
    <3>1. Grown(all, stages, mid, t - 1, t + 1, 2, 1)
      BY <1>3, <1>5, <1>6, <2>1, SpliceStages
    <3> QED BY <3>1 DEF Grown
  <2>3. all[t + 1] = moved
    BY <1>5, <2>1, <2>2
  <2> QED BY <2>2, <2>3
<1>8. Insertion(all, t, 1) /\ ApplyStageIdOffset(t, 1)
  BY <1>1, <1>2, <1>3 DEF Rfactor
<1>9. ASSUME NEW x \in StageIds
      PROVE  /\ Offset(x, t, 1) \in 1 .. Len(all)
             /\ all[Offset(x, t, 1)].compute_at = stages[x].compute_at
             /\ all[Offset(x, t, 1)].moved = stages[x].moved
             /\ x # t => all[Offset(x, t, 1)].iters = Iters(x)
  <2>1. CASE x = t
    BY <1>4, <1>6, <1>7, <2>1 DEF Offset
  <2>2. CASE x # t
    <3>1. Offset(x, t, 1) \in 1 .. Len(all) /\ all[Offset(x, t, 1)] = stages[x]
      BY <1>6, <1>7, <2>2 DEF Offset, StageIds
    <3> QED BY <3>1 DEF Iters
  <2> QED BY <2>1, <2>2
<1>10. all \in Seq(StageRec) /\ t \in Nat /\ 1 \in Nat
  BY <1>6, <1>7
<1>11. \A y \in 1 .. Len(all) : (\E x \in StageIds : all[y] = stages[x]) \/ Blank(all[y])
  BY <1>0, <1>7 DEF StageIds
<1> QED BY <1>8, <1>9, <1>10, <1>11 DEF Inserts, NestsKept

-----------------------------------------------------------------------------
(* No stage of an initial state is attached. *)
LEMMA InitHolds == Init => IInv
<1> SUFFICES ASSUME Init PROVE IInv
  OBVIOUS
<1>1. PICK m \in 1 .. MaxStages, n \in [1 .. MaxStages -> OpIters] :
        stages = [t \in 1 .. m |-> NewStage(n[t])]
  BY DEF Init
<1>2. \A t \in 1 .. m : NewStage(n[t]) \in StageRec
  <2>1. \A t \in 1 .. m : n[t] \in Nat
    <3>1. OpIters \subseteq Nat /\ MaxStages \in Nat
      BY LoopStateAssumption
    <3>2. \A t \in 1 .. m : t \in 1 .. MaxStages
      BY <3>1
    <3> QED BY <3>1, <3>2
  <2> QED BY <2>1, NewStageType
<1>3. stages \in Seq(StageRec)
  BY <1>1, <1>2, LoopStateAssumption
<1>4. DOMAIN stageToIter = {} /\ DOMAIN iterToStages = {}
  BY DEF Init
<1> QED BY <1>3, <1>4, PointsOK DEF MapTypes, MapsInverse

LEMMA QuietStepKeeps ==
  ASSUME IInv, NEW t \in StageIds, OneStageStep(t) \/ PlacementStep(t) \/ InsertionStep(t)
  PROVE  IInv'
<1>1. CASE OneStageStep(t)
  <2>1. CASE \E i \in IterIds(t), n \in 1 .. MaxIters : Split(t, i, n)
    BY <2>1, SplitKeeps, LoopStateAssumption
  <2>2. CASE \E i, j \in IterIds(t) : i <= j /\ Fuse(t, i, j)
    BY <2>2, FuseKeeps
  <2>3. CASE \E p \in [IterIds(t) -> IterIds(t)] : IsInjective(p) /\ Reorder(t, p)
    BY <2>3, ReorderKeeps
  <2>4. CASE SkipRegion(t)
    BY <2>4, DetachStepsKeep
  <2> QED BY <1>1, <2>1, <2>2, <2>3, <2>4 DEF OneStageStep
<1>2. CASE PlacementStep(t)
  <2>1. CASE \E u \in StageIds : \E i \in IterIds(u) : ComputeAt(t, u, i)
    BY <2>1, ComputeAtKeeps
  <2>2. CASE ComputeInline(t)
    BY <2>2, DetachStepsKeep
  <2>3. CASE ComputeRoot(t)
    BY <2>3, DetachStepsKeep
  <2> QED BY <1>2, <2>1, <2>2, <2>3 DEF PlacementStep
<1>3. CASE InsertionStep(t)
  <2>1. OpIters \subseteq Nat /\ StagesOK
    BY LoopStateAssumption DEF IInv
  <2>2. CASE \E n \in OpIters : CacheRead(t, n)
    BY <2>1, <2>2, CacheReadInserts, InsertKeeps
  <2>3. CASE \E n \in OpIters, added \in 1 .. 2 : CacheWrite(t, n, added)
    <3>1. \A added \in 1 .. 2 : added \in Nat \ {0}
      OBVIOUS
    <3> QED BY <2>1, <2>3, <3>1, CacheWriteInserts, InsertKeeps
  <2> QED BY <1>3, <2>2, <2>3 DEF InsertionStep
<1> QED BY <1>1, <1>2, <1>3

LEMMA ReplacingStepKeeps ==
  ASSUME IInv, NEW t \in StageIds, ReplacingStep(t), ~AttachedToStage(t)
  PROVE  IInv'
<1>1. CASE FuseNone(t)
  BY <1>1, FuseNoneKeeps
<1>2. CASE \E n \in OpIters : Rfactor(t, n)
  <2>1. OpIters \subseteq Nat /\ StagesOK
    BY LoopStateAssumption DEF IInv
  <2> QED BY <1>2, <2>1, RfactorInserts, InsertKeeps
<1> QED BY <1>1, <1>2 DEF ReplacingStep

(* Until a nest is replaced with stages attached to it. *)
DInv == dropped \in BOOLEAN /\ (dropped \/ IInv)

LEMMA NextKeeps == DInv /\ [Next]_vars => DInv'
<1> SUFFICES ASSUME DInv, [Next]_vars PROVE DInv'
  OBVIOUS
<1>1. ASSUME NEW t \in StageIds, OneStageStep(t) \/ PlacementStep(t) \/ InsertionStep(t),
             dropped' = dropped
      PROVE  DInv'
  BY <1>1, QuietStepKeeps DEF DInv
<1>2. ASSUME NEW t \in StageIds, ReplacingStep(t), dropped' = (dropped \/ AttachedToStage(t))
      PROVE  DInv'
  <2>1. CASE dropped \/ AttachedToStage(t)
    <3>1. dropped' = TRUE
      BY <1>2, <2>1
    <3> QED BY <3>1 DEF DInv
  <2>2. CASE ~dropped /\ ~AttachedToStage(t)
    <3>1. dropped' = FALSE /\ IInv
      BY <1>2, <2>2 DEF DInv
    <3>2. IInv'
      BY <1>2, <2>2, <3>1, ReplacingStepKeeps
    <3> QED BY <3>1, <3>2 DEF DInv
  <2> QED BY <2>1, <2>2
<1>3. CASE UNCHANGED vars
  <2>1. dropped' = dropped
    BY <1>3 DEF vars
  <2>2. IInv => IInv'
    BY <1>3 DEF vars, attach_map, IInv, StagesOK, MapTypes, MapsInverse, EveryPointExists,
                EveryGoalKept, AtGoal, Attached, StageIds, Iters, IterIds
  <2> QED BY <2>1, <2>2 DEF DInv
<1> QED BY <1>1, <1>2, <1>3 DEF Next

-----------------------------------------------------------------------------
(* The kinds.  A stage with an attach point is of kind iter, and whatever  *)
(* is placed at an iterator has an attach point: each step that places a   *)
(* stage or takes it away writes the nest, the kind and the map together.  *)
(* A replaced nest does not matter here, so this holds without IInv.       *)

KindOK == \A s \in DOMAIN stageToIter : stages[s].compute_at = "iter"

PlacedOK == \A t \in StageIds : \A i \in IterIds(t) : Iters(t)[i] \subseteq DOMAIN stageToIter

KInv == StagesOK /\ KindOK /\ PlacedOK

(* A nest that holds only what is attached somewhere keeps both. *)
LEMMA NestKinds ==
  ASSUME KInv, NEW t \in StageIds, NEW nest \in Nest, SetIters(t, nest),
         DOMAIN stageToIter' = DOMAIN stageToIter,
         \A i \in 1 .. Len(nest) : nest[i] \subseteq DOMAIN stageToIter
  PROVE  KInv'
<1>1. /\ stages' \in Seq(StageRec) /\ Len(stages') = Len(stages)
      /\ \A x \in 1 .. Len(stages) :
           /\ stages'[x].iters = (IF x = t THEN nest ELSE stages[x].iters)
           /\ stages'[x].compute_at = stages[x].compute_at
  BY SetItersStages DEF KInv
<1>2. DOMAIN stageToIter \subseteq 1 .. Len(stages)
  BY DEF KInv, StagesOK, StageIds
<1>3. KindOK'
  BY <1>1, <1>2 DEF KInv, KindOK
<1>4. PlacedOK'
  BY <1>1 DEF KInv, PlacedOK, StageIds, IterIds, Iters
<1>5. StagesOK'
  BY <1>1, <1>2 DEF StagesOK, StageIds
<1> QED BY <1>3, <1>4, <1>5 DEF KInv

LEMMA UpdateItersDomain ==
  ASSUME NEW t, NEW to, UpdateIters(t, to)
  PROVE  DOMAIN stageToIter' = DOMAIN stageToIter
BY DEF UpdateIters

LEMMA SplitKinds ==
  ASSUME KInv, NEW t \in StageIds, NEW i \in IterIds(t), NEW n \in Nat, Split(t, i, n)
  PROVE  KInv'
<1>1. PICK new : new = Divided(Iters(t), i, n)
  OBVIOUS
<1>2. Iters(t) \in Nest /\ i \in 1 .. Len(Iters(t))
  BY StageTypes DEF KInv, IterIds
<1>3. /\ new \in Nest
      /\ \A x \in 1 .. Len(new) : \A s \in new[x] : \E y \in 1 .. Len(Iters(t)) : s \in Iters(t)[y]
  BY <1>1, <1>2, SplitNest
<1>4. \A x \in 1 .. Len(new) : new[x] \subseteq DOMAIN stageToIter
  BY <1>3 DEF KInv, PlacedOK, IterIds
<1>5. SetIters(t, new) /\ DOMAIN stageToIter' = DOMAIN stageToIter
  BY <1>1, UpdateItersDomain DEF Split
<1> QED BY <1>3, <1>4, <1>5, NestKinds

LEMMA FuseKinds ==
  ASSUME KInv, NEW t \in StageIds, NEW i \in IterIds(t), NEW j \in IterIds(t), i <= j,
         Fuse(t, i, j)
  PROVE  KInv'
<1>1. PICK new : new = Fused(Iters(t), i, j)
  OBVIOUS
<1>2. Iters(t) \in Nest /\ i \in 1 .. Len(Iters(t)) /\ j \in i .. Len(Iters(t))
  BY StageTypes DEF KInv, IterIds
<1>3. /\ new \in Nest
      /\ \A x \in 1 .. Len(new) : \A s \in new[x] : \E y \in 1 .. Len(Iters(t)) : s \in Iters(t)[y]
  BY <1>1, <1>2, FuseNest
<1>4. \A x \in 1 .. Len(new) : new[x] \subseteq DOMAIN stageToIter
  BY <1>3 DEF KInv, PlacedOK, IterIds
<1>5. SetIters(t, new) /\ DOMAIN stageToIter' = DOMAIN stageToIter
  BY <1>1, UpdateItersDomain DEF Fuse
<1> QED BY <1>3, <1>4, <1>5, NestKinds

LEMMA FuseNoneKinds ==
  ASSUME KInv, NEW t \in StageIds, FuseNone(t)
  PROVE  KInv'
<1>1. PICK nest : nest = NewStage(1).iters
  OBVIOUS
<1>2. nest \in Nest
  BY <1>1, NewStageType DEF StageRec
<1>3. \A i \in 1 .. Len(nest) : nest[i] \subseteq DOMAIN stageToIter
  BY <1>1 DEF NewStage
<1>4. SetIters(t, nest) /\ DOMAIN stageToIter' = DOMAIN stageToIter
  BY <1>1 DEF FuseNone, attach_map
<1> QED BY <1>2, <1>3, <1>4, NestKinds

LEMMA ReorderKinds ==
  ASSUME KInv, NEW t \in StageIds, NEW p \in [IterIds(t) -> IterIds(t)], Reorder(t, p)
  PROVE  KInv'
<1>1. /\ stageToIter' = stageToIter
      /\ stages' \in Seq(StageRec) /\ Len(stages') = Len(stages)
      /\ \A x \in StageIds : /\ stages'[x].compute_at = stages[x].compute_at
                             /\ Len(stages'[x].iters) = Len(stages[x].iters)
                             /\ x # t => stages'[x].iters = stages[x].iters
      /\ \A i \in IterIds(t) : stages'[t].iters[i] = Iters(t)[p[i]]
  BY ReorderStages DEF KInv
<1>2. StagesOK'
  BY <1>1 DEF KInv, StagesOK, StageIds
<1>3. KindOK'
  BY <1>1 DEF KInv, StagesOK, KindOK
<1>4. ASSUME NEW x \in StageIds, NEW i \in 1 .. Len(stages'[x].iters)
      PROVE  stages'[x].iters[i] \subseteq DOMAIN stageToIter
  <2>1. CASE x = t
    <3>1. i \in IterIds(t) /\ p[i] \in IterIds(t) /\ stages'[t].iters[i] = Iters(t)[p[i]]
      BY <1>1, <2>1 DEF IterIds, Iters
    <3> QED BY <2>1, <3>1 DEF KInv, PlacedOK
  <2>2. CASE x # t
    BY <1>1, <2>2 DEF KInv, PlacedOK, IterIds, Iters
  <2> QED BY <2>1, <2>2
<1>5. PlacedOK'
  BY <1>1, <1>4 DEF PlacedOK, StageIds, IterIds, Iters
<1> QED BY <1>2, <1>3, <1>5 DEF KInv

(* A stage loses its place and its entry at once. *)
LEMMA DetachKinds ==
  ASSUME KInv, NEW s \in StageIds, SkipRegion(s) \/ ComputeInline(s) \/ ComputeRoot(s)
  PROVE  KInv'
<1>1. PICK kind \in Kinds : Placed(s, kind, 0, 0)
  BY StageTypes DEF SkipRegion, ComputeInline, ComputeRoot, Kinds, KInv, StageRec
<1>2. DOMAIN stageToIter' = DOMAIN stageToIter \ {s}
  BY DEF SkipRegion, ComputeInline, ComputeRoot, DeleteStage, Without, Restrict
<1>3. /\ stages' \in Seq(StageRec) /\ Len(stages') = Len(stages)
      /\ \A x \in StageIds :
           /\ Len(stages'[x].iters) = Len(Iters(x))
           /\ \A j \in IterIds(x) : \A y \in stages'[x].iters[j] :
                IF y = s THEN x = 0 /\ j = 0 ELSE y \in Iters(x)[j]
           /\ stages'[x].compute_at = IF x = s THEN kind ELSE stages[x].compute_at
  BY <1>1, PlacedStages DEF KInv
<1>4. \A x \in StageIds : x # 0
  BY StageTypes DEF KInv, StageIds
<1>5. KindOK'
  BY <1>2, <1>3 DEF KInv, StagesOK, KindOK
<1>6. PlacedOK'
  BY <1>2, <1>3, <1>4 DEF KInv, PlacedOK, StageIds, IterIds, Iters
<1>7. StagesOK'
  BY <1>2, <1>3 DEF KInv, StagesOK, StageIds
<1> QED BY <1>5, <1>6, <1>7 DEF KInv

(* compute_at gives the stage its place, its kind and its entry at once. *)
LEMMA ComputeAtKinds ==
  ASSUME KInv, NEW s \in StageIds, NEW t \in StageIds, NEW i \in IterIds(t), ComputeAt(s, t, i)
  PROVE  KInv'
<1>1. Placed(s, "iter", t, i) /\ "iter" \in Kinds /\ t \in Nat /\ i \in Nat
  BY StageTypes DEF ComputeAt, Kinds, KInv, IterIds
<1>2. DOMAIN stageToIter' = DOMAIN stageToIter \cup {s}
  BY DEF ComputeAt, SetComputeAtIter
<1>3. /\ stages' \in Seq(StageRec) /\ Len(stages') = Len(stages)
      /\ \A x \in StageIds :
           /\ Len(stages'[x].iters) = Len(Iters(x))
           /\ \A j \in IterIds(x) : \A y \in stages'[x].iters[j] :
                IF y = s THEN x = t /\ j = i ELSE y \in Iters(x)[j]
           /\ stages'[x].compute_at = IF x = s THEN "iter" ELSE stages[x].compute_at
  BY <1>1, PlacedStages DEF KInv
<1>4. KindOK'
  BY <1>2, <1>3 DEF KInv, StagesOK, KindOK
<1>5. PlacedOK'
  BY <1>2, <1>3 DEF KInv, PlacedOK, StageIds, IterIds, Iters
<1>6. StagesOK'
  BY <1>2, <1>3 DEF KInv, StagesOK, StageIds
<1> QED BY <1>4, <1>5, <1>6 DEF KInv

(* An insertion renames stages in the nests and in the map alike. *)
LEMMA InsertKinds ==
  ASSUME KInv, NEW all, NEW start, NEW n, Inserts(all, start, n)
  PROVE  KInv'
<1> USE DEF Inserts
<1>1. /\ \A x \in DOMAIN stageToIter : Offset(x, start, n) \in DOMAIN stageToIter'
      /\ \A s \in DOMAIN stageToIter' : \E x \in DOMAIN stageToIter : s = Offset(x, start, n)
  <2>1. DOMAIN stageToIter' = {Offset(x, start, n) : x \in DOMAIN stageToIter}
    BY DEF ApplyStageIdOffset
  <2> QED BY <2>1
<1>2. /\ stages' \in Seq(StageRec) /\ Len(stages') = Len(all)
      /\ \A x \in 1 .. Len(all) :
           /\ stages'[x].compute_at = all[x].compute_at
           /\ Len(stages'[x].iters) = Len(all[x].iters)
           /\ \A i \in 1 .. Len(all[x].iters) :
                stages'[x].iters[i] = {Offset(s, start, n) : s \in all[x].iters[i]}
  BY InsertedStages
<1>3. ASSUME NEW s \in DOMAIN stageToIter' PROVE stages'[s].compute_at = "iter"
  <2>1. PICK x \in DOMAIN stageToIter : s = Offset(x, start, n)
    BY <1>1
  <2>2. x \in StageIds /\ stages[x].compute_at = "iter"
    BY DEF KInv, StagesOK, KindOK
  <2>3. s \in 1 .. Len(all) /\ all[s].compute_at = stages[x].compute_at
    BY <2>1, <2>2
  <2> QED BY <1>2, <2>2, <2>3
<1>4. ASSUME NEW x \in 1 .. Len(all), NEW i \in 1 .. Len(stages'[x].iters),
             NEW y \in stages'[x].iters[i]
      PROVE  y \in DOMAIN stageToIter'
  <2>1. i \in 1 .. Len(all[x].iters)
    BY <1>2
  <2>2. PICK s \in all[x].iters[i] : y = Offset(s, start, n)
    BY <1>2, <2>1
  <2>3. ~Blank(all[x])
    BY <2>1, <2>2 DEF Blank
  <2>4. PICK t \in StageIds : all[x] = stages[t]
    BY <2>3
  <2>5. s \in DOMAIN stageToIter
    BY <2>1, <2>2, <2>4 DEF KInv, PlacedOK, IterIds, Iters
  <2> QED BY <1>1, <2>2, <2>5
<1>5. KindOK'
  BY <1>3 DEF KindOK
<1>6. PlacedOK'
  BY <1>2, <1>4 DEF PlacedOK, StageIds, IterIds, Iters
<1>7. StagesOK'
  BY <1>1, <1>2 DEF KInv, StagesOK, StageIds
<1> QED BY <1>5, <1>6, <1>7 DEF KInv

LEMMA InitKinds == Init => KInv
<1> SUFFICES ASSUME Init PROVE KInv
  OBVIOUS
<1>1. DOMAIN stageToIter = {}
  BY DEF Init
<1>2. PICK m \in 1 .. MaxStages, n \in [1 .. MaxStages -> OpIters] :
        stages = [t \in 1 .. m |-> NewStage(n[t])]
  BY DEF Init
<1>3. ASSUME NEW t \in StageIds, NEW i \in IterIds(t) PROVE Iters(t)[i] = {}
  <2>1. MaxStages \in Nat /\ OpIters \subseteq Nat
    BY LoopStateAssumption
  <2>2. t \in 1 .. m /\ t \in 1 .. MaxStages
    BY <1>2, <2>1 DEF StageIds
  <2>3. n[t] \in Nat /\ Iters(t) = NewStage(n[t]).iters
    BY <1>2, <2>1, <2>2 DEF Iters
  <2>4. i \in 1 .. n[t]
    BY <2>3, NewStageType DEF IterIds
  <2> QED BY <2>3, <2>4 DEF NewStage
<1> QED BY <1>1, <1>3, InitHolds DEF KInv, IInv, KindOK, PlacedOK

LEMMA NextKinds == KInv /\ [Next]_vars => KInv'
<1> SUFFICES ASSUME KInv, [Next]_vars PROVE KInv'
  OBVIOUS
<1>1. ASSUME NEW t \in StageIds, OneStageStep(t) PROVE KInv'
  BY <1>1, SplitKinds, FuseKinds, ReorderKinds, DetachKinds, LoopStateAssumption
  DEF OneStageStep
<1>2. ASSUME NEW s \in StageIds, PlacementStep(s) PROVE KInv'
  BY <1>2, ComputeAtKinds, DetachKinds DEF PlacementStep
<1>3. ASSUME NEW t \in StageIds, InsertionStep(t) \/ ReplacingStep(t) PROVE KInv'
  <2>1. OpIters \subseteq Nat /\ \A added \in 1 .. 2 : added \in Nat \ {0}
    BY LoopStateAssumption
  <2>2. CASE FuseNone(t)
    BY <2>2, FuseNoneKinds
  <2>3. CASE \E n \in OpIters : CacheRead(t, n)
    BY <2>1, <2>3, CacheReadInserts, InsertKinds DEF KInv
  <2>4. CASE \E n \in OpIters, added \in 1 .. 2 : CacheWrite(t, n, added)
    BY <2>1, <2>4, CacheWriteInserts, InsertKinds DEF KInv
  <2>5. CASE \E n \in OpIters : Rfactor(t, n)
    BY <2>1, <2>5, RfactorInserts, InsertKinds DEF KInv
  <2> QED BY <1>3, <2>2, <2>3, <2>4, <2>5 DEF InsertionStep, ReplacingStep
<1>4. CASE UNCHANGED vars
  BY <1>4 DEF vars, attach_map, KInv, StagesOK, KindOK, PlacedOK, StageIds, Iters, IterIds
<1> QED BY <1>1, <1>2, <1>3, <1>4 DEF Next

(* The kinds of the stages and the map of attach points never disagree:    *)
(* what the sketch rules assert when they look a stage of kind iter up.    *)
THEOREM KindsStayInLine == Spec => []KindMatchesMap
<1>1. KInv => KindMatchesMap
  BY DEF KInv, KindOK, PlacedOK, KindMatchesMap
<1> QED BY <1>1, InitKinds, NextKinds, PTL DEF Spec

-----------------------------------------------------------------------------
LEMMA Invariance == Spec => []DInv
<1>1. Init => DInv
  <2>1. Init => dropped = FALSE
    BY DEF Init
  <2> QED BY <2>1, InitHolds DEF DInv
<1> QED BY <1>1, NextKeeps, PTL DEF Spec

(* Until a nest is replaced with stages attached to it, the two maps stay  *)
(* inverse and an entry exists exactly for an iterator with stages: what   *)
(* fuse, compute_inline and the search rules ask is right.                 *)
THEOREM MapsStayInverse == Spec => []MapsAgree
<1>1. DInv => MapsAgree
  BY DEF DInv, IInv, MapsAgree
<1> QED BY <1>1, Invariance, PTL

(* Until a nest is replaced with stages attached to it, every attach point *)
(* is an existing iterator of a later stage that is not inlined, after any *)
(* number of splits, fuses, reorders, insertions and replacements of nests *)
(* that nothing is attached to.                                            *)
THEOREM AttachPointsStay == Spec => []AttachPointsExist
<1>1. DInv => AttachPointsExist
  BY DEF DInv, IInv, AttachPointsExist
<1> QED BY <1>1, Invariance, PTL

(* As long as no nest is replaced with stages attached to it, a stage whose *)
(* target nobody reorders stays at the iterator it was attached to.        *)
THEOREM AttachedIteratorKept == Spec => []AttachFollowsIterator
<1>1. DInv => AttachFollowsIterator
  BY DEF DInv, IInv, AttachFollowsIterator
<1> QED BY <1>1, Invariance, PTL
=============================================================================
