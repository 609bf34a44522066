--------------------------- MODULE HistoryBestProofs ---------------------------
(***************************************************************************)
(* Proofs about RecordLog and HistoryBest, for every set of records, size  *)
(* of a batch, number of crashes, contexts, targets and workloads: first   *)
(* the file, then what load() makes of it, then the chain of contexts.     *)
(***************************************************************************)
EXTENDS HistoryBest, DispatchProofs

-----------------------------------------------------------------------------
(* The file.                                                                *)

Texts == [id : Nat \ {0}, whole : BOOLEAN]
Lines == Seq(Texts) \ {<<>>}

(* Records whose callback returned or died. *)
Done == Len(saved) - Len(pending)

LogTypes ==
  /\ saved \in Seq(Records) /\ crashes \in Nat /\ newline \in BOOLEAN
  /\ log \in Seq(Lines)
  /\ pending \in Seq(Nat) /\ Len(pending) <= Len(saved)
  /\ \A i \in 1 .. Len(pending) : pending[i] = Done + i

(* Texts enter the file in the order of their ids, and only the last one    *)
(* may belong to a record that is not done.                                 *)
InOrder ==
  /\ ~newline => log # <<>>
  /\ Begun => ~newline
  /\ log # <<>> => LastText.id <= Done \/ Begun
  /\ \A l \in DOMAIN log :
       log[l][1].id <= Done \/ (Begun /\ l = Len(log) /\ Len(log[l]) = 1)
  /\ \A k, l \in DOMAIN log : k < l => log[k][1].id < log[l][1].id

(* The file ends in what a dead process has left, or in a text behind it.   *)
Torn == ~newline /\ ~(Begun /\ Len(Last(log)) = 1)

(* Records that are done, survived their callback and head no line.         *)
Unread == (1 .. Done) \ (lost \cup Range(ReadIds))

(* Each crash leaves at most one such end, and each such end hides at most  *)
(* one record.                                                              *)
CrashesPay == Cardinality(Unread) + (IF Torn THEN 1 ELSE 0) <= crashes

(* Before the first crash a line is one whole text, save the one begun.     *)
Undamaged ==
  crashes = 0 =>
    /\ Begun \/ newline
    /\ \A l \in DOMAIN log : log[l][1].whole \/ (Begun /\ l = Len(log))

LogInv == LogTypes /\ InOrder /\ CrashesPay /\ Undamaged

(* What the types say, without sequences of sequences.                      *)
LEMMA LogShape ==
  ASSUME LogTypes
  PROVE  /\ Len(log) \in Nat /\ DOMAIN log = 1 .. Len(log) /\ (log # <<>> <=> Len(log) > 0)
         /\ Len(pending) \in Nat /\ Len(saved) \in Nat /\ Done \in Nat
         /\ pending # <<>> => Len(pending) > 0 /\ Head(pending) = Done + 1
         /\ \A l \in 1 .. Len(log) : /\ log[l] \in Seq(Texts) /\ Len(log[l]) \in Nat
                                     /\ Len(log[l]) >= 1
                                     /\ \A x \in 1 .. Len(log[l]) : log[l][x] \in Texts
         /\ Last(log) = log[Len(log)]
         /\ LastText = log[Len(log)][Len(log[Len(log)])]
         /\ Range(ReadIds) = {log[l][1].id : l \in 1 .. Len(log)}
         /\ IsFiniteSet(Unread) /\ Cardinality(Unread) \in Nat
<1>1. /\ Len(log) \in Nat /\ DOMAIN log = 1 .. Len(log) /\ (log # <<>> <=> Len(log) > 0)
      /\ \A l \in 1 .. Len(log) : log[l] \in Lines
  BY DEF LogTypes
<1>2. /\ Len(pending) \in Nat /\ Len(saved) \in Nat /\ Done \in Nat
      /\ pending # <<>> => Len(pending) > 0 /\ Head(pending) = Done + 1
  BY DEF LogTypes, Done
<1>3. \A s \in Lines : /\ s \in Seq(Texts) /\ Len(s) \in Nat /\ Len(s) >= 1
                       /\ \A x \in 1 .. Len(s) : s[x] \in Texts
  BY DEF Lines
<1>4. /\ Last(log) = log[Len(log)]
      /\ LastText = log[Len(log)][Len(log[Len(log)])]
  BY DEF LastText, Last
<1>5. Range(ReadIds) = {log[l][1].id : l \in 1 .. Len(log)}
  BY <1>1 DEF Range, ReadIds
<1>6. IsFiniteSet(Unread) /\ Cardinality(Unread) \in Nat
  <2>1. IsFiniteSet(1 .. Done)
    BY <1>2, FS_Interval
  <2>2. IsFiniteSet(Unread)
    BY <2>1, FS_Subset DEF Unread
  <2> QED
    BY <2>2, FS_CardinalityType
<1> QED
  BY <1>1, <1>2, <1>3, <1>4, <1>5, <1>6

LEMMA LogStep == ASSUME LogInv, WriterStep PROVE LogInv'
<1> USE DEF LogInv
<1> DEFINE n == Len(log)
           d == Done
<1>0. /\ n \in Nat /\ d \in Nat /\ crashes \in Nat
      /\ \A l \in 1 .. n : log[l][1].id \in Nat
      /\ log # <<>> => LastText.id \in Nat
  <2>1. \A l \in 1 .. n : log[l][1] \in Texts
    BY LogShape
  <2>2. log # <<>> => LastText \in Texts
    <3>1. log # <<>> => n \in 1 .. n /\ Len(log[n]) \in 1 .. Len(log[n])
      BY LogShape
    <3> QED
      BY <3>1, LogShape
  <2> QED
    BY <2>1, <2>2, LogShape DEF LogTypes, Texts
<1>1. ASSUME NEW b \in Batches, Callback(b) PROVE LogInv'
  <2>1. PICK m \in 0 .. MaxBatch : b \in [1 .. m -> Records] /\ m > 0
    <3>1. \A s \in Batches : s # <<>> /\ \E m \in 0 .. MaxBatch : s \in [1 .. m -> Records]
      BY DEF Batches, SeqOf
    <3> QED
      BY <3>1, BoundsAssumption
  <2>2. b \in Seq(Records) /\ Len(b) = m /\ m \in Nat
    BY <2>1, BoundsAssumption
  <2>3. /\ pending = <<>> /\ Len(pending) = 0
        /\ saved' \in Seq(Records) /\ Len(saved') = Len(saved) + m
        /\ pending' = [i \in 1 .. m |-> Len(saved) + i]
        /\ UNCHANGED <<log, newline, lost, crashes>>
    <3>1. /\ pending = <<>> /\ saved' = saved \o b
          /\ pending' = [i \in DOMAIN b |-> Len(saved) + i]
          /\ UNCHANGED <<log, newline, lost, crashes>>
      BY <1>1 DEF Callback, FileOpened, file
    <3>2. saved' \in Seq(Records) /\ Len(saved') = Len(saved) + m
      <4>1. \A r, s \in Seq(Records) :
              r \o s \in Seq(Records) /\ Len(r \o s) = Len(r) + Len(s)
        OBVIOUS
      <4> QED
        BY <2>2, <3>1, <4>1 DEF LogTypes
    <3>3. DOMAIN b = 1 .. m /\ Len(pending) = 0
      BY <2>1, <3>1
    <3> QED
      BY <3>1, <3>2, <3>3
  <2>4. pending' \in Seq(Nat) /\ Len(pending') = m /\ Len(saved) \in Nat
    BY <2>2, <2>3 DEF LogTypes
  <2>5. Done' = d /\ d = Len(saved)
    BY <2>2, <2>3, <2>4 DEF Done
  <2>6. LogTypes'
    BY <2>2, <2>3, <2>4, <2>5 DEF LogTypes
  <2>7. ~Begun /\ ~Begun'
    <3>1. Head(pending') = d + 1
      BY <2>1, <2>3, <2>4, <2>5
    <3>2. LastText' = LastText /\ ~Begun
      BY <2>3 DEF LastText, Begun
    <3>3. log # <<>> => LastText.id <= d
      BY <3>2 DEF InOrder
    <3>4. log # <<>> => LastText.id # d + 1
      <4> SUFFICES ASSUME log # <<>>, LastText.id = d + 1 PROVE FALSE
        OBVIOUS
      <4> QED
        BY <1>0, <3>3
    <3> QED
      BY <2>3, <3>1, <3>2, <3>4 DEF Begun
  <2>8. InOrder'
    BY <2>3, <2>5, <2>7 DEF InOrder, LastText
  <2>9. CrashesPay' /\ Undamaged'
    BY <2>3, <2>5, <2>7 DEF CrashesPay, Undamaged, Unread, ReadIds, Torn
  <2> QED
    BY <2>6, <2>8, <2>9
<1>2. CASE Crash
  <2>1. /\ pending' = <<>> /\ lost' = lost \cup Range(pending) /\ crashes' = crashes + 1
        /\ UNCHANGED <<log, newline, saved>>
    BY <1>2 DEF Crash, file
  <2>2. Done' = Len(saved) /\ Len(pending') = 0 /\ Len(saved) \in Nat /\ d <= Len(saved)
    BY <2>1 DEF Done, LogTypes
  <2>3. LogTypes' /\ ~Begun'
    BY <2>1, <2>2 DEF LogTypes, Begun
  <2>4. InOrder'
    <3>1. log # <<>> => LastText.id <= Len(saved)
      <4>1. CASE ~Begun
        BY <1>0, <2>2, <4>1 DEF InOrder
      <4>2. CASE Begun
        <5>1. pending # <<>> /\ LastText.id = d + 1 /\ Len(pending) > 0
          BY <4>2, LogShape DEF Begun
        <5> QED
          BY <2>2, <5>1, LogShape DEF Done
      <4> QED
        BY <4>1, <4>2
    <3>2. \A l \in 1 .. n : log[l][1].id <= Len(saved)
      <4> SUFFICES ASSUME NEW l \in 1 .. n PROVE log[l][1].id <= Len(saved)
        OBVIOUS
      <4>1. CASE log[l][1].id <= d
        BY <1>0, <2>2, <4>1
      <4>2. CASE Begun /\ l = n /\ Len(log[l]) = 1
        BY <3>1, <4>2, LogShape DEF Begun
      <4> QED
        BY <4>1, <4>2, LogShape DEF InOrder
    <3> QED
      BY <2>1, <2>2, <2>3, <3>1, <3>2, LogShape DEF InOrder, LastText
  <2>5. CrashesPay'
    <3>1. \A x \in d + 1 .. Len(saved) : x \in Range(pending)
      <4> SUFFICES ASSUME NEW x \in d + 1 .. Len(saved) PROVE x \in Range(pending)
        OBVIOUS
      <4>1. x - d \in 1 .. Len(pending)
        BY LogShape DEF Done
      <4>2. pending[x - d] = x
        <5>1. pending[x - d] = d + (x - d)
          BY <4>1 DEF LogTypes
        <5>2. d + (x - d) = x
          BY <1>0
        <5> QED
          BY <5>1, <5>2
      <4> QED
        BY <4>1, <4>2 DEF Range, LogTypes
    <3>2. Unread' \subseteq Unread
      BY <1>0, <2>1, <2>2, <3>1 DEF Unread, ReadIds
    <3>3. IsFiniteSet(Unread') /\ Cardinality(Unread') <= Cardinality(Unread)
      BY <3>2, LogShape, FS_Subset
    <3>4. Cardinality(Unread') \in Nat
      BY <3>3, FS_CardinalityType
    <3>5. Cardinality(Unread) <= crashes
      BY <1>0, LogShape DEF CrashesPay
    <3>6. PICK u, v : u = Cardinality(Unread) /\ v = Cardinality(Unread')
      OBVIOUS
    <3>7. v + 1 <= crashes + 1 /\ v + 0 <= crashes + 1 /\ v \in Nat
      BY <1>0, <3>3, <3>4, <3>5, <3>6, LogShape
    <3> QED
      BY <2>1, <3>6, <3>7 DEF CrashesPay
  <2>6. Undamaged'
    BY <1>0, <2>1 DEF Undamaged
  <2> QED
    BY <2>3, <2>4, <2>5, <2>6
<1>3. CASE EndLine
  <2>1. /\ newline' = TRUE /\ pending' = Tail(pending) /\ LastText.whole
        /\ UNCHANGED <<log, saved, lost, crashes>>
        /\ Begun /\ pending # <<>> /\ log # <<>> /\ LastText.id = d + 1
    BY <1>3, LogShape DEF EndLine, Begun
  <2>2. /\ pending' \in Seq(Nat) /\ Len(pending') = Len(pending) - 1
        /\ \A i \in 1 .. Len(pending') : pending'[i] = pending[i + 1]
        /\ Len(pending) \in Nat /\ Len(pending) > 0 /\ Len(saved) \in Nat
    BY <2>1, LogShape DEF LogTypes
  <2>3. Done' = d + 1
    BY <2>1, <2>2 DEF Done
  <2>4. LogTypes'
    <3>1. \A i \in 1 .. Len(pending') : pending'[i] = Done' + i
      BY <1>0, <2>2, <2>3 DEF LogTypes
    <3> QED
      BY <2>1, <2>2, <3>1 DEF LogTypes
  <2>5. ~Begun'
    <3>1. pending' # <<>> => Head(pending') = d + 2
      <4> SUFFICES ASSUME pending' # <<>> PROVE Head(pending') = d + 2
        OBVIOUS
      <4>1. Len(pending') \in Nat /\ Len(pending') # 0 /\ Head(pending') = pending'[1]
        BY <2>2
      <4>2. pending'[1] = d + 1 + 1
        BY <2>3, <2>4, <4>1 DEF LogTypes
      <4> QED
        BY <1>0, <4>1, <4>2
    <3>2. LastText' = LastText
      BY <2>1 DEF LastText
    <3> QED
      BY <1>0, <2>1, <3>1, <3>2 DEF Begun
  <2>6. n \in 1 .. n /\ (Len(log[n]) = 1 => log[n][1] = LastText)
    BY <2>1, LogShape
  <2>7. InOrder'
    <3>1. \A l \in 1 .. n : log[l][1].id <= d + 1
      <4> SUFFICES ASSUME NEW l \in 1 .. n PROVE log[l][1].id <= d + 1
        OBVIOUS
      <4>1. CASE log[l][1].id <= d
        BY <1>0, <4>1
      <4>2. CASE l = n /\ Len(log[l]) = 1
        BY <1>0, <2>1, <2>6, <4>2
      <4> QED
        BY <4>1, <4>2, LogShape DEF InOrder
    <3> QED
      BY <1>0, <2>1, <2>3, <2>5, <3>1, LogShape DEF InOrder, LastText
  <2>8. ~Torn'
    BY <2>1 DEF Torn
  <2>9. /\ Unread = (1 .. d) \ (lost \cup Range(ReadIds))
         /\ Unread' = ((1 .. d) \cup {d + 1}) \ (lost \cup Range(ReadIds))
    <3>1. ReadIds' = ReadIds
      BY <2>1 DEF ReadIds
    <3>2. 1 .. d + 1 = (1 .. d) \cup {d + 1}
      BY <1>0
    <3> QED
      BY <2>1, <2>3, <3>1, <3>2 DEF Unread
  <2>10. CrashesPay'
    <3>1. Cardinality(Unread') <= crashes
      <4>1. CASE Len(log[n]) = 1
        <5>1. d + 1 \in Range(ReadIds)
          BY <2>1, <2>6, <4>1, LogShape
        <5>2. Unread' = Unread
          BY <2>9, <5>1
        <5> QED
          BY <1>0, <5>2, LogShape DEF CrashesPay
      <4>2. CASE Len(log[n]) # 1
        <5>1. Torn
          BY <2>1, <4>2, LogShape DEF Torn, InOrder
        <5>2. Unread' \subseteq Unread \cup {d + 1}
          BY <2>9
        <5>3. /\ IsFiniteSet(Unread \cup {d + 1})
              /\ Cardinality(Unread \cup {d + 1}) <= Cardinality(Unread) + 1
          <6>1. IsFiniteSet(Unread) /\ Cardinality(Unread) \in Nat
            BY LogShape
          <6>2. /\ IsFiniteSet(Unread \cup {d + 1})
                /\ Cardinality(Unread \cup {d + 1}) =
                     IF d + 1 \in Unread THEN Cardinality(Unread) ELSE Cardinality(Unread) + 1
            BY <6>1, FS_AddElement
          <6> QED
            BY <6>1, <6>2
        <5>4. IsFiniteSet(Unread') /\ Cardinality(Unread') <= Cardinality(Unread \cup {d + 1})
          BY <5>2, <5>3, FS_Subset
        <5>5. PICK u, v, w : /\ u = Cardinality(Unread) /\ v = Cardinality(Unread')
                             /\ w = Cardinality(Unread \cup {d + 1})
          OBVIOUS
        <5>6. u \in Nat /\ v \in Nat /\ w \in Nat
          <6>1. v \in Nat
            BY <5>4, <5>5, FS_CardinalityType
          <6>2. w \in Nat
            BY <5>3, <5>5, FS_CardinalityType
          <6> QED
            BY <5>5, <6>1, <6>2, LogShape
        <5>7. u + 1 <= crashes /\ w <= u + 1 /\ v <= w
          BY <5>1, <5>3, <5>4, <5>5 DEF CrashesPay
        <5> QED
          BY <1>0, <5>5, <5>6, <5>7
      <4> QED
        BY <4>1, <4>2
    <3>2. Cardinality(Unread') \in Nat
      <4>1. Unread' \in SUBSET (1 .. d + 1)
        BY <2>3 DEF Unread
      <4>2. IsFiniteSet(1 .. d + 1)
        BY <1>0, FS_Interval
      <4>3. IsFiniteSet(Unread')
        BY <4>1, <4>2, FS_Subset
      <4> QED
        BY <4>3, FS_CardinalityType
    <3>3. PICK v : v = Cardinality(Unread')
      OBVIOUS
    <3>4. v + 0 <= crashes
      BY <1>0, <3>1, <3>2, <3>3
    <3> QED
      BY <2>1, <2>8, <3>3, <3>4 DEF CrashesPay
  <2>11. Undamaged'
    <3> SUFFICES ASSUME crashes = 0, NEW l \in 1 .. n PROVE log[l][1].whole
      BY <2>1, LogShape DEF Undamaged
    <3>1. ~Torn
      BY LogShape DEF CrashesPay
    <3>2. Len(log[n]) = 1
      BY <2>1, <3>1, LogShape DEF Torn, InOrder
    <3>3. log[l][1].whole \/ l = n
      BY LogShape DEF Undamaged
    <3> QED
      BY <2>1, <2>6, <3>2, <3>3
  <2> QED
    BY <2>4, <2>7, <2>10, <2>11
<1>4. CASE EndText
  <2> DEFINE k == Len(log[n])
  <2>1. /\ Begun /\ n \in 1 .. n /\ log[n] \in Seq(Texts) /\ k \in Nat /\ k >= 1
        /\ log' = [log EXCEPT ![n] =
                     [log[n] EXCEPT ![k] = [log[n][k] EXCEPT !.whole = TRUE]]]
        /\ UNCHANGED <<newline, pending, saved, lost, crashes>>
        /\ LastText = log[n][k]
    <3>1. /\ Begun /\ UNCHANGED <<newline, pending, saved, lost, crashes>>
          /\ log' = [log EXCEPT ![Len(log)][Len(Last(log))].whole = TRUE]
      BY <1>4 DEF EndText
    <3>2. Last(log) = log[n]
      BY DEF Last
    <3>3. log' = [log EXCEPT ![n] =
                    [log[n] EXCEPT ![k] = [log[n][k] EXCEPT !.whole = TRUE]]]
      BY <3>1, <3>2, Zenon
    <3>4. n \in 1 .. n
      BY <3>1, LogShape DEF Begun
    <3> QED
      BY <3>1, <3>3, <3>4, LogShape
  <2>2. PICK text : text = [log[n][k] EXCEPT !.whole = TRUE]
    OBVIOUS
  <2>3. text \in Texts /\ text.id = log[n][k].id /\ text.whole = TRUE
    <3>1. log[n][k] \in Texts
      BY <2>1, LogShape
    <3> QED
      BY <2>2, <3>1 DEF Texts
  <2>4. PICK line : line = [log[n] EXCEPT ![k] = text]
    OBVIOUS
  <2>5. /\ line \in Seq(Texts) /\ Len(line) = k /\ line \in Lines
        /\ line[k] = text /\ \A x \in 1 .. k : x # k => line[x] = log[n][x]
    <3>1. line \in Seq(Texts) /\ Len(line) = k
      BY <2>1, <2>3, <2>4
    <3> QED
      BY <2>1, <2>4, <3>1 DEF Lines
  <2>6. /\ log' \in Seq(Lines) /\ Len(log') = n /\ log'[n] = line
        /\ \A l \in 1 .. n : l # n => log'[l] = log[l]
    <3>1. log' = [log EXCEPT ![n] = line]
      BY <2>1, <2>2, <2>4
    <3>2. n \in 1 .. n /\ line \in Lines /\ log \in Seq(Lines)
      BY <2>1, <2>5 DEF LogTypes
    <3> QED
      BY <1>0, <3>1, <3>2
  <2>7. \A l \in 1 .. n : /\ log'[l][1].id = log[l][1].id /\ Len(log'[l]) = Len(log[l])
                          /\ log[l][1].whole => log'[l][1].whole
    <3>1. line[1].id = log[n][1].id /\ (log[n][1].whole => line[1].whole)
      BY <2>1, <2>3, <2>5
    <3> QED
      BY <2>5, <2>6, <3>1
  <2>8. LastText' = text /\ Last(log)' = line /\ log' # <<>> /\ DOMAIN log' = 1 .. n
    BY <1>0, <2>1, <2>5, <2>6 DEF LastText, Last
  <2>9. Done' = d /\ Begun'
    BY <2>1, <2>3, <2>8 DEF Begun, Done
  <2>10. LogTypes'
    BY <2>1, <2>6, <2>9 DEF LogTypes
  <2>11. InOrder'
    BY <2>1, <2>6, <2>7, <2>8, <2>9, LogShape DEF InOrder
  <2>12. Range(ReadIds)' = Range(ReadIds)
    <3>1. Range(ReadIds)' = {log'[l][1].id : l \in 1 .. n}
      BY <2>8 DEF Range, ReadIds
    <3> QED
      BY <2>7, <3>1, LogShape
  <2>13. CrashesPay'
    <3>1. Torn' = Torn
      BY <2>1, <2>5, <2>8, <2>9, LogShape DEF Torn
    <3>2. Unread' = Unread
      BY <2>1, <2>9, <2>12 DEF Unread
    <3> QED
      BY <2>1, <3>1, <3>2 DEF CrashesPay
  <2>14. Undamaged'
    BY <2>1, <2>6, <2>7, <2>8, <2>9, LogShape DEF Undamaged
  <2> QED
    BY <2>10, <2>11, <2>13, <2>14
<1>5. CASE BeginText
  <2>1. PICK text : text = [id |-> d + 1, whole |-> FALSE]
    OBVIOUS
  <2>2. /\ pending # <<>> /\ Head(pending) = d + 1 /\ ~Begun
        /\ log' = IF newline THEN Append(log, <<text>>)
                  ELSE [log EXCEPT ![n] = Append(log[n], text)]
        /\ newline' = FALSE
        /\ UNCHANGED <<pending, saved, lost, crashes>>
    BY <1>5, <2>1, LogShape DEF BeginText
  <2>3. text \in Texts /\ text.id = d + 1 /\ text.id \in Nat
    BY <1>0, <2>1 DEF Texts
  <2>4. Done' = d
    BY <2>2 DEF Done
  <2>5. \A l \in 1 .. n : log[l][1].id <= d
    BY <2>2, LogShape DEF InOrder
  <2>6. CASE newline
    <3>1. <<text>> \in Seq(Texts) /\ Len(<<text>>) = 1 /\ <<text>> \in Lines
      BY <2>3 DEF Lines
    <3>2. /\ log' \in Seq(Lines) /\ Len(log') = n + 1 /\ log'[n + 1] = <<text>>
          /\ \A l \in 1 .. n : log'[l] = log[l]
      BY <1>0, <2>2, <2>6, <3>1 DEF LogTypes
    <3>3. LastText' = text /\ Last(log)' = <<text>> /\ log' # <<>> /\ DOMAIN log' = 1 .. n + 1
      BY <1>0, <3>1, <3>2 DEF LastText, Last
    <3>4. Begun'
      BY <2>2, <2>3, <3>3 DEF Begun
    <3>5. LogTypes'
      BY <2>2, <2>4, <3>2 DEF LogTypes
    <3>6. log'[n + 1][1].id = d + 1 /\ Len(log'[n + 1]) = 1
      BY <2>3, <3>1, <3>2
    <3>7. \A l \in 1 .. n + 1 : l \in 1 .. n \/ l = n + 1
      BY <1>0
    <3>8. InOrder'
      <4>1. \A l \in DOMAIN log' :
              log'[l][1].id <= d \/ (l = Len(log') /\ Len(log'[l]) = 1)
        BY <2>5, <3>2, <3>3, <3>6, <3>7
      <4>2. \A j, l \in DOMAIN log' : j < l => log'[j][1].id < log'[l][1].id
        <5> SUFFICES ASSUME NEW j \in 1 .. n + 1, NEW l \in 1 .. n + 1, j < l
                     PROVE  log'[j][1].id < log'[l][1].id
          BY <3>3
        <5>1. j \in 1 .. n /\ log'[j] = log[j]
          BY <1>0, <3>2
        <5>2. CASE l \in 1 .. n
          BY <3>2, <5>1, <5>2, LogShape DEF InOrder
        <5>3. CASE l = n + 1
          BY <1>0, <2>5, <3>6, <5>1, <5>3
        <5> QED
          BY <3>7, <5>2, <5>3
      <4> QED
        BY <2>2, <2>4, <3>3, <3>4, <4>1, <4>2 DEF InOrder
    <3>9. CrashesPay'
      <4>1. Range(ReadIds)' = Range(ReadIds) \cup {d + 1}
        <5>1. Range(ReadIds)' = {log'[l][1].id : l \in 1 .. n + 1}
          BY <3>3 DEF Range, ReadIds
        <5>2. 1 .. n + 1 = (1 .. n) \cup {n + 1}
          BY <1>0
        <5>3. {log'[l][1].id : l \in 1 .. n} = Range(ReadIds)
          BY <3>2, LogShape
        <5> QED
          BY <3>6, <5>1, <5>2, <5>3
      <4>2. Unread' = Unread
        BY <1>0, <2>2, <2>4, <4>1 DEF Unread
      <4>3. ~Torn /\ ~Torn'
        BY <2>6, <3>1, <3>3, <3>4 DEF Torn
      <4> QED
        BY <2>2, <4>2, <4>3 DEF CrashesPay
    <3>10. Undamaged'
      BY <2>2, <3>2, <3>3, <3>4, <3>7, LogShape DEF Undamaged
    <3> QED
      BY <3>5, <3>8, <3>9, <3>10
  <2>7. CASE ~newline
    <3> DEFINE k == Len(log[n])
    <3>1. n \in 1 .. n /\ log[n] \in Seq(Texts) /\ k \in Nat /\ k >= 1
      BY <2>7, LogShape DEF InOrder
    <3>2. PICK line : line = Append(log[n], text)
      OBVIOUS
    <3>3. /\ line \in Seq(Texts) /\ Len(line) = k + 1 /\ line \in Lines
          /\ line[1] = log[n][1] /\ line[k + 1] = text
      <4>1. line \in Seq(Texts) /\ Len(line) = k + 1
        BY <2>3, <3>1, <3>2
      <4> QED
        BY <3>1, <3>2, <4>1 DEF Lines
    <3>4. /\ log' \in Seq(Lines) /\ Len(log') = n /\ log'[n] = line
          /\ \A l \in 1 .. n : l # n => log'[l] = log[l]
      BY <1>0, <2>2, <2>7, <3>1, <3>2, <3>3 DEF LogTypes
    <3>5. \A l \in 1 .. n : log'[l][1] = log[l][1]
      BY <3>3, <3>4
    <3>6. LastText' = text /\ Last(log)' = line /\ log' # <<>> /\ DOMAIN log' = 1 .. n
      BY <1>0, <3>1, <3>3, <3>4 DEF LastText, Last
    <3>7. Begun'
      BY <2>2, <2>3, <3>6 DEF Begun
    <3>8. LogTypes'
      BY <2>2, <2>4, <3>4 DEF LogTypes
    <3>9. InOrder'
      BY <2>2, <2>4, <2>5, <3>5, <3>6, <3>7, LogShape DEF InOrder
    <3>10. CrashesPay'
      <4>1. Range(ReadIds)' = Range(ReadIds)
        <5>1. Range(ReadIds)' = {log'[l][1].id : l \in 1 .. n}
          BY <3>6 DEF Range, ReadIds
        <5> QED
          BY <3>5, <5>1, LogShape
      <4>2. Unread' = Unread
        BY <2>2, <2>4, <4>1 DEF Unread
      <4>3. Torn /\ Torn'
        BY <2>2, <2>7, <3>1, <3>3, <3>6 DEF Torn
      <4> QED
        BY <2>2, <4>2, <4>3 DEF CrashesPay
    <3>11. Undamaged'
      BY <2>2, <2>7 DEF Undamaged
    <3> QED
      BY <3>8, <3>9, <3>10, <3>11
  <2> QED
    BY <2>6, <2>7
<1> QED
  BY <1>1, <1>2, <1>3, <1>4, <1>5 DEF WriterStep

LEMMA LogInit == InitLog => LogInv
<1> SUFFICES ASSUME InitLog PROVE LogInv
  OBVIOUS
<1> USE DEF InitLog
<1>1. LogTypes /\ Done = 0
  BY DEF LogTypes, Done
<1>2. InOrder /\ Undamaged /\ ~Torn
  BY DEF InOrder, Undamaged, Begun, Torn
<1>3. CrashesPay
  <2>1. Unread = {}
    BY <1>1 DEF Unread
  <2> QED
    BY <1>2, <2>1, FS_EmptySet DEF CrashesPay
<1> QED
  BY <1>1, <1>2, <1>3 DEF LogInv

LEMMA LogStutters == LogInv /\ UNCHANGED logVars => LogInv'
BY DEF logVars, file, LogInv, LogTypes, InOrder, CrashesPay, Undamaged, Done, Begun,
       LastText, Torn, Unread, ReadIds

LEMMA LogSound == LogInv => CrashCostsOneRecord
<1> SUFFICES ASSUME LogInv PROVE CrashCostsOneRecord
  OBVIOUS
<1> USE DEF LogInv
<1>1. CASE Readable
  <2>1. \A l \in DOMAIN log : ReadIds[l] = log[l][1].id
    BY LogShape DEF ReadIds
  <2>2. \A k, l \in DOMAIN log : k < l => ReadIds[k] < ReadIds[l]
    BY <2>1 DEF InOrder
  <2>3. Missed \subseteq Unread
    <3>1. \A x \in DOMAIN saved : x <= Done \/ x \in Range(pending)
      <4> SUFFICES ASSUME NEW x \in DOMAIN saved, ~(x <= Done) PROVE x \in Range(pending)
        OBVIOUS
      <4>1. x \in 1 .. Len(saved)
        BY DEF LogTypes
      <4>2. x - Done \in 1 .. Len(pending)
        BY <4>1, LogShape DEF Done
      <4>3. pending[x - Done] = x
        <5>1. pending[x - Done] = Done + (x - Done)
          BY <4>2 DEF LogTypes
        <5> QED
          BY <4>1, <5>1, LogShape
      <4> QED
        BY <4>2, <4>3 DEF Range, LogTypes
    <3>2. DOMAIN saved \subseteq 1 .. Len(saved)
      BY DEF LogTypes
    <3> QED
      BY <3>1, <3>2, LogShape DEF Missed, Unread
  <2>4. Cardinality(Missed) <= Cardinality(Unread) /\ Cardinality(Missed) \in Nat
    BY <2>3, LogShape, FS_Subset, FS_CardinalityType
  <2>5. Cardinality(Unread) <= crashes
    BY LogShape DEF CrashesPay, LogTypes
  <2>6. Cardinality(Missed) <= crashes
    BY <2>4, <2>5, LogShape DEF LogTypes
  <2> QED
    BY <1>1, <2>2, <2>6 DEF CrashCostsOneRecord
<1>2. CASE ~Readable
  <2>1. PICK l \in DOMAIN log : ~log[l][1].whole
    BY <1>2, LogShape DEF Readable
  <2>2. crashes = 0 => Begun
    BY <2>1 DEF Undamaged
  <2>3. crashes > 0 \/ pending # <<>>
    BY <2>2 DEF Begun, LogTypes
  <2> QED
    BY <1>2, <2>3 DEF CrashCostsOneRecord
<1> QED
  BY <1>1, <1>2

(* Whatever is saved and whenever writers die, a log that can be read is in *)
(* order and lacks at most one saved record per crash, and a log that       *)
(* cannot be read has seen a crash or is being written.                     *)
THEOREM CrashAlwaysCostsOneRecord == LogSpec => []CrashCostsOneRecord
BY LogInit, LogStep, LogStutters, LogSound, PTL DEF LogSpec

-----------------------------------------------------------------------------
LEMMA MinIs ==
  ASSUME NEW S \in SUBSET Nat, S # {}
  PROVE  Min(S) \in S /\ \A x \in S : Min(S) <= x
<1>1. \E m \in S : \A n \in S : m <= n
  BY NatMinimum
<1> QED
  BY <1>1 DEF Min

LEMMA MaxIs ==
  ASSUME NEW n \in Nat, NEW S \in SUBSET (0 .. n), S # {}
  PROVE  Max(S) \in S /\ \A x \in S : x <= Max(S)
<1> DEFINE U == {m \in Nat : \A x \in S : x <= m}
<1>1. n \in U /\ U \in SUBSET Nat
  OBVIOUS
<1>2. PICK m \in U : \A k \in U : m <= k
  <2> HIDE DEF U
  <2> QED
    BY <1>1, NatMinimum
<1>3. m \in S
  <2> SUFFICES ASSUME m \notin S PROVE FALSE
    OBVIOUS
  <2>1. PICK y \in S : TRUE
    OBVIOUS
  <2>2. m # 0
    BY <1>2, <2>1
  <2>3. m - 1 \in U
    BY <1>2, <2>2
  <2> QED
    BY <1>2, <2>3
<1>4. \A x \in S : m >= x
  BY <1>2
<1>5. \E x \in S : \A y \in S : x >= y
  BY <1>3, <1>4
<1> QED
  BY <1>5 DEF Max

-----------------------------------------------------------------------------
(* Slots and what a record does to one.                                     *)

Rows == [Slots -> Records \cup {None}]
Tables == [best : Rows, raised : BOOLEAN]

(* The record may answer from the slot. *)
FitsSlot(r, s) ==
  /\ r.kind = "static" => r.cost # Failed
  /\ \/ s \in Range(KeySlots(r.target, r.wkl))
     \/ s = ModelSlot(r.target, r.wkl) /\ (r.kind = "dynamic" \/ s[2] # Unknown)

(* A slot holding old holds new after r, unless that raises. *)
Improves(old, new, r) ==
  IF old = None THEN new = r
  ELSE old.kind # "dynamic" /\ new = (IF Beats(r, old) THEN r ELSE old)

Enters(old, new, r, s) ==
  IF ~ FitsSlot(r, s) THEN new = old
  ELSE IF r.kind = "dynamic" THEN new = r
  ELSE Improves(old, new, r)

LEMMA RecordIs ==
  ASSUME NEW r \in Records
  PROVE  /\ r.kind \in {"static", "dynamic"} /\ r.wkl \in Workloads /\ r.target \in Targets
         /\ r.cost \in Nat \cup {Failed} /\ r # None
BY HistoryAssumption

LEMMA SlotsAre ==
  ASSUME NEW t \in Targets, NEW w \in Workloads
  PROVE  /\ ModelSlot(t, w) \in Slots
         /\ KeySlots(t, w) \in Seq(Slots) /\ Len(KeySlots(t, w)) \in Nat
         /\ DOMAIN KeySlots(t, w) = 1 .. Len(KeySlots(t, w))
         /\ \A i \in 1 .. Len(KeySlots(t, w)) : KeySlots(t, w)[i] \in Slots
         /\ Range(KeySlots(t, w)) = {KeySlots(t, w)[i] : i \in 1 .. Len(KeySlots(t, w))}
         /\ ModelSlot(t, w) \notin Range(KeySlots(t, w))
<1> DEFINE S == Range(KeysOf[t])
<1>1. KeysOf[t] \in Seq(S)
  BY HistoryAssumption
<1> HIDE DEF S
<1>2. PICK n \in Nat : DOMAIN KeysOf[t] = 1 .. n
  BY <1>1
<1>3. KeySlots(t, w) = [i \in 1 .. n |-> <<"key", KeysOf[t][i], w>>]
  BY <1>2 DEF KeySlots
<1>4. ModelSlot(t, w) \in Slots /\ \A s \in Range(KeySlots(t, w)) : s \in Slots
  <2> DEFINE X(u, x) == {ModelSlot(u, x)} \cup Range(KeySlots(u, x))
  <2>1. ModelSlot(t, w) \in X(t, w) /\ \A s \in Range(KeySlots(t, w)) : s \in X(t, w)
    OBVIOUS
  <2>2. Slots = UNION {X(u, x) : u \in Targets, x \in Workloads}
    BY DEF Slots
  <2> HIDE DEF X
  <2>3. X(t, w) \in {X(u, x) : u \in Targets, x \in Workloads}
    OBVIOUS
  <2> QED
    BY <2>1, <2>2, <2>3
<1>5. \A i \in 1 .. n : KeySlots(t, w)[i] \in Range(KeySlots(t, w))
  BY <1>3 DEF Range
<1>6. KeySlots(t, w) \in [1 .. n -> Slots]
  BY <1>3, <1>4, <1>5
<1>7. KeySlots(t, w) \in Seq(Slots) /\ Len(KeySlots(t, w)) = n
  BY <1>6
<1>8. ASSUME NEW s \in Range(KeySlots(t, w)) PROVE s # ModelSlot(t, w)
  <2>1. PICK i \in 1 .. n : s = <<"key", KeysOf[t][i], w>>
    BY <1>3 DEF Range
  <2>2. s[1] = "key" /\ ModelSlot(t, w)[1] = "model"
    BY <2>1 DEF ModelSlot
  <2> QED
    BY <2>2
<1>9. DOMAIN KeySlots(t, w) = 1 .. n
  BY <1>3
<1> QED
  BY <1>4, <1>5, <1>6, <1>7, <1>8, <1>9 DEF Range

LEMMA OfferIs ==
  ASSUME NEW table \in Tables, NEW r \in Records, NEW slot \in Slots
  PROVE  LET new == OfferToKey(table, r, slot)
         IN  /\ new \in Tables /\ (table.raised => new.raised)
             /\ ~ new.raised =>
                  /\ Improves(table.best[slot], new.best[slot], r)
                  /\ \A s \in Slots : s # slot => new.best[s] = table.best[s]
<1> DEFINE new == OfferToKey(table, r, slot)
           other == table.best[slot]
<1>1. table.best \in Rows /\ table.raised \in BOOLEAN
  BY DEF Tables
<1>2. other \in Records \cup {None}
  BY <1>1 DEF Rows
<1>3. /\ [table EXCEPT !.best[slot] = r].best = [table.best EXCEPT ![slot] = r]
      /\ [table EXCEPT !.best[slot] = r].raised = table.raised
      /\ [table EXCEPT !.best[slot] = r] \in Tables
      /\ [table EXCEPT !.raised = TRUE] \in Tables
      /\ [table EXCEPT !.raised = TRUE].raised
  <2>1. [table.best EXCEPT ![slot] = r] \in Rows
    BY <1>1 DEF Rows
  <2> QED
    BY <1>1, <2>1 DEF Tables
<1>4. /\ [table.best EXCEPT ![slot] = r][slot] = r
      /\ \A s \in Slots : s # slot => [table.best EXCEPT ![slot] = r][s] = table.best[s]
  BY <1>1 DEF Rows
<1>5. CASE table.raised
  BY <1>5 DEF OfferToKey
<1>6. CASE ~ table.raised /\ other = None
  <2>1. new = [table EXCEPT !.best[slot] = r]
    BY <1>6 DEF OfferToKey
  <2> QED
    BY <1>3, <1>4, <1>6, <2>1 DEF Improves
<1>7. CASE ~ table.raised /\ other # None /\ other.kind = "dynamic"
  <2>1. new = [table EXCEPT !.raised = TRUE]
    BY <1>7 DEF OfferToKey
  <2> QED
    BY <1>3, <2>1
<1>8. CASE ~ table.raised /\ other # None /\ other.kind # "dynamic" /\ Beats(r, other)
  <2>1. new = [table EXCEPT !.best[slot] = r]
    BY <1>8 DEF OfferToKey
  <2> QED
    BY <1>3, <1>4, <1>8, <2>1 DEF Improves
<1>9. CASE ~ table.raised /\ other # None /\ other.kind # "dynamic" /\ ~ Beats(r, other)
  <2>1. new = table
    BY <1>9 DEF OfferToKey
  <2> QED
    BY <1>9, <2>1 DEF Improves
<1> QED
  BY <1>5, <1>6, <1>7, <1>8, <1>9

LEMMA OfferModelIs ==
  ASSUME NEW table \in Tables, NEW r \in Records, NEW slot \in Slots
  PROVE  LET new == OfferToModel(table, r, slot)
         IN  /\ new \in Tables /\ (table.raised => new.raised)
             /\ ~ new.raised =>
                  /\ table.best[slot] = None
                  /\ new.best[slot] = IF slot[2] = Unknown THEN None ELSE r
                  /\ \A s \in Slots : s # slot => new.best[s] = table.best[s]
<1> DEFINE new == OfferToModel(table, r, slot)
<1>1. table.best \in Rows /\ table.raised \in BOOLEAN
  BY DEF Tables
<1>3. /\ [table EXCEPT !.best[slot] = r].best = [table.best EXCEPT ![slot] = r]
      /\ [table EXCEPT !.best[slot] = r].raised = table.raised
      /\ [table EXCEPT !.best[slot] = r] \in Tables
      /\ [table EXCEPT !.raised = TRUE] \in Tables
      /\ [table EXCEPT !.raised = TRUE].raised
  <2>1. [table.best EXCEPT ![slot] = r] \in Rows
    BY <1>1 DEF Rows
  <2> QED
    BY <1>1, <2>1 DEF Tables
<1>4. /\ [table.best EXCEPT ![slot] = r][slot] = r
      /\ \A s \in Slots : s # slot => [table.best EXCEPT ![slot] = r][s] = table.best[s]
  BY <1>1 DEF Rows
<1>5. CASE table.raised
  BY <1>5 DEF OfferToModel
<1>6. CASE ~ table.raised /\ table.best[slot] = None /\ slot[2] = Unknown
  BY <1>6 DEF OfferToModel
<1>7. CASE ~ table.raised /\ table.best[slot] = None /\ slot[2] # Unknown
  <2>1. new = [table EXCEPT !.best[slot] = r]
    BY <1>7 DEF OfferToModel
  <2> QED
    BY <1>3, <1>4, <1>7, <2>1
<1>8. CASE ~ table.raised /\ table.best[slot] # None
  <2>1. new = [table EXCEPT !.raised = TRUE]
    BY <1>8 DEF OfferToModel
  <2> QED
    BY <1>3, <2>1
<1> QED
  BY <1>5, <1>6, <1>7, <1>8

(* What loading a record comes to, slot by slot. *)
LoadsInto(table, new, r) ==
  /\ new \in Tables /\ (table.raised => new.raised)
  /\ ~ new.raised => \A s \in Slots : Enters(table.best[s], new.best[s], r, s)

(* Offering a record once more to the same slot changes nothing. *)
LEMMA ImprovesTwice ==
  ASSUME NEW r \in Records, r.kind = "static", r.cost # Failed,
         NEW old, NEW mid, NEW new, Improves(old, mid, r), Improves(mid, new, r)
  PROVE  Improves(old, new, r)
<1>1. r # None /\ r.kind # "dynamic" /\ ~ Beats(r, r)
  <2>1. r.cost \in Nat /\ r # None
    BY RecordIs
  <2> QED
    BY <2>1 DEF Beats
<1>2. CASE old = None
  BY <1>1, <1>2 DEF Improves
<1>3. CASE old # None /\ Beats(r, old)
  BY <1>1, <1>3 DEF Improves
<1>4. CASE old # None /\ ~ Beats(r, old)
  BY <1>4 DEF Improves
<1> QED
  BY <1>2, <1>3, <1>4

(* The table after the first i of the slots, for a static record. *)
Offered(table, new, slots, i, r) ==
  /\ new \in Tables /\ (table.raised => new.raised)
  /\ ~ new.raised =>
       \A s \in Slots : IF \E j \in 1 .. i : slots[j] = s
                        THEN Improves(table.best[s], new.best[s], r)
                        ELSE new.best[s] = table.best[s]

LEMMA OfferedNext ==
  ASSUME NEW table \in Tables, NEW new, NEW r \in Records, r.kind = "static", r.cost # Failed,
         NEW slots, NEW i \in Nat, slots[i + 1] \in Slots, Offered(table, new, slots, i, r)
  PROVE  Offered(table, OfferToKey(new, r, slots[i + 1]), slots, i + 1, r)
<1> DEFINE x == slots[i + 1]
           after == OfferToKey(new, r, x)
<1>1. new \in Tables
  BY DEF Offered
<1>2. /\ after \in Tables /\ (new.raised => after.raised)
      /\ ~ after.raised =>
           /\ Improves(new.best[x], after.best[x], r)
           /\ \A s \in Slots : s # x => after.best[s] = new.best[s]
  BY <1>1, OfferIs
<1> HIDE DEF after
<1>3. ASSUME ~ after.raised, NEW s \in Slots
      PROVE  IF \E j \in 1 .. i + 1 : slots[j] = s
             THEN Improves(table.best[s], after.best[s], r)
             ELSE after.best[s] = table.best[s]
  <2>1. IF \E j \in 1 .. i : slots[j] = s
        THEN Improves(table.best[s], new.best[s], r)
        ELSE new.best[s] = table.best[s]
    BY <1>2, <1>3 DEF Offered
  <2>2. /\ \A j \in 1 .. i : j \in 1 .. i + 1
        /\ \A j \in 1 .. i + 1 : j \in 1 .. i \/ j = i + 1
        /\ i + 1 \in 1 .. i + 1
    OBVIOUS
  <2>3. CASE s = x
    <3>1. Improves(new.best[s], after.best[s], r)
      BY <1>2, <1>3, <2>3
    <3>2. Improves(table.best[s], after.best[s], r)
      <4>1. CASE \E j \in 1 .. i : slots[j] = s
        BY <2>1, <3>1, <4>1, ImprovesTwice
      <4>2. CASE ~ \E j \in 1 .. i : slots[j] = s
        BY <2>1, <3>1, <4>2
      <4> QED
        BY <4>1, <4>2
    <3> QED
      BY <2>2, <2>3, <3>2
  <2>4. CASE s # x
    <3>1. after.best[s] = new.best[s]
      BY <1>2, <1>3, <2>4
    <3>2. (\E j \in 1 .. i + 1 : slots[j] = s) <=> (\E j \in 1 .. i : slots[j] = s)
      BY <2>2, <2>4
    <3> QED
      BY <2>1, <3>1, <3>2
  <2> QED
    BY <2>3, <2>4
<1> QED
  BY <1>2, <1>3 DEF Offered, after

LEMMA LoadStaticIs ==
  ASSUME NEW table \in Tables, NEW r \in Records, r.kind = "static", r.cost # Failed
  PROVE  LoadsInto(table, LoadStatic(table, r), r)
<1> DEFINE slots == KeySlots(r.target, r.wkl)
           m == ModelSlot(r.target, r.wkl)
           n == Len(slots)
           h == [p \in Tables \X (1 .. n) |-> OfferToKey(p[1], r, slots[p[2]])]
           Eq(f) == f = [i \in 0 .. n |-> IF i = 0 THEN table ELSE OfferToKey(f[i - 1], r, slots[i])]
           offered == CHOOSE f : Eq(f)
<1>1. r.target \in Targets /\ r.wkl \in Workloads /\ r # None
  BY RecordIs
<1>2. /\ n \in Nat /\ m \in Slots /\ m \notin Range(slots)
      /\ \A i \in 1 .. n : slots[i] \in Slots
      /\ Range(slots) = {slots[i] : i \in 1 .. n}
  BY <1>1, SlotsAre
<1>3. LoadStatic(table, r) = OfferToModel(offered[n], r, m)
  BY DEF LoadStatic
<1> HIDE DEF slots, m
<1>4. StepsTo(h, Tables, n)
  <2>1. ASSUME NEW p \in Tables \X (1 .. n) PROVE OfferToKey(p[1], r, slots[p[2]]) \in Tables
    BY <1>2, OfferIs
  <2> QED
    BY <2>1 DEF StepsTo
<1>5. PICK f : Tabulates(f, Tables, table, h, n)
  <2> HIDE DEF h, n
  <2> QED
    BY <1>2, <1>4, BoundedRecursion
<1>6. f \in [0 .. n -> Tables]
  BY <1>5 DEF Tabulates
<1> HIDE DEF n
<1>7. \A j \in 1 .. n : j - 1 \in 0 .. n /\ j \in 0 .. n
  BY <1>2
<1>8. \A j \in 0 .. n : f[j] = IF j = 0 THEN table ELSE OfferToKey(f[j - 1], r, slots[j])
  <2> TAKE j \in 0 .. n
  <2>1. CASE j = 0
    BY <1>5, <2>1 DEF Tabulates
  <2>2. CASE j # 0
    <3>1. j \in 1 .. n /\ f[j - 1] \in Tables
      BY <1>2, <1>6, <1>7, <2>2
    <3>2. f[j] = h[<<f[j - 1], j>>]
      BY <1>5, <2>2 DEF Tabulates
    <3>3. h[<<f[j - 1], j>>] = OfferToKey(f[j - 1], r, slots[j])
      BY <3>1
    <3> QED
      BY <2>2, <3>2, <3>3
  <2> QED
    BY <2>1, <2>2
<1>9. Eq(f)
  BY <1>6, <1>8
<1>10. Eq(offered)
  <2> HIDE DEF Eq
  <2> QED
    BY <1>9
<1> HIDE DEF offered, h
<1>11. offered[0] = table /\ \A j \in 1 .. n : offered[j] = OfferToKey(offered[j - 1], r, slots[j])
  <2>1. 0 \in 0 .. n /\ \A j \in 1 .. n : j # 0
    BY <1>2
  <2> QED
    BY <1>7, <1>10, <2>1
<1> DEFINE P == {j \in Nat : Offered(table, offered[j], slots, j, r)}
<1>12. 0 \in P
  BY <1>11 DEF Offered
<1>13. ASSUME NEW j \in 0 .. n - 1, j \in P PROVE j + 1 \in P
  <2>1. j + 1 \in 1 .. n /\ (j + 1) - 1 = j /\ j + 1 \in Nat /\ j \in Nat
    BY <1>2
  <2>2. offered[j + 1] = OfferToKey(offered[j], r, slots[j + 1])
    BY <1>11, <2>1
  <2>3. slots[j + 1] \in Slots
    BY <1>2, <2>1
  <2> QED
    BY <1>13, <2>1, <2>2, <2>3, OfferedNext
<1> HIDE DEF P
<1>14. Offered(table, offered[n], slots, n, r)
  <2>1. 0 .. n \subseteq P
    BY <1>2, <1>12, <1>13, IntervalInduction
  <2> QED
    BY <1>2, <2>1 DEF P
<1> DEFINE mid == offered[n]
           new == OfferToModel(mid, r, m)
<1>15. mid \in Tables
  BY <1>14 DEF Offered
<1>16. /\ new \in Tables /\ (mid.raised => new.raised)
       /\ ~ new.raised =>
            /\ mid.best[m] = None
            /\ new.best[m] = IF m[2] = Unknown THEN None ELSE r
            /\ \A s \in Slots : s # m => new.best[s] = mid.best[s]
  BY <1>2, <1>15, OfferModelIs
<1> HIDE DEF mid, new
<1>17. ASSUME ~ new.raised, NEW s \in Slots PROVE Enters(table.best[s], new.best[s], r, s)
  <2>1. IF \E j \in 1 .. n : slots[j] = s
        THEN Improves(table.best[s], mid.best[s], r)
        ELSE mid.best[s] = table.best[s]
    BY <1>14, <1>16, <1>17 DEF Offered, mid
  <2>2. (\E j \in 1 .. n : slots[j] = s) <=> s \in Range(slots)
    BY <1>2
  <2>3. FitsSlot(r, s) <=> s \in Range(slots) \/ (s = m /\ s[2] # Unknown)
    BY DEF FitsSlot, slots, m
  <2>4. CASE s = m
    <3>1. mid.best[s] = table.best[s] /\ mid.best[s] = None
      BY <1>2, <1>16, <1>17, <2>1, <2>2, <2>4
    <3>2. new.best[s] = IF s[2] = Unknown THEN None ELSE r
      BY <1>16, <1>17, <2>4
    <3> QED
      BY <1>2, <2>3, <2>4, <3>1, <3>2 DEF Enters, Improves
  <2>5. CASE s # m
    <3>1. new.best[s] = mid.best[s]
      BY <1>16, <1>17, <2>5
    <3> QED
      BY <2>1, <2>2, <2>3, <2>5, <3>1 DEF Enters
  <2> QED
    BY <2>4, <2>5
<1>18. table.raised => new.raised
  BY <1>14, <1>16 DEF Offered, mid
<1> QED
  BY <1>3, <1>16, <1>17, <1>18 DEF LoadsInto, mid, new

LEMMA LoadDynamicIs ==
  ASSUME NEW table \in Tables, NEW r \in Records, r.kind = "dynamic"
  PROVE  LoadsInto(table, LoadDynamic(table, r), r)
<1> DEFINE Hit(s) == s = ModelSlot(r.target, r.wkl) \/ s \in Range(KeySlots(r.target, r.wkl))
           row == [s \in Slots |-> IF Hit(s) THEN r ELSE table.best[s]]
           new == [table EXCEPT !.best = row]
<1>1. table.best \in Rows /\ table.raised \in BOOLEAN
  BY DEF Tables
<1>2. CASE table.raised
  BY <1>2 DEF LoadDynamic, LoadsInto
<1>3. CASE ~ table.raised
  <2>1. LoadDynamic(table, r) = new
    BY <1>3 DEF LoadDynamic
  <2>2. \A s \in Slots : row[s] = IF Hit(s) THEN r ELSE table.best[s]
    OBVIOUS
  <2>3. row \in Rows
    BY <1>1 DEF Rows
  <2> HIDE DEF row
  <2>4. new \in Tables /\ new.best = row /\ new.raised = table.raised
    BY <1>1, <2>3 DEF Tables
  <2>5. \A s \in Slots : FitsSlot(r, s) <=> Hit(s)
    BY DEF FitsSlot
  <2>6. \A s \in Slots : Enters(table.best[s], row[s], r, s)
    <3> HIDE DEF Hit
    <3> QED
      BY <2>2, <2>5 DEF Enters
  <2> HIDE DEF new
  <2> QED
    BY <1>3, <2>1, <2>4, <2>6 DEF LoadsInto
<1> QED
  BY <1>2, <1>3

LEMMA LoadOneIs ==
  ASSUME NEW table \in Tables, NEW r \in Records
  PROVE  LoadsInto(table, LoadOne(table, r), r)
<1>1. r.kind \in {"static", "dynamic"}
  BY RecordIs
<1>2. CASE r.kind = "dynamic"
  BY <1>2, LoadDynamicIs DEF LoadOne
<1>3. CASE r.kind = "static" /\ r.cost # Failed
  BY <1>3, LoadStaticIs DEF LoadOne
<1>4. CASE r.kind = "static" /\ r.cost = Failed
  <2>1. LoadOne(table, r) = table
    BY <1>4 DEF LoadOne, LoadStatic
  <2>2. \A s \in Slots : ~ FitsSlot(r, s)
    BY <1>4 DEF FitsSlot
  <2> QED
    BY <2>1, <2>2 DEF LoadsInto, Enters
<1> QED
  BY <1>1, <1>2, <1>3, <1>4

-----------------------------------------------------------------------------
(* What a slot holds after the first n records of a list: the last fitting  *)
(* dispatcher, or else a fastest fitting record.                            *)
Fitting(list, n, s) == {i \in 1 .. n : FitsSlot(list[i], s)}

IsLastDynamic(m, list, n, s) ==
  /\ m \in Fitting(list, n, s) /\ list[m].kind = "dynamic"
  /\ \A i \in Fitting(list, n, s) : list[i].kind = "dynamic" => i <= m

IsFastest(m, list, n, s) ==
  /\ m \in Fitting(list, n, s)
  /\ \A i \in Fitting(list, n, s) : list[i].kind # "dynamic" /\ list[m].cost <= list[i].cost

Holds(v, list, n, s) ==
  \/ v = None /\ Fitting(list, n, s) = {}
  \/ \E m \in 1 .. n : v = list[m] /\ IsLastDynamic(m, list, n, s)
  \/ \E m \in 1 .. n : v = list[m] /\ IsFastest(m, list, n, s)

AllHold(row, list, n) == \A s \in Slots : Holds(row[s], list, n, s)

LEMMA HoldsPrefix ==
  ASSUME NEW n \in Nat, NEW list, NEW other, \A i \in 1 .. n : list[i] = other[i],
         NEW v, NEW s, Holds(v, list, n, s)
  PROVE  Holds(v, other, n, s)
<1>1. Fitting(list, n, s) = Fitting(other, n, s)
  BY DEF Fitting
<1>2. Fitting(list, n, s) \subseteq 1 .. n
  BY DEF Fitting
<1>3. \A m \in 1 .. n : IsLastDynamic(m, list, n, s) => IsLastDynamic(m, other, n, s)
  BY <1>1, <1>2 DEF IsLastDynamic
<1>4. \A m \in 1 .. n : IsFastest(m, list, n, s) => IsFastest(m, other, n, s)
  BY <1>1, <1>2 DEF IsFastest
<1> QED
  BY <1>1, <1>3, <1>4 DEF Holds

LEMMA HoldsNext ==
  ASSUME NEW n \in Nat, NEW list, \A i \in 1 .. n + 1 : list[i] \in Records,
         NEW old, NEW new, NEW s, Holds(old, list, n, s), Enters(old, new, list[n + 1], s)
  PROVE  Holds(new, list, n + 1, s)
<1> DEFINE r == list[n + 1]
           F == Fitting(list, n, s)
           G == Fitting(list, n + 1, s)
<1>1. /\ r \in Records /\ n + 1 \in 1 .. n + 1
      /\ \A i \in 1 .. n : i \in 1 .. n + 1 /\ i # n + 1 /\ i <= n + 1 /\ list[i] \in Records
      /\ \A i \in 1 .. n + 1 : i \in 1 .. n \/ i = n + 1
  OBVIOUS
<1>2. G = IF FitsSlot(r, s) THEN F \cup {n + 1} ELSE F
  BY <1>1 DEF Fitting
<1>3. F \subseteq 1 .. n
  BY DEF Fitting
<1>4. CASE ~ FitsSlot(r, s)
  <2>1. new = old /\ G = F
    BY <1>2, <1>4 DEF Enters
  <2>2. \A m \in 1 .. n : IsLastDynamic(m, list, n, s) => IsLastDynamic(m, list, n + 1, s)
    BY <2>1 DEF IsLastDynamic
  <2>3. \A m \in 1 .. n : IsFastest(m, list, n, s) => IsFastest(m, list, n + 1, s)
    BY <2>1 DEF IsFastest
  <2> QED
    BY <1>1, <2>1, <2>2, <2>3 DEF Holds
<1>5. CASE FitsSlot(r, s) /\ r.kind = "dynamic"
  <2>1. new = r /\ G = F \cup {n + 1}
    BY <1>2, <1>5 DEF Enters
  <2>2. \A i \in G : i <= n + 1
    BY <1>1, <1>3, <2>1
  <2>3. IsLastDynamic(n + 1, list, n + 1, s)
    BY <1>5, <2>1, <2>2 DEF IsLastDynamic
  <2> QED
    BY <1>1, <2>1, <2>3 DEF Holds
<1>6. CASE FitsSlot(r, s) /\ r.kind # "dynamic"
  <2>1. Improves(old, new, r) /\ G = F \cup {n + 1}
    BY <1>2, <1>6 DEF Enters
  <2>2. r.kind = "static" /\ r.cost \in Nat /\ r.cost <= r.cost
    <3>1. r.kind = "static" /\ r.cost # Failed /\ r.cost \in Nat \cup {Failed}
      BY <1>1, <1>6, RecordIs DEF FitsSlot
    <3> QED
      BY <3>1
  <2>3. CASE F = {}
    <3>1. old = None
      BY <2>3 DEF Holds, IsLastDynamic, IsFastest
    <3>2. new = r /\ G = {n + 1}
      BY <2>1, <2>3, <3>1 DEF Improves
    <3>3. IsFastest(n + 1, list, n + 1, s)
      BY <1>6, <2>2, <3>2 DEF IsFastest
    <3> QED
      BY <1>1, <3>2, <3>3 DEF Holds
  <2>4. CASE F # {}
    <3>1. PICK m \in 1 .. n : old = list[m] /\ (IsLastDynamic(m, list, n, s) \/ IsFastest(m, list, n, s))
      BY <2>4 DEF Holds
    <3>2. old # None
      BY <1>1, <3>1, RecordIs
    <3>3. old.kind # "dynamic" /\ new = IF Beats(r, old) THEN r ELSE old
      BY <2>1, <3>2 DEF Improves
    <3>4. IsFastest(m, list, n, s)
      BY <3>1, <3>3 DEF IsLastDynamic
    <3>5. \A i \in F : list[i].kind # "dynamic" /\ list[i].cost \in Nat
      <4>1. \A i \in F : list[i].kind # "dynamic" /\ FitsSlot(list[i], s) /\ list[i] \in Records
        BY <1>1, <1>3, <3>4 DEF IsFastest, Fitting
      <4>2. \A i \in F : list[i].kind = "static" /\ list[i].cost \in Nat \cup {Failed}
        BY <4>1, RecordIs
      <4> QED
        BY <4>1, <4>2 DEF FitsSlot
    <3>6. /\ m \in F /\ \A i \in F : old.cost <= list[i].cost
          /\ old.cost \in Nat
      BY <3>1, <3>4, <3>5 DEF IsFastest
    <3>7. CASE Beats(r, old)
      <4>1. \A i \in F : r.cost <= list[i].cost
        BY <2>2, <3>5, <3>6, <3>7 DEF Beats
      <4>2. IsFastest(n + 1, list, n + 1, s)
        BY <1>6, <2>1, <2>2, <3>5, <4>1 DEF IsFastest
      <4> QED
        BY <1>1, <3>3, <3>7, <4>2 DEF Holds
    <3>8. CASE ~ Beats(r, old)
      <4>1. old.cost <= r.cost
        BY <2>2, <3>6, <3>8 DEF Beats
      <4>2. IsFastest(m, list, n + 1, s)
        BY <1>6, <2>1, <3>1, <3>5, <3>6, <4>1 DEF IsFastest
      <4> QED
        BY <1>1, <3>1, <3>3, <3>8, <4>2 DEF Holds
    <3> QED
      BY <3>7, <3>8
  <2> QED
    BY <2>3, <2>4
<1> QED
  BY <1>4, <1>5, <1>6

-----------------------------------------------------------------------------
(* What load() reads. *)
LEMMA ReadAreSaved ==
  ASSUME LogInv
  PROVE  \A l \in 1 .. Len(log) : ReadIds[l] \in 1 .. Len(saved)
<1>1. LogTypes /\ InOrder
  BY DEF LogInv
<1>2. DOMAIN log = 1 .. Len(log) /\ Len(log) \in Nat /\ Done \in Nat /\ Len(saved) \in Nat
  BY <1>1, LogShape
<1> SUFFICES ASSUME NEW l \in 1 .. Len(log) PROVE ReadIds[l] \in 1 .. Len(saved)
  OBVIOUS
<1>3. log[l][1] \in Texts
  <2>1. Len(log[l]) \in Nat /\ Len(log[l]) >= 1 /\ \A x \in 1 .. Len(log[l]) : log[l][x] \in Texts
    BY <1>1, LogShape
  <2>2. 1 \in 1 .. Len(log[l])
    BY <2>1
  <2> QED
    BY <2>1, <2>2
<1>4. ReadIds[l] = log[l][1].id
  <2>1. Head(log[l]) = log[l][1]
    BY <1>1, LogShape
  <2> QED
    BY <1>2, <2>1 DEF ReadIds
<1>5. PICK i \in Nat \ {0} : i = ReadIds[l]
  BY <1>3, <1>4 DEF Texts
<1>6. Done <= Len(saved)
  BY <1>1, <1>2 DEF Done, LogTypes
<1>7. CASE i <= Done
  BY <1>2, <1>5, <1>6, <1>7
<1>8. CASE Begun /\ l = Len(log) /\ Len(log[l]) = 1
  <2>1. LastText = log[l][1]
    BY <1>1, <1>8, LogShape
  <2>2. pending # <<>> /\ i = Done + 1 /\ Len(pending) \in Nat /\ Len(pending) > 0
    BY <1>1, <1>4, <1>5, <1>8, <2>1, LogShape DEF Begun
  <2>3. Done + 1 <= Len(saved)
    BY <1>2, <2>2 DEF Done
  <2> QED
    BY <1>2, <1>5, <2>2, <2>3
<1> QED
  BY <1>1, <1>2, <1>4, <1>5, <1>7, <1>8 DEF InOrder

LEMMA OfKindIs ==
  ASSUME LogInv, NEW kind
  PROVE  OfKind(kind) \in Seq(Records)
<1> DEFINE n == Len(log)
           S == Seq(Records)
           R(l) == saved[ReadIds[l]]
           Go(q, l) == IF R(l).kind = kind THEN Append(q, R(l)) ELSE q
           h == [p \in S \X (1 .. n) |-> Go(p[1], p[2])]
           Eq(f) == f = [l \in 0 .. n |-> IF l = 0 THEN << >> ELSE Go(f[l - 1], l)]
           kept == CHOOSE f : Eq(f)
<1>1. n \in Nat /\ \A l \in 1 .. n : R(l) \in Records
  <2>1. LogTypes
    BY DEF LogInv
  <2>2. n \in Nat /\ saved \in Seq(Records)
    BY <2>1, LogShape DEF LogTypes
  <2> QED
    BY <2>2, ReadAreSaved
<1>2. OfKind(kind) = kept[n]
  BY DEF OfKind
<1> HIDE DEF R
<1>3. << >> \in S
  OBVIOUS
<1>4. \A q \in S, l \in 1 .. n : Go(q, l) \in S
  <2> SUFFICES ASSUME NEW q \in S, NEW l \in 1 .. n PROVE Go(q, l) \in S
    OBVIOUS
  <2>1. R(l) \in Records
    BY <1>1
  <2>2. Append(q, R(l)) \in S
    BY <2>1
  <2> HIDE DEF S
  <2> QED
    BY <2>2
<1> HIDE DEF S, Go
<1>5. StepsTo(h, S, n)
  BY <1>4 DEF StepsTo
<1>6. PICK f : Tabulates(f, S, << >>, h, n)
  <2> HIDE DEF h, n
  <2> QED
    BY <1>1, <1>3, <1>5, BoundedRecursion
<1>7. f \in [0 .. n -> S]
  BY <1>6 DEF Tabulates
<1> HIDE DEF n
<1>8. \A j \in 1 .. n : j - 1 \in 0 .. n /\ j \in 0 .. n
  BY <1>1
<1>9. \A j \in 0 .. n : f[j] = IF j = 0 THEN << >> ELSE Go(f[j - 1], j)
  <2> TAKE j \in 0 .. n
  <2>1. CASE j = 0
    BY <1>6, <2>1 DEF Tabulates
  <2>2. CASE j # 0
    <3>1. j \in 1 .. n /\ f[j - 1] \in S
      BY <1>1, <1>7, <1>8, <2>2
    <3>2. f[j] = h[<<f[j - 1], j>>]
      BY <1>6, <2>2 DEF Tabulates
    <3>3. h[<<f[j - 1], j>>] = Go(f[j - 1], j)
      BY <3>1
    <3> QED
      BY <2>2, <3>2, <3>3
  <2> QED
    BY <2>1, <2>2
<1>10. Eq(f)
  BY <1>7, <1>9
<1>11. Eq(kept)
  <2> HIDE DEF Eq
  <2> QED
    BY <1>10
<1> HIDE DEF kept, h
<1>12. kept[0] = << >> /\ \A j \in 1 .. n : kept[j] = Go(kept[j - 1], j)
  <2>1. 0 \in 0 .. n /\ \A j \in 1 .. n : j # 0
    BY <1>1
  <2> QED
    BY <1>8, <1>11, <2>1
<1> DEFINE P == {j \in Nat : kept[j] \in S}
<1>13. 0 \in P
  BY <1>3, <1>12
<1>14. ASSUME NEW j \in 0 .. n - 1, j \in P PROVE j + 1 \in P
  <2>1. j + 1 \in 1 .. n /\ (j + 1) - 1 = j /\ j + 1 \in Nat
    BY <1>1
  <2>2. kept[j + 1] = Go(kept[j], j + 1)
    BY <1>12, <2>1
  <2> QED
    BY <1>4, <1>14, <2>1, <2>2
<1> HIDE DEF P
<1>15. 0 .. n \subseteq P
  BY <1>1, <1>13, <1>14, IntervalInduction
<1> QED
  BY <1>1, <1>2, <1>15 DEF P, S

LEMMA TakenIs ==
  ASSUME LogInv, NEW limit \in Nat
  PROVE  Taken(limit) \in Seq(Records) /\ Len(Taken(limit)) \in Nat
<1> DEFINE all == OfKind("static") \o OfKind("dynamic")
           k == Min({limit, Len(all)})
<1>1. all \in Seq(Records)
  <2>1. OfKind("static") \in Seq(Records) /\ OfKind("dynamic") \in Seq(Records)
    BY OfKindIs
  <2> QED
    BY <2>1
<1> HIDE DEF all
<1>2. Len(all) \in Nat
  BY <1>1
<1>3. k \in {limit, Len(all)} /\ k <= Len(all)
  <2>1. {limit, Len(all)} \in SUBSET Nat
    BY <1>2
  <2> HIDE DEF k
  <2>2. k \in {limit, Len(all)} /\ \A x \in {limit, Len(all)} : k <= x
    BY <2>1, MinIs DEF k
  <2> QED
    BY <2>2
<1> HIDE DEF k
<1>4. SubSeq(all, 1, k) \in Seq(Records) /\ Len(SubSeq(all, 1, k)) \in Nat
  BY <1>1, <1>2, <1>3
<1> QED
  BY <1>4 DEF Taken, all, k

-----------------------------------------------------------------------------
(* A whole load() keeps what the slots hold, unless it raises.              *)
LEMMA LoadedIs ==
  ASSUME LogInv, NEW limit \in Nat, NEW row \in Rows, NEW list \in Seq(Records)
  PROVE  LET new == Loaded(row, limit)
             both == list \o Taken(limit)
         IN  /\ new \in Tables
             /\ ~ new.raised /\ AllHold(row, list, Len(list)) => AllHold(new.best, both, Len(both))
<1> DEFINE records == Taken(limit)
           both == list \o records
           n == Len(records)
           m == Len(list)
           start == [best |-> row, raised |-> FALSE]
           h == [p \in Tables \X (1 .. n) |-> LoadOne(p[1], records[p[2]])]
           Eq(f) == f = [i \in 0 .. n |-> IF i = 0 THEN start ELSE LoadOne(f[i - 1], records[i])]
           load == CHOOSE f : Eq(f)
<1>1. records \in Seq(Records) /\ n \in Nat /\ m \in Nat
  <2>1. m \in Nat
    OBVIOUS
  <2> QED
    BY <2>1, TakenIs
<1>2. Loaded(row, limit) = load[n]
  BY DEF Loaded
<1> HIDE DEF records
<1>3. \A i \in 1 .. n : records[i] \in Records
  BY <1>1
<1>4. /\ both \in Seq(Records) /\ Len(both) = m + n
      /\ \A i \in 1 .. m : both[i] = list[i]
      /\ \A j \in 1 .. n : both[m + j] = records[j]
  BY <1>1, Joined
<1>5. \A i \in 1 .. m + n : both[i] \in Records
  BY <1>4
<1>6. start \in Tables /\ start.best = row
  BY DEF Tables
<1> HIDE DEF start, both, m
<1>7. StepsTo(h, Tables, n)
  <2>1. ASSUME NEW p \in Tables \X (1 .. n) PROVE LoadOne(p[1], records[p[2]]) \in Tables
    BY <1>3, LoadOneIs DEF LoadsInto
  <2> QED
    BY <2>1 DEF StepsTo
<1>8. PICK f : Tabulates(f, Tables, start, h, n)
  <2> HIDE DEF h, n
  <2> QED
    BY <1>1, <1>6, <1>7, BoundedRecursion
<1>9. f \in [0 .. n -> Tables]
  BY <1>8 DEF Tabulates
<1> HIDE DEF n
<1>10. \A j \in 1 .. n : j - 1 \in 0 .. n /\ j \in 0 .. n
  BY <1>1
<1>11. \A j \in 0 .. n : f[j] = IF j = 0 THEN start ELSE LoadOne(f[j - 1], records[j])
  <2> TAKE j \in 0 .. n
  <2>1. CASE j = 0
    BY <1>8, <2>1 DEF Tabulates
  <2>2. CASE j # 0
    <3>1. j \in 1 .. n /\ f[j - 1] \in Tables
      BY <1>1, <1>9, <1>10, <2>2
    <3>2. f[j] = h[<<f[j - 1], j>>]
      BY <1>8, <2>2 DEF Tabulates
    <3>3. h[<<f[j - 1], j>>] = LoadOne(f[j - 1], records[j])
      BY <3>1
    <3> QED
      BY <2>2, <3>2, <3>3
  <2> QED
    BY <2>1, <2>2
<1>12. Eq(f)
  BY <1>9, <1>11
<1>13. Eq(load)
  <2> HIDE DEF Eq
  <2> QED
    BY <1>12
<1> HIDE DEF load, h
<1>14. load[0] = start /\ \A j \in 1 .. n : load[j] = LoadOne(load[j - 1], records[j])
  <2>1. 0 \in 0 .. n /\ \A j \in 1 .. n : j # 0
    BY <1>1
  <2> QED
    BY <1>10, <1>13, <2>1
<1> DEFINE Good(t, j) == /\ t \in Tables
                         /\ ~ t.raised /\ AllHold(row, list, m) => AllHold(t.best, both, m + j)
           P == {j \in Nat : Good(load[j], j)}
<1>15. 0 \in P
  <2>1. AllHold(row, list, m) => AllHold(row, both, m)
    BY <1>1, <1>4, HoldsPrefix DEF AllHold
  <2>2. m + 0 = m
    BY <1>1
  <2>3. Good(start, 0)
    BY <1>6, <2>1, <2>2
  <2> HIDE DEF Good
  <2> QED
    BY <1>14, <2>3
<1>16. ASSUME NEW j \in 0 .. n - 1, j \in P PROVE j + 1 \in P
  <2>1. j + 1 \in 1 .. n /\ (j + 1) - 1 = j /\ j + 1 \in Nat
    BY <1>1
  <2>2. PICK t : t = load[j] /\ Good(t, j)
    BY <1>16
  <2>3. PICK u : u = LoadOne(t, records[j + 1])
    OBVIOUS
  <2>4. LoadsInto(t, u, records[j + 1])
    BY <1>3, <2>1, <2>2, <2>3, LoadOneIs
  <2>5. PICK k \in Nat : k = m + j /\ k + 1 = m + (j + 1) /\ k + 1 <= m + n
    BY <1>1, <2>1
  <2>6. both[k + 1] = records[j + 1] /\ \A i \in 1 .. k + 1 : both[i] \in Records
    BY <1>1, <1>4, <1>5, <2>1, <2>5
  <2>7. ASSUME ~ u.raised, AllHold(row, list, m) PROVE AllHold(u.best, both, k + 1)
    <3>1. ~ t.raised /\ \A s \in Slots : Enters(t.best[s], u.best[s], both[k + 1], s)
      BY <2>4, <2>6, <2>7 DEF LoadsInto
    <3>2. \A s \in Slots : Holds(t.best[s], both, k, s)
      BY <2>2, <2>5, <2>7, <3>1 DEF AllHold
    <3> QED
      BY <2>6, <3>1, <3>2, HoldsNext DEF AllHold
  <2>8. Good(u, j + 1)
    BY <2>4, <2>5, <2>7 DEF LoadsInto
  <2>9. load[j + 1] = u
    BY <1>14, <2>1, <2>2, <2>3
  <2> HIDE DEF Good
  <2> QED
    BY <2>1, <2>8, <2>9
<1> HIDE DEF P
<1>17. n \in P
  <2>1. 0 .. n \subseteq P
    BY <1>1, <1>15, <1>16, IntervalInduction
  <2> QED
    BY <1>1, <2>1
<1>18. Good(load[n], n)
  BY <1>17 DEF P
<1> QED
  BY <1>2, <1>4, <1>18 DEF both, m, records

-----------------------------------------------------------------------------
(* The context a with block at depth k passes its queries on to.            *)
Outer(k) == IF k = 0 THEN Root ELSE withs[k]

HistTypes ==
  /\ best \in [Ctxs -> Rows] /\ old_ctx \in [Ctxs -> Ctxs \cup {Root, None}]
  /\ loaded \in [Ctxs -> Seq(Records)] /\ withs \in Seq(Ctxs)

(* Tables are what one pass over everything loaded would make of them.      *)
TablesBest ==
  \A c \in Ctxs \ aborted : AllHold(best[c], loaded[c], Len(loaded[c]))

Fresh == \A c \in Ctxs : old_ctx[c] = None => loaded[c] = <<>>

(* The open blocks are a chain that ends at the root.                       *)
Nested ==
  /\ \A j, k \in 1 .. Len(withs) : withs[j] = withs[k] => j = k
  /\ current = Outer(Len(withs))
  /\ \A k \in 1 .. Len(withs) : old_ctx[withs[k]] = Outer(k - 1)

HistInv == LogInv /\ HistTypes /\ Fresh /\ TablesBest /\ Nested

LEMMA WithsShape ==
  ASSUME HistTypes
  PROVE  /\ Len(withs) \in Nat /\ DOMAIN withs = 1 .. Len(withs)
         /\ \A k \in 1 .. Len(withs) : withs[k] \in Ctxs
         /\ \A k \in 0 .. Len(withs) : Outer(k) \in Ctxs \cup {Root} /\ Outer(k) # None
         /\ (withs = <<>>) <=> Len(withs) = 0
<1>1. /\ Len(withs) \in Nat /\ DOMAIN withs = 1 .. Len(withs)
      /\ \A k \in 1 .. Len(withs) : withs[k] \in Ctxs
      /\ (withs = <<>>) <=> Len(withs) = 0
  BY DEF HistTypes
<1>2. ASSUME NEW k \in 0 .. Len(withs) PROVE Outer(k) \in Ctxs \cup {Root} /\ Outer(k) # None
  <2>1. k = 0 \/ k \in 1 .. Len(withs)
    BY <1>1
  <2>2. Outer(k) \in Ctxs \cup {Root}
    BY <1>1, <2>1 DEF Outer
  <2> QED
    BY <2>2, HistoryAssumption
<1> QED
  BY <1>1, <1>2

LEMMA HistInit == Init => HistInv
<1> SUFFICES ASSUME Init PROVE HistInv
  OBVIOUS
<1>1. LogInv
  BY LogInit DEF Init
<1>2. /\ best = [c \in Ctxs |-> [s \in Slots |-> None]]
      /\ old_ctx = [c \in Ctxs |-> None] /\ current = Root
      /\ loaded = [c \in Ctxs |-> <<>>]
  BY DEF Init
<1>3. withs = <<>> /\ Len(withs) = 0
  BY DEF Init
<1>4. HistTypes
  <2>1. [s \in Slots |-> None] \in Rows
    BY DEF Rows
  <2>2. <<>> \in Seq(Records) /\ <<>> \in Seq(Ctxs)
    OBVIOUS
  <2> QED
    BY <1>2, <1>3, <2>1, <2>2 DEF HistTypes
<1>5. Fresh
  BY <1>2 DEF Fresh
<1>6. TablesBest
  <2>1. \A s \in Slots : Holds(None, <<>>, 0, s)
    BY DEF Holds, Fitting
  <2>2. \A c \in Ctxs : /\ loaded[c] = <<>> /\ Len(loaded[c]) = 0
                        /\ \A s \in Slots : best[c][s] = None
    BY <1>2
  <2> QED
    BY <2>1, <2>2 DEF TablesBest, AllHold
<1>7. Nested
  BY <1>2, <1>3 DEF Nested, Outer
<1> QED
  BY <1>1, <1>4, <1>5, <1>6, <1>7 DEF HistInv

(* Filling the table of one context, while it is constructed or later.      *)
LEMMA FillKeeps ==
  ASSUME HistInv, NEW c \in Ctxs, NEW limit \in Nat,
         best' = [best EXCEPT ![c] = Loaded(@, limit).best],
         loaded' = [loaded EXCEPT ![c] = @ \o Taken(limit)],
         \A x \in Ctxs : x \notin aborted' => x \notin aborted,
         Loaded(best[c], limit).raised => c \in aborted'
  PROVE  /\ best' \in [Ctxs -> Rows] /\ loaded' \in [Ctxs -> Seq(Records)]
         /\ TablesBest'
<1> DEFINE new == Loaded(best[c], limit)
           both == loaded[c] \o Taken(limit)
<1>1. LogInv /\ best \in [Ctxs -> Rows] /\ loaded \in [Ctxs -> Seq(Records)] /\ TablesBest
  BY DEF HistInv, HistTypes
<1>2. best[c] \in Rows /\ loaded[c] \in Seq(Records)
  BY <1>1
<1>3. /\ new \in Tables
      /\ ~ new.raised /\ AllHold(best[c], loaded[c], Len(loaded[c])) => AllHold(new.best, both, Len(both))
  BY <1>1, <1>2, LoadedIs
<1>4. both \in Seq(Records)
  <2>1. Taken(limit) \in Seq(Records)
    BY <1>1, TakenIs
  <2> QED
    BY <1>2, <2>1
<1>5. new.best \in Rows
  BY <1>3 DEF Tables
<1>6. best' = [best EXCEPT ![c] = new.best] /\ loaded' = [loaded EXCEPT ![c] = both]
  OBVIOUS
<1> HIDE DEF new, both
<1>7. best' \in [Ctxs -> Rows] /\ loaded' \in [Ctxs -> Seq(Records)]
  BY <1>1, <1>4, <1>5, <1>6
<1>8. ASSUME NEW x \in Ctxs, x \notin aborted'
      PROVE  AllHold(best'[x], loaded'[x], Len(loaded'[x]))
  <2>1. AllHold(best[x], loaded[x], Len(loaded[x]))
    BY <1>1, <1>8 DEF TablesBest
  <2>2. CASE x = c
    <3>1. ~ new.raised
      BY <1>8, <2>2 DEF new
    <3>2. best'[x] = new.best /\ loaded'[x] = both
      BY <1>1, <1>6, <2>2
    <3> QED
      BY <1>3, <2>1, <2>2, <3>1, <3>2
  <2>3. CASE x # c
    <3>1. best'[x] = best[x] /\ loaded'[x] = loaded[x]
      BY <1>1, <1>6, <2>3
    <3> QED
      BY <2>1, <3>1
  <2> QED
    BY <2>2, <2>3
<1>9. TablesBest'
  BY <1>8 DEF TablesBest, AllHold, Holds, IsLastDynamic, IsFastest, Fitting, FitsSlot
<1> QED
  BY <1>7, <1>9

(* A step of the program on its contexts leaves the log alone.              *)
LEMMA TablesStay ==
  ASSUME TablesBest, UNCHANGED <<best, loaded, aborted>>
  PROVE  TablesBest'
BY DEF TablesBest, AllHold, Holds, IsLastDynamic, IsFastest, Fitting, FitsSlot

LEMMA NestedStays ==
  ASSUME Nested, UNCHANGED <<withs, current>>,
         \A k \in 1 .. Len(withs) : old_ctx'[withs[k]] = old_ctx[withs[k]]
  PROVE  Nested'
<1>1. \A k \in 1 .. Len(withs) : old_ctx'[withs[k]] = Outer(k - 1)
  BY DEF Nested
<1>2. \A k : Outer(k)' = Outer(k)
  BY DEF Outer
<1> QED
  BY <1>1 DEF Nested, Outer

LEMMA HistStep == ASSUME HistInv, Next PROVE HistInv'
<1>0. LogInv /\ HistTypes /\ Fresh /\ TablesBest /\ Nested
  BY DEF HistInv
<1>1. CASE WriterStep /\ UNCHANGED histVars
  <2>1. LogInv'
    BY <1>0, <1>1, LogStep
  <2>2. UNCHANGED <<best, old_ctx, current, withs, loaded, aborted>>
    BY <1>1 DEF histVars
  <2>3. HistTypes' /\ Fresh'
    BY <1>0, <2>2 DEF HistTypes, Fresh
  <2>4. TablesBest' /\ Nested'
    BY <1>0, <2>2, TablesStay, NestedStays
  <2> QED
    BY <2>1, <2>3, <2>4 DEF HistInv
<1>2. ASSUME NEW c \in Ctxs, NEW limit \in Limits, Construct(c, limit) PROVE HistInv'
  <2>1. /\ old_ctx[c] = None /\ ~ Loaded(best[c], limit).raised
        /\ best' = [best EXCEPT ![c] = Loaded(@, limit).best]
        /\ loaded' = [loaded EXCEPT ![c] = Taken(limit)]
        /\ old_ctx' = [old_ctx EXCEPT ![c] = current]
        /\ UNCHANGED <<logVars, current, withs, aborted>>
    BY <1>2 DEF Construct
  <2>2. limit \in Nat
    BY HistoryAssumption
  <2>3. loaded' = [loaded EXCEPT ![c] = @ \o Taken(limit)]
    <3>1. Taken(limit) \in Seq(Records) /\ loaded[c] = <<>>
      BY <1>0, <2>1, <2>2, TakenIs DEF Fresh
    <3>2. <<>> \o Taken(limit) = Taken(limit)
      BY <3>1
    <3> QED
      BY <2>1, <3>1, <3>2
  <2>4. best' \in [Ctxs -> Rows] /\ loaded' \in [Ctxs -> Seq(Records)] /\ TablesBest'
    BY <2>1, <2>2, <2>3, FillKeeps
  <2>5. current \in Ctxs \cup {Root} /\ current # None
    <3>1. Len(withs) \in 0 .. Len(withs)
      BY <1>0, WithsShape
    <3> QED
      BY <1>0, <3>1, WithsShape DEF Nested
  <2>6. HistTypes'
    <3>1. old_ctx' \in [Ctxs -> Ctxs \cup {Root, None}]
      BY <1>0, <2>1, <2>5 DEF HistTypes
    <3> QED
      BY <1>0, <2>1, <2>4, <3>1 DEF HistTypes
  <2>7. Fresh'
    <3>1. /\ old_ctx \in [Ctxs -> Ctxs \cup {Root, None}]
          /\ loaded \in [Ctxs -> Seq(Records)]
      BY <1>0 DEF HistTypes
    <3>2. \A x \in Ctxs : x # c => old_ctx'[x] = old_ctx[x] /\ loaded'[x] = loaded[x]
      BY <2>1, <3>1
    <3>3. old_ctx'[c] # None
      BY <2>1, <2>5, <3>1
    <3> QED
      BY <1>0, <3>2, <3>3 DEF Fresh
  <2>8. Nested'
    <3>1. \A k \in 1 .. Len(withs) : withs[k] \in Ctxs /\ k - 1 \in 0 .. Len(withs)
      BY <1>0, WithsShape
    <3>2. \A k \in 1 .. Len(withs) : old_ctx[withs[k]] # None
      BY <1>0, <3>1, WithsShape DEF Nested
    <3>3. \A k \in 1 .. Len(withs) : old_ctx'[withs[k]] = old_ctx[withs[k]]
      BY <1>0, <2>1, <3>1, <3>2 DEF HistTypes
    <3> QED
      BY <1>0, <2>1, <3>3, NestedStays
  <2>9. LogInv'
    BY <1>0, <2>1, LogStutters
  <2> QED
    BY <2>4, <2>6, <2>7, <2>8, <2>9 DEF HistInv
<1>3. ASSUME NEW c \in Ctxs, NEW limit \in Limits, Load(c, limit) PROVE HistInv'
  <2>1. /\ old_ctx[c] # None
        /\ best' = [best EXCEPT ![c] = Loaded(@, limit).best]
        /\ loaded' = [loaded EXCEPT ![c] = @ \o Taken(limit)]
        /\ aborted' = IF Loaded(best[c], limit).raised THEN aborted \cup {c} ELSE aborted
        /\ UNCHANGED <<logVars, old_ctx, current, withs>>
    BY <1>3 DEF Load
  <2>2. limit \in Nat
    BY HistoryAssumption
  <2>3. /\ \A x \in Ctxs : x \notin aborted' => x \notin aborted
        /\ Loaded(best[c], limit).raised => c \in aborted'
    BY <2>1
  <2>4. best' \in [Ctxs -> Rows] /\ loaded' \in [Ctxs -> Seq(Records)] /\ TablesBest'
    BY <2>1, <2>2, <2>3, FillKeeps
  <2>5. HistTypes'
    BY <1>0, <2>1, <2>4 DEF HistTypes
  <2>6. Fresh'
    <3>1. loaded \in [Ctxs -> Seq(Records)]
      BY <1>0 DEF HistTypes
    <3>2. \A x \in Ctxs : x # c => loaded'[x] = loaded[x]
      BY <2>1, <3>1
    <3> QED
      BY <1>0, <2>1, <3>2 DEF Fresh
  <2>7. Nested'
    BY <1>0, <2>1, NestedStays
  <2>8. LogInv'
    BY <1>0, <2>1, LogStutters
  <2> QED
    BY <2>4, <2>5, <2>6, <2>7, <2>8 DEF HistInv
<1>4. ASSUME NEW c \in Ctxs, Enter(c) PROVE HistInv'
  <2>1. /\ old_ctx[c] # None /\ c \notin Range(withs)
        /\ old_ctx' = [old_ctx EXCEPT ![c] = current]
        /\ current' = c /\ withs' = Append(withs, c)
        /\ UNCHANGED <<logVars, best, loaded, aborted>>
    BY <1>4 DEF Enter
  <2>0. PICK n \in Nat : n = Len(withs)
    BY <1>0, WithsShape
  <2>2. /\ DOMAIN withs = 1 .. n
        /\ \A k \in 1 .. n : withs[k] \in Ctxs /\ withs[k] # c
        /\ \A k \in 0 .. n : Outer(k) \in Ctxs \cup {Root} /\ Outer(k) # None
    BY <1>0, <2>0, <2>1, WithsShape DEF Range
  <2>3. /\ withs' \in Seq(Ctxs) /\ Len(withs') = n + 1 /\ withs'[n + 1] = c
        /\ \A k \in 1 .. n : withs'[k] = withs[k]
    <3>1. withs \in Seq(Ctxs)
      BY <1>0 DEF HistTypes
    <3> QED
      BY <2>0, <2>1, <3>1
  <2>4. current = Outer(n) /\ n \in 0 .. n
    BY <1>0, <2>0, <2>2 DEF Nested
  <2>5. /\ old_ctx' \in [Ctxs -> Ctxs \cup {Root, None}] /\ old_ctx'[c] = Outer(n)
        /\ \A x \in Ctxs : x # c => old_ctx'[x] = old_ctx[x]
    BY <1>0, <2>1, <2>2, <2>4 DEF HistTypes
  <2>6. HistTypes'
    BY <1>0, <2>1, <2>3, <2>5 DEF HistTypes
  <2>7. Fresh'
    <3>1. \A x \in Ctxs : old_ctx'[x] = None => old_ctx[x] = None
      BY <2>2, <2>4, <2>5
    <3> QED
      BY <1>0, <2>1, <3>1 DEF Fresh
  <2>8. TablesBest'
    BY <1>0, <2>1, TablesStay
  <2>9. Nested'
    <3>1. \A k \in 0 .. n : Outer(k)' = Outer(k)
      <4> SUFFICES ASSUME NEW k \in 0 .. n PROVE Outer(k)' = Outer(k)
        OBVIOUS
      <4>1. k = 0 \/ k \in 1 .. n
        BY <2>2
      <4> QED
        BY <2>3, <4>1 DEF Outer
    <3>2. current' = Outer(n + 1)'
      BY <2>1, <2>2, <2>3 DEF Outer
    <3>3. \A k \in 1 .. n + 1 : (k \in 1 .. n \/ k = n + 1) /\ k - 1 \in 0 .. n
      BY <2>2
    <3>4. \A j, k \in 1 .. n + 1 : withs'[j] = withs'[k] => j = k
      <4>1. \A j, k \in 1 .. n : withs[j] = withs[k] => j = k
        BY <1>0, <2>0 DEF Nested
      <4> QED
        BY <2>2, <2>3, <3>3, <4>1
    <3>5. \A k \in 1 .. n + 1 : old_ctx'[withs'[k]] = Outer(k - 1)'
      <4> SUFFICES ASSUME NEW k \in 1 .. n + 1 PROVE old_ctx'[withs'[k]] = Outer(k - 1)'
        OBVIOUS
      <4>0. Outer(k - 1)' = Outer(k - 1)
        BY <3>1, <3>3
      <4>1. CASE k \in 1 .. n
        <5>1. old_ctx[withs[k]] = Outer(k - 1)
          BY <1>0, <2>0, <4>1 DEF Nested
        <5> QED
          BY <2>2, <2>3, <2>5, <4>0, <4>1, <5>1
      <4>2. CASE k = n + 1
        <5>1. k - 1 = n
          BY <2>2, <4>2
        <5> QED
          BY <2>3, <2>5, <4>0, <4>2, <5>1
      <4> QED
        BY <3>3, <4>1, <4>2
    <3> QED
      BY <2>3, <3>2, <3>4, <3>5 DEF Nested
  <2>10. LogInv'
    BY <1>0, <2>1, LogStutters
  <2> QED
    BY <2>6, <2>7, <2>8, <2>9, <2>10 DEF HistInv
<1>5. CASE Exit
  <2>0. PICK n \in Nat : n = Len(withs)
    BY <1>0, WithsShape
  <2>1. /\ withs # <<>>
        /\ current' = old_ctx[withs[n]] /\ withs' = SubSeq(withs, 1, n - 1)
        /\ UNCHANGED <<logVars, best, old_ctx, loaded, aborted>>
    BY <1>5, <2>0 DEF Exit, Last, Front
  <2>2. n # 0 /\ n \in 1 .. n /\ n - 1 \in 0 .. n - 1 /\ \A k \in 1 .. n - 1 : k \in 1 .. n
    BY <1>0, <2>0, <2>1, WithsShape
  <2>3. /\ withs' \in Seq(Ctxs) /\ Len(withs') = n - 1
        /\ \A k \in 1 .. n - 1 : withs'[k] = withs[k]
    <3>1. withs \in Seq(Ctxs)
      BY <1>0 DEF HistTypes
    <3> QED
      BY <2>0, <2>1, <2>2, <3>1
  <2>4. HistTypes' /\ Fresh'
    BY <1>0, <2>1, <2>3 DEF HistTypes, Fresh
  <2>5. TablesBest'
    BY <1>0, <2>1, TablesStay
  <2>6. Nested'
    <3>1. \A k \in 0 .. n - 1 : Outer(k)' = Outer(k)
      <4> SUFFICES ASSUME NEW k \in 0 .. n - 1 PROVE Outer(k)' = Outer(k)
        OBVIOUS
      <4>1. k = 0 \/ k \in 1 .. n - 1
        BY <2>2
      <4> QED
        BY <2>3, <4>1 DEF Outer
    <3>2. current' = Outer(n - 1)'
      <4>1. old_ctx[withs[n]] = Outer(n - 1)
        BY <1>0, <2>0, <2>2 DEF Nested
      <4>2. Outer(n - 1)' = Outer(n - 1)
        BY <2>2, <3>1
      <4> QED
        BY <2>1, <4>1, <4>2
    <3>3. \A j, k \in 1 .. n - 1 : withs'[j] = withs'[k] => j = k
      <4>1. \A j, k \in 1 .. n : withs[j] = withs[k] => j = k
        BY <1>0, <2>0 DEF Nested
      <4> QED
        BY <2>3, <4>1
    <3>4. \A k \in 1 .. n - 1 : old_ctx'[withs'[k]] = Outer(k - 1)'
      <4> SUFFICES ASSUME NEW k \in 1 .. n - 1 PROVE old_ctx'[withs'[k]] = Outer(k - 1)'
        OBVIOUS
      <4>1. old_ctx[withs[k]] = Outer(k - 1)
        BY <1>0, <2>0, <2>2 DEF Nested
      <4>2. k - 1 \in 0 .. n - 1
        BY <2>2
      <4> QED
        BY <2>1, <2>3, <3>1, <4>1, <4>2
    <3> QED
      BY <2>3, <3>2, <3>3, <3>4 DEF Nested
  <2>7. LogInv'
    BY <1>0, <2>1, LogStutters
  <2> QED
    BY <2>4, <2>5, <2>6, <2>7 DEF HistInv
<1> QED
  BY <1>1, <1>2, <1>3, <1>4, <1>5 DEF Next

LEMMA HistStutters == ASSUME HistInv, UNCHANGED vars PROVE HistInv'
<1>1. UNCHANGED logVars /\ UNCHANGED <<best, old_ctx, current, withs, loaded, aborted>>
  BY DEF vars, histVars
<1>2. LogInv' /\ HistTypes' /\ Fresh'
  BY <1>1, LogStutters DEF HistInv, HistTypes, Fresh
<1>3. TablesBest' /\ Nested'
  BY <1>1, TablesStay, NestedStays DEF HistInv
<1> QED
  BY <1>2, <1>3 DEF HistInv

-----------------------------------------------------------------------------
(* What a context answers from its own tables.                              *)
LEMMA PlacesAre ==
  ASSUME NEW t \in Targets, NEW w \in Workloads
  PROVE  /\ DOMAIN Places(t, w) = 1 .. Len(Places(t, w)) /\ Len(Places(t, w)) \in Nat
         /\ \A k \in 1 .. Len(Places(t, w)) : Places(t, w)[k] \in Slots
<1> DEFINE at(x) == <<ModelSlot(t, x)>> \o KeySlots(t, x)
           more == IF w \in DOMAIN DynTaskOf THEN at(DynTaskOf[w]) ELSE <<>>
<1>1. \A x \in Workloads : at(x) \in Seq(Slots)
  <2> SUFFICES ASSUME NEW x \in Workloads PROVE at(x) \in Seq(Slots)
    OBVIOUS
  <2>1. ModelSlot(t, x) \in Slots /\ KeySlots(t, x) \in Seq(Slots)
    BY SlotsAre
  <2>2. <<ModelSlot(t, x)>> \in Seq(Slots)
    BY <2>1
  <2> QED
    BY <2>1, <2>2
<1>2. Places(t, w) = at(w) \o more
  BY DEF Places
<1> HIDE DEF at
<1>3. more \in Seq(Slots)
  <2>1. w \in DOMAIN DynTaskOf => DynTaskOf[w] \in Workloads
    BY HistoryAssumption DEF Range
  <2>2. <<>> \in Seq(Slots)
    OBVIOUS
  <2> QED
    BY <1>1, <2>1, <2>2
<1> HIDE DEF more
<1>4. at(w) \in Seq(Slots)
  BY <1>1
<1>5. Places(t, w) \in Seq(Slots)
  BY <1>2, <1>3, <1>4, Joined
<1> QED
  BY <1>5

LEMMA CandidatesAre ==
  ASSUME HistTypes, NEW c \in Ctxs, NEW s
  PROVE  Candidates(c, s) = Fitting(loaded[c], Len(loaded[c]), s)
<1>1. DOMAIN loaded[c] = 1 .. Len(loaded[c])
  BY DEF HistTypes
<1> QED
  BY <1>1 DEF Candidates, Fitting, FitsSlot

LEMMA TablesAnswer == HistInv => AnswerIsBest
<1> SUFFICES ASSUME HistInv, NEW c \in Ctxs \ aborted, NEW t \in Targets, NEW w \in Workloads
             PROVE  LET places == Places(t, w)
                        fits == {k \in DOMAIN places : Candidates(c, places[k]) # {}}
                        answer == QueryInside(c, t, w)
                        all == Candidates(c, places[Min(fits)])
                        dynamic == {i \in all : loaded[c][i].kind = "dynamic"}
                    IN  IF fits = {} THEN answer = None
                        ELSE IF dynamic # {} THEN answer = loaded[c][Max(dynamic)]
                        ELSE /\ answer \in {loaded[c][i] : i \in all}
                             /\ \A i \in all : answer.cost <= loaded[c][i].cost
  BY DEF AnswerIsBest
<1> DEFINE list == loaded[c]
           n == Len(list)
           places == Places(t, w)
           fits == {k \in DOMAIN places : Candidates(c, places[k]) # {}}
           hits == {k \in DOMAIN places : best[c][places[k]] # None}
           answer == QueryInside(c, t, w)
           s == places[Min(fits)]
           all == Candidates(c, s)
           dynamic == {i \in all : list[i].kind = "dynamic"}
<1>1. HistTypes /\ TablesBest
  BY DEF HistInv
<1>2. n \in Nat /\ \A i \in 1 .. n : list[i] \in Records
  BY <1>1 DEF HistTypes
<1>3. \A x \in Slots : Holds(best[c][x], list, n, x) /\ Candidates(c, x) = Fitting(list, n, x)
  BY <1>1, CandidatesAre DEF TablesBest, AllHold
<1>4. \A x \in Slots : best[c][x] = None <=> Candidates(c, x) = {}
  <2> SUFFICES ASSUME NEW x \in Slots PROVE best[c][x] = None <=> Fitting(list, n, x) = {}
    BY <1>3
  <2>1. \A m \in 1 .. n : list[m] # None
    BY <1>2, RecordIs
  <2> HIDE DEF list, n
  <2> QED
    BY <1>3, <2>1 DEF Holds, IsLastDynamic, IsFastest
<1>5. /\ DOMAIN places \in SUBSET Nat
      /\ \A k \in DOMAIN places : places[k] \in Slots
  <2>1. DOMAIN places = 1 .. Len(places) /\ \A k \in 1 .. Len(places) : places[k] \in Slots
    BY PlacesAre
  <2>2. \A k \in 1 .. Len(places) : k \in Nat
    BY PlacesAre
  <2> QED
    BY <2>1, <2>2
<1>6. answer = IF hits = {} THEN None ELSE best[c][places[Min(hits)]]
  BY DEF QueryInside
<1> HIDE DEF places, answer, list, n
<1>7. hits = fits
  BY <1>4, <1>5
<1> HIDE DEF hits
<1>8. CASE fits = {}
  BY <1>6, <1>7, <1>8 DEF answer, places
<1>9. CASE fits # {}
  <2>1. Min(fits) \in fits
    <3>1. fits \in SUBSET Nat
      BY <1>5
    <3> HIDE DEF fits
    <3> QED
      BY <1>9, <3>1, MinIs
  <2>2. s \in Slots /\ all # {}
    BY <1>5, <2>1
  <2>3. answer = best[c][s]
    BY <1>6, <1>7, <1>9
  <2> HIDE DEF fits, s
  <2>4. Holds(answer, list, n, s) /\ all = Fitting(list, n, s) /\ answer # None
    BY <1>3, <1>4, <2>2, <2>3
  <2>5. all \subseteq 1 .. n
    BY <2>4 DEF Fitting
  <2> HIDE DEF all
  <2>6. PICK m \in 1 .. n : answer = list[m] /\ (IsLastDynamic(m, list, n, s) \/ IsFastest(m, list, n, s))
    BY <2>4 DEF Holds
  <2>7. CASE IsLastDynamic(m, list, n, s)
    <3>1. m \in dynamic /\ \A i \in dynamic : i <= m
      BY <2>4, <2>7 DEF IsLastDynamic
    <3>2. dynamic \in SUBSET (0 .. n)
      <4>1. dynamic \subseteq all
        OBVIOUS
      <4>2. all \subseteq 0 .. n
        BY <1>2, <2>5
      <4> HIDE DEF dynamic
      <4> QED
        BY <4>1, <4>2
    <3>3. Max(dynamic) \in dynamic /\ m <= Max(dynamic)
      <4> HIDE DEF dynamic
      <4> QED
        BY <1>2, <3>1, <3>2, MaxIs
    <3>4. Max(dynamic) = m
      <4> HIDE DEF dynamic
      <4>1. PICK x \in 0 .. n : x = Max(dynamic)
        BY <3>2, <3>3
      <4> QED
        BY <1>2, <3>1, <3>3, <4>1
    <3>5. answer = list[Max(dynamic)] /\ dynamic # {}
      BY <2>6, <3>1, <3>4
    <3> QED
      BY <1>9, <3>5 DEF fits, places, answer, list, all, s
  <2>8. CASE IsFastest(m, list, n, s)
    <3>1. dynamic = {} /\ m \in all /\ \A i \in all : answer.cost <= list[i].cost
      BY <2>4, <2>6, <2>8 DEF IsFastest
    <3>2. answer \in {list[i] : i \in all}
      BY <2>6, <3>1
    <3> QED
      BY <1>9, <3>1, <3>2 DEF fits, places, answer, list, all, s
  <2> QED
    BY <2>6, <2>7, <2>8
<1> QED
  BY <1>8, <1>9

-----------------------------------------------------------------------------
(* Where a query ends: at depth h, if nothing between h and the innermost   *)
(* block has an answer, and h has one or is the root.                       *)
Depth(top, h, n) == IF h <= top - n THEN top - n ELSE h

LEMMA DepthNext ==
  ASSUME NEW top \in Nat, NEW h \in 0 .. top, NEW n \in Nat
  PROVE  /\ Depth(top, h, n) \in h .. top /\ Depth(top, h, 0) = top
         /\ Depth(top, h, n) = h => Depth(top, h, n + 1) = h
         /\ Depth(top, h, n) # h => Depth(top, h, n + 1) = Depth(top, h, n) - 1
         /\ top <= n => Depth(top, h, n) = h
BY DEF Depth

LEMMA BlocksFit ==
  ASSUME HistInv
  PROVE  Len(withs) <= Cardinality(Ctxs) /\ Cardinality(Ctxs) \in Nat
<1>1. HistTypes /\ Nested /\ IsFiniteSet(Ctxs)
  BY HistoryAssumption DEF HistInv
<1>2. PICK n \in Nat : n = Len(withs)
  BY <1>1, WithsShape
<1>3. withs \in [1 .. n -> Ctxs]
  BY <1>1, <1>2 DEF HistTypes
<1>4. withs \in Injection(1 .. n, Ctxs)
  BY <1>1, <1>2, <1>3 DEF Nested, Injection, IsInjective
<1>5. Cardinality(1 .. n) <= Cardinality(Ctxs)
  BY <1>1, <1>4, FS_Injection
<1>6. Cardinality(1 .. n) = n
  <2>1. Cardinality(1 .. n) = IF 1 > n THEN 0 ELSE n - 1 + 1
    BY FS_Interval
  <2> QED
    BY <2>1
<1> QED
  BY <1>1, <1>2, <1>5, <1>6, FS_CardinalityType

LEMMA ChainAnswers == HistInv => NearestContextAnswers
<1> SUFFICES ASSUME HistInv, NEW t \in Targets, NEW w \in Workloads
             PROVE  LET hits == {k \in DOMAIN withs : QueryInside(withs[k], t, w) # None}
                    IN  Query(current, t, w) =
                          IF hits = {} THEN None ELSE QueryInside(withs[Max(hits)], t, w)
  BY DEF NearestContextAnswers
<1> DEFINE hits == {k \in DOMAIN withs : QueryInside(withs[k], t, w) # None}
           Answers(x) == x = Root \/ QueryInside(x, t, w) # None
           Go(x) == IF Answers(x) THEN x ELSE old_ctx[x]
           N == Cardinality(Ctxs)
           Eq(f) == f = [n \in 0 .. N |->
                       IF n = 0 THEN current
                       ELSE IF Answers(f[n - 1]) THEN f[n - 1] ELSE old_ctx[f[n - 1]]]
           asked == CHOOSE f : Eq(f)
           h == IF hits = {} THEN 0 ELSE Max(hits)
<1>1. HistTypes /\ Nested
  BY DEF HistInv
<1>2. PICK top \in Nat : top = Len(withs)
  BY <1>1, WithsShape
<1>3. N \in Nat /\ top <= N
  BY <1>2, BlocksFit
<1>4. Query(current, t, w) =
        IF asked[N] = Root THEN None
        ELSE IF Answers(asked[N]) THEN QueryInside(asked[N], t, w) ELSE NoEnd
  BY DEF Query
<1> HIDE DEF N
<1>5. DOMAIN withs = 1 .. top /\ \A k \in 1 .. top : withs[k] \in Ctxs /\ withs[k] # Root
  BY <1>1, <1>2, WithsShape, HistoryAssumption
<1>6. /\ h \in 0 .. top /\ \A k \in hits : k <= h
      /\ h # 0 => h \in hits
      /\ h = 0 => hits = {}
  <2>1. hits \in SUBSET (0 .. top) /\ 0 \notin hits
    BY <1>5
  <2> HIDE DEF hits
  <2>2. CASE hits = {}
    BY <2>2
  <2>3. CASE hits # {}
    <3>1. Max(hits) \in hits /\ \A x \in hits : x <= Max(hits)
      BY <2>1, <2>3, MaxIs
    <3> QED
      BY <2>1, <2>3, <3>1
  <2> QED
    BY <2>2, <2>3
<1> HIDE DEF h
<1>7. \A k \in h .. top : k # h => Go(Outer(k)) = Outer(k - 1)
  <2> SUFFICES ASSUME NEW k \in h .. top, k # h PROVE Go(Outer(k)) = Outer(k - 1)
    OBVIOUS
  <2>1. k \in 1 .. top /\ k # 0 /\ k \notin hits
    BY <1>6
  <2>2. Outer(k) = withs[k] /\ ~ Answers(withs[k])
    BY <1>5, <2>1 DEF Outer
  <2>3. old_ctx[withs[k]] = Outer(k - 1)
    BY <1>1, <1>2, <2>1 DEF Nested
  <2> QED
    BY <2>2, <2>3
<1>8. Go(Outer(h)) = Outer(h) /\ Answers(Outer(h))
  <2>1. CASE h = 0
    BY <2>1 DEF Outer
  <2>2. CASE h # 0
    <3>1. Outer(h) = withs[h] /\ Answers(withs[h])
      BY <1>6, <2>2 DEF Outer
    <3> QED
      BY <3>1
  <2> QED
    BY <2>1, <2>2
<1> DEFINE f == [n \in 0 .. N |-> Outer(Depth(top, h, n))]
<1>9. \A n \in Nat : Outer(Depth(top, h, n + 1)) = Go(Outer(Depth(top, h, n)))
  <2> SUFFICES ASSUME NEW n \in Nat
               PROVE  Outer(Depth(top, h, n + 1)) = Go(Outer(Depth(top, h, n)))
    OBVIOUS
  <2> HIDE DEF Go
  <2>1. CASE Depth(top, h, n) = h
    <3>1. Depth(top, h, n + 1) = h
      BY <1>6, <2>1, DepthNext
    <3> QED
      BY <1>8, <2>1, <3>1
  <2>2. CASE Depth(top, h, n) # h
    <3>1. Depth(top, h, n) \in h .. top /\ Depth(top, h, n + 1) = Depth(top, h, n) - 1
      BY <1>6, <2>2, DepthNext
    <3> QED
      BY <1>7, <2>2, <3>1
  <2> QED
    BY <2>1, <2>2
<1>10. current = Outer(Depth(top, h, 0))
  BY <1>1, <1>2, <1>6, DepthNext DEF Nested
<1>11. \A n \in 0 .. N : f[n] = IF n = 0 THEN current ELSE Go(f[n - 1])
  <2> SUFFICES ASSUME NEW n \in 0 .. N PROVE f[n] = IF n = 0 THEN current ELSE Go(f[n - 1])
    OBVIOUS
  <2> HIDE DEF Go
  <2>1. CASE n = 0
    BY <1>10, <2>1
  <2>2. CASE n # 0
    <3>1. n - 1 \in 0 .. N /\ n - 1 \in Nat /\ (n - 1) + 1 = n
      BY <1>3, <2>2
    <3>2. Outer(Depth(top, h, n)) = Go(Outer(Depth(top, h, n - 1)))
      BY <1>9, <3>1
    <3> QED
      BY <2>2, <3>1, <3>2
  <2> QED
    BY <2>1, <2>2
<1>12. Eq(f)
  <2> HIDE DEF Answers
  <2>1. f = [n \in 0 .. N |-> f[n]]
    OBVIOUS
  <2> HIDE DEF f
  <2> QED
    BY <1>11, <2>1, Zenon
<1>13. Eq(asked)
  <2> HIDE DEF Eq
  <2> QED
    BY <1>12
<1> HIDE DEF asked
<1>14. asked[0] = current /\ \A n \in 1 .. N : asked[n] = Go(asked[n - 1])
  <2>1. 0 \in 0 .. N /\ \A n \in 1 .. N : n # 0 /\ n \in 0 .. N
    BY <1>3
  <2> QED
    BY <1>13, <2>1
<1> DEFINE P == {n \in Nat : asked[n] = Outer(Depth(top, h, n))}
<1> HIDE DEF Go
<1>15. 0 \in P
  BY <1>10, <1>14
<1>16. ASSUME NEW n \in 0 .. N - 1, n \in P PROVE n + 1 \in P
  <2>1. n + 1 \in 1 .. N /\ (n + 1) - 1 = n /\ n + 1 \in Nat /\ n \in Nat
    BY <1>3
  <2>2. asked[n + 1] = Go(asked[n])
    BY <1>14, <2>1
  <2> QED
    BY <1>9, <1>16, <2>1, <2>2
<1> HIDE DEF P
<1>17. N \in P
  <2>1. 0 .. N \subseteq P
    BY <1>3, <1>15, <1>16, IntervalInduction
  <2> QED
    BY <1>3, <2>1
<1>18. asked[N] = Outer(h)
  <2>1. Depth(top, h, N) = h
    BY <1>3, <1>6, DepthNext
  <2> QED
    BY <1>17, <2>1 DEF P
<1>19. Query(current, t, w) = IF hits = {} THEN None ELSE QueryInside(withs[Max(hits)], t, w)
  <2>1. CASE hits = {}
    <3>1. asked[N] = Root
      BY <1>18, <2>1 DEF h, Outer
    <3> QED
      BY <1>4, <2>1, <3>1
  <2>2. CASE hits # {}
    <3>1. h # 0 /\ h \in hits /\ h = Max(hits)
      BY <1>6, <2>2 DEF h
    <3>2. asked[N] = withs[h] /\ withs[h] # Root
      BY <1>5, <1>18, <3>1 DEF Outer
    <3> QED
      BY <1>4, <1>8, <1>18, <2>2, <3>1, <3>2
  <2> QED
    BY <2>1, <2>2
<1> QED
  BY <1>19

-----------------------------------------------------------------------------
LEMMA HistAlways == Spec => []HistInv
BY HistInit, HistStep, HistStutters, PTL DEF Spec

(* The file keeps its promise while compilers read it.                      *)
THEOREM CrashCostsReadersOneRecord == Spec => []CrashCostsOneRecord
BY HistAlways, LogSound, PTL DEF HistInv

(* ApplyHistoryBest.load and _query_inside (dispatcher.py): whatever logs,  *)
(* of whatever length, a context has loaded in whatever portions, and       *)
(* whichever crashes the log has been through, it answers with the last     *)
(* dispatcher or else a fastest record for the first place it looks at that *)
(* any loaded record fits.                                                  *)
THEOREM AnswerStaysBest == Spec => []AnswerIsBest
BY HistAlways, TablesAnswer, PTL

(* DispatchContext.__enter__, __exit__ and query: for any nesting of        *)
(* contexts, constructed anywhere, the innermost open block with an answer  *)
(* gives it.                                                                *)
THEOREM NearestAlwaysAnswers == Spec => []NearestContextAnswers
BY HistAlways, ChainAnswers, PTL
================================================================================
