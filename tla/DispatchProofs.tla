---------------------------- MODULE DispatchProofs ----------------------------
(***************************************************************************)
(* What every dispatcher can count on (Dispatch): each instance has one    *)
(* favourite, and a map never selects more states than it has instances.   *)
(* The proofs rest on induction over the natural numbers, which is derived *)
(* here from the well-foundedness of the strict subset order on finite     *)
(* sets, as a statement about sets rather than about predicates.           *)
(***************************************************************************)
EXTENDS Dispatch, Sequences, Functions, FiniteSetTheorems, TLAPS

FiniteValues(B, T) == \A x \in T : IsFiniteSet(B[x])
HasMinimum(B, T) == \E x \in T : \A y \in T : B[y] \subseteq B[x] => B[y] = B[x]

(* Of the finite sets B[x], for x in a set T that may be infinite, one is  *)
(* minimal for inclusion.                                                  *)
LEMMA FiniteMinimum ==
  ASSUME NEW T, T # {}, NEW B, FiniteValues(B, T)
  PROVE  HasMinimum(B, T)
<1> DEFINE D == UNION {B[x] : x \in T}
           R == StrictSubsetOrdering(D)
           F == {B[x] : x \in T}
<1>1. IsWellFoundedOn(R, FiniteSubsetsOf(D))
  BY FS_StrictSubsetOrderingWellFounded
<1>2. F \subseteq FiniteSubsetsOf(D) /\ F # {}
  BY DEF FiniteSubsetsOf, FiniteValues
<1>3. \E f \in F : \A g \in F : ~(<<g, f>> \in R)
  <2> HIDE DEF R, F
  <2> QED
    BY <1>1, <1>2, WFMin
<1>4. PICK x \in T : \A y \in T : ~(<<B[y], B[x]>> \in R)
  BY <1>3
<1>5. ASSUME NEW y \in T, B[y] \subseteq B[x], B[y] # B[x] PROVE <<B[y], B[x]>> \in R
  BY <1>5 DEF StrictSubsetOrdering
<1> QED
  BY <1>4, <1>5 DEF HasMinimum

LEMMA NatMinimum ==
  ASSUME NEW T \in SUBSET Nat, T # {}
  PROVE  \E m \in T : \A n \in T : m <= n
<1> DEFINE B == [x \in T |-> 0 .. x]
<1>1. FiniteValues(B, T)
  BY FS_Interval DEF FiniteValues
<1>2. HasMinimum(B, T)
  <2> HIDE DEF B
  <2> QED
    BY <1>1, FiniteMinimum
<1>4. PICK m \in T : \A n \in T : B[n] \subseteq B[m] => B[n] = B[m]
  BY <1>2 DEF HasMinimum
<1>3. ASSUME NEW n \in T, n < m PROVE FALSE
  <2>1. m \in Nat /\ n \in Nat
    OBVIOUS
  <2>2. B[n] \subseteq B[m] /\ m \in B[m] /\ m \notin B[n]
    BY <1>3, <2>1
  <2> QED
    BY <1>4, <2>2
<1> QED
  BY <1>3

(* Induction: a set of numbers with 0 and the successor of each of its     *)
(* members is the set of all numbers.                                      *)
LEMMA SetInduction ==
  ASSUME NEW P \in SUBSET Nat, 0 \in P, \A n \in P : n + 1 \in P
  PROVE  P = Nat
<1> SUFFICES ASSUME Nat \ P # {} PROVE FALSE
  OBVIOUS
<1>1. PICK m \in Nat \ P : \A n \in Nat \ P : m <= n
  <2>1. Nat \ P \in SUBSET Nat
    OBVIOUS
  <2> QED
    BY <2>1, NatMinimum
<1>2. m - 1 \in P
  BY <1>1
<1> QED
  BY <1>1, <1>2

(* The same, up to a bound.                                                *)
LEMMA IntervalInduction ==
  ASSUME NEW n \in Nat, NEW P, 0 \in P, \A j \in 0 .. n - 1 : j \in P => j + 1 \in P
  PROVE  0 .. n \subseteq P
<1> DEFINE Q == {j \in Nat : j <= n => j \in P}
<1>1. 0 \in Q
  OBVIOUS
<1>2. ASSUME NEW j \in Q PROVE j + 1 \in Q
  OBVIOUS
<1> HIDE DEF Q
<1>3. Q = Nat
  <2>1. Q \in SUBSET Nat
    BY DEF Q
  <2> QED
    BY <1>1, <1>2, <2>1, SetInduction
<1> QED
  BY <1>3 DEF Q

(* Primitive recursion: what defines a function value by value has a       *)
(* solution.                                                               *)
Steps(h, S) == h \in [S \X Nat -> S]
Solves(f, S, b, h) == /\ f \in [Nat -> S] /\ f[0] = b
                      /\ \A n \in Nat : f[n + 1] = h[<<f[n], n + 1>>]

LEMMA Recursion ==
  ASSUME NEW S, NEW b \in S, NEW h, Steps(h, S)
  PROVE  \E f : Solves(f, S, b, h)
<1>0. h \in [S \X Nat -> S]
  BY DEF Steps
<1> DEFINE Is(g, n) == /\ g \in [0 .. n -> S] /\ g[0] = b
                       /\ \A m \in 0 .. n - 1 : g[m + 1] = h[<<g[m], m + 1>>]
           P == {n \in Nat : \E g : Is(g, n)}
<1>1. P = Nat
  <2>1. 0 \in P
    <3>1. Is([i \in 0 .. 0 |-> b], 0)
      OBVIOUS
    <3> QED
      BY <3>1
  <2>2. ASSUME NEW n \in P PROVE n + 1 \in P
    <3>1. PICK g : Is(g, n)
      OBVIOUS
    <3> DEFINE g2 == [i \in 0 .. n + 1 |-> IF i = n + 1 THEN h[<<g[n], n + 1>>] ELSE g[i]]
    <3>2. h[<<g[n], n + 1>>] \in S
      BY <1>0, <3>1
    <3>3. g2 \in [0 .. n + 1 -> S] /\ g2[0] = b
      BY <3>1, <3>2
    <3>4. ASSUME NEW m \in 0 .. n PROVE g2[m + 1] = h[<<g2[m], m + 1>>]
      <4>1. g2[m] = g[m]
        OBVIOUS
      <4>2. CASE m = n
        <5>1. g2[n + 1] = h[<<g[n], n + 1>>]
          OBVIOUS
        <5> QED
          BY <4>1, <4>2, <5>1
      <4>3. CASE m # n
        BY <3>1, <4>1, <4>3
      <4> QED
        BY <4>2, <4>3
    <3>5. n \in Nat /\ 0 .. (n + 1) - 1 = 0 .. n
      OBVIOUS
    <3> HIDE DEF g2
    <3>6. Is(g2, n + 1)
      BY <3>3, <3>4, <3>5
    <3> QED
      BY <3>5, <3>6
  <2> HIDE DEF P
  <2>3. P \in SUBSET Nat
    BY DEF P
  <2> QED
    BY <2>1, <2>2, <2>3, SetInduction
<1>2. ASSUME NEW n \in Nat, NEW m \in Nat, n <= m, NEW g, NEW k, Is(g, n), Is(k, m)
      PROVE  g[n] = k[n]
  <2> DEFINE Q == {i \in Nat : i <= n => g[i] = k[i]}
  <2>1. 0 \in Q
    BY <1>2
  <2>2. ASSUME NEW i \in Q PROVE i + 1 \in Q
    <3>1. ASSUME i + 1 <= n PROVE g[i + 1] = k[i + 1]
      <4>1. i \in 0 .. n - 1 /\ i \in 0 .. m - 1
        BY <1>2, <3>1
      <4>2. g[i] = k[i]
        BY <3>1
      <4>3. g[i + 1] = h[<<g[i], i + 1>>] /\ k[i + 1] = h[<<k[i], i + 1>>]
        BY <1>2, <4>1
      <4> QED
        BY <4>2, <4>3
    <3> QED
      BY <3>1
  <2> HIDE DEF Q
  <2>3. Q \in SUBSET Nat
    BY DEF Q
  <2>4. Q = Nat
    BY <2>1, <2>2, <2>3, SetInduction
  <2>5. n \in Q /\ n <= n
    BY <2>4
  <2> QED
    BY <2>5 DEF Q
<1> DEFINE G(n) == CHOOSE g : Is(g, n)
           f == [n \in Nat |-> G(n)[n]]
<1>3. \A n \in Nat : Is(G(n), n)
  BY <1>1
<1> HIDE DEF G, P
<1>4. f \in [Nat -> S] /\ f[0] = b
  BY <1>3
<1>5. ASSUME NEW n \in Nat PROVE f[n + 1] = h[<<f[n], n + 1>>]
  <2>1. G(n)[n] = G(n + 1)[n]
    <3> HIDE DEF Is
    <3>1. Is(G(n), n) /\ Is(G(n + 1), n + 1)
      BY <1>3
    <3>2. n <= n + 1 /\ n + 1 \in Nat
      OBVIOUS
    <3> QED
      BY <1>2, <3>1, <3>2
  <2>2. G(n + 1)[n + 1] = h[<<G(n + 1)[n], n + 1>>]
    <3>1. Is(G(n + 1), n + 1) /\ n \in 0 .. (n + 1) - 1
      BY <1>3
    <3> QED
      BY <3>1
  <2> QED
    BY <2>1, <2>2
<1> QED
  BY <1>4, <1>5 DEF Solves

(* The same for a recursive function over 0 .. n, as LET defines it.       *)
StepsTo(h, S, n) == h \in [S \X (1 .. n) -> S]
Tabulates(f, S, b, h, n) ==
  /\ f \in [0 .. n -> S]
  /\ f = [j \in 0 .. n |-> IF j = 0 THEN b ELSE h[<<f[j - 1], j>>]]

LEMMA BoundedRecursion ==
  ASSUME NEW S, NEW n \in Nat, NEW b \in S, NEW h, StepsTo(h, S, n)
  PROVE  \E f : Tabulates(f, S, b, h, n)
<1>0. h \in [S \X (1 .. n) -> S]
  BY DEF StepsTo
<1> DEFINE H == [p \in S \X Nat |-> IF p[2] \in 1 .. n THEN h[p] ELSE p[1]]
<1>1. Steps(H, S)
  <2>1. ASSUME NEW p \in S \X Nat PROVE (IF p[2] \in 1 .. n THEN h[p] ELSE p[1]) \in S
    BY <1>0
  <2> QED
    BY <2>1 DEF Steps
<1> HIDE DEF H
<1>2. PICK F : Solves(F, S, b, H)
  BY <1>1, Recursion
<1> DEFINE f == [j \in 0 .. n |-> F[j]]
<1>3. f \in [0 .. n -> S] /\ f[0] = b
  BY <1>2 DEF Solves
<1>4. ASSUME NEW j \in 0 .. n, j # 0 PROVE f[j] = h[<<f[j - 1], j>>]
  <2>1. j - 1 \in Nat /\ j - 1 \in 0 .. n /\ (j - 1) + 1 = j /\ j \in 1 .. n /\ j \in Nat
    BY <1>4
  <2>2. F[j] = H[<<F[j - 1], j>>]
    BY <1>2, <2>1 DEF Solves
  <2>3. <<F[j - 1], j>> \in S \X Nat
    BY <1>2, <2>1 DEF Solves
  <2>4. H[<<F[j - 1], j>>] = h[<<F[j - 1], j>>]
    BY <2>1, <2>3 DEF H
  <2> QED
    BY <2>1, <2>2, <2>4
<1> HIDE DEF f
<1>5. f = [j \in 0 .. n |-> IF j = 0 THEN b ELSE h[<<f[j - 1], j>>]]
  <2>1. f = [j \in 0 .. n |-> f[j]]
    BY <1>3
  <2>2. \A j \in 0 .. n : f[j] = IF j = 0 THEN b ELSE h[<<f[j - 1], j>>]
    BY <1>3, <1>4
  <2> QED
    BY <2>1, <2>2, Zenon
<1> QED
  BY <1>3, <1>5 DEF Tabulates

-----------------------------------------------------------------------------
(* s is the first of the best states of a row. *)
IsFavourite(s, row) ==
  /\ s \in DOMAIN row
  /\ \A t \in DOMAIN row : row[t] <= row[s] /\ (row[t] = row[s] => s <= t)

LEMMA FavouriteExists ==
  ASSUME NEW D \in SUBSET Nat, IsFiniteSet(D), D # {}, NEW row \in [D -> Nat]
  PROVE  IsFavourite(Favourite(row), row)
<1> DEFINE Better(t, s) == row[t] > row[s] \/ (row[t] = row[s] /\ t < s)
           B == [s \in D |-> {t \in D : Better(t, s)}]
<1>1. FiniteValues(B, D)
  BY FS_Subset DEF FiniteValues
<1>2. HasMinimum(B, D)
  <2> HIDE DEF B
  <2> QED
    BY <1>1, FiniteMinimum
<1>5. PICK s \in D : \A t \in D : B[t] \subseteq B[s] => B[t] = B[s]
  BY <1>2 DEF HasMinimum
<1>3. ASSUME NEW t \in D, Better(t, s) PROVE FALSE
  <2>1. \A u \in D : row[u] \in Nat /\ u \in Nat
    OBVIOUS
  <2>2. \A u \in D : Better(u, t) => Better(u, s)
    BY <1>3, <2>1
  <2>3. ~ Better(t, t)
    BY <2>1
  <2>4. B[t] \subseteq B[s] /\ t \in B[s] /\ t \notin B[t]
    <3> HIDE DEF Better
    <3> QED
      BY <1>3, <2>2, <2>3
  <2> QED
    BY <1>5, <2>4
<1>4. IsFavourite(s, row)
  <2>1. ASSUME NEW t \in D PROVE row[t] <= row[s] /\ (row[t] = row[s] => s <= t)
    <3>1. row[t] \in Nat /\ row[s] \in Nat /\ t \in Nat /\ s \in Nat
      OBVIOUS
    <3> QED
      BY <1>3, <3>1
  <2> QED
    BY <2>1 DEF IsFavourite
<1> QED
  BY <1>4 DEF IsFavourite, Favourite

LEMMA FavouriteUnique ==
  ASSUME NEW D \in SUBSET Nat, NEW row \in [D -> Nat],
         NEW s, NEW t, IsFavourite(s, row), IsFavourite(t, row)
  PROVE  s = t
<1>1. s \in D /\ t \in D /\ s \in Nat /\ t \in Nat /\ row[s] \in Nat /\ row[t] \in Nat
  BY DEF IsFavourite
<1>2. row[s] <= row[t] /\ row[t] <= row[s]
  BY <1>1 DEF IsFavourite
<1>3. row[s] = row[t]
  BY <1>1, <1>2
<1>4. s <= t /\ t <= s
  BY <1>1, <1>3 DEF IsFavourite
<1> QED
  BY <1>1, <1>4

LEMMA SelectedFew ==
  ASSUME NEW I, IsFiniteSet(I), NEW disp, DOMAIN disp = I
  PROVE  /\ IsFiniteSet(Selected(disp))
         /\ Cardinality(Selected(disp)) \in Nat /\ Cardinality(I) \in Nat
         /\ Cardinality(Selected(disp)) <= Cardinality(I)
<1> DEFINE f == [i \in I |-> disp[i]]
<1>1. f \in Surjection(I, Selected(disp))
  BY DEF Surjection, Selected
<1>2. IsFiniteSet(Selected(disp)) /\ Cardinality(Selected(disp)) <= Cardinality(I)
  BY <1>1, FS_Surjection
<1> QED
  BY <1>2, FS_CardinalityType

(* The selected states in some order, and each instance's place in it. *)
Orders(disp) == Bijection(1 .. Cardinality(Selected(disp)), Selected(disp))
PlaceOf(disp, order) ==
  [i \in DOMAIN disp |-> CHOOSE x \in DOMAIN order : order[x] = disp[i]]

Lists(order, disp, n) ==
  /\ n \in Nat /\ DOMAIN order = 1 .. n
  /\ \A x \in 1 .. n : \E i \in DOMAIN disp : order[x] = disp[i]
  /\ \A i \in DOMAIN disp :
       PlaceOf(disp, order)[i] \in 1 .. n /\ order[PlaceOf(disp, order)[i]] = disp[i]
  /\ DOMAIN PlaceOf(disp, order) = DOMAIN disp
  /\ Range(PlaceOf(disp, order)) = 1 .. n

LEMMA OrderLists ==
  ASSUME NEW I, IsFiniteSet(I), NEW disp, DOMAIN disp = I, NEW order \in Orders(disp)
  PROVE  \E n : Lists(order, disp, n)
<1>1. PICK n \in Nat : n = Cardinality(Selected(disp))
  BY SelectedFew
<1>2. /\ order \in [1 .. n -> Selected(disp)]
      /\ \A x, y \in 1 .. n : order[x] = order[y] => x = y
      /\ \A s \in Selected(disp) : \E x \in 1 .. n : order[x] = s
  BY <1>1 DEF Orders, Bijection, Injection, Surjection, IsInjective
<1>3. /\ \A i \in I : disp[i] \in Selected(disp)
      /\ \A s \in Selected(disp) : \E i \in I : s = disp[i]
  BY DEF Selected
<1> DEFINE R == PlaceOf(disp, order)
<1>4. ASSUME NEW i \in I PROVE R[i] \in 1 .. n /\ order[R[i]] = disp[i]
  <2>1. R[i] = CHOOSE x \in 1 .. n : order[x] = disp[i]
    BY <1>2 DEF PlaceOf
  <2>2. \E x \in 1 .. n : order[x] = disp[i]
    BY <1>2, <1>3
  <2> QED
    BY <2>1, <2>2
<1>5. DOMAIN R = I
  BY DEF PlaceOf
<1> HIDE DEF R
<1>6. ASSUME NEW x \in 1 .. n PROVE \E i \in I : R[i] = x
  <2>1. PICK i \in I : order[x] = disp[i]
    BY <1>2, <1>3
  <2> QED
    BY <1>2, <1>4, <2>1
<1>7. Range(R) = 1 .. n
  BY <1>4, <1>5, <1>6 DEF Range
<1>8. DOMAIN order = 1 .. n /\ \A x \in 1 .. n : \E i \in I : order[x] = disp[i]
  BY <1>2, <1>3
<1> QED
  BY <1>4, <1>5, <1>7, <1>8 DEF Lists, R

-----------------------------------------------------------------------------
(* Two sequences, one after the other. *)
LEMMA Joined ==
  ASSUME NEW S, NEW s \in Seq(S), NEW t \in Seq(S)
  PROVE  /\ s \o t \in Seq(S) /\ Len(s \o t) = Len(s) + Len(t)
         /\ \A h \in 1 .. Len(s) : (s \o t)[h] = s[h]
         /\ \A j \in 1 .. Len(t) : (s \o t)[Len(s) + j] = t[j]
         /\ Range(s \o t) = Range(s) \cup Range(t)
<1>1. /\ s \o t \in Seq(S) /\ Len(s \o t) = Len(s) + Len(t)
      /\ \A h \in 1 .. Len(s) : (s \o t)[h] = s[h]
      /\ \A j \in 1 .. Len(t) : (s \o t)[Len(s) + j] = t[j]
      /\ Len(s) \in Nat /\ Len(t) \in Nat
  OBVIOUS
<1>2. \A h \in 1 .. Len(s) + Len(t) : h \in 1 .. Len(s) \/ h - Len(s) \in 1 .. Len(t)
  BY <1>1
<1>3. /\ \A h \in 1 .. Len(s) : h \in 1 .. Len(s) + Len(t)
      /\ \A j \in 1 .. Len(t) : Len(s) + j \in 1 .. Len(s) + Len(t)
      /\ \A h \in 1 .. Len(s) + Len(t) : Len(s) + (h - Len(s)) = h
  BY <1>1
<1>4. DOMAIN s = 1 .. Len(s) /\ DOMAIN t = 1 .. Len(t) /\ DOMAIN (s \o t) = 1 .. Len(s) + Len(t)
  BY <1>1
<1>5. ASSUME NEW h \in 1 .. Len(s) + Len(t) PROVE (s \o t)[h] \in Range(s) \cup Range(t)
  <2>1. CASE h \in 1 .. Len(s)
    BY <1>1, <1>4, <2>1 DEF Range
  <2>2. CASE h - Len(s) \in 1 .. Len(t)
    <3>1. (s \o t)[h] = t[h - Len(s)]
      BY <1>1, <1>3, <2>2
    <3> QED
      BY <1>4, <2>2, <3>1 DEF Range
  <2> QED
    BY <1>2, <2>1, <2>2
<1>6. ASSUME NEW e \in Range(s) \cup Range(t) PROVE e \in Range(s \o t)
  <2>1. CASE e \in Range(s)
    <3>1. PICK h \in 1 .. Len(s) : e = s[h]
      BY <1>4, <2>1 DEF Range
    <3> QED
      BY <1>1, <1>3, <1>4, <3>1 DEF Range
  <2>2. CASE e \in Range(t)
    <3>1. PICK h \in 1 .. Len(t) : e = t[h]
      BY <1>4, <2>2 DEF Range
    <3> QED
      BY <1>1, <1>3, <1>4, <3>1 DEF Range
  <2> QED
    BY <2>1, <2>2
<1> QED
  BY <1>1, <1>4, <1>5, <1>6 DEF Range
===============================================================================
