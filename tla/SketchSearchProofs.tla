-------------------------- MODULE SketchSearchProofs --------------------------
(***************************************************************************)
(* The search policy (SketchSearch): for every search space, whatever a    *)
(* round of the evolutionary search finds and whatever a state measures    *)
(* to, no state is measured twice, the arrays of measured states and       *)
(* throughputs stay parallel, and the answer is the fastest state.         *)
(***************************************************************************)
EXTENDS SketchSearch, DispatchProofs

-----------------------------------------------------------------------------
(* The choice of the states to measure.                                     *)

(* What a step of the selection has looked at and kept. *)
Picked(p, best, random, room) ==
  /\ p.b \in 0 .. Len(best) /\ p.r \in 0 .. Len(random)
  /\ p.inputs \in Seq(Programs) /\ IsInjective(p.inputs)
  /\ Range(p.inputs) \cap measured_states_set = {}
  /\ Len(p.inputs) <= Quota(room)

Looked(p, j, room) == Len(p.inputs) < Quota(room) => p.b + p.r = j

PickStep(p, best, random) ==
  LET fromBest == p.b < Len(best) /\ (Len(p.inputs) < NumGood \/ p.r = Len(random))
      s == IF fromBest THEN best[p.b + 1] ELSE random[p.r + 1]
  IN  [b |-> IF fromBest THEN p.b + 1 ELSE p.b,
       r |-> IF fromBest THEN p.r ELSE p.r + 1,
       inputs |-> IF s \in measured_states_set \cup Range(p.inputs)
                  THEN p.inputs ELSE Append(p.inputs, s)]

(* One place more, for a state that is not there yet. *)
LEMMA AppendNew ==
  ASSUME NEW S, NEW s \in Seq(S), NEW e \in S, IsInjective(s), e \notin Range(s)
  PROVE  /\ Append(s, e) \in Seq(S) /\ Len(Append(s, e)) = Len(s) + 1
         /\ IsInjective(Append(s, e)) /\ Range(Append(s, e)) = Range(s) \cup {e}
<1> DEFINE t == Append(s, e)
<1>1. /\ t \in Seq(S) /\ Len(t) = Len(s) + 1 /\ Len(s) \in Nat
      /\ \A j \in 1 .. Len(s) : t[j] = s[j]
      /\ t[Len(s) + 1] = e
  OBVIOUS
<1>2. DOMAIN s = 1 .. Len(s) /\ DOMAIN t = 1 .. Len(s) + 1
  BY <1>1
<1> HIDE DEF t
<1>3. /\ \A j \in 1 .. Len(s) : s[j] \in Range(s) /\ j \in 1 .. Len(s) + 1
      /\ \A j \in 1 .. Len(s) + 1 : j \in 1 .. Len(s) \/ j = Len(s) + 1
      /\ Len(s) + 1 \in 1 .. Len(s) + 1
  BY <1>1, <1>2 DEF Range
<1>4. IsInjective(t)
  <2> SUFFICES ASSUME NEW j \in 1 .. Len(s) + 1, NEW k \in 1 .. Len(s) + 1, t[j] = t[k]
               PROVE  j = k
    BY <1>2 DEF IsInjective
  <2>1. CASE j \in 1 .. Len(s) /\ k \in 1 .. Len(s)
    BY <1>1, <1>2, <2>1 DEF IsInjective
  <2>2. CASE j = Len(s) + 1 \/ k = Len(s) + 1
    BY <1>1, <1>3, <2>2
  <2> QED
    BY <1>3, <2>1, <2>2
<1>5. \A x : x \in Range(t) <=> x \in Range(s) \/ x = e
  BY <1>1, <1>2, <1>3 DEF Range
<1> QED
  BY <1>1, <1>4, <1>5 DEF t

LEMMA PickStepPicks ==
  ASSUME NEW best \in Seq(Programs), NEW random \in Seq(Programs), NEW room \in Nat,
         NEW j \in 0 .. Len(best) + Len(random) - 1,
         NEW p, Picked(p, best, random, room), Looked(p, j, room),
         Len(p.inputs) < Quota(room)
  PROVE  /\ Picked(PickStep(p, best, random), best, random, room)
         /\ Looked(PickStep(p, best, random), j + 1, room)
<1> DEFINE fromBest == p.b < Len(best) /\ (Len(p.inputs) < NumGood \/ p.r = Len(random))
           s == IF fromBest THEN best[p.b + 1] ELSE random[p.r + 1]
           q == PickStep(p, best, random)
<1>1. /\ Len(best) \in Nat /\ Len(random) \in Nat /\ Quota(room) \in Nat
      /\ p.b \in 0 .. Len(best) /\ p.r \in 0 .. Len(random) /\ p.b + p.r = j
      /\ p.inputs \in Seq(Programs) /\ Len(p.inputs) \in Nat
  BY SearchAssumption DEF Picked, Looked, Quota
<1>2. fromBest => p.b + 1 \in 1 .. Len(best)
  BY <1>1
<1>3. ~ fromBest => p.r + 1 \in 1 .. Len(random)
  BY <1>1
<1>4. s \in Programs
  BY <1>2, <1>3
<1>5. /\ q.b = IF fromBest THEN p.b + 1 ELSE p.b
      /\ q.r = IF fromBest THEN p.r ELSE p.r + 1
      /\ q.inputs = IF s \in measured_states_set \cup Range(p.inputs)
                    THEN p.inputs ELSE Append(p.inputs, s)
  BY DEF PickStep
<1>6. q.b \in 0 .. Len(best) /\ q.r \in 0 .. Len(random) /\ q.b + q.r = j + 1
  <2>1. CASE fromBest
    BY <1>1, <1>2, <1>5, <2>1
  <2>2. CASE ~ fromBest
    BY <1>1, <1>3, <1>5, <2>2
  <2> QED
    BY <2>1, <2>2
<1> HIDE DEF fromBest, s, q
<1>7. /\ q.inputs \in Seq(Programs) /\ IsInjective(q.inputs)
      /\ Range(q.inputs) \cap measured_states_set = {}
      /\ Len(q.inputs) <= Quota(room)
  <2>1. CASE s \in measured_states_set \cup Range(p.inputs)
    BY <1>5, <2>1 DEF Picked
  <2>2. CASE s \notin measured_states_set \cup Range(p.inputs)
    <3>1. /\ q.inputs \in Seq(Programs) /\ Len(q.inputs) = Len(p.inputs) + 1
          /\ IsInjective(q.inputs) /\ Range(q.inputs) = Range(p.inputs) \cup {s}
      BY <1>1, <1>4, <1>5, <2>2, AppendNew DEF Picked
    <3> QED
      BY <1>1, <2>2, <3>1 DEF Picked
  <2> QED
    BY <2>1, <2>2
<1> QED
  BY <1>6, <1>7 DEF Picked, Looked, q

(* The choice from a set with one element. *)
LEMMA OnlyOne ==
  ASSUME NEW x
  PROVE  (CHOOSE y \in {x} : TRUE) = x
OBVIOUS

LEMMA PickIs ==
  ASSUME NEW best \in Seq(Programs), NEW random \in Seq(Programs), NEW room \in Nat
  PROVE  \E p : Picked(p, best, random, room) /\ Pick(best, random, room) = p.inputs
<1> DEFINE n == Len(best) + Len(random)
           Any == Programs \cup {best[k + 1] : k \in Nat} \cup {random[k + 1] : k \in Nat}
           S == [b : Nat, r : Nat, inputs : Seq(Any)]
           To(p) == IF Len(p.inputs) < Quota(room) THEN PickStep(p, best, random) ELSE p
           Go(p) == CHOOSE q \in {To(x) : x \in {p}} : TRUE
           start == [b |-> 0, r |-> 0, inputs |-> << >>]
           h == [x \in S \X (1 .. n) |-> Go(x[1])]
           Eq(f) == f = [j \in 0 .. n |-> IF j = 0 THEN start ELSE Go(f[j - 1])]
           pick == CHOOSE f : Eq(f)
<1>1. n \in Nat
  OBVIOUS
<1>2. start \in S
  OBVIOUS
<1>0. ASSUME NEW p PROVE Go(p) = To(p)
  <2> HIDE DEF To
  <2>1. {To(x) : x \in {p}} = {To(p)}
    OBVIOUS
  <2> QED
    BY <2>1, OnlyOne
<1>3. ASSUME NEW p \in S PROVE Go(p) \in S
  <2> HIDE DEF Go
  <2>1. CASE Len(p.inputs) < Quota(room)
    <3> DEFINE fromBest == p.b < Len(best) /\ (Len(p.inputs) < NumGood \/ p.r = Len(random))
               s == IF fromBest THEN best[p.b + 1] ELSE random[p.r + 1]
    <3>1. p.b \in Nat /\ p.r \in Nat /\ p.inputs \in Seq(Any)
      OBVIOUS
    <3>2. s \in Any
      BY <3>1
    <3> HIDE DEF Any
    <3>3. Append(p.inputs, s) \in Seq(Any)
      BY <3>1, <3>2
    <3> HIDE DEF fromBest, s
    <3>4. /\ (IF fromBest THEN p.b + 1 ELSE p.b) \in Nat
          /\ (IF fromBest THEN p.r ELSE p.r + 1) \in Nat
          /\ (IF s \in measured_states_set \cup Range(p.inputs)
              THEN p.inputs ELSE Append(p.inputs, s)) \in Seq(Any)
      BY <3>1, <3>3
    <3>5. PickStep(p, best, random) =
            [b |-> IF fromBest THEN p.b + 1 ELSE p.b,
             r |-> IF fromBest THEN p.r ELSE p.r + 1,
             inputs |-> IF s \in measured_states_set \cup Range(p.inputs)
                        THEN p.inputs ELSE Append(p.inputs, s)]
      BY DEF PickStep, fromBest, s
    <3>6. PickStep(p, best, random) \in S
      BY <3>4, <3>5
    <3> QED
      BY <1>0, <2>1, <3>6
  <2>2. CASE ~ (Len(p.inputs) < Quota(room))
    BY <1>0, <2>2
  <2> QED
    BY <2>1, <2>2
<1> HIDE DEF S, To, Go, start
<1>4. StepsTo(h, S, n)
  BY <1>3 DEF StepsTo
<1>5. PICK f : Tabulates(f, S, start, h, n)
  <2> HIDE DEF h, n
  <2> QED
    BY <1>1, <1>2, <1>4, BoundedRecursion
<1>6. f \in [0 .. n -> S]
  BY <1>5 DEF Tabulates
<1>7. \A j \in 1 .. n : j - 1 \in 0 .. n /\ j \in 0 .. n
  BY <1>1
<1> HIDE DEF n
<1>8. \A j \in 0 .. n : f[j] = IF j = 0 THEN start ELSE Go(f[j - 1])
  <2> TAKE j \in 0 .. n
  <2>1. CASE j = 0
    BY <1>5, <2>1 DEF Tabulates
  <2>2. CASE j # 0
    <3>1. j \in 1 .. n /\ f[j - 1] \in S
      BY <1>1, <1>6, <1>7, <2>2
    <3>2. f[j] = h[<<f[j - 1], j>>]
      BY <1>5, <2>2 DEF Tabulates
    <3>3. h[<<f[j - 1], j>>] = Go(f[j - 1])
      BY <3>1
    <3> QED
      BY <2>2, <3>2, <3>3
  <2> QED
    BY <2>1, <2>2
<1>9. Eq(f)
  BY <1>6, <1>8
<1>10. Eq(pick)
  <2> HIDE DEF Eq
  <2> QED
    BY <1>9
<1>11. Pick(best, random, room) = pick[n].inputs
  BY DEF Pick, PickStep, Go, To, start, n
<1> HIDE DEF pick
<1>12. pick[0] = start /\ \A j \in 1 .. n : pick[j] = Go(pick[j - 1])
  <2>1. 0 \in 0 .. n /\ \A j \in 1 .. n : j # 0
    BY <1>1
  <2> QED
    BY <1>7, <1>10, <2>1
<1> DEFINE P == {j \in Nat : Picked(pick[j], best, random, room) /\ Looked(pick[j], j, room)}
<1>13. 0 \in P
  <2>1. Picked(start, best, random, room)
    <3>1. Range(<< >>) = {} /\ IsInjective(<< >>) /\ Len(<< >>) = 0
      BY DEF Range, IsInjective
    <3>2. Quota(room) \in Nat
      BY SearchAssumption DEF Quota
    <3> QED
      BY <3>1, <3>2 DEF start, Picked
  <2>2. Looked(start, 0, room)
    BY DEF start, Looked
  <2> QED
    BY <1>12, <2>1, <2>2
<1>14. ASSUME NEW j \in 0 .. n - 1, j \in P PROVE j + 1 \in P
  <2>1. j + 1 \in 1 .. n /\ (j + 1) - 1 = j /\ j + 1 \in Nat
    BY <1>1
  <2>2. PICK p : p = pick[j] /\ Picked(p, best, random, room) /\ Looked(p, j, room)
    BY <1>14
  <2>3. pick[j + 1] = Go(p)
    BY <1>12, <2>1, <2>2
  <2>4. Picked(Go(p), best, random, room) /\ Looked(Go(p), j + 1, room)
    <3>1. CASE Len(p.inputs) < Quota(room)
      <4>1. Go(p) = PickStep(p, best, random)
        BY <3>1, <1>0 DEF To
      <4>2. j \in 0 .. Len(best) + Len(random) - 1
        BY DEF n
      <4> QED
        BY <2>2, <3>1, <4>1, <4>2, PickStepPicks
    <3>2. CASE ~ (Len(p.inputs) < Quota(room))
      BY <2>2, <3>2, <1>0 DEF To, Looked
    <3> QED
      BY <3>1, <3>2
  <2> QED
    BY <2>1, <2>3, <2>4
<1> HIDE DEF P
<1>15. n \in P
  <2>1. 0 .. n \subseteq P
    BY <1>1, <1>13, <1>14, IntervalInduction
  <2> QED
    BY <1>1, <2>1
<1> QED
  BY <1>11, <1>15 DEF P

-----------------------------------------------------------------------------
(* What the measurer keeps after the inputs were measured.                  *)

Tops == [at : Nat, score : Speeds, states : Seq(Programs)]
Kept == [at |-> best_ct, score |-> best_score, states |-> best_states]

(* The results of measuring the inputs. *)
Results(speeds) == speeds \in Seq(Speeds) /\ Len(speeds) = Len(inputs) /\ inputs \in Seq(Programs)

Follows(top, speeds) ==
  /\ top \in [0 .. Len(speeds) -> Tops] /\ top[0] = Kept
  /\ \A j \in 1 .. Len(speeds) :
       top[j] = IF speeds[j] > top[j - 1].score
                THEN [at |-> ct + j - 1, score |-> speeds[j], states |-> <<inputs[j]>>]
                ELSE top[j - 1]

LEMMA TopIs ==
  ASSUME NEW speeds, Results(speeds), Kept \in Tops, ct \in Nat
  PROVE  \E top : Follows(top, speeds) /\ Top(speeds) = top[Len(speeds)]
<1> DEFINE n == Len(speeds)
           New(j) == [at |-> ct + j - 1, score |-> speeds[j], states |-> <<inputs[j]>>]
           h == [p \in Tops \X (1 .. n) |->
                   IF speeds[p[2]] > p[1].score THEN New(p[2]) ELSE p[1]]
           Eq(f) == f = [j \in 0 .. n |->
                      IF j = 0 THEN Kept
                      ELSE IF speeds[j] > f[j - 1].score THEN New(j) ELSE f[j - 1]]
           top == CHOOSE f : Eq(f)
<1>1. n \in Nat
  BY DEF Results
<1>2. \A j \in 1 .. n : New(j) \in Tops
  <2> TAKE j \in 1 .. n
  <2>1. speeds[j] \in Speeds /\ inputs[j] \in Programs /\ ct + j - 1 \in Nat
    BY DEF Results
  <2> QED
    BY <2>1 DEF Tops
<1> HIDE DEF New
<1>3. StepsTo(h, Tops, n)
  <2>1. ASSUME NEW p \in Tops \X (1 .. n)
        PROVE  (IF speeds[p[2]] > p[1].score THEN New(p[2]) ELSE p[1]) \in Tops
    BY <1>2
  <2> QED
    BY <2>1 DEF StepsTo
<1>4. PICK f : Tabulates(f, Tops, Kept, h, n)
  <2> HIDE DEF h, n
  <2> QED
    BY <1>1, <1>3, BoundedRecursion
<1>5. f \in [0 .. n -> Tops]
  BY <1>4 DEF Tabulates
<1>6. \A j \in 1 .. n : j - 1 \in 0 .. n /\ j \in 0 .. n
  BY <1>1
<1>7. \A j \in 0 .. n : f[j] = IF j = 0 THEN Kept
                      ELSE IF speeds[j] > f[j - 1].score THEN New(j) ELSE f[j - 1]
  <2> TAKE j \in 0 .. n
  <2>1. CASE j = 0
    BY <1>4, <2>1 DEF Tabulates
  <2>2. CASE j # 0
    <3>1. j \in 1 .. n /\ f[j - 1] \in Tops
      BY <1>1, <1>5, <1>6, <2>2
    <3>2. f[j] = h[<<f[j - 1], j>>]
      BY <1>4, <2>2 DEF Tabulates
    <3>3. h[<<f[j - 1], j>>] = IF speeds[j] > f[j - 1].score THEN New(j) ELSE f[j - 1]
      BY <3>1
    <3> QED
      BY <2>2, <3>2, <3>3
  <2> QED
    BY <2>1, <2>2
<1>8. Eq(f)
  BY <1>5, <1>7
<1>9. Eq(top)
  <2> HIDE DEF Eq
  <2> QED
    BY <1>8
<1>10. Top(speeds) = top[n]
  BY DEF Top, Kept, New
<1> HIDE DEF top
<1>11. top[0] = Kept /\ \A j \in 1 .. n : top[j] = IF speeds[j] > top[j - 1].score THEN New(j) ELSE top[j - 1]
  <2>1. 0 \in 0 .. n /\ \A j \in 1 .. n : j # 0
    BY <1>1
  <2> QED
    BY <1>6, <1>9, <2>1
<1>12. top \in [0 .. n -> Tops]
  <2> DEFINE P == {j \in Nat : top[j] \in Tops}
  <2>1. 0 \in P
    BY <1>11
  <2>2. ASSUME NEW j \in 0 .. n - 1, j \in P PROVE j + 1 \in P
    <3>1. j + 1 \in 1 .. n /\ (j + 1) - 1 = j /\ j + 1 \in Nat
      BY <1>1
    <3>2. top[j + 1] = IF speeds[j + 1] > top[j].score THEN New(j + 1) ELSE top[j]
      BY <1>11, <3>1
    <3> QED
      BY <1>2, <2>2, <3>1, <3>2
  <2> HIDE DEF P
  <2>3. 0 .. n \subseteq P
    BY <1>1, <2>1, <2>2, IntervalInduction
  <2>4. top = [j \in 0 .. n |-> top[j]]
    BY <1>9
  <2> QED
    BY <2>3, <2>4 DEF P
<1>13. Follows(top, speeds)
  BY <1>11, <1>12 DEF Follows, New
<1> QED
  BY <1>10, <1>13

-----------------------------------------------------------------------------
(* The inductive invariant.                                                 *)

(* What is known is listed as measured, once, and what is to be measured   *)
(* next is listed but not known.                                           *)
Distinct ==
  /\ NeverMeasuredTwice
  /\ \A h \in DOMAIN known : known[h].program \in measured_states_set
  /\ pc = "measure" =>
       /\ IsInjective(inputs) /\ Range(inputs) \subseteq measured_states_set
       /\ \A h \in DOMAIN known : known[h].program \notin Range(inputs)

(* The two arrays agree as far as the shorter goes; what is missing are    *)
(* the throughputs of the inputs.                                          *)
NumThroughputs == Len(measured_states_throughputs)
RecordAt(p) == Record(measured_states_vector[p], measured_states_throughputs[p])
Aligned ==
  /\ NumThroughputs <= Len(measured_states_vector)
  /\ \A p \in 1 .. NumThroughputs : RecordAt(p) \in Range(known)
  /\ pc \in {"construct", "idle", "search"} => Complete
  /\ pc = "measure" =>
       /\ Len(measured_states_vector) = NumThroughputs + Len(inputs)
       /\ \A j \in 1 .. Len(inputs) : measured_states_vector[NumThroughputs + j] = inputs[j]

(* The history of a dynamic task is what the arrays hold. *)
DynKnown ==
  dyn =>
    /\ NumThroughputs <= Len(known)
    /\ \A p \in 1 .. NumThroughputs : RecordAt(p) = known[p]
    /\ pc = "measure" => NumThroughputs = Len(known)
    /\ pc \in {"construct", "idle", "search", "finish"} =>
         Len(measured_states_vector) = Len(known)
    /\ caller = "AutoSchedule" => ct = Len(known)
    /\ pc = "construct" => known = << >>

(* top is the first fastest of the entries lo + 1 .. hi of a log, or says  *)
(* that all of them failed; at counts from lo.                             *)
Leads(top, log, lo, hi) ==
  \/ /\ top.score = 0 /\ top.states = << >>
     /\ \A h \in lo + 1 .. hi : log[h].speed = 0
  \/ LET m == lo + top.at + 1
     IN  /\ top.score > 0 /\ m \in lo + 1 .. hi
         /\ top.score = log[m].speed /\ top.states = <<log[m].program>>
         /\ \A h \in lo + 1 .. hi : log[h].speed <= top.score

Searching == caller = "AutoSchedule" /\ pc \in {"search", "measure", "finish"}
Offset == Len(known) - ct

(* What the measurer keeps for the search of a static task. *)
StaticLead ==
  /\ pc \in {"construct", "idle"} \/ caller # "AutoSchedule" => ct = 0
  /\ ct <= Len(known)
  /\ Searching /\ ~dyn =>
       /\ Leads(Kept, known, Offset, Len(known))
       /\ has_valid => \E h \in Offset + 1 .. Len(known) : known[h].speed > 0

(* Only AutoSchedule runs the loop. *)
LoopIsAuto == pc \in {"search", "finish"} => caller = "AutoSchedule"

SearchInv ==
  TypeOK /\ Distinct /\ Aligned /\ DynKnown /\ StaticLead /\ LoopIsAuto /\ AnswerIsFastest

-----------------------------------------------------------------------------
(* The fastest state of the batch.                                          *)

Entries == [program : Programs, speed : Speeds]

(* log is known, extended by the results for the inputs. *)
Extends(log, speeds) ==
  /\ log \in Seq(Entries) /\ Len(log) = Len(known) + Len(speeds) /\ Len(known) \in Nat
  /\ \A h \in 1 .. Len(known) : log[h] = known[h]
  /\ \A j \in 1 .. Len(speeds) : log[Len(known) + j] = Record(inputs[j], speeds[j])

LEMMA LeadsNext ==
  ASSUME NEW speeds, Results(speeds), ct \in Nat, NEW lo \in Nat, lo + ct = Len(known),
         NEW log, Extends(log, speeds), NEW top, Follows(top, speeds),
         NEW j \in 1 .. Len(speeds), Leads(top[j - 1], log, lo, Len(known) + j - 1)
  PROVE  Leads(top[j], log, lo, Len(known) + j)
<1> DEFINE N == Len(known) + j
           old == top[j - 1]
<1>1. /\ N \in Nat /\ N > lo /\ N - 1 >= lo /\ Len(known) + j - 1 = N - 1
      /\ j - 1 \in 0 .. Len(speeds) /\ lo + (ct + j - 1) + 1 = N
      /\ N - 1 \in Nat /\ N <= Len(log) /\ Len(log) \in Nat
  BY DEF Results, Extends
<1>2. log[N] = Record(inputs[j], speeds[j])
  BY DEF Extends
<1>3. log[N].speed = speeds[j] /\ log[N].program = inputs[j] /\ speeds[j] \in Nat
  <2>1. speeds[j] \in Nat
    BY SearchAssumption DEF Results, Speeds
  <2> QED
    BY <1>2, <2>1 DEF Record
<1>4. old.score \in Nat /\ old.at \in Nat
  <2>1. old \in Tops
    BY <1>1 DEF Follows
  <2> QED
    BY <2>1, SearchAssumption DEF Tops, Speeds
<1>5. Leads(old, log, lo, N - 1)
  BY <1>1
<1>6. \A h \in lo + 1 .. N : h = N \/ h \in lo + 1 .. N - 1
  BY <1>1
<1>7. \A h \in lo + 1 .. N : log[h].speed \in Nat
  <2>1. \A h \in lo + 1 .. N : h \in 1 .. Len(log)
    BY <1>1
  <2>2. \A h \in lo + 1 .. N : log[h] \in Entries
    BY <2>1 DEF Extends
  <2> QED
    BY <2>2, SearchAssumption DEF Entries, Speeds
<1>8. top[j] = IF speeds[j] > old.score
               THEN [at |-> ct + j - 1, score |-> speeds[j], states |-> <<inputs[j]>>] ELSE old
  BY DEF Follows
<1>9. N \in lo + 1 .. N
  BY <1>1
<1> HIDE DEF old, N
<1>10. CASE speeds[j] > old.score
  <2> DEFINE new == [at |-> ct + j - 1, score |-> speeds[j], states |-> <<inputs[j]>>]
  <2>1. lo + new.at + 1 = N /\ new.score = speeds[j] /\ new.states = <<inputs[j]>>
    BY <1>1
  <2>2. top[j] = new
    BY <1>8, <1>10
  <2> HIDE DEF new
  <2>3. \A h \in lo + 1 .. N - 1 : log[h].speed <= old.score
    BY <1>4, <1>5, <1>6, <1>7 DEF Leads
  <2>4. ASSUME NEW h \in lo + 1 .. N PROVE log[h].speed <= new.score
    <3>1. CASE h = N
      BY <1>3, <2>1, <3>1
    <3>2. CASE h \in lo + 1 .. N - 1
      <4>1. log[h].speed <= old.score /\ log[h].speed \in Nat
        BY <1>7, <2>3, <3>2
      <4> QED
        BY <1>3, <1>4, <1>10, <2>1, <4>1
    <3> QED
      BY <1>6, <3>1, <3>2
  <2>5. new.score > 0 /\ new.score = log[N].speed /\ new.states = <<log[N].program>>
    BY <1>3, <1>4, <1>10, <2>1
  <2>6. Leads(new, log, lo, N)
    BY <1>9, <2>1, <2>4, <2>5 DEF Leads
  <2> QED
    BY <2>2, <2>6 DEF N
<1>11. CASE ~ (speeds[j] > old.score)
  <2>1. top[j] = old /\ speeds[j] <= old.score
    BY <1>3, <1>4, <1>8, <1>11
  <2>2. Leads(old, log, lo, N)
    <3>1. CASE /\ old.score = 0 /\ old.states = << >>
               /\ \A h \in lo + 1 .. N - 1 : log[h].speed = 0
      <4>1. log[N].speed = 0
        BY <1>3, <2>1, <3>1
      <4> QED
        BY <1>6, <3>1, <4>1 DEF Leads
    <3>2. ASSUME NEW m, m = lo + old.at + 1, old.score > 0, m \in lo + 1 .. N - 1,
                 old.score = log[m].speed, old.states = <<log[m].program>>,
                 \A h \in lo + 1 .. N - 1 : log[h].speed <= old.score
          PROVE  Leads(old, log, lo, N)
      <4>1. \A h \in lo + 1 .. N : log[h].speed <= old.score
        BY <1>3, <1>6, <2>1, <3>2
      <4>2. m \in lo + 1 .. N
        BY <1>1, <3>2
      <4> QED
        BY <3>2, <4>1, <4>2 DEF Leads
    <3> QED
      BY <1>5, <3>1, <3>2 DEF Leads
  <2> QED
    BY <2>1, <2>2 DEF N
<1> QED
  BY <1>10, <1>11

(* The measured inputs become known. *)
LEMMA TopLeads ==
  ASSUME NEW speeds, Results(speeds), ct \in Nat, Kept \in Tops,
         NEW lo \in Nat, lo + ct = Len(known), NEW log, Extends(log, speeds),
         Leads(Kept, known, lo, Len(known))
  PROVE  Top(speeds) \in Tops /\ Leads(Top(speeds), log, lo, Len(log))
<1>1. PICK n : n = Len(speeds) /\ n \in Nat
  BY DEF Results
<1>2. PICK top : Follows(top, speeds) /\ Top(speeds) = top[n]
  BY <1>1, TopIs
<1>3. PICK N : N = Len(known) /\ N \in Nat /\ Len(log) = N + n
  BY <1>1 DEF Extends
<1> DEFINE P == {j \in Nat : Leads(top[j], log, lo, N + j)}
<1>4. 0 \in P
  <2>1. top[0] = Kept /\ N + 0 = N
    BY <1>2, <1>3 DEF Follows
  <2>2. \A h \in lo + 1 .. N : log[h] = known[h]
    BY <1>3 DEF Extends
  <2>3. Leads(Kept, log, lo, N)
    BY <1>3, <2>2 DEF Leads
  <2> QED
    BY <2>1, <2>3
<1>5. ASSUME NEW j \in 0 .. n - 1, j \in P PROVE j + 1 \in P
  <2>1. j + 1 \in 1 .. n /\ (j + 1) - 1 = j /\ j + 1 \in Nat /\ N + (j + 1) - 1 = N + j
    BY <1>1, <1>3
  <2>2. Leads(top[(j + 1) - 1], log, lo, N + (j + 1) - 1)
    BY <1>5, <2>1
  <2>3. Leads(top[j + 1], log, lo, N + (j + 1))
    BY <1>1, <1>2, <1>3, <2>1, <2>2, LeadsNext
  <2> QED
    BY <2>1, <2>3
<1> HIDE DEF P
<1>6. n \in P
  <2>1. 0 .. n \subseteq P
    BY <1>1, <1>4, <1>5, IntervalInduction
  <2> QED
    BY <1>1, <2>1
<1>7. top[n] \in Tops
  BY <1>1, <1>2 DEF Follows
<1> QED
  BY <1>2, <1>3, <1>6, <1>7 DEF P

-----------------------------------------------------------------------------
(* Types.                                                                   *)

LEMMA FoundTyped ==
  ASSUME NEW best \in BestFound, NEW random \in RandomFound
  PROVE  best \in Seq(Programs) /\ random \in Seq(Programs)
<1>1. PICK n \in 0 .. 2 * PerIter : best \in Injection(1 .. n, Programs \ measured_states_set)
  BY DEF BestFound
<1>2. best \in [1 .. n -> Programs] /\ n \in Nat
  BY <1>1, SearchAssumption DEF Injection
<1>3. random \in [1 .. 3 * NumRandom -> Programs] /\ 3 * NumRandom \in Nat
  BY SearchAssumption DEF RandomFound
<1> QED
  BY <1>2, <1>3

(* What Pick hands over: states to measure, each once and none again. *)
NewStates(picked) ==
  /\ picked \in Seq(Programs) /\ IsInjective(picked)
  /\ Range(picked) \cap measured_states_set = {}

LEMMA PickIsNew ==
  ASSUME NEW best \in BestFound, NEW random \in RandomFound, NEW room \in Nat
  PROVE  NewStates(Pick(best, random, room))
<1>1. best \in Seq(Programs) /\ random \in Seq(Programs)
  BY FoundTyped
<1>2. PICK p : Picked(p, best, random, room) /\ Pick(best, random, room) = p.inputs
  BY <1>1, PickIs
<1> QED
  BY <1>2 DEF Picked, NewStates

(* Find and FindForRound differ in what they leave to the loop. *)
Finds(picked) ==
  /\ NewStates(picked) /\ Remember(picked) /\ pc' = "measure"
  /\ pc \in {"idle", "search"}
  /\ Searching' => Searching
  /\ empty_retry_count' \in {empty_retry_count, EmptyRetries}
  /\ UNCHANGED <<caller, dyn, n_trials, ct, measurer, answer, known>>

LEMMA FindFinds ==
  ASSUME TypeOK, NEW best \in BestFound, NEW random \in RandomFound,
         Find(best, random) \/ FindForRound(best, random)
  PROVE  \E picked : Finds(picked)
<1>1. CASE Find(best, random)
  <2>1. n_trials - ct \in Nat
    BY <1>1 DEF TypeOK, Find, MoreTrials
  <2>2. NewStates(Pick(best, random, n_trials - ct))
    BY <2>1, PickIsNew
  <2>3. Remember(Pick(best, random, n_trials - ct))
    BY <1>1 DEF Find
  <2>4. Finds(Pick(best, random, n_trials - ct))
    BY <1>1, <2>2, <2>3 DEF Find, Finds, Searching
  <2> QED
    BY <2>4
<1>2. CASE FindForRound(best, random)
  <2>1. PerIter \in Nat
    BY SearchAssumption
  <2>2. NewStates(Pick(best, random, PerIter))
    BY <2>1, PickIsNew
  <2>3. Remember(Pick(best, random, PerIter))
    BY <1>2 DEF FindForRound
  <2>4. Finds(Pick(best, random, PerIter))
    BY <1>2, <2>2, <2>3 DEF FindForRound, Finds, Searching
  <2> QED
    BY <2>4
<1> QED
  BY <1>1, <1>2

LEMMA TypesFinds ==
  ASSUME TypeOK, NEW picked, Finds(picked)
  PROVE  TypeOK'
<1>1. picked \in Seq(Programs) /\ \A x \in Range(picked) : x \in Programs
  BY DEF Finds, NewStates, Range
<1>2. measured_states_vector' \in Seq(Programs)
  BY <1>1 DEF Finds, Remember, TypeOK
<1>3. inputs' \in Seq(Programs) /\ measured_states_set' \subseteq Programs
      /\ measured_states_throughputs' = measured_states_throughputs
  BY <1>1 DEF Finds, Remember, TypeOK
<1>4. empty_retry_count' \in 0 .. EmptyRetries
  BY SearchAssumption DEF Finds, TypeOK
<1>5. pc' = "measure" /\ UNCHANGED <<caller, dyn, n_trials, ct, measurer, answer, known>>
  BY DEF Finds
<1> QED
  BY <1>2, <1>3, <1>4, <1>5 DEF TypeOK, measurer

LEMMA ResultsTyped ==
  ASSUME TypeOK, NEW speeds \in [DOMAIN inputs -> Speeds]
  PROVE  Results(speeds) /\ Kept \in Tops /\ DOMAIN speeds = 1 .. Len(speeds)
<1>1. inputs \in Seq(Programs)
  BY DEF TypeOK
<1>2. PICK n \in Nat : n = Len(inputs) /\ DOMAIN inputs = 1 .. n
  BY <1>1
<1>3. speeds \in Seq(Speeds) /\ Len(speeds) = n /\ DOMAIN speeds = 1 .. n
  BY <1>2
<1>4. best_ct \in Nat /\ best_score \in Speeds /\ best_states \in Seq(Programs)
  BY DEF TypeOK
<1> QED
  BY <1>1, <1>2, <1>3, <1>4 DEF Results, Kept, Tops

(* The log after the measurement. *)
LEMMA LogGrows ==
  ASSUME TypeOK, NEW speeds \in [DOMAIN inputs -> Speeds], Measured(speeds)
  PROVE  /\ Extends(known', speeds)
         /\ \A e \in Range(known) : e \in Range(known')
         /\ \A j \in 1 .. Len(speeds) : Record(inputs[j], speeds[j]) \in Range(known')
<1>1. Results(speeds) /\ DOMAIN speeds = 1 .. Len(speeds)
  BY ResultsTyped
<1> DEFINE new == [j \in 1 .. Len(speeds) |-> Record(inputs[j], speeds[j])]
           both == known \o new
<1>2. known' = both
  BY <1>1 DEF Measured
<1>3. known \in Seq(Entries) /\ Len(known) \in Nat
  BY DEF TypeOK, Entries
<1>4. new \in Seq(Entries) /\ Len(new) = Len(speeds) /\ DOMAIN new = 1 .. Len(speeds)
  <2>1. Len(speeds) \in Nat
    BY <1>1 DEF Results
  <2>2. \A j \in 1 .. Len(speeds) : Record(inputs[j], speeds[j]) \in Entries
    <3> TAKE j \in 1 .. Len(speeds)
    <3>1. inputs[j] \in Programs /\ speeds[j] \in Speeds
      BY <1>1 DEF Results
    <3> QED
      BY <3>1 DEF Record, Entries
  <2> QED
    BY <2>1, <2>2
<1>5. \A j \in 1 .. Len(speeds) : new[j] = Record(inputs[j], speeds[j])
  OBVIOUS
<1> HIDE DEF new, Entries
<1>6. /\ both \in Seq(Entries) /\ Len(both) = Len(known) + Len(new)
      /\ \A h \in 1 .. Len(known) : both[h] = known[h]
      /\ \A j \in 1 .. Len(new) : both[Len(known) + j] = new[j]
      /\ Range(both) = Range(known) \cup Range(new)
  BY <1>3, <1>4, Joined
<1> HIDE DEF both
<1>7. Extends(both, speeds)
  BY <1>3, <1>4, <1>5, <1>6 DEF Extends
<1>8. \A j \in 1 .. Len(speeds) : Record(inputs[j], speeds[j]) \in Range(new)
  BY <1>4, <1>5 DEF Range
<1> QED
  BY <1>2, <1>6, <1>7, <1>8

LEMMA TypesMeasured ==
  ASSUME TypeOK, NEW speeds \in [DOMAIN inputs -> Speeds], Measured(speeds)
  PROVE  /\ best_states' \in Seq(Programs) /\ best_score' \in Speeds /\ best_ct' \in Nat
         /\ has_valid' \in BOOLEAN /\ known' \in Seq(Entries)
         /\ measured_states_throughputs \o speeds \in Seq(Speeds)
<1>1. Results(speeds) /\ Kept \in Tops /\ ct \in Nat
  BY ResultsTyped DEF TypeOK
<1>2. PICK top : Follows(top, speeds) /\ Top(speeds) = top[Len(speeds)]
  BY <1>1, TopIs
<1>3. Len(speeds) \in 0 .. Len(speeds)
  BY <1>1 DEF Results
<1>4. PICK t \in Tops : t = Top(speeds)
  BY <1>2, <1>3 DEF Follows
<1>5. t.at \in Nat /\ t.score \in Speeds /\ t.states \in Seq(Programs)
  BY DEF Tops
<1>6. best_states' \in Seq(Programs) /\ best_score' \in Speeds /\ best_ct' \in Nat
  BY <1>4, <1>5 DEF Measured, TypeOK
<1>7. has_valid' \in BOOLEAN
  BY DEF Measured
<1>8. known' \in Seq(Entries)
  BY LogGrows DEF Extends
<1>9. measured_states_throughputs \o speeds \in Seq(Speeds)
  BY <1>1 DEF Results, TypeOK
<1> QED
  BY <1>6, <1>7, <1>8, <1>9

(* The steps that leave what is known and remembered alone.                 *)
Ended == {"returned", "aborted", "crashed", "undefined"}
Quiet ==
  /\ UNCHANGED <<caller, dyn, ct, memory, measurer, known>>
  /\ inputs' \in {inputs, << >>} /\ (pc = "measure" => inputs' = inputs)
  /\ \/ pc' = pc
     \/ pc' \in Ended
     \/ pc = "construct" /\ pc' = "idle"
     \/ pc = "search" /\ pc' = "finish"
  /\ n_trials' \in Nat /\ empty_retry_count' \in 0 .. EmptyRetries
  /\ answer'.states \in Seq(Programs)

LEMMA QuietFinds ==
  ASSUME TypeOK, NEW best \in BestFound, NEW random \in RandomFound, FindNone(best, random)
  PROVE  Quiet
<1>1. empty_retry_count' \in 0 .. EmptyRetries
  BY SearchAssumption DEF FindNone, TypeOK, RetriesLeft
<1> QED
  BY <1>1 DEF FindNone, TypeOK, Quiet, memory, measurer

LEMMA QuietUntuned ==
  ASSUME TypeOK, NEW n \in TrialCounts, NEW best \in BestFound, SearchUntuned(n, best)
  PROVE  Quiet
<1>1. n_trials' \in Nat
  BY SearchAssumption DEF SearchUntuned
<1>2. answer'.states \in Seq(Programs)
  <2>1. CASE best = << >>
    BY <2>1 DEF SearchUntuned, TypeOK
  <2>2. CASE best # << >>
    <3>1. PICK m \in 0 .. 2 * PerIter : best \in [1 .. m -> Programs]
      BY DEF BestFound, Injection
    <3>2. m \in Nat /\ m # 0
      BY <2>2, <3>1, SearchAssumption
    <3>3. best[1] \in Programs
      BY <3>1, <3>2
    <3>4. answer' = [states |-> <<best[1]>>, disp |-> << >>]
      BY <2>2 DEF SearchUntuned
    <3> QED
      BY <3>3, <3>4
  <2> QED
    BY <2>1, <2>2
<1>3. pc' \in Ended
  BY DEF SearchUntuned, Ended
<1> QED
  BY <1>1, <1>2, <1>3 DEF SearchUntuned, TypeOK, Quiet, memory, measurer

(* What the final dispatch answers with. *)
LEMMA AnswerIs ==
  ASSUME TypeOK, NEW disp \in [Insts -> Positions], NEW order \in Orders(disp),
         AnswerDyn(disp, order)
  PROVE  /\ answer'.states \in Seq(Programs)
         /\ \A i \in Insts :
              /\ answer'.disp[i] \in DOMAIN answer'.states
              /\ answer'.states[answer'.disp[i]] = measured_states_vector[disp[i]]
<1>1. DOMAIN disp = Insts /\ IsFiniteSet(Insts) /\ \A i \in Insts : disp[i] \in Positions
  BY SearchAssumption
<1>2. PICK n : Lists(order, disp, n)
  BY <1>1, OrderLists
<1>3. n \in Nat /\ DOMAIN order = 1 .. n /\ \A x \in 1 .. n : order[x] \in Positions
  BY <1>1, <1>2 DEF Lists
<1>4. DispOver(disp, order) = PlaceOf(disp, order)
  BY <1>1 DEF DispOver, PlaceOf
<1>5. \A p \in Positions : measured_states_vector[p] \in Programs
  BY DEF TypeOK, Positions
<1>6. answer' = [states |-> [x \in 1 .. n |-> measured_states_vector[order[x]]],
                 disp |-> PlaceOf(disp, order)]
  BY <1>3, <1>4 DEF AnswerDyn
<1>7. answer'.states \in [1 .. n -> Programs]
  BY <1>3, <1>5, <1>6
<1>8. answer'.states \in Seq(Programs)
  BY <1>3, <1>7
<1>9. \A i \in Insts : PlaceOf(disp, order)[i] \in 1 .. n /\ order[PlaceOf(disp, order)[i]] = disp[i]
  BY <1>1, <1>2 DEF Lists
<1> QED
  BY <1>6, <1>8, <1>9

QuietStep ==
  Construct \/ Throw \/ OutOfTrials \/ AnswerStatic \/ AnswerDynBadly \/ UNCHANGED vars

LEMMA QuietSteps == TypeOK /\ QuietStep => Quiet
<1> SUFFICES ASSUME TypeOK, QuietStep PROVE Quiet
  OBVIOUS
<1>1. CASE Construct
  BY <1>1 DEF Construct, TypeOK, Quiet, memory, measurer
<1>2. CASE Throw
  BY <1>2 DEF Throw, TypeOK, Quiet, memory, measurer, Ended
<1>3. CASE OutOfTrials
  BY <1>3 DEF OutOfTrials, TypeOK, Quiet, memory, measurer
<1>4. CASE AnswerStatic
  <2>1. answer'.states \in Seq(Programs) /\ pc' \in Ended
    BY <1>4 DEF AnswerStatic, TypeOK, Ended
  <2> QED
    BY <1>4, <2>1 DEF AnswerStatic, TypeOK, Quiet, memory, measurer
<1>5. CASE AnswerDynBadly
  <2>1. pc' \in Ended
    BY <1>5 DEF AnswerDynBadly, Ended
  <2> QED
    BY <1>5, <2>1 DEF AnswerDynBadly, TypeOK, Quiet, memory, measurer
<1>6. CASE UNCHANGED vars
  BY <1>6 DEF vars, TypeOK, Quiet, memory, measurer
<1> QED
  BY <1>1, <1>2, <1>3, <1>4, <1>5, <1>6 DEF QuietStep

LEMMA QuietDyn ==
  ASSUME TypeOK, NEW disp \in [Insts -> Positions], NEW order \in Orders(disp),
         AnswerDyn(disp, order)
  PROVE  Quiet
<1>1. answer'.states \in Seq(Programs)
  BY AnswerIs
<1>2. pc' \in Ended
  BY DEF AnswerDyn, Ended
<1> QED
  BY <1>1, <1>2 DEF AnswerDyn, TypeOK, Quiet, memory, measurer

(* MeasureRound of a dynamic task with nothing to dispatch to. *)
Empty == dyn /\ known = << >> /\ inputs = << >>

LEMMA QuietRound ==
  ASSUME TypeOK, NEW speeds, MeasureRound(speeds), Empty
  PROVE  Quiet
BY DEF MeasureRound, Empty, TypeOK, Quiet, Ended, memory, measurer

(* The two steps that measure. *)
Measures(speeds) ==
  /\ Measured(speeds) /\ pc = "measure" /\ pc' \in {"search", "finish", "idle"}
  /\ UNCHANGED <<caller, dyn, n_trials, empty_retry_count, inputs, measured_states_set,
                 measured_states_vector, answer>>
  /\ IF pc' = "finish" THEN UNCHANGED measured_states_throughputs
     ELSE measured_states_throughputs' = measured_states_throughputs \o speeds
  /\ IF caller = "AutoSchedule" THEN ct' = ct + Len(inputs) /\ pc' # "idle"
     ELSE UNCHANGED ct /\ pc' = "idle"

LEMMA FoundMeasures ==
  ASSUME NEW speeds, MeasureFound(speeds)
  PROVE  Measures(speeds)
BY DEF MeasureFound, Measures

LEMMA RoundMeasures ==
  ASSUME NEW speeds, MeasureRound(speeds), ~ Empty
  PROVE  Measures(speeds) /\ caller = "TaskScheduler"
BY DEF MeasureRound, Measures, Empty

(* Every step is one of these. *)
LEMMA SearchSteps ==
  ASSUME TypeOK, [Next]_vars
  PROVE  \/ Quiet
         \/ \E s \in Programs, speed \in Speeds : Preload(s, speed)
         \/ \E n \in TrialCounts : SearchTuned(n)
         \/ \E picked : Finds(picked)
         \/ \E speeds \in [DOMAIN inputs -> Speeds] : Measures(speeds)
<1>1. CASE \E n \in TrialCounts, best \in BestFound : SearchUntuned(n, best)
  BY <1>1, QuietUntuned
<1>2. ASSUME NEW best \in BestFound, NEW random \in RandomFound,
             FindNone(best, random) \/ Find(best, random) \/ FindForRound(best, random)
      PROVE  Quiet \/ \E picked : Finds(picked)
  BY <1>2, QuietFinds, FindFinds
<1>3. ASSUME NEW speeds \in [DOMAIN inputs -> Speeds], MeasureFound(speeds) \/ MeasureRound(speeds)
      PROVE  Quiet \/ Measures(speeds)
  BY <1>3, FoundMeasures, RoundMeasures, QuietRound
<1>4. CASE \E disp \in [Insts -> Positions] : \E order \in Orders(disp) : AnswerDyn(disp, order)
  BY <1>4, QuietDyn
<1>5. CASE QuietStep
  BY <1>5, QuietSteps
<1> QED
  BY <1>1, <1>2, <1>3, <1>4, <1>5 DEF Next, QuietStep, Orders

LEMMA TypesNext == TypeOK /\ [Next]_vars => TypeOK'
<1> SUFFICES ASSUME TypeOK, [Next]_vars PROVE TypeOK'
  OBVIOUS
<1>1. CASE Quiet
  <2>1. pc' \in {"construct", "idle", "search", "measure", "finish",
                 "returned", "aborted", "crashed", "undefined"}
    BY <1>1 DEF Quiet, Ended, TypeOK
  <2>2. inputs' \in Seq(Programs)
    <3>1. inputs \in Seq(Programs) /\ << >> \in Seq(Programs)
      BY DEF TypeOK
    <3>2. inputs' \in {inputs, << >>}
      BY <1>1 DEF Quiet
    <3> QED
      BY <3>1, <3>2
  <2> QED
    BY <1>1, <2>1, <2>2 DEF Quiet, TypeOK, memory, measurer
<1>2. ASSUME NEW s \in Programs, NEW speed \in Speeds, Preload(s, speed) PROVE TypeOK'
  <2>1. known' \in Seq(Entries)
    <3>1. Record(s, speed) \in Entries
      BY DEF Record, Entries
    <3>2. known \in Seq(Entries) /\ known' = Append(known, Record(s, speed))
      BY <1>2 DEF Preload, TypeOK, Entries
    <3> HIDE DEF Entries
    <3> QED
      BY <3>1, <3>2
  <2>2. /\ measured_states_set' \subseteq Programs /\ measured_states_vector' \in Seq(Programs)
        /\ measured_states_throughputs' \in Seq(Speeds)
    <3>1. /\ measured_states_set \subseteq Programs /\ measured_states_vector \in Seq(Programs)
          /\ measured_states_throughputs \in Seq(Speeds)
      BY DEF TypeOK
    <3>2. /\ Append(measured_states_vector, s) \in Seq(Programs)
          /\ Append(measured_states_throughputs, speed) \in Seq(Speeds)
      BY <3>1
    <3> QED
      BY <1>2, <3>1, <3>2 DEF Preload
  <2>3. UNCHANGED <<pc, caller, dyn, n_trials, ct, empty_retry_count, inputs, measurer, answer>>
    BY <1>2 DEF Preload
  <2> QED
    BY <2>1, <2>2, <2>3 DEF TypeOK, measurer, Entries
<1>3. ASSUME NEW n \in TrialCounts, SearchTuned(n) PROVE TypeOK'
  <2>1. /\ n_trials' \in Nat /\ ct' \in Nat /\ empty_retry_count' \in 0 .. EmptyRetries
        /\ best_states' \in Seq(Programs) /\ best_score' \in Speeds /\ best_ct' \in Nat
        /\ has_valid' \in BOOLEAN /\ pc' = "search"
    <3>1. n \in Nat /\ EmptyRetries \in Nat /\ 0 \in Speeds
      BY SearchAssumption DEF Speeds
    <3>2. EmptyRetries \in 0 .. EmptyRetries /\ << >> \in Seq(Programs)
      BY <3>1
    <3> QED
      BY <1>3, <3>1, <3>2 DEF SearchTuned
  <2>2. UNCHANGED <<caller, dyn, inputs, memory, answer, known>>
    BY <1>3 DEF SearchTuned
  <2> QED
    BY <2>1, <2>2 DEF TypeOK, memory
<1>4. CASE \E picked : Finds(picked)
  BY <1>4, TypesFinds
<1>5. ASSUME NEW speeds \in [DOMAIN inputs -> Speeds], Measures(speeds) PROVE TypeOK'
  <2>1. Measured(speeds)
    BY <1>5 DEF Measures
  <2>2. /\ best_states' \in Seq(Programs) /\ best_score' \in Speeds /\ best_ct' \in Nat
        /\ has_valid' \in BOOLEAN /\ known' \in Seq(Entries)
        /\ measured_states_throughputs \o speeds \in Seq(Speeds)
    BY <2>1, TypesMeasured
  <2>3. measured_states_throughputs' \in Seq(Speeds)
    BY <1>5, <2>2 DEF Measures, TypeOK
  <2>4. ct' \in Nat
    <3>1. ct \in Nat /\ Len(inputs) \in Nat
      BY DEF TypeOK
    <3> QED
      BY <1>5, <3>1 DEF Measures
  <2>5. UNCHANGED <<caller, n_trials, empty_retry_count, inputs, measured_states_set,
                    measured_states_vector, answer>>
        /\ pc' \in {"search", "finish", "idle"}
    BY <1>5 DEF Measures
  <2> QED
    BY <2>2, <2>3, <2>4, <2>5 DEF TypeOK, Entries
<1> QED
  BY <1>1, <1>2, <1>3, <1>4, <1>5, SearchSteps

-----------------------------------------------------------------------------
(* No state is measured twice.                                              *)

Once(log) == \A h, k \in 1 .. Len(log) : log[h].program = log[k].program => h = k

LEMMA DistinctIs ==
  ASSUME known \in Seq(Entries)
  PROVE  /\ DOMAIN known = 1 .. Len(known) /\ Len(known) \in Nat
         /\ NeverMeasuredTwice <=> Once(known)
<1>1. DOMAIN known = 1 .. Len(known) /\ Len(known) \in Nat
  OBVIOUS
<1> QED
  BY <1>1 DEF NeverMeasuredTwice, KnownPrograms, IsInjective, Once

LEMMA KnownGrows ==
  ASSUME NEW n \in Nat, NEW m \in Nat, NEW log, NEW longer,
         Len(log) = n, Len(longer) = n + m, Once(log),
         \A h \in 1 .. n : longer[h] = log[h],
         \A j, k \in 1 .. m : longer[n + j].program = longer[n + k].program => j = k,
         \A h \in 1 .. n, j \in 1 .. m : log[h].program # longer[n + j].program
  PROVE  Once(longer)
<1>1. \A h \in 1 .. n + m : h \in 1 .. n \/ (h - n \in 1 .. m /\ n + (h - n) = h)
  OBVIOUS
<1>2. ASSUME NEW h \in 1 .. n + m, NEW k \in 1 .. n + m, longer[h].program = longer[k].program
      PROVE  h = k
  <2>1. CASE h \in 1 .. n /\ k \in 1 .. n
    BY <1>2, <2>1 DEF Once
  <2>2. CASE h \in 1 .. n /\ k \notin 1 .. n
    BY <1>1, <1>2, <2>2
  <2>3. CASE h \notin 1 .. n /\ k \in 1 .. n
    BY <1>1, <1>2, <2>3
  <2>4. CASE h \notin 1 .. n /\ k \notin 1 .. n
    <3>1. h - n \in 1 .. m /\ k - n \in 1 .. m /\ n + (h - n) = h /\ n + (k - n) = k
      BY <1>1, <2>4
    <3>2. h - n = k - n
      BY <1>2, <3>1
    <3> QED
      BY <3>1, <3>2
  <2> QED
    BY <2>1, <2>2, <2>3, <2>4
<1> QED
  BY <1>2 DEF Once

LEMMA DistinctNext ==
  ASSUME TypeOK, TypeOK', Distinct, [Next]_vars
  PROVE  Distinct'
<1>1. known \in Seq(Entries) /\ known' \in Seq(Entries) /\ inputs \in Seq(Programs)
  BY DEF TypeOK, Entries
<1>2. /\ DOMAIN known = 1 .. Len(known) /\ Len(known) \in Nat
      /\ DOMAIN known' = 1 .. Len(known') /\ Len(known') \in Nat
      /\ NeverMeasuredTwice <=> Once(known)
      /\ NeverMeasuredTwice' <=> Once(known')
  <2>1. NeverMeasuredTwice' <=> Once(known')
    <3>1. DOMAIN known' = 1 .. Len(known')
      BY <1>1
    <3> QED
      BY <3>1 DEF NeverMeasuredTwice, KnownPrograms, IsInjective, Once
  <2>2. DOMAIN known' = 1 .. Len(known') /\ Len(known') \in Nat
    BY <1>1
  <2> QED
    BY <1>1, <2>1, <2>2, DistinctIs
<1>3. Once(known) /\ \A h \in 1 .. Len(known) : known[h].program \in measured_states_set
  BY <1>2 DEF Distinct
<1>4. CASE Quiet
  <2>1. UNCHANGED <<known, measured_states_set>> /\ (pc' = "measure" => pc = "measure" /\ inputs' = inputs)
    BY <1>4 DEF Quiet, Ended, memory
  <2>2. NeverMeasuredTwice'
    BY <1>2, <1>3, <2>1
  <2> QED
    BY <2>1, <2>2 DEF Distinct
<1>5. ASSUME NEW s \in Programs, NEW speed \in Speeds, Preload(s, speed) PROVE Distinct'
  <2>1. /\ pc' = "construct" /\ s \notin measured_states_set
        /\ measured_states_set' = measured_states_set \cup {s}
        /\ known' = Append(known, Record(s, speed))
    BY <1>5 DEF Preload
  <2>2. PICK n \in Nat : n = Len(known)
    BY <1>2
  <2>3. /\ Len(known') = n + 1 /\ \A h \in 1 .. n : known'[h] = known[h]
        /\ known'[n + 1] = Record(s, speed)
    <3> HIDE DEF Entries
    <3> QED
      BY <1>1, <2>1, <2>2
  <2>4. known'[n + 1].program = s
    BY <2>3 DEF Record
  <2>5. \A j \in 1 .. 1 : j = 1 /\ known'[n + j].program = s
    BY <2>4
  <2>6. Once(known')
    <3>1. \A h \in 1 .. n, j \in 1 .. 1 : known[h].program # known'[n + j].program
      BY <1>3, <2>1, <2>2, <2>5
    <3>2. \A j, k \in 1 .. 1 : known'[n + j].program = known'[n + k].program => j = k
      BY <2>5
    <3> QED
      BY <1>3, <2>2, <2>3, <3>1, <3>2, KnownGrows
  <2>7. \A h \in 1 .. n + 1 : h \in 1 .. n \/ h = n + 1
    OBVIOUS
  <2>8. \A h \in 1 .. n + 1 : known'[h].program \in measured_states_set'
    BY <1>3, <2>1, <2>2, <2>3, <2>4, <2>7
  <2> QED
    BY <1>2, <2>1, <2>3, <2>6, <2>8 DEF Distinct
<1>6. ASSUME NEW n \in TrialCounts, SearchTuned(n) PROVE Distinct'
  <2>1. UNCHANGED <<known, measured_states_set>> /\ pc' = "search"
    BY <1>6 DEF SearchTuned, memory
  <2>2. NeverMeasuredTwice'
    BY <1>2, <1>3, <2>1
  <2> QED
    BY <2>1, <2>2 DEF Distinct
<1>7. ASSUME NEW picked, Finds(picked) PROVE Distinct'
  <2>1. /\ inputs' = picked /\ IsInjective(picked) /\ Range(picked) \cap measured_states_set = {}
        /\ measured_states_set' = measured_states_set \cup Range(picked) /\ known' = known
    BY <1>7 DEF Finds, NewStates, Remember
  <2>2. NeverMeasuredTwice'
    BY <1>2, <1>3, <2>1
  <2> QED
    BY <1>2, <1>3, <2>1, <2>2 DEF Distinct
<1>8. ASSUME NEW speeds \in [DOMAIN inputs -> Speeds], Measures(speeds) PROVE Distinct'
  <2>1. /\ Measured(speeds) /\ pc = "measure" /\ pc' # "measure"
        /\ measured_states_set' = measured_states_set
    BY <1>8 DEF Measures
  <2>2. Extends(known', speeds)
    BY <2>1, LogGrows
  <2>3. PICK n \in Nat : n = Len(known)
    BY <1>2
  <2>4. PICK m \in Nat : m = Len(speeds) /\ m = Len(inputs) /\ DOMAIN inputs = 1 .. m
    BY <1>1, ResultsTyped DEF Results
  <2>5. /\ IsInjective(inputs) /\ Range(inputs) \subseteq measured_states_set
        /\ \A h \in 1 .. n : known[h].program \notin Range(inputs)
    BY <1>2, <2>1, <2>3 DEF Distinct
  <2>6. Len(known') = n + m /\ \A h \in 1 .. n : known'[h] = known[h]
    BY <2>2, <2>3, <2>4 DEF Extends
  <2>7. \A j \in 1 .. m : known'[n + j].program = inputs[j] /\ inputs[j] \in Range(inputs)
    <3> TAKE j \in 1 .. m
    <3>1. known'[n + j] = Record(inputs[j], speeds[j])
      BY <2>2, <2>3, <2>4 DEF Extends
    <3> QED
      BY <2>4, <3>1 DEF Record, Range
  <2>8. \A j, k \in 1 .. m : known'[n + j].program = known'[n + k].program => j = k
    BY <2>4, <2>5, <2>7 DEF IsInjective
  <2>9. \A h \in 1 .. n, j \in 1 .. m : known[h].program # known'[n + j].program
    BY <2>5, <2>7
  <2>10. Once(known')
    BY <1>3, <2>3, <2>6, <2>8, <2>9, KnownGrows
  <2>11. ASSUME NEW h \in 1 .. n + m PROVE known'[h].program \in measured_states_set
    <3>1. h \in 1 .. n \/ (h - n \in 1 .. m /\ n + (h - n) = h)
      OBVIOUS
    <3>2. CASE h \in 1 .. n
      BY <1>3, <2>3, <2>6, <3>2
    <3>3. CASE h - n \in 1 .. m /\ n + (h - n) = h
      <4>1. known'[n + (h - n)].program \in Range(inputs)
        BY <2>7, <3>3
      <4> QED
        BY <2>5, <3>3, <4>1
    <3> QED
      BY <3>1, <3>2, <3>3
  <2> QED
    BY <1>2, <2>1, <2>6, <2>10, <2>11 DEF Distinct
<1> QED
  BY <1>4, <1>5, <1>6, <1>7, <1>8, SearchSteps

-----------------------------------------------------------------------------
(* The states and their throughputs.                                        *)

LEMMA Lengths ==
  ASSUME TypeOK
  PROVE  /\ Len(measured_states_vector) \in Nat /\ NumThroughputs \in Nat
         /\ Len(inputs) \in Nat /\ Len(known) \in Nat /\ ct \in Nat
         /\ Positions = 1 .. Len(measured_states_vector)
         /\ DOMAIN inputs = 1 .. Len(inputs) /\ DOMAIN known = 1 .. Len(known)
BY DEF TypeOK, NumThroughputs, Positions

(* The picked states enter the vector before their throughputs are known.  *)
LEMMA FindsAppends ==
  ASSUME TypeOK, NEW picked, Finds(picked)
  PROVE  /\ Len(measured_states_vector') = Len(measured_states_vector) + Len(picked)
         /\ \A p \in 1 .. Len(measured_states_vector) :
              measured_states_vector'[p] = measured_states_vector[p]
         /\ \A j \in 1 .. Len(picked) :
              measured_states_vector'[Len(measured_states_vector) + j] = picked[j]
         /\ Len(picked) \in Nat /\ inputs' = picked
         /\ UNCHANGED measured_states_throughputs
<1>1. picked \in Seq(Programs) /\ measured_states_vector \in Seq(Programs)
  BY DEF Finds, NewStates, TypeOK
<1>2. /\ measured_states_vector' = measured_states_vector \o picked /\ inputs' = picked
      /\ UNCHANGED measured_states_throughputs
  BY DEF Finds, Remember
<1> QED
  BY <1>1, <1>2, Joined

(* The throughputs follow. *)
LEMMA MeasuresAppends ==
  ASSUME TypeOK, NEW speeds \in [DOMAIN inputs -> Speeds], Measures(speeds)
  PROVE  /\ UNCHANGED measured_states_vector
         /\ \A p \in 1 .. NumThroughputs :
              measured_states_throughputs'[p] = measured_states_throughputs[p]
         /\ Len(speeds) = Len(inputs)
         /\ IF pc' = "finish" THEN NumThroughputs' = NumThroughputs
            ELSE /\ NumThroughputs' = NumThroughputs + Len(inputs)
                 /\ \A j \in 1 .. Len(inputs) :
                      measured_states_throughputs'[NumThroughputs + j] = speeds[j]
<1>1. measured_states_throughputs \in Seq(Speeds) /\ speeds \in Seq(Speeds) /\ Len(speeds) = Len(inputs)
  BY ResultsTyped DEF Results, TypeOK
<1>2. UNCHANGED measured_states_vector
  BY DEF Measures
<1>3. CASE pc' = "finish"
  BY <1>1, <1>2, <1>3 DEF Measures, NumThroughputs
<1>4. CASE pc' # "finish"
  <2>1. measured_states_throughputs' = measured_states_throughputs \o speeds
    BY <1>4 DEF Measures
  <2> QED
    BY <1>1, <1>2, <1>4, <2>1, Joined DEF NumThroughputs
<1> QED
  BY <1>3, <1>4

LEMMA AlignedQuiet ==
  ASSUME TypeOK, Aligned, DynKnown, Quiet
  PROVE  Aligned' /\ DynKnown'
<1>1. /\ UNCHANGED <<measured_states_vector, measured_states_throughputs, known, dyn, caller, ct>>
      /\ pc' = "measure" => pc = "measure" /\ inputs' = inputs
      /\ pc' \in {"construct", "idle", "search"} => pc \in {"construct", "idle", "search"}
      /\ pc' \in {"construct", "idle", "search", "finish"} =>
           pc \in {"construct", "idle", "search", "finish"}
      /\ pc' = "construct" => pc = "construct"
  BY DEF Quiet, Ended, memory
<1>2. Aligned'
  BY <1>1 DEF Aligned, NumThroughputs, RecordAt, Complete
<1>3. DynKnown'
  BY <1>1 DEF DynKnown, NumThroughputs, RecordAt
<1> QED
  BY <1>2, <1>3

LEMMA AlignedPreload ==
  ASSUME TypeOK, Aligned, DynKnown, NEW s \in Programs, NEW speed \in Speeds, Preload(s, speed)
  PROVE  Aligned' /\ DynKnown'
<1>1. /\ pc = "construct" /\ pc' = "construct" /\ ~ dyn /\ ~ dyn'
      /\ known' = Append(known, Record(s, speed))
      /\ \/ UNCHANGED <<measured_states_vector, measured_states_throughputs>>
         \/ /\ measured_states_vector' = Append(measured_states_vector, s)
            /\ measured_states_throughputs' = Append(measured_states_throughputs, speed)
  BY DEF Preload
<1>2. DynKnown'
  BY <1>1 DEF DynKnown
<1>3. /\ \A e \in Range(known) : e \in Range(known')
      /\ Record(s, speed) \in Range(known')
  <2>1. known \in Seq(Entries) /\ Record(s, speed) \in Entries
    BY DEF TypeOK, Entries, Record
  <2>2. PICK n \in Nat : n = Len(known)
    BY Lengths
  <2> HIDE DEF Entries
  <2>3. /\ DOMAIN known = 1 .. n /\ DOMAIN known' = 1 .. n + 1
        /\ \A h \in 1 .. n : known'[h] = known[h]
        /\ known'[n + 1] = Record(s, speed)
    BY <1>1, <2>1, <2>2
  <2>4. n + 1 \in 1 .. n + 1 /\ \A h \in 1 .. n : h \in 1 .. n + 1
    BY <2>2
  <2> QED
    BY <2>3, <2>4 DEF Range
<1>4. Complete /\ \A p \in 1 .. NumThroughputs : RecordAt(p) \in Range(known)
  <2>1. pc \in {"construct", "idle", "search"} => Complete
    BY DEF Aligned
  <2>2. \A p \in 1 .. NumThroughputs : RecordAt(p) \in Range(known)
    BY DEF Aligned
  <2> QED
    BY <1>1, <2>1, <2>2
<1>5. CASE UNCHANGED <<measured_states_vector, measured_states_throughputs>>
  <2>1. /\ NumThroughputs' = NumThroughputs /\ (Complete' <=> Complete)
        /\ \A p : RecordAt(p)' = RecordAt(p)
    BY <1>5 DEF NumThroughputs, RecordAt, Complete
  <2>2. NumThroughputs' <= Len(measured_states_vector')
    BY <1>5, <2>1 DEF Aligned
  <2>3. \A p \in 1 .. NumThroughputs' : RecordAt(p)' \in Range(known')
    BY <1>3, <1>4, <2>1
  <2>4. Aligned'
    BY <1>1, <1>4, <2>1, <2>2, <2>3 DEF Aligned, RecordAt
  <2> QED
    BY <1>2, <2>4
<1>6. CASE /\ measured_states_vector' = Append(measured_states_vector, s)
           /\ measured_states_throughputs' = Append(measured_states_throughputs, speed)
  <2>1. PICK n \in Nat : n = NumThroughputs /\ n = Len(measured_states_vector)
    BY <1>4, Lengths DEF Complete, NumThroughputs
  <2>2. /\ NumThroughputs' = n + 1 /\ Len(measured_states_vector') = n + 1
        /\ \A p \in 1 .. n : RecordAt(p)' = RecordAt(p)
        /\ RecordAt(n + 1)' = Record(s, speed)
    <3>1. measured_states_vector \in Seq(Programs) /\ measured_states_throughputs \in Seq(Speeds)
      BY DEF TypeOK
    <3>2. /\ Len(measured_states_vector') = n + 1
          /\ \A p \in 1 .. n : measured_states_vector'[p] = measured_states_vector[p]
          /\ measured_states_vector'[n + 1] = s
      BY <1>6, <2>1, <3>1
    <3>3. /\ Len(measured_states_throughputs') = n + 1
          /\ \A p \in 1 .. n : measured_states_throughputs'[p] = measured_states_throughputs[p]
          /\ measured_states_throughputs'[n + 1] = speed
      <4>1. Len(measured_states_throughputs) = n
        BY <2>1 DEF NumThroughputs
      <4>2. LET t == Append(measured_states_throughputs, speed)
            IN  /\ Len(t) = n + 1 /\ t[n + 1] = speed
                /\ \A p \in 1 .. n : t[p] = measured_states_throughputs[p]
        BY <3>1, <4>1
      <4> QED
        BY <1>6, <4>2
    <3> QED
      BY <3>2, <3>3 DEF NumThroughputs, RecordAt
  <2>3. \A p \in 1 .. n + 1 : p \in 1 .. n \/ p = n + 1
    BY <2>1
  <2>4. \A p \in 1 .. n + 1 : RecordAt(p)' \in Range(known')
    BY <1>3, <1>4, <2>1, <2>2, <2>3
  <2>5. Complete'
    BY <2>2 DEF Complete, NumThroughputs
  <2>6. Aligned'
    BY <1>1, <2>2, <2>4, <2>5 DEF Aligned, RecordAt
  <2> QED
    BY <1>2, <2>6
<1> QED
  BY <1>1, <1>2, <1>5, <1>6

LEMMA AlignedFinds ==
  ASSUME TypeOK, Aligned, DynKnown, NEW picked, Finds(picked)
  PROVE  Aligned' /\ DynKnown'
<1>1. /\ pc \in {"idle", "search"} /\ pc' = "measure" /\ UNCHANGED <<known, dyn, caller, ct>>
  BY DEF Finds
<1>2. PICK n \in Nat : /\ n = NumThroughputs /\ n = Len(measured_states_vector)
                      /\ n = Len(measured_states_throughputs)
  BY <1>1, Lengths DEF Aligned, Complete, NumThroughputs
<1>3. PICK m \in Nat : m = Len(picked) /\ inputs' = picked
  BY FindsAppends
<1>4. /\ Len(measured_states_vector') = n + m
      /\ \A p \in 1 .. n : measured_states_vector'[p] = measured_states_vector[p]
      /\ \A j \in 1 .. m : measured_states_vector'[n + j] = picked[j]
      /\ UNCHANGED measured_states_throughputs /\ NumThroughputs' = n
  BY <1>2, <1>3, FindsAppends DEF NumThroughputs
<1>5. \A p \in 1 .. n : RecordAt(p)' = RecordAt(p)
  BY <1>4 DEF RecordAt
<1>6. \A p \in 1 .. n : RecordAt(p) \in Range(known)
  BY <1>2 DEF Aligned
<1>7. Aligned'
  BY <1>1, <1>2, <1>3, <1>4, <1>5, <1>6 DEF Aligned, RecordAt
<1>8. DynKnown'
  <2>1. CASE dyn
    <3>1. n = Len(known) /\ (\A p \in 1 .. n : RecordAt(p) = known[p])
          /\ (caller = "AutoSchedule" => ct = Len(known))
      BY <1>1, <1>2, <2>1 DEF DynKnown
    <3> QED
      BY <1>1, <1>2, <1>4, <1>5, <3>1 DEF DynKnown, RecordAt
  <2>2. CASE ~ dyn
    BY <1>1, <2>2 DEF DynKnown
  <2> QED
    BY <2>1, <2>2
<1> QED
  BY <1>7, <1>8

LEMMA AlignedMeasures ==
  ASSUME TypeOK, Aligned, DynKnown, NEW speeds \in [DOMAIN inputs -> Speeds], Measures(speeds)
  PROVE  Aligned' /\ DynKnown'
<1>1. /\ pc = "measure" /\ pc' \in {"search", "finish", "idle"} /\ Measured(speeds)
      /\ UNCHANGED <<dyn, caller, measured_states_vector>>
  BY DEF Measures
<1>2. PICK n \in Nat, m \in Nat : n = NumThroughputs /\ m = Len(inputs) /\ m = Len(speeds)
  BY Lengths, MeasuresAppends
<1>3. /\ Len(measured_states_vector) = n + m
      /\ \A j \in 1 .. m : measured_states_vector[n + j] = inputs[j]
      /\ \A p \in 1 .. n : RecordAt(p) \in Range(known)
  BY <1>1, <1>2 DEF Aligned
<1>4. \A p \in 1 .. n : RecordAt(p)' = RecordAt(p)
  BY <1>1, <1>2, MeasuresAppends DEF RecordAt
<1>5. /\ Extends(known', speeds) /\ \A e \in Range(known) : e \in Range(known')
      /\ \A j \in 1 .. m : Record(inputs[j], speeds[j]) \in Range(known')
  BY <1>1, <1>2, LogGrows
<1>6. \A p \in 1 .. n + m : p \in 1 .. n \/ (p - n \in 1 .. m /\ p = n + (p - n))
  BY <1>2
<1>7. ASSUME pc' # "finish"
      PROVE  /\ NumThroughputs' = n + m
             /\ \A j \in 1 .. m : RecordAt(n + j)' = Record(inputs[j], speeds[j])
  <2>1. /\ NumThroughputs' = n + m
        /\ \A j \in 1 .. m : measured_states_throughputs'[n + j] = speeds[j]
    BY <1>2, <1>7, MeasuresAppends
  <2> QED
    BY <1>1, <1>3, <2>1 DEF RecordAt
<1>8. pc' = "finish" => NumThroughputs' = n
  BY <1>2, MeasuresAppends
<1>9. Aligned'
  <2>1. CASE pc' = "finish"
    BY <1>1, <1>2, <1>3, <1>4, <1>5, <1>8, <2>1 DEF Aligned, RecordAt
  <2>2. CASE pc' # "finish"
    <3>1. ASSUME NEW p \in 1 .. n + m PROVE RecordAt(p)' \in Range(known')
      <4>1. CASE p \in 1 .. n
        BY <1>3, <1>4, <1>5, <4>1
      <4>2. CASE p - n \in 1 .. m /\ p = n + (p - n)
        BY <1>5, <1>7, <2>2, <4>2
      <4> QED
        BY <1>6, <4>1, <4>2
    <3>2. NumThroughputs' = n + m /\ Len(measured_states_vector') = n + m
      BY <1>1, <1>3, <1>7, <2>2
    <3>3. Complete'
      BY <3>2 DEF Complete, NumThroughputs
    <3> QED
      BY <1>1, <3>1, <3>2, <3>3 DEF Aligned, RecordAt
  <2> QED
    BY <2>1, <2>2
<1>10. DynKnown'
  <2>1. CASE dyn
    <3>1. n = Len(known) /\ (\A p \in 1 .. n : RecordAt(p) = known[p])
          /\ (caller = "AutoSchedule" => ct = n)
      BY <1>1, <1>2, <2>1 DEF DynKnown
    <3>2. /\ Len(known') = n + m
          /\ \A p \in 1 .. n : known'[p] = known[p]
          /\ \A j \in 1 .. m : known'[n + j] = Record(inputs[j], speeds[j])
      BY <1>2, <1>5, <3>1 DEF Extends
    <3>3. caller' = "AutoSchedule" => ct' = Len(known')
      BY <1>1, <1>2, <3>1, <3>2 DEF Measures
    <3>4. Len(measured_states_vector') = Len(known')
      BY <1>1, <1>3, <3>2
    <3>5. CASE pc' = "finish"
      BY <1>2, <1>4, <1>8, <3>1, <3>2, <3>3, <3>4, <3>5 DEF DynKnown, RecordAt
    <3>6. CASE pc' # "finish"
      <4>1. \A p \in 1 .. n + m : RecordAt(p)' = known'[p]
        <5> TAKE p \in 1 .. n + m
        <5>1. CASE p \in 1 .. n
          BY <1>4, <3>1, <3>2, <5>1
        <5>2. CASE p - n \in 1 .. m /\ p = n + (p - n)
          BY <1>7, <3>2, <3>6, <5>2
        <5> QED
          BY <1>6, <5>1, <5>2
      <4>2. NumThroughputs' = n + m /\ n + m \in Nat
        BY <1>2, <1>7, <3>6
      <4> QED
        BY <1>1, <3>2, <3>3, <3>4, <4>1, <4>2 DEF DynKnown, RecordAt
    <3> QED
      BY <3>5, <3>6
  <2>2. CASE ~ dyn
    BY <1>1, <2>2 DEF DynKnown
  <2> QED
    BY <2>1, <2>2
<1> QED
  BY <1>9, <1>10

LEMMA AlignedTuned ==
  ASSUME TypeOK, Aligned, DynKnown, StaticLead, NEW n, SearchTuned(n)
  PROVE  Aligned' /\ DynKnown'
<1>1. /\ pc = "idle" /\ pc' = "search" /\ ct' = 0 /\ caller = "AutoSchedule"
      /\ UNCHANGED <<measured_states_vector, measured_states_throughputs, known, dyn, caller>>
  BY DEF SearchTuned, memory
<1>2. Aligned'
  BY <1>1 DEF Aligned, NumThroughputs, RecordAt, Complete
<1>3. dyn => Len(known) = 0
  BY <1>1 DEF DynKnown, StaticLead
<1>4. DynKnown'
  BY <1>1, <1>3 DEF DynKnown, NumThroughputs, RecordAt
<1> QED
  BY <1>2, <1>4

-----------------------------------------------------------------------------
(* The lead of a static task.                                               *)

LEMMA LeadQuiet ==
  ASSUME TypeOK, StaticLead, UNCHANGED <<caller, dyn, ct, measurer, known>>,
         Searching' => Searching,
         pc' \in {"construct", "idle"} \/ caller # "AutoSchedule" => ct = 0
  PROVE  StaticLead'
<1>1. /\ Kept' = Kept /\ Offset' = Offset
      /\ UNCHANGED <<caller, dyn, ct, has_valid, known>>
  BY DEF Kept, Offset, measurer
<1>2. (pc \in {"construct", "idle"} \/ caller # "AutoSchedule" => ct = 0)'
  BY <1>1
<1>3. CASE Searching' /\ ~ dyn
  <2>1. /\ Leads(Kept, known, Offset, Len(known))
        /\ has_valid => \E h \in Offset + 1 .. Len(known) : known[h].speed > 0
    BY <1>3 DEF StaticLead
  <2>2. ct <= Len(known)
    BY DEF StaticLead
  <2>3. Leads(Kept, known, Offset, Len(known))'
    BY <1>1, <2>1 DEF Leads
  <2>4. (has_valid => \E h \in Offset + 1 .. Len(known) : known[h].speed > 0)'
    BY <1>1, <2>1
  <2> QED
    BY <1>1, <1>2, <2>2, <2>3, <2>4 DEF StaticLead
<1>4. CASE ~ (Searching' /\ ~ dyn)
  BY <1>1, <1>2, <1>4 DEF StaticLead
<1> QED
  BY <1>3, <1>4

LEMMA LeadPreload ==
  ASSUME TypeOK, StaticLead, NEW s \in Programs, NEW speed \in Speeds, Preload(s, speed)
  PROVE  StaticLead'
<1>1. /\ pc = "construct" /\ pc' = "construct" /\ UNCHANGED <<caller, ct>>
      /\ known' = Append(known, Record(s, speed))
  BY DEF Preload
<1>2. ct' = 0
  BY <1>1 DEF StaticLead
<1>3. Len(known') \in Nat
  <2>1. known \in Seq(Entries) /\ Record(s, speed) \in Entries
    BY DEF TypeOK, Entries, Record
  <2> HIDE DEF Entries
  <2> QED
    BY <1>1, <2>1
<1>4. ~ Searching'
  BY <1>1 DEF Searching
<1> QED
  BY <1>1, <1>2, <1>3, <1>4 DEF StaticLead

LEMMA LeadTuned ==
  ASSUME TypeOK, StaticLead, NEW n, SearchTuned(n)
  PROVE  StaticLead'
<1>1. /\ pc' = "search" /\ ct' = 0 /\ has_valid' = FALSE
      /\ best_states' = << >> /\ best_score' = 0 /\ UNCHANGED known
  BY DEF SearchTuned
<1>2. PICK N \in Nat : N = Len(known)
  BY Lengths
<1>3. N + 1 .. N = {} /\ N - 0 = N
  BY <1>2
<1>4. Offset' = N /\ Len(known') = N
  BY <1>1, <1>2, <1>3 DEF Offset
<1>5. Leads(Kept, known, Offset, Len(known))'
  <2>1. Kept.score' = 0 /\ Kept.states' = << >>
    BY <1>1 DEF Kept
  <2>2. \A h \in Offset' + 1 .. Len(known') : known'[h].speed = 0
    BY <1>3, <1>4
  <2> QED
    BY <2>1, <2>2 DEF Leads
<1>6. caller' = "AutoSchedule"
  BY DEF SearchTuned
<1> QED
  BY <1>1, <1>2, <1>4, <1>5, <1>6 DEF StaticLead

(* The measurer keeps the fastest of the batch and of what led before.     *)
LEMMA LeadMeasures ==
  ASSUME TypeOK, StaticLead, NEW speeds \in [DOMAIN inputs -> Speeds], Measures(speeds)
  PROVE  StaticLead'
<1>1. /\ Measured(speeds) /\ UNCHANGED <<caller, dyn>> /\ pc = "measure"
      /\ IF caller = "AutoSchedule" THEN ct' = ct + Len(inputs) /\ pc' # "idle"
         ELSE UNCHANGED ct /\ pc' = "idle"
      /\ pc' \in {"search", "finish", "idle"}
  BY DEF Measures
<1>2. /\ Results(speeds) /\ Kept \in Tops /\ DOMAIN speeds = 1 .. Len(speeds)
      /\ Extends(known', speeds) /\ Len(speeds) = Len(inputs)
  BY <1>1, ResultsTyped, LogGrows DEF Results
<1>3. PICK N \in Nat, m \in Nat : N = Len(known) /\ m = Len(inputs)
  BY Lengths
<1>4. /\ ct \in Nat /\ ct <= N /\ Len(known') = N + m
      /\ caller # "AutoSchedule" => ct = 0
  BY <1>2, <1>3 DEF StaticLead, Extends, TypeOK
<1>5. CASE caller # "AutoSchedule"
  BY <1>1, <1>3, <1>4, <1>5 DEF StaticLead, Searching
<1>6. CASE caller = "AutoSchedule"
  <2>1. ct' = ct + m /\ pc' \in {"search", "finish"}
    BY <1>1, <1>3, <1>6
  <2>2. Searching
    BY <1>1, <1>6 DEF Searching
  <2>3. Offset = N - ct /\ Offset' = N - ct /\ N - ct \in Nat /\ (N - ct) + ct = N
    BY <1>3, <1>4, <2>1 DEF Offset
  <2>4. ct' <= Len(known')
    BY <1>3, <1>4, <2>1
  <2>5. CASE dyn
    BY <1>1, <1>6, <2>1, <2>4, <2>5 DEF StaticLead
  <2>6. CASE ~ dyn
    <3>1. /\ Leads(Kept, known, Offset, Len(known))
          /\ has_valid => \E h \in Offset + 1 .. Len(known) : known[h].speed > 0
      BY <2>2, <2>6 DEF StaticLead
    <3>2. Top(speeds) \in Tops /\ Leads(Top(speeds), known', N - ct, Len(known'))
      BY <1>2, <1>3, <1>4, <2>3, <3>1, TopLeads
    <3>3. Kept' = Top(speeds)
      <4>1. /\ best_states' = Top(speeds).states /\ best_score' = Top(speeds).score
            /\ best_ct' = Top(speeds).at
        BY <1>1, <2>6 DEF Measured
      <4>2. PICK t \in Tops : t = Top(speeds)
        BY <3>2
      <4>3. t = [at |-> t.at, score |-> t.score, states |-> t.states]
        BY DEF Tops
      <4> QED
        BY <4>1, <4>2, <4>3 DEF Kept
    <3>4. Leads(Kept, known, Offset, Len(known))'
      <4>1. Leads(Kept', known', Offset', Len(known'))
        BY <2>3, <3>2, <3>3
      <4> QED
        BY <4>1 DEF Leads
    <3>5. ASSUME has_valid' PROVE \E h \in N - ct + 1 .. N + m : known'[h].speed > 0
      <4>1. CASE has_valid
        <5>1. PICK h \in N - ct + 1 .. N : known[h].speed > 0
          BY <1>3, <2>3, <3>1, <4>1
        <5>2. h \in 1 .. N /\ h \in N - ct + 1 .. N + m
          BY <1>4
        <5>3. known'[h] = known[h]
          BY <1>2, <1>3, <5>2 DEF Extends
        <5> QED
          BY <5>1, <5>2, <5>3
      <4>2. CASE \E j \in DOMAIN speeds : speeds[j] > 0
        <5>1. PICK j \in 1 .. m : speeds[j] > 0
          BY <1>2, <1>3, <4>2
        <5>2. known'[N + j] = Record(inputs[j], speeds[j])
          BY <1>2, <1>3 DEF Extends
        <5>3. N + j \in N - ct + 1 .. N + m
          BY <1>4
        <5> QED
          BY <5>1, <5>2, <5>3 DEF Record
      <4> QED
        BY <1>1, <3>5, <4>1, <4>2 DEF Measured
    <3>6. (has_valid => \E h \in Offset + 1 .. Len(known) : known[h].speed > 0)'
      BY <1>4, <2>3, <3>5
    <3> QED
      BY <1>1, <1>6, <2>1, <2>4, <3>4, <3>6 DEF StaticLead
  <2> QED
    BY <2>5, <2>6
<1> QED
  BY <1>5, <1>6

LEMMA LeadNext == TypeOK /\ StaticLead /\ [Next]_vars => StaticLead'
<1> SUFFICES ASSUME TypeOK, StaticLead, [Next]_vars PROVE StaticLead'
  OBVIOUS
<1>1. CASE Quiet
  <2>1. UNCHANGED <<caller, dyn, ct, measurer, known>> /\ (Searching' => Searching)
    BY <1>1 DEF Quiet, Searching, Ended
  <2>2. pc' \in {"construct", "idle"} => pc \in {"construct", "idle"}
    BY <1>1 DEF Quiet, Ended
  <2>3. pc' \in {"construct", "idle"} \/ caller # "AutoSchedule" => ct = 0
    BY <2>2 DEF StaticLead
  <2> QED
    BY <2>1, <2>3, LeadQuiet
<1>2. ASSUME NEW picked, Finds(picked) PROVE StaticLead'
  <2>1. /\ UNCHANGED <<caller, dyn, ct, measurer, known>> /\ (Searching' => Searching)
        /\ pc' = "measure"
    BY <1>2 DEF Finds
  <2>2. caller # "AutoSchedule" => ct = 0
    BY DEF StaticLead
  <2> QED
    BY <2>1, <2>2, LeadQuiet
<1> QED
  BY <1>1, <1>2, LeadPreload, LeadTuned, LeadMeasures, SearchSteps

LEMMA LoopNext == TypeOK /\ LoopIsAuto /\ [Next]_vars => LoopIsAuto'
<1> SUFFICES ASSUME TypeOK, LoopIsAuto, [Next]_vars PROVE LoopIsAuto'
  OBVIOUS
<1>1. CASE Quiet
  BY <1>1 DEF Quiet, Ended, LoopIsAuto
<1>2. ASSUME NEW s \in Programs, NEW speed \in Speeds, Preload(s, speed) PROVE LoopIsAuto'
  BY <1>2 DEF Preload, LoopIsAuto
<1>3. ASSUME NEW n \in TrialCounts, SearchTuned(n) PROVE LoopIsAuto'
  BY <1>3 DEF SearchTuned, LoopIsAuto
<1>4. ASSUME NEW picked, Finds(picked) PROVE LoopIsAuto'
  BY <1>4 DEF Finds, LoopIsAuto
<1>5. ASSUME NEW speeds, Measures(speeds) PROVE LoopIsAuto'
  BY <1>5 DEF Measures, LoopIsAuto
<1> QED
  BY <1>1, <1>2, <1>3, <1>4, <1>5, SearchSteps

-----------------------------------------------------------------------------
(* The answer.                                                              *)

LEMMA MeasuredIs ==
  ASSUME NEW S, NEW log \in Seq(S), NEW n \in Nat, n <= Len(log)
  PROVE  /\ DOMAIN MeasuredLog(log, n) = 1 .. n
         /\ \A j \in 1 .. n : MeasuredLog(log, n)[j] = log[Len(log) - n + j]
<1>1. PICK N \in Nat : N = Len(log) /\ n <= N
  OBVIOUS
<1>2. MeasuredLog(log, n) = [j \in 1 .. 1 + N - (N - n + 1) |-> log[j + (N - n + 1) - 1]]
  BY <1>1 DEF MeasuredLog
<1>3. 1 + N - (N - n + 1) = n /\ \A j \in 1 .. n : j + (N - n + 1) - 1 = N - n + j
  BY <1>1
<1> QED
  BY <1>1, <1>2, <1>3

(* The state at place x of the answer is the fastest that instance i has.  *)
Serves(i, x) ==
  LET log == MeasuredLog(known, ct)
  IN  /\ x \in DOMAIN answer.states
      /\ \E j \in DOMAIN log :
           /\ log[j].program = answer.states[x]
           /\ \A h \in DOMAIN log : Throughput(i, log[h]) <= Throughput(i, log[j])

LEMMA StaticServes ==
  ASSUME TypeOK, StaticLead, LoopIsAuto, AnswerStatic, pc' = "returned"
  PROVE  \A i \in Insts : Serves(i, 1)'
<1>1. /\ pc = "finish" /\ ~ dyn /\ Len(best_states) = 1 /\ answer'.states = best_states
      /\ UNCHANGED <<known, ct, dyn>>
  BY DEF AnswerStatic
<1>2. PICK N \in Nat : N = Len(known)
  BY Lengths
<1>3. ct \in Nat /\ ct <= N /\ known \in Seq(Entries)
  BY <1>2 DEF TypeOK, StaticLead, Entries
<1>4. Leads(Kept, known, N - ct, N)
  BY <1>1, <1>2 DEF StaticLead, LoopIsAuto, Searching, Offset
<1> DEFINE m == N - ct + best_ct + 1
<1>5. /\ m \in N - ct + 1 .. N /\ best_states = <<known[m].program>>
      /\ best_score = known[m].speed
      /\ \A h \in N - ct + 1 .. N : known[h].speed <= best_score
  <2>1. Kept.states = best_states /\ Kept.score = best_score /\ Kept.at = best_ct
    BY DEF Kept
  <2>2. best_states # << >>
    BY <1>1
  <2> QED
    BY <1>4, <2>1, <2>2 DEF Leads
<1>6. /\ DOMAIN MeasuredLog(known, ct) = 1 .. ct
      /\ \A j \in 1 .. ct : MeasuredLog(known, ct)[j] = known[N - ct + j]
  BY <1>2, <1>3, MeasuredIs
<1> HIDE DEF m
<1>7. m - (N - ct) \in 1 .. ct /\ N - ct + (m - (N - ct)) = m
  BY <1>3, <1>5
<1>8. \A h \in 1 .. ct : N - ct + h \in N - ct + 1 .. N
  BY <1>3
<1>9. PICK j \in 1 .. ct : MeasuredLog(known, ct)[j] = known[m]
  BY <1>6, <1>7
<1>10. known[m].program = answer'.states[1] /\ 1 \in DOMAIN answer'.states
  BY <1>1, <1>5
<1>11. \A h \in 1 .. ct : MeasuredLog(known, ct)[h].speed <= known[m].speed
  BY <1>5, <1>6, <1>8
<1> QED
  BY <1>1, <1>6, <1>9, <1>10, <1>11 DEF Serves, Throughput

(* With room for one state per instance, each gets its favourite.          *)
LEMMA FavouriteServes ==
  ASSUME TypeOK, measured_states_vector # << >>, Complete, MaxNumStates >= Cardinality(Insts),
         NEW disp \in DispatchOutcomes(Adapted, Positions, MaxNumStates),
         NEW i \in Insts, NEW p \in Positions
  PROVE  Adapted[i][p] <= Adapted[i][disp[i]]
<1> DEFINE fav == Favourites(Adapted)
<1>1. Positions \in SUBSET Nat /\ Positions # {} /\ IsFiniteSet(Positions)
  <2>1. PICK n \in Nat : n = Len(measured_states_vector) /\ Positions = 1 .. n
    BY Lengths
  <2>2. n # 0
    BY <2>1 DEF TypeOK
  <2>3. IsFiniteSet(1 .. n)
    BY FS_Interval
  <2>4. 1 .. n \in SUBSET Nat /\ 1 \in 1 .. n
    BY <2>2
  <2> QED
    BY <2>1, <2>3, <2>4
<1>2. DOMAIN Adapted = Insts /\ DOMAIN fav = Insts
  BY DEF Adapted, Favourites
<1>3. fav[i] = Favourite(Adapted[i])
  BY <1>2 DEF Favourites
<1>4. Adapted[i] \in [Positions -> Nat]
  <2>1. Adapted[i] = [q \in Positions |->
                       measured_states_throughputs[q] * Fit[i][measured_states_vector[q]]]
    BY DEF Adapted
  <2>2. ASSUME NEW q \in Positions
        PROVE  measured_states_throughputs[q] * Fit[i][measured_states_vector[q]] \in Nat
    <3>1. measured_states_vector[q] \in Programs
      BY DEF TypeOK, Positions
    <3>2. measured_states_throughputs[q] \in Speeds
      <4>1. q \in 1 .. Len(measured_states_throughputs)
        BY Lengths DEF Complete
      <4>2. measured_states_throughputs \in Seq(Speeds)
        BY DEF TypeOK
      <4> QED
        BY <4>1, <4>2
    <3>3. Fit[i][measured_states_vector[q]] \in Nat
      BY <3>1, SearchAssumption
    <3>4. measured_states_throughputs[q] \in Nat
      BY <3>2, SearchAssumption DEF Speeds
    <3> QED
      BY <3>3, <3>4
  <2> QED
    BY <2>1, <2>2
<1> HIDE DEF fav
<1>5. Cardinality(Selected(fav)) <= MaxNumStates
  <2>1. Cardinality(Selected(fav)) \in Nat /\ Cardinality(Insts) \in Nat
        /\ Cardinality(Selected(fav)) <= Cardinality(Insts)
    BY <1>2, SearchAssumption, SelectedFew
  <2> QED
    BY <2>1, SearchAssumption
<1>6. disp = fav
  BY <1>5 DEF DispatchOutcomes, fav
<1>7. IsFavourite(Favourite(Adapted[i]), Adapted[i])
  BY <1>1, <1>4, FavouriteExists
<1> QED
  BY <1>3, <1>4, <1>6, <1>7 DEF IsFavourite

LEMMA DynServes ==
  ASSUME TypeOK, DynKnown, LoopIsAuto, MaxNumStates >= Cardinality(Insts),
         NEW disp \in [Insts -> Positions], NEW order \in Orders(disp), AnswerDyn(disp, order)
  PROVE  \A i \in Insts : Serves(i, answer.disp[i])'
<1> SUFFICES ASSUME NEW i \in Insts PROVE Serves(i, answer.disp[i])'
  OBVIOUS
<1>1. /\ pc = "finish" /\ dyn /\ measured_states_vector # << >> /\ Complete
      /\ disp \in DispatchOutcomes(Adapted, Positions, MaxNumStates)
      /\ UNCHANGED <<known, ct, dyn>>
  BY DEF AnswerDyn
<1>2. PICK N \in Nat : N = Len(known)
  BY Lengths
<1>3. ct = N /\ Positions = 1 .. N /\ \A p \in 1 .. N : known[p] = RecordAt(p)
  BY <1>1, <1>2, Lengths DEF DynKnown, LoopIsAuto, Complete, NumThroughputs
<1>4. /\ DOMAIN MeasuredLog(known, ct) = 1 .. N
      /\ \A j \in 1 .. N : MeasuredLog(known, ct)[j] = RecordAt(j)
  <2>1. known \in Seq(Entries) /\ N <= Len(known) /\ \A j \in 1 .. N : N - N + j = j
    BY <1>2 DEF TypeOK, Entries
  <2>2. /\ DOMAIN MeasuredLog(known, N) = 1 .. N
        /\ \A j \in 1 .. N : MeasuredLog(known, N)[j] = known[N - N + j]
    BY <1>2, <2>1, MeasuredIs
  <2> QED
    BY <1>3, <2>1, <2>2
<1>5. \A p \in 1 .. N : Throughput(i, RecordAt(p)) = Adapted[i][p]
  BY <1>1, <1>3 DEF Throughput, RecordAt, Record, Adapted
<1>6. disp[i] \in 1 .. N /\ \A p \in 1 .. N : Adapted[i][p] <= Adapted[i][disp[i]]
  BY <1>1, <1>3, FavouriteServes
<1>7. /\ answer'.disp[i] \in DOMAIN answer'.states
      /\ answer'.states[answer'.disp[i]] = measured_states_vector[disp[i]]
  BY AnswerIs
<1>8. RecordAt(disp[i]).program = measured_states_vector[disp[i]]
  BY DEF RecordAt, Record
<1>9. \A h \in 1 .. N :
        Throughput(i, MeasuredLog(known, ct)[h]) <= Throughput(i, MeasuredLog(known, ct)[disp[i]])
  BY <1>4, <1>5, <1>6
<1> QED
  BY <1>1, <1>4, <1>6, <1>7, <1>8, <1>9 DEF Serves, Throughput

(* Only the final steps of AutoSchedule answer. *)
LEMMA Answering ==
  ASSUME [Next]_vars, pc' = "returned"
  PROVE  \/ UNCHANGED vars
         \/ n_trials' <= 1
         \/ AnswerStatic
         \/ \E disp \in [Insts -> Positions] : \E order \in Orders(disp) : AnswerDyn(disp, order)
<1>1. CASE \E s \in Programs, speed \in Speeds : Preload(s, speed)
  BY <1>1 DEF Preload
<1>2. CASE \E n \in TrialCounts, best \in BestFound : SearchUntuned(n, best)
  BY <1>2 DEF SearchUntuned
<1>3. CASE \E n \in TrialCounts : SearchTuned(n)
  BY <1>3 DEF SearchTuned
<1>4. CASE \E best \in BestFound, random \in RandomFound :
             FindNone(best, random) \/ Find(best, random) \/ FindForRound(best, random)
  BY <1>4 DEF FindNone, Find, FindForRound
<1>5. CASE \E speeds \in [DOMAIN inputs -> Speeds] : MeasureFound(speeds) \/ MeasureRound(speeds)
  BY <1>5 DEF MeasureFound, MeasureRound
<1>6. CASE Construct \/ Throw \/ OutOfTrials \/ AnswerDynBadly
  BY <1>6 DEF Construct, Throw, OutOfTrials, AnswerDynBadly
<1> QED
  BY <1>1, <1>2, <1>3, <1>4, <1>5, <1>6 DEF Next, Orders

LEMMA AnswerNext ==
  ASSUME SearchInv, TypeOK', [Next]_vars
  PROVE  AnswerIsFastest'
<1> SUFFICES ASSUME pc' = "returned", n_trials' > 1, MaxNumStates >= Cardinality(Insts),
                    NEW i \in Insts
             PROVE  Serves(i, IF dyn THEN answer.disp[i] ELSE 1)'
  BY DEF AnswerIsFastest, Serves
<1>1. TypeOK /\ DynKnown /\ StaticLead /\ LoopIsAuto /\ AnswerIsFastest
  BY DEF SearchInv
<1>2. CASE UNCHANGED vars
  <2>1. UNCHANGED <<pc, n_trials, known, ct, dyn, answer>>
    BY <1>2 DEF vars
  <2>2. Serves(i, IF dyn THEN answer.disp[i] ELSE 1)
    BY <1>1, <2>1 DEF AnswerIsFastest, Serves
  <2> QED
    BY <2>1, <2>2 DEF Serves, Throughput
<1>3. CASE AnswerStatic
  <2>1. ~ dyn'
    BY <1>3 DEF AnswerStatic
  <2>2. Serves(i, 1)'
    BY <1>1, <1>3, StaticServes
  <2> QED
    BY <2>1, <2>2
<1>4. CASE \E disp \in [Insts -> Positions] : \E order \in Orders(disp) : AnswerDyn(disp, order)
  <2>1. dyn'
    BY <1>4 DEF AnswerDyn
  <2>2. Serves(i, answer.disp[i])'
    BY <1>1, <1>4, DynServes
  <2> QED
    BY <2>1, <2>2
<1>5. n_trials' \in Nat
  BY DEF TypeOK
<1> QED
  BY <1>2, <1>3, <1>4, <1>5, Answering

-----------------------------------------------------------------------------
LEMMA SearchInit == Init => SearchInv
<1> SUFFICES ASSUME Init PROVE SearchInv
  OBVIOUS
<1>1. TypeOK
  <2>1. EmptyRetries \in 0 .. EmptyRetries /\ 0 \in Speeds
    BY SearchAssumption DEF Speeds
  <2>2. << >> \in Seq(Programs) /\ << >> \in Seq(Speeds) /\ << >> \in Seq(Entries)
    OBVIOUS
  <2>3. answer.states \in Seq(Programs)
    BY <2>2 DEF Init, NoAnswer
  <2> QED
    BY <2>1, <2>2, <2>3 DEF Init, TypeOK, Entries
<1>2. /\ pc = "construct" /\ ct = 0 /\ known = << >> /\ Len(known) = 0 /\ DOMAIN known = {}
      /\ measured_states_vector = << >> /\ measured_states_throughputs = << >>
      /\ NumThroughputs = 0 /\ Len(measured_states_vector) = 0 /\ 1 .. 0 = {}
  BY DEF Init, NumThroughputs
<1>3. Distinct
  BY <1>2 DEF Distinct, NeverMeasuredTwice, KnownPrograms, IsInjective
<1>4. Aligned
  BY <1>2 DEF Aligned, Complete
<1>5. DynKnown
  BY <1>2 DEF DynKnown
<1>6. StaticLead /\ LoopIsAuto /\ AnswerIsFastest
  BY <1>2 DEF StaticLead, LoopIsAuto, Searching, AnswerIsFastest
<1> QED
  BY <1>1, <1>3, <1>4, <1>5, <1>6 DEF SearchInv

LEMMA SearchNext == SearchInv /\ [Next]_vars => SearchInv'
<1> SUFFICES ASSUME SearchInv, [Next]_vars PROVE SearchInv'
  OBVIOUS
<1>1. TypeOK /\ Distinct /\ Aligned /\ DynKnown /\ StaticLead /\ LoopIsAuto
  BY DEF SearchInv
<1>2. TypeOK' /\ StaticLead' /\ LoopIsAuto'
  BY <1>1, TypesNext, LeadNext, LoopNext
<1>3. Distinct'
  BY <1>1, <1>2, DistinctNext
<1>4. Aligned' /\ DynKnown'
  BY <1>1, AlignedQuiet, AlignedPreload, AlignedTuned, AlignedFinds, AlignedMeasures, SearchSteps
<1>5. AnswerIsFastest'
  BY <1>2, AnswerNext
<1> QED
  BY <1>2, <1>3, <1>4, <1>5 DEF SearchInv

LEMMA SearchInvariant == Spec => []SearchInv
BY SearchInit, SearchNext, PTL DEF Spec

-----------------------------------------------------------------------------
(* What holds of every search.                                              *)

(* The state of the search policy keeps its types, whatever the measurer   *)
(* returns and however often a round has to be repeated.                   *)
THEOREM SearchTyped == Spec => []TypeOK
<1>1. SearchInv => TypeOK
  BY DEF SearchInv
<1> QED
  BY <1>1, SearchInvariant, PTL

(* "make sure a measured state will never be measured again": the states   *)
(* enter measured_states_set_ when they are picked, so that neither a      *)
(* later round nor the random part of the same one picks them again.       *)
THEOREM SearchMeasuresOnce == Spec => []NeverMeasuredTwice
<1>1. SearchInv => NeverMeasuredTwice
  BY DEF SearchInv, Distinct
<1> QED
  BY <1>1, SearchInvariant, PTL

(* Between rounds the vector of states and the throughputs are parallel,   *)
(* although the states enter before they are measured and an early stop    *)
(* leaves without their throughputs.                                       *)
THEOREM SearchAligned == Spec => []ThroughputsAligned
<1>1. SearchInv => ThroughputsAligned
  <2> SUFFICES ASSUME SearchInv, pc \in {"idle", "search"}
               PROVE  /\ Complete
                      /\ \A p \in Positions : RecordAt(p) \in Range(known)
    BY DEF ThroughputsAligned, RecordAt
  <2>1. TypeOK /\ Aligned
    BY DEF SearchInv
  <2>2. Complete
    BY <2>1 DEF Aligned
  <2>3. Positions = 1 .. NumThroughputs
    BY <2>1, <2>2, Lengths DEF Complete, NumThroughputs
  <2> QED
    BY <2>1, <2>2, <2>3 DEF Aligned
<1> QED
  BY <1>1, SearchInvariant, PTL

(* What Search returns is the fastest state it measured: of a static task  *)
(* the measurer's one best state, of a dynamic task with room for one      *)
(* state per instance the state each instance is dispatched to.            *)
THEOREM SearchAnswersFastest == Spec => []AnswerIsFastest
<1>1. SearchInv => AnswerIsFastest
  BY DEF SearchInv
<1> QED
  BY <1>1, SearchInvariant, PTL

(* Only MeasureFound leaves for the end, and only if it stops early. *)
LEMMA Stopping ==
  ASSUME [Next]_vars, pc = "measure", pc' = "finish"
  PROVE  StopEarly /\ UNCHANGED <<caller, dyn>> /\ caller = "AutoSchedule"
<1>1. ~ \E s \in Programs, speed \in Speeds : Preload(s, speed)
  BY DEF Preload
<1>2. ~ \E n \in TrialCounts, best \in BestFound : SearchUntuned(n, best)
  BY DEF SearchUntuned
<1>3. ~ \E n \in TrialCounts : SearchTuned(n)
  BY DEF SearchTuned
<1>4. ~ \E best \in BestFound, random \in RandomFound :
          FindNone(best, random) \/ Find(best, random) \/ FindForRound(best, random)
  BY DEF FindNone, Find, FindForRound
<1>5. ASSUME NEW speeds, MeasureFound(speeds) \/ MeasureRound(speeds)
      PROVE  StopEarly /\ UNCHANGED <<caller, dyn>> /\ caller = "AutoSchedule"
  BY <1>5 DEF MeasureFound, MeasureRound
<1>6. ~ (Construct \/ Throw \/ OutOfTrials \/ AnswerStatic \/ AnswerDynBadly \/ UNCHANGED vars)
  BY DEF Construct, Throw, OutOfTrials, AnswerStatic, AnswerDynBadly, vars
<1>7. ~ \E disp \in [Insts -> Positions] :
          \E order \in Bijection(1 .. Cardinality(Selected(disp)), Selected(disp)) :
            AnswerDyn(disp, order)
  BY DEF AnswerDyn
<1> QED
  BY <1>1, <1>2, <1>3, <1>4, <1>5, <1>6, <1>7 DEF Next

LEMMA StopJustified ==
  ASSUME TypeOK', StaticLead', [Next]_vars, ~ dyn, pc = "measure", pc' = "finish",
         NEW j \in ct' - EarlyStopping + 1 .. ct'
  PROVE  ~ Improves(MeasuredLog(known', ct'), j)
<1>1. /\ ct' - best_ct' > EarlyStopping /\ has_valid'
      /\ caller' = "AutoSchedule" /\ ~ dyn'
  BY Stopping DEF StopEarly
<1>2. known' \in Seq(Entries) /\ ct' \in Nat /\ best_ct' \in Nat /\ EarlyStopping \in Nat
  BY SearchAssumption DEF TypeOK, Entries
<1>3. PICK N \in Nat : N = Len(known')
  BY <1>2
<1>4. ct' <= N
  BY <1>3 DEF StaticLead
<1> DEFINE lo == N - ct'
           m == lo + best_ct' + 1
<1>5. \A h \in 1 .. N : known'[h].speed \in Nat
  <2> TAKE h \in 1 .. N
  <2>1. known'[h] \in Entries
    <3> HIDE DEF Entries
    <3> QED
      BY <1>2, <1>3
  <2> QED
    BY <2>1, SearchAssumption DEF Entries, Speeds
<1>6. m \in lo + 1 .. N /\ \A h \in lo + 1 .. N : known'[h].speed <= known'[m].speed
  <2>1. Leads(Kept, known, Offset, Len(known))' /\ \E h \in lo + 1 .. N : known'[h].speed > 0
    BY <1>1, <1>3 DEF StaticLead, Searching, Offset
  <2>2. /\ Kept.at' = best_ct' /\ Offset' = lo /\ Len(known') = N
    BY <1>3 DEF Kept, Offset
  <2>3. ~ \A h \in lo + 1 .. N : known'[h].speed = 0
    BY <2>1
  <2> QED
    BY <2>1, <2>2, <2>3 DEF Leads
<1>7. /\ DOMAIN MeasuredLog(known', ct') = 1 .. ct'
      /\ \A h \in 1 .. ct' : MeasuredLog(known', ct')[h] = known'[N - ct' + h]
  BY <1>2, <1>3, <1>4, MeasuredIs
<1>8. /\ best_ct' + 1 \in 1 .. j - 1 /\ best_ct' + 1 \in 1 .. ct' /\ j \in 1 .. ct'
      /\ N - ct' + (best_ct' + 1) = m /\ N - ct' + j \in lo + 1 .. N
      /\ N - ct' + j \in 1 .. N /\ m \in 1 .. N
  <2>1. PICK c \in Nat, b \in Nat, e \in Nat : c = ct' /\ b = best_ct' /\ e = EarlyStopping
    BY <1>2
  <2>2. c - b > e /\ c <= N /\ j \in c - e + 1 .. c
    BY <1>1, <1>4, <2>1
  <2>3. /\ b + 1 \in 1 .. j - 1 /\ b + 1 \in 1 .. c /\ j \in 1 .. c
        /\ N - c + (b + 1) = N - c + b + 1 /\ N - c + j \in N - c + 1 .. N
        /\ N - c + j \in 1 .. N /\ N - c + b + 1 \in 1 .. N
    BY <2>2
  <2> QED
    BY <2>1, <2>3
<1>9. /\ MeasuredLog(known', ct')[best_ct' + 1] = known'[m]
      /\ MeasuredLog(known', ct')[j] = known'[N - ct' + j]
  BY <1>7, <1>8
<1> HIDE DEF m, lo
<1>10. known'[N - ct' + j].speed <= known'[m].speed
  BY <1>6, <1>8
<1>11. ~ (known'[m].speed < known'[N - ct' + j].speed)
  BY <1>5, <1>8, <1>10
<1> QED
  BY <1>8, <1>9, <1>11 DEF Improves, Throughput

(* "no performance improvement in the last N measurements": when Search    *)
(* stops a static task early, the measurer's best lies further back than   *)
(* early_stopping trials, and none since was faster.                       *)
THEOREM SearchStopsInVain == Spec => StaticStopJustified
<1>1. SearchInv /\ SearchInv' /\ [Next]_vars => [~ dyn => StopIsJustified]_vars
  BY StopJustified DEF SearchInv, StopIsJustified
<1> QED
  BY <1>1, SearchInvariant, PTL DEF Spec, StaticStopJustified
===============================================================================
