------------------------------ MODULE LoopState ------------------------------
(***************************************************************************)
(* The State of the auto-scheduler (loop_state.cc, transform_step.cc): a   *)
(* sequence of stages, each a nest of iterators, and the AttachMap that    *)
(* says which stage is computed at which iterator of which later stage.    *)
(* Transform steps split, fuse and reorder iterators and insert stages, and*)
(* must keep the two maps of the AttachMap in line with the nests.         *)
(*                                                                         *)
(* Stages and iterators are numbered from 1.  An iterator is written as the*)
(* set of stages that compute_at was asked to place there: the innermost   *)
(* part of a split and the result of a fuse inherit it.                    *)
(***************************************************************************)
EXTENDS Integers, Sequences, Functions

CONSTANTS
  MaxStages,   \* bound on the stages of a state
  MaxIters,    \* bound on the iterators of a stage
  OpIters      \* the numbers of axes an operation may have

ASSUME LoopStateAssumption == /\ MaxStages \in Nat \ {0} /\ MaxIters \in Nat \ {0}
                               /\ OpIters \subseteq 0 .. MaxIters

VARIABLES
  stages,        \* per stage: iters, compute_at, and two history fields
  stageToIter,   \* attach_map.stage_to_attach_iter: stage |-> <<stage, index>>
  iterToStages,  \* attach_map.iter_to_attached_stages: <<stage, index>> |-> stages
  dropped        \* a nest with stages attached to it was replaced (history)

attach_map == <<stageToIter, iterToStages>>
vars == <<stages, attach_map, dropped>>

StageIds == 1 .. Len(stages)
Iters(t) == stages[t].iters
IterIds(t) == 1 .. Len(Iters(t))

Stage(ids) == [iters : Seq(SUBSET ids), compute_at : {"root", "inlined", "iter"},
               moved : BOOLEAN]   \* moved: its target was reordered since compute_at

NewStage(n) == [iters |-> [i \in 1 .. n |-> {}], compute_at |-> "root", moved |-> FALSE]

(* The first a elements of s, then mid, then s from b on. *)
Splice(s, a, mid, b) ==
  LET m == a + Len(mid)
  IN  [x \in 1 .. m + Len(s) - b + 1 |->
         IF x <= a THEN s[x] ELSE IF x <= m THEN mid[x - a] ELSE s[x - m + b - 1]]

Init == /\ stages \in {[t \in 1 .. m |-> NewStage(n[t])] :
                          m \in 1 .. MaxStages, n \in [1 .. MaxStages -> OpIters]}
        /\ stageToIter = <<>> /\ iterToStages = <<>> /\ dropped = FALSE

-----------------------------------------------------------------------------
(* AttachMap. *)

Without(f, S) == Restrict(f, DOMAIN f \ S)

Attached(k) == k \in DOMAIN iterToStages
AttachedToStage(t) == \E i \in IterIds(t) : Attached(<<t, i>>)

(* DeleteStageEntry does not look whether the attach point of a stage has *)
(* an entry: the process crashes where there is none.                     *)
EntryFound(s) == s \in DOMAIN stageToIter => Attached(stageToIter[s])

(* DeleteStageEntry: an iterator left with no stage loses its entry too. *)
EntryWithout(s) ==
  IF s \notin DOMAIN stageToIter THEN iterToStages
  ELSE LET k == stageToIter[s]
       IN  IF iterToStages[k] = {s} THEN Without(iterToStages, {k})
           ELSE [iterToStages EXCEPT ![k] = @ \ {s}]

DeleteStage(s) == /\ EntryFound(s)
                  /\ stageToIter' = Without(stageToIter, {s})
                  /\ iterToStages' = EntryWithout(s)

SetComputeAtIter(s, k) ==
  LET rest == EntryWithout(s)
  IN  /\ EntryFound(s)
      /\ stageToIter' = [x \in DOMAIN stageToIter \cup {s} |->
                           IF x = s THEN k ELSE stageToIter[x]]
      /\ iterToStages' = [x \in DOMAIN rest \cup {k} |->
                            IF x # k THEN rest[x]
                            ELSE (IF k \in DOMAIN rest THEN rest[k] ELSE {}) \cup {s}]

(* UpdateIters for one stage t whose iterator i becomes to[i]: entries are *)
(* taken out first and put back under their new keys, the last one winning.*)
UpdateIters(t, to) ==
  LET hit == {i \in DOMAIN to : Attached(<<t, i>>)}
      from(k) == CHOOSE i \in hit :
                   /\ <<t, to[i]>> = k
                   /\ \A j \in hit : <<t, to[j]>> = k => j <= i
      new == {<<t, to[i]>> : i \in hit}
      moves(s) == {i \in hit : s \in iterToStages[<<t, i>>]}
  IN  /\ stageToIter' = [s \in DOMAIN stageToIter |->
                           IF moves(s) = {} THEN stageToIter[s]
                           ELSE <<t, to[CHOOSE i \in moves(s) : TRUE]>>]
      /\ iterToStages' = [k \in (DOMAIN iterToStages \ {<<t, i>> : i \in hit}) \cup new |->
                            IF k \in new THEN iterToStages[<<t, from(k)>>]
                            ELSE iterToStages[k]]

Offset(x, start, n) == IF x >= start THEN x + n ELSE x

(* ApplyStageIdOffset: both maps, keys and values. *)
ApplyStageIdOffset(start, n) ==
  LET old(x) == IF x >= start + n THEN x - n ELSE x
      key(k) == <<Offset(k[1], start, n), k[2]>>
  IN  /\ stageToIter' = [s \in {Offset(x, start, n) : x \in DOMAIN stageToIter} |->
                           key(stageToIter[old(s)])]
      /\ iterToStages' = [k \in {key(x) : x \in DOMAIN iterToStages} |->
                            {Offset(s, start, n) :
                               s \in iterToStages[<<old(k[1]), k[2]>>]}]

-----------------------------------------------------------------------------
(* Steps on one stage.  nest is the new sequence of iterators. *)

SetIters(t, nest) == stages' = [stages EXCEPT ![t].iters = nest]

SplitOutermost(t, i, n) == [j \in i + 1 .. Len(Iters(t)) |-> j + n]

(* Where the iterators from i on end up when i is split into n + 1 parts: *)
(* i itself at its innermost part.                                        *)
SplitTargets(t, i, n) == [j \in i .. Len(Iters(t)) |-> j + n]

Divided(nest, i, n) == Splice(nest, i - 1, NewStage(n).iters, i)

(* split, follow_split and follow_fused_split (ApplySplitToState). *)
Split(t, i, n) ==
  /\ Len(Iters(t)) + n <= MaxIters
  /\ SetIters(t, Divided(Iters(t), i, n))
  /\ UpdateIters(t, SplitTargets(t, i, n))

(* Where the iterators after i end up when i .. j are fused. *)
FuseTargets(t, i, j) ==
  [x \in i + 1 .. Len(Iters(t)) |-> IF x > j THEN x - j + i ELSE i]

FuseAnyway(t, i, j) == TRUE

(* Only the last of the fused iterators may have stages attached: LOG(FATAL). *)
MayFuse(t, i, j) == \A x \in i .. j - 1 : ~Attached(<<t, x>>)

Fused(nest, i, j) == Splice(nest, i - 1, <<UNION {nest[x] : x \in i .. j}>>, j + 1)

Fuse(t, i, j) ==
  /\ MayFuse(t, i, j)
  /\ SetIters(t, Fused(Iters(t), i, j))
  /\ UpdateIters(t, FuseTargets(t, i, j))

(* Fusing no iterators, as FuseAllOuterSpaceIterators does on a nest that  *)
(* has none or starts with a reduction: one iterator replaces the nest,    *)
(* and the AttachMap is left alone.                                        *)
FuseNone(t) ==
  /\ SetIters(t, NewStage(1).iters)
  /\ UNCHANGED attach_map

(* reorder leaves the AttachMap alone. *)
Reorder(t, p) ==
  /\ stages' = [s \in StageIds |->
       IF s = t THEN [stages[t] EXCEPT !.iters = [i \in IterIds(t) |-> @[p[i]]]]
       ELSE IF s \in DOMAIN stageToIter /\ stageToIter[s][1] = t
            THEN [stages[s] EXCEPT !.moved = TRUE] ELSE stages[s]]
  /\ UNCHANGED attach_map

(* Stage s is placed nowhere, or at iterator i of stage t, as of this kind. *)
Placed(s, kind, t, i) ==
  stages' = [x \in StageIds |->
    [iters |-> [j \in IterIds(x) |-> IF x = t /\ j = i THEN Iters(x)[j] \cup {s}
                                     ELSE Iters(x)[j] \ {s}],
     compute_at |-> IF x = s THEN kind ELSE stages[x].compute_at,
     moved |-> stages[x].moved /\ x # s]]

(* A pragma that takes the stage out of the program deletes its entry only. *)
SkipRegion(s) == Placed(s, stages[s].compute_at, 0, 0) /\ DeleteStage(s)

-----------------------------------------------------------------------------
(* Steps on the place where a stage is computed.  The target is a later,  *)
(* not inlined stage, since consumers come after their producers.         *)

ComputeAt(s, t, i) ==
  /\ t > s /\ stages[t].compute_at # "inlined"
  /\ Placed(s, "iter", t, i)
  /\ SetComputeAtIter(s, <<t, i>>)

InlineFirstFree(s) == ~Attached(<<s, 1>>)

(* ICHECK: no stage is attached to an iterator of the inlined stage. *)
MayInline(s) == ~AttachedToStage(s)

ComputeInline(s) ==
  /\ MayInline(s)
  /\ Placed(s, "inlined", 0, 0)
  /\ DeleteStage(s)

ComputeRootKeepsEntry(s) == Placed(s, "root", 0, 0) /\ UNCHANGED attach_map

ComputeRoot(s) == Placed(s, "root", 0, 0) /\ DeleteStage(s)

-----------------------------------------------------------------------------
(* Steps that insert stages.  A replaced stage gets the nest of its new   *)
(* operation.  cache_write is applied before any step on its target and   *)
(* before anything is attached to it: a comment there assumes it, and the *)
(* sketch rules do so.  A cache_write that adds more than two operations  *)
(* reads past the end of the stages, an ICHECK.                           *)

(* The sequence of stages with n of them inserted at start. *)
Insertion(all, start, n) ==
  stages' = [x \in DOMAIN all |->
    [all[x] EXCEPT !.iters = [i \in DOMAIN @ |-> {Offset(s, start, n) : s \in @[i]}]]]

CacheRead(t, n) ==
  /\ Len(stages) < MaxStages
  /\ Insertion(Splice(stages, t, <<NewStage(n)>>, t + 1), t + 1, 1)
  /\ ApplyStageIdOffset(t + 1, 1)

CacheWrite(t, n, added) ==
  /\ Len(stages) + added <= MaxStages
  /\ stages[t] = NewStage(Len(Iters(t))) /\ ~AttachedToStage(t)
  /\ Insertion(Splice(stages, t, [x \in 1 .. added |-> NewStage(n)], t + 1), t, added)
  /\ ApplyStageIdOffset(t, added)

(* rfactor keeps where the target is computed, and so must the map; what  *)
(* is attached to the target's former nest is not looked at.              *)
Rfactor(t, n) ==
  /\ Len(stages) < MaxStages
  /\ Insertion(Splice(stages, t - 1, <<NewStage(Len(Iters(t))),
                                        [stages[t] EXCEPT !.iters = NewStage(n).iters]>>,
                      t + 1), t, 1)
  /\ ApplyStageIdOffset(t, 1)

OneStageStep(t) ==
  \/ \E i \in IterIds(t), n \in 1 .. MaxIters : Split(t, i, n)
  \/ \E i, j \in IterIds(t) : i <= j /\ Fuse(t, i, j)
  \/ \E p \in [IterIds(t) -> IterIds(t)] : IsInjective(p) /\ Reorder(t, p)
  \/ SkipRegion(t)

PlacementStep(s) ==
  \/ \E t \in StageIds : \E i \in IterIds(t) : ComputeAt(s, t, i)
  \/ ComputeInline(s)
  \/ ComputeRoot(s)

InsertionStep(t) ==
  \/ \E n \in OpIters : CacheRead(t, n)
  \/ \E n \in OpIters, added \in 1 .. 2 : CacheWrite(t, n, added)

(* The steps that replace a nest whatever is attached to it. *)
ReplacingStep(t) == FuseNone(t) \/ \E n \in OpIters : Rfactor(t, n)

Next == \E t \in StageIds :
  \/ /\ OneStageStep(t) \/ PlacementStep(t) \/ InsertionStep(t)
     /\ UNCHANGED dropped
  \/ ReplacingStep(t) /\ dropped' = (dropped \/ AttachedToStage(t))

Spec == Init /\ [][Next]_vars

-----------------------------------------------------------------------------
(* Stages have the fields they should, and both maps relate stages with   *)
(* iterators that a state of this size can have.                          *)
TypeOK ==
  /\ stages \in Seq(Stage(StageIds)) /\ Len(stages) \in 1 .. MaxStages
  /\ DOMAIN stageToIter \subseteq StageIds
  /\ \A s \in DOMAIN stageToIter : stageToIter[s] \in StageIds \X (1 .. MaxIters)
  /\ DOMAIN iterToStages \subseteq StageIds \X (1 .. MaxIters)
  /\ \A k \in DOMAIN iterToStages : iterToStages[k] \subseteq StageIds
  /\ dropped \in BOOLEAN

MapsInverse ==
  /\ \A s \in DOMAIN stageToIter :
       Attached(stageToIter[s]) /\ s \in iterToStages[stageToIter[s]]
  /\ \A k \in DOMAIN iterToStages :
       /\ iterToStages[k] # {}
       /\ \A s \in iterToStages[k] : s \in DOMAIN stageToIter /\ stageToIter[s] = k

(* The two maps are inverse, and an iterator has an entry exactly when a  *)
(* stage is attached to it: fuse, compute_inline and the search rules ask *)
(* only whether the entry exists.  This is so until a nest is replaced    *)
(* with stages attached to it.                                            *)
MapsAgree == dropped \/ MapsInverse

(* "A Map to store the mapping of stage to its attached iterator"         *)
(* (loop_state.h): the iterator is one of a later stage that is not       *)
(* inlined.                                                               *)
EveryPointExists ==
  \A s \in DOMAIN stageToIter :
    LET t == stageToIter[s][1]
    IN  /\ t \in StageIds /\ t > s /\ stages[t].compute_at # "inlined"
        /\ stageToIter[s][2] \in IterIds(t)

(* Every stage is attached to an existing iterator of a later stage that  *)
(* is not inlined, however many stages were inserted in between, until a  *)
(* nest is replaced with stages attached to it.                           *)
AttachPointsExist == dropped \/ EveryPointExists

(* The stages of kind kIter are the stages that have an attach point, which *)
(* the search rules assert (sketch_policy_rules.cc); a stage that a pragma  *)
(* skips is excused.                                                        *)
KindMatchesMap ==
  \A s \in StageIds :
    /\ s \in DOMAIN stageToIter => stages[s].compute_at = "iter"
    /\ (\E t \in StageIds : \E i \in IterIds(t) : s \in Iters(t)[i]) =>
         s \in DOMAIN stageToIter

AtGoal(s) == s \in Iters(stageToIter[s][1])[stageToIter[s][2]]

EveryGoalKept == \A s \in DOMAIN stageToIter : ~stages[s].moved => AtGoal(s)

(* A stage stays attached to the iterator compute_at was given: through a *)
(* split to its innermost part, through a fuse to the fused iterator,     *)
(* through insertions to the same stage, as long as nobody reorders or    *)
(* replaces the nest.                                                     *)
AttachFollowsIterator == dropped \/ EveryGoalKept
=============================================================================
