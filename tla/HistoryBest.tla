----------------------------- MODULE HistoryBest -----------------------------
(***************************************************************************)
(* The dispatch contexts of the compiler (dispatcher.py): ApplyHistoryBest *)
(* loads a record log into tables of the best result per workload, with    *)
(* blocks nest contexts, and a query asks the innermost context first.     *)
(*                                                                         *)
(* A workload stands for the name (or hash) in a workload key: the tables  *)
(* ignore the key's arguments.  A slot is a pair of nested keys: the model *)
(* or a key of the target, and a workload.                                 *)
(***************************************************************************)
EXTENDS RecordLog

CONSTANTS
  Ctxs,           \* contexts a program may construct
  Root,           \* the FallbackContext
  None,           \* no result
  Failed,         \* cost of a record with an error
  Targets,
  ModelOf,        \* target |-> its model
  KeysOf,         \* target |-> its keys, in order
  Unknown,        \* the model of targets without one
  Workloads,
  DynTaskOf,      \* DYN_SEARCH_TASK_REGISTRY: some workloads |-> a dynamic task's
  Limits,         \* values of n_lines
  MaxLoaded       \* bound on the records a context loads

ASSUME HistoryAssumption ==
  /\ Records \subseteq [kind : {"static", "dynamic"}, wkl : Workloads, target : Targets,
                        cost : Nat \cup {Failed}]
  /\ None \notin Records
  /\ \A t \in Targets : KeysOf[t] \in Seq(Range(KeysOf[t]))
  /\ DOMAIN DynTaskOf \subseteq Workloads /\ Range(DynTaskOf) \subseteq Workloads
  /\ Limits \subseteq Nat
  /\ IsFiniteSet(Ctxs) /\ None \notin Ctxs \cup {Root} /\ Root \notin Ctxs

VARIABLES
  best,           \* per context: best_by_model and best_by_targetkey, by slot
  old_ctx,        \* per context: _old_ctx; None while it is not constructed
  current,        \* DispatchContext.current
  withs,          \* history: contexts whose with block is open, outermost first
  loaded,         \* history, per context: the records it loaded, in order
  aborted         \* history: contexts in which a load raised

histVars == <<best, old_ctx, current, withs, loaded, aborted>>
vars == <<logVars, histVars>>

ModelSlot(t, w) == <<"model", ModelOf[t], w>>
KeySlots(t, w) == [i \in DOMAIN KeysOf[t] |-> <<"key", KeysOf[t][i], w>>]

Slots == UNION {{ModelSlot(t, w)} \cup Range(KeySlots(t, w)) : t \in Targets, w \in Workloads}

Init == /\ InitLog
        /\ best = [c \in Ctxs |-> [s \in Slots |-> None]]
        /\ old_ctx = [c \in Ctxs |-> None]
        /\ current = Root /\ withs = <<>>
        /\ loaded = [c \in Ctxs |-> <<>>] /\ aborted = {}

-----------------------------------------------------------------------------
(* load().  A table being filled is [best, raised]. *)

SlowerWins(r, other) == other.cost < r.cost

Beats(r, other) == other.cost > r.cost

(* One static record for one target key.  A dispatcher in its place cannot *)
(* be unpacked (TypeError).                                                 *)
OfferToKey(table, r, slot) ==
  LET other == table.best[slot]
  IN  IF table.raised THEN table
      ELSE IF other = None THEN [table EXCEPT !.best[slot] = r]
      ELSE IF other.kind = "dynamic" THEN [table EXCEPT !.raised = TRUE]
      ELSE IF Beats(r, other) THEN [table EXCEPT !.best[slot] = r]
      ELSE table

(* For the model the dictionary itself is unpacked: a second record of the *)
(* same model and workload raises (ValueError).                            *)
OfferToModel(table, r, slot) ==
  IF table.raised \/ (table.best[slot] = None /\ slot[2] = Unknown) THEN table
  ELSE IF table.best[slot] = None THEN [table EXCEPT !.best[slot] = r]
  ELSE [table EXCEPT !.raised = TRUE]

LoadStatic(table, r) ==
  IF r.cost = Failed THEN table
  ELSE LET slots == KeySlots(r.target, r.wkl)
           offered[i \in 0 .. Len(slots)] ==
             IF i = 0 THEN table ELSE OfferToKey(offered[i - 1], r, slots[i])
       IN  OfferToModel(offered[Len(slots)], r, ModelSlot(r.target, r.wkl))

(* A dispatcher replaces what is there. *)
LoadDynamic(table, r) ==
  IF table.raised THEN table
  ELSE [table EXCEPT !.best = [s \in Slots |->
          IF s = ModelSlot(r.target, r.wkl) \/ s \in Range(KeySlots(r.target, r.wkl))
          THEN r ELSE @[s]]]

LoadOne(table, r) == IF r.kind = "static" THEN LoadStatic(table, r) ELSE LoadDynamic(table, r)

(* n_lines counts static records first, then dispatchers. *)
Taken(limit) ==
  LET all == OfKind("static") \o OfKind("dynamic")
  IN  SubSeq(all, 1, Min({limit, Len(all)}))

Loaded(table, limit) ==
  LET records == Taken(limit)
      load[i \in 0 .. Len(records)] ==
        IF i = 0 THEN [best |-> table, raised |-> FALSE] ELSE LoadOne(load[i - 1], records[i])
  IN  load[Len(records)]

(* ApplyHistoryBest(log, n_lines).  When load() raises there is no object. *)
Construct(c, limit) ==
  /\ old_ctx[c] = None /\ Readable
  /\ ~Loaded(best[c], limit).raised
  /\ best' = [best EXCEPT ![c] = Loaded(@, limit).best]
  /\ loaded' = [loaded EXCEPT ![c] = Taken(limit)]
  /\ old_ctx' = [old_ctx EXCEPT ![c] = current]
  /\ UNCHANGED <<logVars, current, withs, aborted>>

(* load() on an object: what precedes the raise stays. *)
Load(c, limit) ==
  /\ old_ctx[c] # None /\ Readable
  /\ Len(loaded[c] \o Taken(limit)) <= MaxLoaded
  /\ best' = [best EXCEPT ![c] = Loaded(@, limit).best]
  /\ loaded' = [loaded EXCEPT ![c] = @ \o Taken(limit)]
  /\ aborted' = IF Loaded(best[c], limit).raised THEN aborted \cup {c} ELSE aborted
  /\ UNCHANGED <<logVars, old_ctx, current, withs>>

-----------------------------------------------------------------------------
(* with blocks.  No program enters a context whose block is open. *)

EnterKeepsOld(c) ==
  /\ old_ctx[c] # None /\ c \notin Range(withs)
  /\ current' = c /\ withs' = Append(withs, c)
  /\ UNCHANGED <<logVars, best, loaded, aborted, old_ctx>>

Enter(c) ==
  /\ old_ctx[c] # None /\ c \notin Range(withs)
  /\ old_ctx' = [old_ctx EXCEPT ![c] = current]
  /\ current' = c /\ withs' = Append(withs, c)
  /\ UNCHANGED <<logVars, best, loaded, aborted>>

Exit ==
  /\ withs # <<>>
  /\ current' = old_ctx[Last(withs)] /\ withs' = Front(withs)
  /\ UNCHANGED <<logVars, best, old_ctx, loaded, aborted>>

Next ==
  \/ WriterStep /\ UNCHANGED histVars
  \/ \E c \in Ctxs : Enter(c) \/ \E n \in Limits : Construct(c, n) \/ Load(c, n)
  \/ Exit

Spec == Init /\ [][Next]_vars

-----------------------------------------------------------------------------
(* Queries. *)

(* Where a query looks: model first, then the target's keys, and then the *)
(* same for the dynamic task that has the function's name.                *)
Places(t, w) ==
  LET at(x) == <<ModelSlot(t, x)>> \o KeySlots(t, x)
  IN  at(w) \o (IF w \in DOMAIN DynTaskOf THEN at(DynTaskOf[w]) ELSE <<>>)

QueryInside(c, t, w) ==
  LET places == Places(t, w)
      hits == {k \in DOMAIN places : best[c][places[k]] # None}
  IN  IF hits = {} THEN None ELSE best[c][places[Min(hits)]]

(* A query that comes back to where it has been. *)
NoEnd == [kind |-> "no end"]

(* A context without an answer passes the query on to its old context.  The *)
(* FallbackContext has no schedule for anybody.                             *)
Query(c, t, w) ==
  LET Answers(x) == x = Root \/ QueryInside(x, t, w) # None
      asked[n \in 0 .. Cardinality(Ctxs)] ==
        IF n = 0 THEN c
        ELSE IF Answers(asked[n - 1]) THEN asked[n - 1] ELSE old_ctx[asked[n - 1]]
      last == asked[Cardinality(Ctxs)]
  IN  IF last = Root THEN None
      ELSE IF Answers(last) THEN QueryInside(last, t, w)
      ELSE NoEnd

-----------------------------------------------------------------------------
(* The records a context has loaded that may answer from a slot. *)
Candidates(c, s) ==
  {i \in DOMAIN loaded[c] :
     LET r == loaded[c][i]
     IN  /\ r.kind = "static" => r.cost # Failed
         /\ \/ s \in Range(KeySlots(r.target, r.wkl))
            \/ s = ModelSlot(r.target, r.wkl) /\ (r.kind = "dynamic" \/ s[2] # Unknown)}

(* A context whose loads all returned answers from the first place that   *)
(* any loaded record fits: with the dispatcher loaded last, or else with a *)
(* record no other is faster than.  Loading is incremental, in two passes  *)
(* and over several calls, and must come to the same.                      *)
AnswerIsBest ==
  \A c \in Ctxs \ aborted, t \in Targets, w \in Workloads :
    LET places == Places(t, w)
        fits == {k \in DOMAIN places : Candidates(c, places[k]) # {}}
        answer == QueryInside(c, t, w)
        all == Candidates(c, places[Min(fits)])
        dynamic == {i \in all : loaded[c][i].kind = "dynamic"}
    IN  IF fits = {} THEN answer = None
        ELSE IF dynamic # {} THEN answer = loaded[c][Max(dynamic)]
        ELSE /\ answer \in {loaded[c][i] : i \in all}
             /\ \A i \in all : answer.cost <= loaded[c][i].cost

(* A query is answered by the innermost open with block that has an answer, *)
(* and by the root if none has, wherever contexts were constructed.         *)
NearestContextAnswers ==
  \A t \in Targets, w \in Workloads :
    LET hits == {k \in DOMAIN withs : QueryInside(withs[k], t, w) # None}
    IN  Query(current, t, w) = IF hits = {} THEN None ELSE QueryInside(withs[Max(hits)], t, w)
=============================================================================
