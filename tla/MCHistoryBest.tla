---------------------------- MODULE MCHistoryBest ----------------------------
EXTENDS HistoryBest

CONSTANTS c1, c2, plain, board, w, d, none, failed

MCModelOf == plain :> none @@ board :> "board"
MCKeysOf == plain :> <<"gpu">> @@ board :> <<"cuda", "gpu">>
MCDynTaskOf == w :> d

Static(wkl, t, cost) == [kind |-> "static", wkl |-> wkl, target |-> t, cost |-> cost]
Dynamic(wkl, t) == [kind |-> "dynamic", wkl |-> wkl, target |-> t, cost |-> 0]

MCRecords == {Static(w, plain, 1), Static(w, plain, failed), Static(w, board, 2),
              Dynamic(w, plain), Dynamic(d, board)}

Alike == Permutations({c1, c2})
=============================================================================
