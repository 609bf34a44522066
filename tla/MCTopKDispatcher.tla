--------------------------- MODULE MCTopKDispatcher ---------------------------
(* Small instances of TopKDispatcher: every score matrix over few values. *)
EXTENDS TopKDispatcher, TLC

CONSTANTS i1, i2, i3

MCInsts == {i1, i2, i3}
MCTwoInsts == {i1, i2}
MCScores == {0, 1, 3}
MCRanks == 0 .. 2
=============================================================================
