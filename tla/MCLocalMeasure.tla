--------------------------- MODULE MCLocalMeasure ---------------------------
(* Small instances of LocalMeasure. *)
EXTENDS LocalMeasure

CONSTANTS t1, t2

MCRequests == {"build", "run"} \X (1 .. NInputs)
=============================================================================
