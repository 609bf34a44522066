----------------------------- MODULE MCLoopState -----------------------------
(* Every sequence of transform steps on states of few stages. *)
EXTENDS LoopState
=============================================================================
