-------------------------- MODULE MCProgramMeasurer --------------------------
(* Small instances of ProgramMeasurer. *)
EXTENDS ProgramMeasurer, TLC

CONSTANTS dyn, stat, p1, p2, p3, i1, i2

MCInsts == {i1, i2}
(* The dynamic task has one program more than the static one. *)
MCSearchSpace == dyn :> {p1, p2, p3} @@ stat :> {p1, p2}

(* p1 suits the first instance, p2 the second, p3 both moderately. *)
MCFit ==
  (i1 :> (p1 :> 3 @@ p2 :> 1 @@ p3 :> 2)) @@ (i2 :> (p1 :> 1 @@ p2 :> 3 @@ p3 :> 2))
=============================================================================
