---------------------------- MODULE MCSketchSearch ----------------------------
(* Small instances of SketchSearch. *)
EXTENDS SketchSearch, TLC

CONSTANTS s1, s2, s3, i1, i2

MCPrograms == {s1, s2, s3}
MCTwoPrograms == {s1, s2}
MCInsts == {i1, i2}
MCFit ==
  (i1 :> (s1 :> 3 @@ s2 :> 1 @@ s3 :> 2)) @@ (i2 :> (s1 :> 1 @@ s2 :> 3 @@ s3 :> 2))
MCTwoFit == (i1 :> (s1 :> 3 @@ s2 :> 1)) @@ (i2 :> (s1 :> 1 @@ s2 :> 3))
=============================================================================
