----------------------------- MODULE MCNativeTurn -----------------------------
(* The instance of NativeTurn that TLC checks.                             *)
EXTENDS NativeTurn

TwoOrThree == [muse |-> 2, agy |-> 3]
=============================================================================
