---------------------------- MODULE MCPlayerAuth ----------------------------
(***************************************************************************)
(* Small instances of PlayerAuth for TLC.                                  *)
(***************************************************************************)
EXTENDS PlayerAuth, TLC

\* A tell code lives for one tick, a manual one for two.
ShortTtls == [mode \in {"tell", "manual"} |-> IF mode = "tell" THEN 1 ELSE 2]

BothModes == {"tell", "manual"}

\* Players are interchangeable, and so are codes.
Symmetry == Permutations(Players) \cup Permutations(Codes)
=============================================================================
