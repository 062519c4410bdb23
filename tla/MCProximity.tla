----------------------------- MODULE MCProximity -----------------------------
(***************************************************************************)
(* Small instances of Proximity for TLC.                                   *)
(***************************************************************************)
EXTENDS Proximity

\* With CallRadius = 2: exactly at the radius, just beyond it, and in between.
MCPositions == {0, 2, 3}
=============================================================================
