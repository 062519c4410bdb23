-------------------------- MODULE MCSignalingServer --------------------------
(***************************************************************************)
(* Small instances of SignalingServer for TLC.                             *)
(***************************************************************************)
EXTENDS SignalingServer, TLC

\* Names, ids and connections are interchangeable: no definition tells two apart.
Symmetry == Permutations(Players) \cup Permutations(SessionIds) \cup Permutations(Sockets)
=============================================================================
