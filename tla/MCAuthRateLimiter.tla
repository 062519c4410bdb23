-------------------------- MODULE MCAuthRateLimiter --------------------------
(***************************************************************************)
(* A small instance of AuthRateLimiter for TLC.                            *)
(***************************************************************************)
EXTENDS AuthRateLimiter, TLC

\* Identifiers are interchangeable.
Symmetry == Permutations(Identifiers)
=============================================================================
