-------------------------- MODULE MCSignalingBridge --------------------------
(***************************************************************************)
(* Small instances of SignalingBridge for TLC.                             *)
(***************************************************************************)
EXTENDS SignalingBridge, TLC
=============================================================================
