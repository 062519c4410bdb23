---------------------------- MODULE MCVoiceClients ----------------------------
(***************************************************************************)
(* Small instances of VoiceClients for TLC.  The configurations name        *)
(* sessions and connections by numbers: sessions are compared.              *)
(***************************************************************************)
EXTENDS VoiceClients, TLC
=============================================================================
