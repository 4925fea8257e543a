---------------------------- MODULE MC_Touchpad ----------------------------
(***************************************************************************)
(* Instance of Touchpad for TLC.                                           *)
(***************************************************************************)
EXTENDS TouchpadService
=============================================================================
