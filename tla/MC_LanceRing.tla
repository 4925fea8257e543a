--------------------------- MODULE MC_LanceRing ---------------------------
(***************************************************************************)
(* Instance of LanceRing for TLC.                                          *)
(***************************************************************************)
EXTENDS LanceService
=============================================================================
