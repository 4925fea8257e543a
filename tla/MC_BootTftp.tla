---------------------------- MODULE MC_BootTftp ----------------------------
(***************************************************************************)
(* Instances of BootTftp for TLC.                                          *)
(***************************************************************************)
EXTENDS BootTftp

CONSTANTS first, second  \* full blocks of the two versions

FullBlocks == [v \in Versions |-> IF v = 1 THEN first ELSE second]
=============================================================================
