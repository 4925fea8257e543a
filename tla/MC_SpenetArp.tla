---------------------------- MODULE MC_SpenetArp ----------------------------
(***************************************************************************)
(* Small instances of SpenetArp for TLC.                                   *)
(***************************************************************************)
EXTENDS SpenetArpService, TLC

\* neither hardware addresses nor cells of memory are told apart by order
Symmetry == Permutations(EtherAddrs) \cup Permutations(Cells)
=============================================================================
