---------------------------- MODULE MC_NcrSiop ----------------------------
(***************************************************************************)
(* Small instances of NcrSiop for TLC.  Ids are numbers because            *)
(* reschedule() compares them; 7 is the host adapter's own id.             *)
(***************************************************************************)
EXTENDS NcrSiopComments, TLC

CONSTANTS p1, p2

\* one process and one device
UsesOwn1 == p1 :> {0}

\* two processes, each with a device of its own
UsesOwn2 == (p1 :> {0}) @@ (p2 :> {1})

\* two processes share a device, one of them has another too
UsesShared2 == (p1 :> {0, 1}) @@ (p2 :> {0})

\* two processes share the one device
UsesSame2 == (p1 :> {0}) @@ (p2 :> {0})

\* with UsesSame2 the processes may be exchanged
ProcSymmetry == Permutations(Procs)
=============================================================================
