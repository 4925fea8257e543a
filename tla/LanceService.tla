---------------------------- MODULE LanceService ----------------------------
(***************************************************************************)
(* LanceRing implements TransmitQueue: what waits is what the chip has     *)
(* still to send, in the order of the ring, and then the driver's queue.   *)
(***************************************************************************)
EXTENDS LanceRing

toSend == {i \in Xmds : xflag[i] = "own" \/ (loading /\ i = mdp)}

\* the descriptor k places after i
place(i, k) == IF i + k < TCount THEN i + k ELSE i + k - TCount

waiting ==
  LET n == Cardinality(toSend) IN
  [k \in 1 .. n + Len(outq) |-> IF k <= n THEN xmbuf[place(chipX, k - 1)] ELSE outq[k - n]]

standing == [p \in Packets |-> IF fate[p] \in {"outq", "ring"} THEN "queued" ELSE fate[p]]

Queue == INSTANCE TransmitQueue WITH queue <- waiting, status <- standing

\* Senders see a queue: packets accepted leave in order, once, and are freed once and
\* not before (dr_downdata, load_tmd, xmit_irq).
InOrder == Queue!QueueSpec
=============================================================================
