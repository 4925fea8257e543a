--------------------------- MODULE TransmitQueue ---------------------------
(***************************************************************************)
(* What a LAN driver promises to the layer that sends through it: packets  *)
(* it accepts leave in the order in which they came, each at most once,    *)
(* and the memory of a packet is given back when it has left, and only     *)
(* once.  LanceService shows that LanceRing implements this.               *)
(***************************************************************************)
EXTENDS Sequences

CONSTANT Packets

VARIABLES
  queue,   \* accepted, not gone yet
  status   \* "new", "queued", "gone" or "freed"

queueVars == <<queue, status>>

QueueInit ==
  /\ queue = <<>>
  /\ status = [p \in Packets |-> "new"]

Accept(p) ==
  /\ status[p] = "new"
  /\ queue' = Append(queue, p)
  /\ status' = [status EXCEPT ![p] = "queued"]

Refuse(p) ==
  /\ status[p] = "new"
  /\ status' = [status EXCEPT ![p] = "freed"]
  /\ UNCHANGED queue

\* the oldest leaves, or is given up after an error on the wire
Depart ==
  /\ queue # <<>>
  /\ queue' = Tail(queue)
  /\ status' = [status EXCEPT ![Head(queue)] = "gone"]

Release(p) ==
  /\ status[p] = "gone"
  /\ status' = [status EXCEPT ![p] = "freed"]
  /\ UNCHANGED queue

QueueNext ==
  \/ \E p \in Packets : Accept(p) \/ Refuse(p) \/ Release(p)
  \/ Depart

QueueSpec == QueueInit /\ [][QueueNext]_queueVars
=============================================================================
