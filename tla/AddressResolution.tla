------------------------- MODULE AddressResolution -------------------------
(***************************************************************************)
(* What the ARP cache of SPENET promises to those who send packets:        *)
(* a packet leaves to the hardware address known for its next hop, or      *)
(* waits for one among the newest HoldMax, or is freed; it meets one fate  *)
(* only.  SpenetArpService shows that SpenetArp implements this.           *)
(***************************************************************************)
EXTENDS Naturals, Sequences

CONSTANTS
  Addrs,       \* next hops
  EtherAddrs,  \* hardware addresses of stations
  Broadcast,   \* the group address
  Unknown,     \* no hardware address is known
  Packets,
  HoldMax      \* packets that wait for one address

VARIABLES
  known,       \* hardware address known for each next hop
  waiting,     \* packets that wait for it
  fate,        \* "new", "held", "sent" or "freed"
  to           \* where a packet was sent

arpVars == <<known, waiting, fate, to>>

Elements(s) == {s[i] : i \in 1 .. Len(s)}

ArpInit ==
  /\ known = [a \in Addrs |-> Unknown]
  /\ waiting = [a \in Addrs |-> <<>>]
  /\ fate = [p \in Packets |-> "new"]
  /\ to = [p \in Packets |-> Unknown]

Send(p, a) ==
  /\ fate[p] = "new" /\ known[a] # Unknown
  /\ fate' = [fate EXCEPT ![p] = "sent"]
  /\ to' = [to EXCEPT ![p] = known[a]]
  /\ UNCHANGED <<known, waiting>>

SendToGroup(p) ==
  /\ fate[p] = "new"
  /\ fate' = [fate EXCEPT ![p] = "sent"]
  /\ to' = [to EXCEPT ![p] = Broadcast]
  /\ UNCHANGED <<known, waiting>>

Refuse(p) ==
  /\ fate[p] = "new"
  /\ fate' = [fate EXCEPT ![p] = "freed"]
  /\ UNCHANGED <<known, waiting, to>>

Wait(p, a) ==
  /\ fate[p] = "new" /\ known[a] = Unknown
  /\ IF Len(waiting[a]) < HoldMax
       THEN /\ waiting' = [waiting EXCEPT ![a] = Append(@, p)]
            /\ fate' = [fate EXCEPT ![p] = "held"]
       ELSE /\ waiting' = [waiting EXCEPT ![a] = Append(Tail(@), p)]
            /\ fate' = [fate EXCEPT ![p] = "held", ![Head(waiting[a])] = "freed"]
  /\ UNCHANGED <<known, to>>

\* an address becomes known or changes, by a request or a management call
Learn(a, e) ==
  /\ known' = [known EXCEPT ![a] = e]
  /\ UNCHANGED <<waiting, fate, to>>

\* a reply: what waits is sent
Resolve(a, e) ==
  /\ known' = [known EXCEPT ![a] = e]
  /\ waiting' = [waiting EXCEPT ![a] = <<>>]
  /\ fate' = [p \in Packets |-> IF p \in Elements(waiting[a]) THEN "sent" ELSE fate[p]]
  /\ to' = [p \in Packets |-> IF p \in Elements(waiting[a]) THEN e ELSE to[p]]

\* entries expire or are deleted: what waits is freed
Forget(S) ==
  /\ known' = [a \in Addrs |-> IF a \in S THEN Unknown ELSE known[a]]
  /\ waiting' = [a \in Addrs |-> IF a \in S THEN <<>> ELSE waiting[a]]
  /\ fate' = [p \in Packets |->
               IF \E a \in S : p \in Elements(waiting[a]) THEN "freed" ELSE fate[p]]
  /\ UNCHANGED to

ArpNext ==
  \/ \E p \in Packets : SendToGroup(p) \/ Refuse(p)
  \/ \E p \in Packets, a \in Addrs : Send(p, a) \/ Wait(p, a)
  \/ \E a \in Addrs, e \in EtherAddrs : Learn(a, e) \/ Resolve(a, e)
  \/ \E S \in SUBSET Addrs : Forget(S)

ArpSpec == ArpInit /\ [][ArpNext]_arpVars
=============================================================================
