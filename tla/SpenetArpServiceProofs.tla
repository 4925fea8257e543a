----------------------- MODULE SpenetArpServiceProofs -----------------------
(***************************************************************************)
(* SpenetArp implements AddressResolution, for every value of the          *)
(* constants: each step of the cache is a step of the service, or none -   *)
(* up to the first use of freed memory (TickInCall), the last step spoken  *)
(* of.                                                                     *)
(***************************************************************************)
EXTENDS SpenetArpService, SpenetArpProofs

USE DEF table, packets

-----------------------------------------------------------------------------
(***************************************************************************)
(* The mapping, entry by entry.                                            *)
(***************************************************************************)
LEMMA MapBefore ==
  ASSUME TableSound
  PROVE  /\ \A c \in listed : known[iaddr[c]] = enaddr[c] /\ waiting[iaddr[c]] = hold[c]
         /\ \A a \in Addrs : (\A c \in listed : iaddr[c] # a) =>
              known[a] = Zero /\ waiting[a] = <<>>
<1>1. ASSUME NEW c \in listed PROVE known[iaddr[c]] = enaddr[c] /\ waiting[iaddr[c]] = hold[c]
  <2> DEFINE a == iaddr[c]
  <2>1. a \in Addrs /\ arptab_look(a) = {c}
    BY DEF TableSound, arptab_look
  <2>2. waiting[a] = hold[c]
    BY <2>1 DEF waiting
  <2>3. known[a] = IF com(c) THEN enaddr[c] ELSE Zero
    BY <2>1 DEF known
  <2> QED
    BY <2>2, <2>3 DEF TableSound
<1>2. ASSUME NEW a \in Addrs, \A c \in listed : iaddr[c] # a
      PROVE  known[a] = Zero /\ waiting[a] = <<>>
  <2>1. arptab_look(a) = {}
    BY <1>2 DEF arptab_look
  <2> QED
    BY <2>1 DEF known, waiting
<1> QED
  BY <1>1, <1>2

\* The same after a step.
LEMMA MapAfter ==
  ASSUME TableSound'
  PROVE  /\ \A c \in listed' : known'[iaddr'[c]] = enaddr'[c] /\ waiting'[iaddr'[c]] = hold'[c]
         /\ \A a \in Addrs : (\A c \in listed' : iaddr'[c] # a) =>
              known'[a] = Zero /\ waiting'[a] = <<>>
<1>1. ASSUME NEW c \in listed'
      PROVE  known'[iaddr'[c]] = enaddr'[c] /\ waiting'[iaddr'[c]] = hold'[c]
  <2> DEFINE a == iaddr'[c]
  <2>1. a \in Addrs /\ {d \in listed' : iaddr'[d] = a} = {c}
    BY DEF TableSound
  <2>2. waiting'[a] = hold'[c]
    BY <2>1 DEF waiting, arptab_look
  <2>3. known'[a] = IF com(c)' THEN enaddr'[c] ELSE Zero
    BY <2>1 DEF known, arptab_look, com
  <2> QED
    BY <2>2, <2>3 DEF TableSound
<1>2. ASSUME NEW a \in Addrs, \A c \in listed' : iaddr'[c] # a
      PROVE  known'[a] = Zero /\ waiting'[a] = <<>>
  <2>1. {c \in listed' : iaddr'[c] = a} = {}
    BY <1>2
  <2> QED
    BY <2>1 DEF known, waiting, arptab_look
<1> QED
  BY <1>1, <1>2

LEMMA SameElements == ASSUME NEW s PROVE Service!Elements(s) = Elems(s)
  BY DEF Service!Elements, Elems

-----------------------------------------------------------------------------
(***************************************************************************)
(* The steps.                                                              *)
(***************************************************************************)
\* A step that leaves the list and the fields that map alone maps to the same state.
LEMMA MapSame ==
  ASSUME UNCHANGED <<listed, iaddr, enaddr, flags, hold>>
  PROVE  known' = known /\ waiting' = waiting
  BY DEF known, waiting, arptab_look, com

\* A step that sets the fields of one entry maps to a change at its address.
LEMMA MapOne ==
  ASSUME TableSound, TableSound', NEW a \in Addrs, NEW c \in listed', iaddr'[c] = a,
         listed' = listed \cup {c}, c \in listed => iaddr[c] = a,
         \A d \in listed : d # c =>
           iaddr'[d] = iaddr[d] /\ enaddr'[d] = enaddr[d] /\ hold'[d] = hold[d]
  PROVE  /\ known' = [known EXCEPT ![a] = enaddr'[c]]
         /\ waiting' = [waiting EXCEPT ![a] = hold'[c]]
         /\ c \in listed => known[a] = enaddr[c] /\ waiting[a] = hold[c]
         /\ c \notin listed => known[a] = Zero /\ waiting[a] = <<>>
<1>1. ASSUME NEW b \in Addrs
      PROVE  /\ known'[b] = IF b = a THEN enaddr'[c] ELSE known[b]
             /\ waiting'[b] = IF b = a THEN hold'[c] ELSE waiting[b]
  <2>1. CASE b = a
    BY <2>1, MapAfter
  <2>2. CASE b # a /\ \E d \in listed : iaddr[d] = b
    <3>1. PICK d \in listed : iaddr[d] = b
      BY <2>2
    <3>2. d # c /\ d \in listed'
      BY <2>2, <3>1
    <3>3. known'[b] = enaddr'[d] /\ waiting'[b] = hold'[d]
      BY <3>1, <3>2, MapAfter
    <3> QED
      BY <2>2, <3>1, <3>2, <3>3, MapBefore
  <2>3. CASE b # a /\ \A d \in listed : iaddr[d] # b
    <3>1. \A d \in listed' : iaddr'[d] # b
      BY <2>3
    <3> QED
      BY <2>3, <3>1, MapBefore, MapAfter
  <2> QED
    BY <2>1, <2>2, <2>3
<1>2. known' = [b \in Addrs |-> known'[b]] /\ waiting' = [b \in Addrs |-> waiting'[b]]
  BY DEF known, waiting
<1>3. known = [b \in Addrs |-> known[b]] /\ waiting = [b \in Addrs |-> waiting[b]]
  BY DEF known, waiting
<1>4. known' = [known EXCEPT ![a] = enaddr'[c]] /\ waiting' = [waiting EXCEPT ![a] = hold'[c]]
  BY <1>1, <1>2, <1>3
<1>5. c \in listed => known[a] = enaddr[c] /\ waiting[a] = hold[c]
  BY MapBefore
<1>6. c \notin listed => known[a] = Zero /\ waiting[a] = <<>>
  <2>1. c \notin listed => \A d \in listed : iaddr[d] # a
    BY DEF TableSound
  <2> QED
    BY <2>1, MapBefore
<1> QED
  BY <1>4, <1>5, <1>6

\* Removal maps to the addresses being forgotten.
LEMMA MapRemove ==
  ASSUME TypeOK, TableSound, TableSound', NEW S \in SUBSET listed, Remove(S), UNCHANGED to
  PROVE  Service!Forget({iaddr[c] : c \in S})
<1> DEFINE A == {iaddr[c] : c \in S}
<1>1. listed' = listed \ S
  BY DEF Remove
<1>2. \A d \in listed' : iaddr'[d] = iaddr[d] /\ enaddr'[d] = enaddr[d] /\ hold'[d] = hold[d]
  BY DEF Remove, TypeOK
<1>3. ASSUME NEW b \in Addrs
      PROVE  /\ known'[b] = IF b \in A THEN Zero ELSE known[b]
             /\ waiting'[b] = IF b \in A THEN <<>> ELSE waiting[b]
  <2>1. CASE b \in A
    <3>1. \A d \in listed' : iaddr'[d] # b
      BY <1>1, <1>2, <2>1 DEF TableSound
    <3> QED
      BY <2>1, <3>1, MapAfter
  <2>2. CASE b \notin A /\ \E d \in listed : iaddr[d] = b
    <3>1. PICK d \in listed : iaddr[d] = b
      BY <2>2
    <3>2. d \in listed'
      BY <1>1, <2>2, <3>1
    <3>3. known'[b] = enaddr'[d] /\ waiting'[b] = hold'[d]
      BY <1>2, <3>1, <3>2, MapAfter
    <3> QED
      BY <1>2, <2>2, <3>1, <3>2, <3>3, MapBefore
  <2>3. CASE b \notin A /\ \A d \in listed : iaddr[d] # b
    <3>1. \A d \in listed' : iaddr'[d] # b
      BY <1>1, <1>2, <2>3
    <3> QED
      BY <2>3, <3>1, MapBefore, MapAfter
  <2> QED
    BY <2>1, <2>2, <2>3
<1>4. known' = [b \in Addrs |-> known'[b]] /\ waiting' = [b \in Addrs |-> waiting'[b]]
  BY DEF known, waiting
<1>5. /\ known' = [b \in Addrs |-> IF b \in A THEN Zero ELSE known[b]]
      /\ waiting' = [b \in Addrs |-> IF b \in A THEN <<>> ELSE waiting[b]]
  BY <1>3, <1>4
<1>6. \A p \in Packets : p \in queued(S) <=> \E b \in A : p \in Service!Elements(waiting[b])
  <2>1. \A c \in S : Service!Elements(waiting[iaddr[c]]) = Elems(hold[c])
    BY MapBefore, SameElements
  <2> QED
    BY <2>1 DEF queued
<1>7. fate' = [p \in Packets |->
                IF \E b \in A : p \in Service!Elements(waiting[b]) THEN "freed" ELSE fate[p]]
  BY <1>6 DEF Remove
<1> QED
  BY <1>5, <1>7 DEF Service!Forget

LEMMA StepMaps ==
  ASSUME TypeOK, TableSound, CacheLive, HeldSound, TableSound', [Next]_vars
  PROVE  Service!ArpNext \/ UNCHANGED Service!arpVars
<1> USE DEF Service!ArpNext, Service!arpVars
<1>1. ASSUME NEW p \in Packets, DownLost(p) \/ \E a \in Addrs : DownNoMemory(p, a)
      PROVE  Service!Refuse(p)
  BY <1>1, MapSame DEF DownLost, DownNoMemory, next, Service!Refuse
<1>2. ASSUME NEW p \in Packets, DownGroup(p) PROVE Service!SendToGroup(p)
  BY <1>2, MapSame DEF DownGroup, transmit, next, Service!SendToGroup
<1>3. ASSUME NEW p \in Packets, NEW a \in Addrs, DownCached(p, a) \/ DownKnown(p, a), alive
      PROVE  Service!Send(p, a)
  <2>1. PICK c \in listed : iaddr[c] = a /\ com(c) /\ transmit(p, enaddr[c])
    BY <1>3 DEF DownCached, DownKnown, cached, arptab_look, alive
  <2>2. known[a] = enaddr[c] /\ enaddr[c] # Zero
    BY <2>1, MapBefore DEF TableSound
  <2> QED
    BY <1>3, <2>1, <2>2, MapSame DEF DownCached, DownKnown, next, transmit, Service!Send
<1>4. ASSUME NEW p \in Packets, NEW a \in Addrs, DownHold(p, a) PROVE Service!Wait(p, a)
  <2>1. PICK c \in arptab_look(a) :
          /\ ~com(c)
          /\ IF Len(hold[c]) < HoldMax
               THEN /\ hold' = [hold EXCEPT ![c] = Append(@, p)]
                    /\ fate' = [fate EXCEPT ![p] = "held"]
               ELSE /\ hold' = [hold EXCEPT ![c] = Append(Tail(@), p)]
                    /\ fate' = [fate EXCEPT ![p] = "held", ![Head(hold[c])] = "freed"]
    BY <1>4 DEF DownHold
  <2>2. c \in listed /\ c \in Cells /\ iaddr[c] = a /\ hold \in [Cells -> Seq(Packets)]
    BY <2>1 DEF arptab_look, TypeOK
  <2>3. UNCHANGED <<listed, iaddr, enaddr, flags>>
    BY <1>4 DEF DownHold
  <2>4. \A d \in listed : d # c => hold'[d] = hold[d]
    BY <2>1, <2>2 DEF TypeOK
  <2>5. waiting' = [waiting EXCEPT ![a] = hold'[c]] /\ known[a] = enaddr[c] /\ waiting[a] = hold[c]
    BY <2>2, <2>3, <2>4, MapOne
  <2>6. known[a] = Zero
    BY <2>1, <2>2, <2>5 DEF TableSound
  <2>7. known' = known
    BY <2>3 DEF known, arptab_look, com
  <2>8. IF Len(waiting[a]) < HoldMax
         THEN /\ waiting' = [waiting EXCEPT ![a] = Append(waiting[a], p)]
              /\ fate' = [fate EXCEPT ![p] = "held"]
         ELSE /\ waiting' = [waiting EXCEPT ![a] = Append(Tail(waiting[a]), p)]
              /\ fate' = [fate EXCEPT ![p] = "held", ![Head(waiting[a])] = "freed"]
    BY <2>1, <2>2, <2>5
  <2> QED
    BY <1>4, <2>6, <2>7, <2>8 DEF DownHold, next, Service!Wait
<1>5. ASSUME NEW p \in Packets, NEW a \in Addrs, DownNew(p, a) PROVE Service!Wait(p, a)
  <2>1. PICK c \in Cells : arptnew(c, a, Zero, {}, <<p>>)
    BY <1>5 DEF DownNew
  <2>2. /\ c \notin listed /\ c \in listed' /\ listed' = listed \cup {c} /\ iaddr'[c] = a
        /\ \A d \in listed : iaddr'[d] = iaddr[d] /\ enaddr'[d] = enaddr[d] /\ hold'[d] = hold[d]
    BY <2>1 DEF arptnew, TypeOK
  <2>3. /\ known' = [known EXCEPT ![a] = Zero] /\ waiting' = [waiting EXCEPT ![a] = <<p>>]
        /\ known[a] = Zero /\ waiting[a] = <<>>
    <3>1. /\ known' = [known EXCEPT ![a] = enaddr'[c]]
          /\ waiting' = [waiting EXCEPT ![a] = hold'[c]]
          /\ known[a] = Zero /\ waiting[a] = <<>>
      BY <2>2, MapOne
    <3>2. enaddr'[c] = Zero /\ hold'[c] = <<p>>
      BY <2>1 DEF arptnew, TypeOK
    <3> QED
      BY <3>1, <3>2
  <2>4. known' = known
    BY <2>3 DEF known
  <2>5. Len(waiting[a]) < HoldMax /\ Append(waiting[a], p) = <<p>>
    BY <2>3, SizesAssumption
  <2> QED
    BY <1>5, <2>3, <2>4, <2>5 DEF DownNew, next, Service!Wait
<1>6. ASSUME NEW c \in Cells, NEW e \in EtherAddrs, RequestFromKnown(c, e)
      PROVE  Service!Learn(iaddr[c], e)
  <2>1. c \in listed /\ iaddr[c] \in Addrs /\ UNCHANGED <<listed, iaddr, hold, fate, to>>
    BY <1>6 DEF RequestFromKnown, TableSound
  <2>2. enaddr'[c] = e /\ \A d \in listed : d # c => enaddr'[d] = enaddr[d]
    BY <1>6 DEF RequestFromKnown, Complete, TypeOK
  <2>3. /\ known' = [known EXCEPT ![iaddr[c]] = e]
        /\ waiting' = [waiting EXCEPT ![iaddr[c]] = hold[c]] /\ waiting[iaddr[c]] = hold[c]
    BY <2>1, <2>2, MapOne
  <2>4. waiting' = waiting
    BY <2>3 DEF waiting
  <2> QED
    BY <2>1, <2>3, <2>4 DEF Service!Learn
<1>7. ASSUME NEW c \in Cells, NEW e \in EtherAddrs, process_arp_reply(c, e)
      PROVE  Service!Resolve(iaddr[c], e)
  <2>1. c \in listed /\ iaddr[c] \in Addrs /\ UNCHANGED <<listed, iaddr>>
    BY <1>7 DEF process_arp_reply, TableSound
  <2>2. /\ enaddr'[c] = e /\ hold'[c] = <<>>
        /\ \A d \in listed : d # c => enaddr'[d] = enaddr[d] /\ hold'[d] = hold[d]
    BY <1>7 DEF process_arp_reply, Complete, TypeOK
  <2>3. /\ known' = [known EXCEPT ![iaddr[c]] = e]
        /\ waiting' = [waiting EXCEPT ![iaddr[c]] = <<>>] /\ waiting[iaddr[c]] = hold[c]
    BY <2>1, <2>2, MapOne
  <2>4. Service!Elements(waiting[iaddr[c]]) = Elems(hold[c])
    BY <2>3, SameElements
  <2> QED
    BY <1>7, <2>3, <2>4 DEF process_arp_reply, Service!Resolve
<1>8. ASSUME NEW c \in Cells, NEW a \in Addrs, NEW e, NEW f,
             arptnew(c, a, e, f, <<>>), UNCHANGED <<fate, to>>
      PROVE  Service!Learn(a, e)
  <2>1. /\ c \notin listed /\ listed' = listed \cup {c} /\ iaddr'[c] = a
        /\ enaddr'[c] = e /\ hold'[c] = <<>>
        /\ \A d \in listed : iaddr'[d] = iaddr[d] /\ enaddr'[d] = enaddr[d] /\ hold'[d] = hold[d]
    BY <1>8 DEF arptnew, TypeOK
  <2>2. known' = [known EXCEPT ![a] = e] /\ waiting' = [waiting EXCEPT ![a] = <<>>]
        /\ waiting[a] = <<>> /\ known[a] = Zero
    BY <2>1, MapOne
  <2>3. waiting' = waiting
    BY <2>2 DEF waiting
  <2> QED
    BY <1>8, <2>2, <2>3 DEF Service!Learn
<1>9. ASSUME NEW a \in Addrs, NEW e \in EtherAddrs \cup {Broadcast}, RequestForUs(a, e)
      PROVE  (\E g \in EtherAddrs : Service!Learn(a, g)) \/ UNCHANGED Service!arpVars
  <2>1. UNCHANGED <<fate, to>>
    BY <1>9 DEF RequestForUs
  <2>2. CASE e \in EtherAddrs
    <3>1. PICK c \in Cells : arptnew(c, a, e, {"COM"}, <<>>)
      BY <1>9, <2>2, AddrsAssumption DEF RequestForUs
    <3> QED
      BY <1>8, <2>1, <2>2, <3>1
  <2>3. CASE e = Broadcast
    <3>1. PICK c \in Cells : arptnew(c, a, Zero, {}, <<>>)
      BY <1>9, <2>3 DEF RequestForUs
    <3>2. Service!Learn(a, Zero)
      BY <1>8, <2>1, <3>1
    <3>3. known[a] = Zero
      BY <1>9, MapBefore DEF RequestForUs, arptab_look
    <3>4. known' = known
      BY <3>2, <3>3 DEF Service!Learn, known
    <3> QED
      BY <3>2, <3>4 DEF Service!Learn
  <2> QED
    BY <2>2, <2>3
<1>10. ASSUME NEW c \in Cells, NEW a \in Addrs, NEW e \in EtherAddrs,
              NEW f \in SUBSET {"PERM"}, arp_change(c, a, e, f)
       PROVE  Service!Learn(a, e)
  <2>1. UNCHANGED <<fate, to>>
    BY <1>10 DEF arp_change
  <2>2. CASE arptnew(c, a, e, {"COM"} \cup f, <<>>)
    BY <1>8, <2>1, <2>2
  <2>3. CASE /\ c \in arptab_look(a) /\ enaddr' = [enaddr EXCEPT ![c] = e]
             /\ UNCHANGED <<listed, iaddr, hold>>
    <3>1. /\ c \in listed /\ iaddr[c] = a /\ enaddr'[c] = e
          /\ \A d \in listed : d # c => enaddr'[d] = enaddr[d]
      BY <2>3 DEF arptab_look, TypeOK
    <3>2. /\ known' = [known EXCEPT ![a] = e]
          /\ waiting' = [waiting EXCEPT ![a] = hold[c]] /\ waiting[a] = hold[c]
      BY <2>3, <3>1, MapOne
    <3>3. waiting' = waiting
      BY <3>2 DEF waiting
    <3> QED
      BY <2>1, <3>2, <3>3 DEF Service!Learn
  <2> QED
    BY <1>10, <2>2, <2>3 DEF arp_change
<1>11. ASSUME NEW S \in SUBSET listed, Remove(S), UNCHANGED to
       PROVE  \E A \in SUBSET Addrs : Service!Forget(A)
  <2>1. {iaddr[c] : c \in S} \in SUBSET Addrs
    BY DEF TableSound
  <2> QED
    BY <1>11, <2>1, MapRemove
<1>12. ASSUME UNCHANGED <<listed, iaddr, enaddr, flags, hold, fate, to>>
       PROVE  UNCHANGED Service!arpVars
  BY <1>12, MapSame
<1>13. CASE \/ \E a \in Ours : SetAddr(a) \/ DelAddr(a)
            \/ BusyTick \/ UNCHANGED vars
  BY <1>12, <1>13 DEF SetAddr, DelAddr, BusyTick, vars
<1>14. CASE arptick \/ \E c \in Cells : arp_delete(c) \/ TickInCall(c)
  BY <1>11, <1>14 DEF arptick, TickInCall, age, arp_delete, expired
<1>15. CASE ~astray /\ Down
  BY <1>1, <1>2, <1>3, <1>4, <1>5, <1>15 DEF Down, CacheLive
<1>16. CASE process_arp
  <2>1. \A c \in listed : iaddr[c] \in Addrs
    BY DEF TableSound
  <2> QED
    BY <1>6, <1>7, <1>9, <1>16, <2>1 DEF process_arp, RequestFromKnown, process_arp_reply
<1>17. CASE \E c \in Cells, a \in Addrs, e \in EtherAddrs, f \in SUBSET {"PERM"} :
              arp_change(c, a, e, f)
  BY <1>10, <1>17
<1> QED
  BY <1>13, <1>14, <1>15, <1>16, <1>17 DEF Next, Step, Undefined, Manage

\* Whoever sends packets through the cache sees an address resolution service:
\* nobody can tell the cache, its timer and its pointer from AddressResolution, until
\* a tick has freed the entry a call has in hand.
THEOREM Implements == Spec => ResolutionSpec
<1>1. Init => Service!ArpInit
  <2> SUFFICES ASSUME Init PROVE Service!ArpInit
    OBVIOUS
  <2>1. known = [a \in Addrs |-> Zero] /\ waiting = [a \in Addrs |-> <<>>]
    BY DEF Init, known, waiting, arptab_look
  <2> QED
    BY <2>1 DEF Init, Service!ArpInit
<1>2. TypeOK /\ TableSound /\ CacheLive /\ HeldSound /\ TableSound' /\ [Next]_vars
      => [Service!ArpNext]_(Service!arpVars)
  BY StepMaps
<1> QED
  BY <1>1, <1>2, TypeCorrect, TableIsSound, CacheIsLive, Held, PTL
     DEF Spec, ResolutionSpec, Service!ArpSpec
-----------------------------------------------------------------------------
(***************************************************************************)
(* What senders may conclude: guarantees of the abstract service.          *)
(***************************************************************************)
\* A packet is sent to some address, and only a packet that is sent has one.
Addressed == \A p \in Packets : fate[p] = "sent" <=> to[p] # Zero

\* Fates are final, and a packet that waits is not new again.
Final ==
  \A p \in Packets :
    /\ fate[p] \in {"sent", "freed"} => fate'[p] = fate[p] /\ to'[p] = to[p]
    /\ fate[p] = "held" => fate'[p] # "new"

\* Waiting packets are held packets.
LEMMA WaitersHeld ==
  ASSUME TableSound, HeldSound, NEW a \in Addrs, NEW p \in Packets,
         p \in Service!Elements(waiting[a])
  PROVE  fate[p] = "held"
<1>1. PICK c \in listed : waiting[a] = hold[c]
  <2>1. ~(\A c \in listed : iaddr[c] # a)
    BY MapBefore DEF Service!Elements
  <2> QED
    BY <2>1, MapBefore
<1> QED
  BY <1>1, SameElements DEF HeldSound

\* Addresses of stations are not zero.
LEMMA NotZero == \A e \in EtherAddrs \cup {Broadcast} : e # Zero
  BY AddrsAssumption

LEMMA ServiceStep ==
  ASSUME TypeOK, TableSound, HeldSound, Addressed, Service!ArpNext \/ UNCHANGED Service!arpVars,
         known \in [Addrs -> EtherAddrs \cup {Zero}]
  PROVE  Final /\ Addressed'
<1>0. /\ fate \in [Packets -> Fates] /\ to \in [Packets -> EtherAddrs \cup {Zero, Broadcast}]
  BY DEF TypeOK
<1>1. CASE UNCHANGED Service!arpVars
  BY <1>1 DEF Service!arpVars, Final, Addressed
<1>2. ASSUME NEW p \in Packets, Service!SendToGroup(p) PROVE Final /\ Addressed'
  BY <1>0, <1>2, NotZero DEF Service!SendToGroup, Final, Addressed
<1>3. ASSUME NEW p \in Packets, Service!Refuse(p) PROVE Final /\ Addressed'
  BY <1>0, <1>3 DEF Service!Refuse, Final, Addressed
<1>4. ASSUME NEW p \in Packets, NEW a \in Addrs, Service!Send(p, a) PROVE Final /\ Addressed'
  BY <1>0, <1>4 DEF Service!Send, Final, Addressed
<1>5. ASSUME NEW p \in Packets, NEW a \in Addrs, Service!Wait(p, a) PROVE Final /\ Addressed'
  <2>0. fate[p] = "new" /\ to' = to
    BY <1>5 DEF Service!Wait
  <2>1. CASE Len(waiting[a]) < HoldMax
    <3>1. fate' = [fate EXCEPT ![p] = "held"]
      BY <1>5, <2>1 DEF Service!Wait
    <3> QED
      BY <1>0, <2>0, <3>1 DEF Final, Addressed
  <2>2. CASE ~(Len(waiting[a]) < HoldMax)
    <3>1. fate' = [fate EXCEPT ![p] = "held", ![Head(waiting[a])] = "freed"]
      BY <1>5, <2>2 DEF Service!Wait
    <3>2. waiting[a] \in Seq(Packets)
      <4>1. CASE \E c \in listed : iaddr[c] = a
        BY <4>1, MapBefore DEF TypeOK
      <4>2. CASE \A c \in listed : iaddr[c] # a
        <5>1. waiting[a] = <<>>
          BY <4>2, MapBefore
        <5> QED
          BY <5>1
      <4> QED
        BY <4>1, <4>2
    <3>3. Head(waiting[a]) = waiting[a][1] /\ 1 \in 1 .. Len(waiting[a])
      BY <2>2, <3>2, SizesAssumption
    <3>4. fate[Head(waiting[a])] = "held" /\ Head(waiting[a]) \in Packets
      BY <3>2, <3>3, WaitersHeld DEF Service!Elements
    <3> QED
      BY <1>0, <2>0, <3>1, <3>4 DEF Final, Addressed
  <2> QED
    BY <2>1, <2>2
<1>6. ASSUME NEW a \in Addrs, NEW e \in EtherAddrs, Service!Learn(a, e) PROVE Final /\ Addressed'
  BY <1>6 DEF Service!Learn, Final, Addressed
<1>7. ASSUME NEW a \in Addrs, NEW e \in EtherAddrs, Service!Resolve(a, e)
      PROVE  Final /\ Addressed'
  BY <1>0, <1>7, WaitersHeld, NotZero DEF Service!Resolve, Final, Addressed
<1>8. ASSUME NEW S \in SUBSET Addrs, Service!Forget(S) PROVE Final /\ Addressed'
  <2>1. /\ to' = to
        /\ \A p \in Packets : fate'[p] = fate[p] \/ (fate[p] = "held" /\ fate'[p] = "freed")
    BY <1>8, WaitersHeld DEF Service!Forget
  <2> QED
    BY <2>1 DEF Final, Addressed
<1> QED
  BY <1>1, <1>2, <1>3, <1>4, <1>5, <1>6, <1>7, <1>8 DEF Service!ArpNext

LEMMA KnownType == TypeOK => known \in [Addrs -> EtherAddrs \cup {Zero}]
<1> SUFFICES ASSUME TypeOK PROVE known \in [Addrs -> EtherAddrs \cup {Zero}]
  OBVIOUS
<1>1. ASSUME NEW a \in Addrs, \E c \in arptab_look(a) : com(c)
      PROVE  enaddr[CHOOSE c \in arptab_look(a) : com(c)] \in EtherAddrs \cup {Zero}
  <2>1. (CHOOSE c \in arptab_look(a) : com(c)) \in Cells
    BY <1>1 DEF arptab_look, TypeOK
  <2> QED
    BY <2>1 DEF TypeOK
<1> QED
  BY <1>1 DEF known

LEMMA FateStep ==
  ASSUME TypeOK, TableSound, CacheLive, HeldSound, Addressed, TableSound', [Next]_vars
  PROVE  Final /\ Addressed'
  BY StepMaps, ServiceStep, KnownType

LEMMA InitAddressed == Init => Addressed
  BY DEF Init, Addressed

\* A packet meets one fate: what was sent or freed is neither sent nor freed again, in
\* whatever order replies, ticks, deletions and packets to the same host come, until a tick
\* has freed the entry a call has in hand.
THEOREM OneFate == Spec => [][Final]_vars
<1>1. TypeOK /\ TableSound /\ CacheLive /\ HeldSound /\ Addressed /\ TableSound' /\ [Next]_vars
      => [Final]_vars /\ Addressed'
  BY FateStep
<1> QED
  BY InitAddressed, <1>1, TypeCorrect, TableIsSound, CacheIsLive, Held, PTL DEF Spec

\* No packet leaves without a hardware address, neither by the pointer to the entry used
\* last nor by an entry just completed, changed or made, until a tick has freed the entry a
\* call has in hand.
THEOREM SentToSomeone == Spec => []Addressed
<1>1. TypeOK /\ TableSound /\ CacheLive /\ HeldSound /\ Addressed /\ TableSound' /\ [Next]_vars
      => Addressed'
  BY FateStep
<1> QED
  BY InitAddressed, <1>1, TypeCorrect, TableIsSound, CacheIsLive, Held, PTL DEF Spec
=============================================================================
