-------------------------- MODULE SpenetArpProofs --------------------------
(***************************************************************************)
(* Theorems about SpenetArp for every set of addresses and entries, every  *)
(* number of packets, every lifetime and number of held packets.  They     *)
(* speak of the driver up to the first use of freed memory: a tick that    *)
(* frees the entry a call has in hand (TickInCall) is its last step.       *)
(***************************************************************************)
EXTENDS SpenetArp, TLAPS

USE DEF table, packets

-----------------------------------------------------------------------------
(***************************************************************************)
(* Lemmas about the operators.                                             *)
(***************************************************************************)
\* arptnew() links a cell that was free and sets its fields, its timer to zero.
LEMMA NewType ==
  ASSUME TypeOK,
         NEW c \in Cells, NEW a \in Addrs, NEW e \in EtherAddrs \cup {Zero},
         NEW f \in SUBSET Flags, NEW h \in Seq(Packets),
         arptnew(c, a, e, f, h)
  PROVE  /\ listed' \subseteq Cells
         /\ iaddr' \in [Cells -> Addrs \cup {NoAddr}]
         /\ enaddr' \in [Cells -> EtherAddrs \cup {Zero}]
         /\ flags' \in [Cells -> SUBSET Flags]
         /\ timer' \in [Cells -> 0 .. 255]
         /\ hold' \in [Cells -> Seq(Packets)]
         /\ idle' \in [Cells -> Nat]
<1>1. timer' \in [Cells -> 0 .. 255] /\ idle' \in [Cells -> Nat]
  BY SMTT(30) DEF TypeOK, arptnew, Refresh
<1>2. hold' \in [Cells -> Seq(Packets)]
  BY DEF TypeOK, arptnew
<1> QED
  BY <1>1, <1>2 DEF TypeOK, arptnew

\* arp_entry_remove() leaves every field well typed.
LEMMA RemoveType ==
  ASSUME TypeOK, NEW S \in SUBSET Cells, Remove(S)
  PROVE  /\ listed' \subseteq Cells
         /\ iaddr' \in [Cells -> Addrs \cup {NoAddr}]
         /\ enaddr' \in [Cells -> EtherAddrs \cup {Zero}]
         /\ flags' \in [Cells -> SUBSET Flags]
         /\ hold' \in [Cells -> Seq(Packets)]
         /\ fate' \in [Packets -> Fates]
         /\ routes' \in [Addrs -> EtherAddrs \cup {Zero}]
<1>1. hold' \in [Cells -> Seq(Packets)]
  <2>1. << >> \in Seq(Packets)
    OBVIOUS
  <2> QED
    BY <2>1 DEF TypeOK, Remove
<1>2. fate' \in [Packets -> Fates] /\ routes' \in [Addrs -> EtherAddrs \cup {Zero}]
  BY DEF TypeOK, Remove, Fates
<1> QED
  BY <1>1, <1>2 DEF TypeOK, Remove

\* A full queue that drops its head and appends is still a queue.
LEMMA PushType ==
  ASSUME NEW h \in Seq(Packets), NEW p \in Packets
  PROVE  /\ Append(h, p) \in Seq(Packets)
         /\ Len(h) > 0 => /\ Head(h) \in Packets
                          /\ Append(Tail(h), p) \in Seq(Packets)
  OBVIOUS

\* The timer never wraps: it is one byte.
LEMMA AgedByte ==
  ASSUME TypeOK, NEW c \in Cells
  PROVE  aged(c) \in 0 .. 255
<1>1. timer \in [Cells -> 0 .. 255] /\ busy_count \in 0 .. MaxBusy
  BY DEF TypeOK
<1>2. timer[c] \in Nat /\ busy_count \in Nat
  BY <1>1, SizesAssumption
<1>3. (timer[c] + busy_count + 1) % 256 \in 0 .. 255
  BY <1>2
<1> QED
  BY <1>3 DEF aged

-----------------------------------------------------------------------------
(***************************************************************************)
(* Type correctness.                                                       *)
(***************************************************************************)
LEMMA InitType == Init => TypeOK
<1> SUFFICES ASSUME Init PROVE TypeOK
  OBVIOUS
<1>1. hold \in [Cells -> Seq(Packets)]
  BY DEF Init
<1>2. busy_count \in 0 .. MaxBusy /\ calls \in 0 .. MaxCalls
  BY SizesAssumption DEF Init
<1>3. astray \in BOOLEAN
  BY DEF Init
<1> QED
  BY <1>1, <1>2, <1>3 DEF Init, TypeOK, Flags, Fates

LEMMA TypeStep == TypeOK /\ [Next]_vars => TypeOK'
<1> SUFFICES ASSUME TypeOK, [Next]_vars PROVE TypeOK'
  OBVIOUS
<1> USE DEF Fates, Flags
<1>0. astray' \in BOOLEAN
  BY DEF TypeOK, Next, TickInCall, Undefined, vars
<1> USE <1>0
<1>1. ASSUME NEW p \in Packets, DownLost(p) PROVE TypeOK'
  BY <1>1 DEF TypeOK, DownLost
<1>2. ASSUME NEW p \in Packets, DownGroup(p) PROVE TypeOK'
  BY <1>2 DEF TypeOK, DownGroup, transmit
<1>3. ASSUME NEW p \in Packets, NEW a \in Addrs, DownCached(p, a) PROVE TypeOK'
  BY <1>3 DEF TypeOK, DownCached, transmit, Refresh, cached
<1>4. ASSUME NEW p \in Packets, NEW a \in Addrs, DownKnown(p, a) PROVE TypeOK'
  BY <1>4 DEF TypeOK, DownKnown, transmit, Refresh, arptab_look
<1>5. ASSUME NEW p \in Packets, NEW a \in Addrs, DownHold(p, a) PROVE TypeOK'
  <2>1. PICK c \in listed :
          /\ Refresh(c)
          /\ \/ /\ hold' = [hold EXCEPT ![c] = Append(@, p)]
                /\ fate' = [fate EXCEPT ![p] = "held"]
             \/ /\ Len(hold[c]) > 0
                /\ hold' = [hold EXCEPT ![c] = Append(Tail(@), p)]
                /\ fate' = [fate EXCEPT ![p] = "held", ![Head(hold[c])] = "freed"]
    <3>1. PICK c \in arptab_look(a) :
            /\ Refresh(c)
            /\ IF Len(hold[c]) < HoldMax
                 THEN /\ hold' = [hold EXCEPT ![c] = Append(@, p)]
                      /\ fate' = [fate EXCEPT ![p] = "held"]
                 ELSE /\ hold' = [hold EXCEPT ![c] = Append(Tail(@), p)]
                      /\ fate' = [fate EXCEPT ![p] = "held", ![Head(hold[c])] = "freed"]
        BY <1>5 DEF DownHold
    <3>2. c \in listed /\ hold[c] \in Seq(Packets)
      BY <3>1 DEF arptab_look, TypeOK
    <3>3. Len(hold[c]) < HoldMax \/ Len(hold[c]) > 0
      BY <3>2, SizesAssumption
    <3> QED
      BY <3>1, <3>2, <3>3
  <2>2. c \in Cells /\ hold[c] \in Seq(Packets)
    BY <2>1 DEF TypeOK
  <2>3. hold' \in [Cells -> Seq(Packets)]
    <3>1. /\ Append(hold[c], p) \in Seq(Packets)
          /\ Len(hold[c]) > 0 => Append(Tail(hold[c]), p) \in Seq(Packets)
      BY <2>2, PushType
    <3>2. hold \in [Cells -> Seq(Packets)]
      BY DEF TypeOK
    <3>3. \/ hold' = [hold EXCEPT ![c] = Append(hold[c], p)]
          \/ Len(hold[c]) > 0 /\ hold' = [hold EXCEPT ![c] = Append(Tail(hold[c]), p)]
      BY <2>1, Zenon
    <3> QED
      BY <2>2, <3>1, <3>2, <3>3
  <2>4. fate' \in [Packets -> Fates]
    BY <2>1 DEF TypeOK
  <2>5. timer' \in [Cells -> 0 .. 255] /\ idle' \in [Cells -> Nat]
    BY <2>1 DEF TypeOK, Refresh
  <2> QED
    BY <1>5, <2>3, <2>4, <2>5 DEF TypeOK, DownHold
<1>6. ASSUME NEW p \in Packets, NEW a \in Addrs, DownNew(p, a) PROVE TypeOK'
  <2>1. PICK c \in Cells : arptnew(c, a, Zero, {}, <<p>>)
    BY <1>6 DEF DownNew
  <2>2. <<p>> \in Seq(Packets)
    OBVIOUS
  <2> QED
    BY <1>6, <2>1, <2>2, NewType DEF TypeOK, DownNew
<1>7. ASSUME NEW p \in Packets, NEW a \in Addrs, DownNoMemory(p, a) PROVE TypeOK'
  BY <1>7 DEF TypeOK, DownNoMemory
<1>8. ASSUME NEW c \in Cells, NEW e \in EtherAddrs, RequestFromKnown(c, e) PROVE TypeOK'
  BY <1>8 DEF TypeOK, RequestFromKnown, Complete
<1>9. ASSUME NEW c \in Cells, NEW e \in EtherAddrs, process_arp_reply(c, e) PROVE TypeOK'
  <2>1. hold' \in [Cells -> Seq(Packets)]
    BY <1>9 DEF TypeOK, process_arp_reply
  <2> QED
    BY <1>9, <2>1 DEF TypeOK, process_arp_reply, Complete
<1>10. ASSUME NEW a \in Addrs, NEW e \in EtherAddrs \cup {Broadcast}, RequestForUs(a, e)
       PROVE  TypeOK'
  <2>1. << >> \in Seq(Packets)
    OBVIOUS
  <2>2. PICK c \in Cells :
          \/ arptnew(c, a, Zero, {}, <<>>) /\ UNCHANGED routes
          \/ /\ e \in EtherAddrs
             /\ arptnew(c, a, e, {"COM"}, <<>>)
             /\ routes' = [routes EXCEPT ![a] = e]
    BY <1>10 DEF RequestForUs
  <2>3. routes' \in [Addrs -> EtherAddrs \cup {Zero}]
    BY <2>2 DEF TypeOK
  <2> QED
    BY <1>10, <2>1, <2>2, <2>3, NewType DEF TypeOK, RequestForUs
<1>11. ASSUME NEW c \in Cells, arp_delete(c) PROVE TypeOK'
  <2>1. timer' \in [Cells -> 0 .. 255] /\ idle' \in [Cells -> Nat]
    <3>1. timer \in [Cells -> 0 .. 255] /\ idle \in [Cells -> Nat]
      BY DEF TypeOK
    <3>2. timer' = [timer EXCEPT ![c] = 0] /\ idle' = [idle EXCEPT ![c] = 0]
      BY <1>11 DEF arp_delete
    <3> QED
      BY <3>1, <3>2
  <2>2. calls' \in 0 .. MaxCalls
    BY <1>11, SizesAssumption DEF TypeOK, arp_delete, call
  <2>3. Remove({c}) /\ resetCache({c}) /\ UNCHANGED <<busy_count, addr_list, to>>
    BY <1>11 DEF arp_delete
  <2>4. arpent_cache' \in Cells \cup {Root}
    BY <2>3 DEF TypeOK, resetCache
  <2>5. {c} \in SUBSET Cells
    OBVIOUS
  <2>6. /\ busy_count' \in 0 .. MaxBusy /\ addr_list' \in [Slots -> Ours \cup {NoAddr}]
        /\ to' \in [Packets -> EtherAddrs \cup {Zero, Broadcast}]
    BY <2>3 DEF TypeOK
  <2> QED
    BY <2>1, <2>2, <2>3, <2>4, <2>5, <2>6, RemoveType DEF TypeOK
<1>12. ASSUME NEW c \in Cells, NEW a \in Addrs, NEW e \in EtherAddrs,
              NEW f \in SUBSET {"PERM"}, arp_change(c, a, e, f)
       PROVE  TypeOK'
  <2>1. calls' \in 0 .. MaxCalls
    BY <1>12, SizesAssumption DEF TypeOK, arp_change, call
  <2>2. CASE c \in arptab_look(a) /\ UNCHANGED <<listed, iaddr, hold>>
    <3>1. /\ enaddr' = [enaddr EXCEPT ![c] = e]
          /\ flags' = [flags EXCEPT ![c] = {"COM"} \cup f]
          /\ timer' = [timer EXCEPT ![c] = 0] /\ idle' = [idle EXCEPT ![c] = 0]
          /\ arpent_cache' \in {arpent_cache, Root}
      BY <1>12, <2>2 DEF arp_change, Refresh, resetCache, arptnew
    <3>2. timer' \in [Cells -> 0 .. 255] /\ idle' \in [Cells -> Nat]
      <4>1. timer \in [Cells -> 0 .. 255] /\ idle \in [Cells -> Nat]
        BY DEF TypeOK
      <4> QED
        BY <3>1, <4>1
    <3> QED
      BY <1>12, <2>1, <2>2, <3>1, <3>2 DEF TypeOK, arp_change
  <2>3. CASE arptnew(c, a, e, {"COM"} \cup f, <<>>) /\ UNCHANGED arpent_cache
    <3>1. << >> \in Seq(Packets)
      OBVIOUS
    <3> QED
      BY <1>12, <2>1, <2>3, <3>1, NewType DEF TypeOK, arp_change
  <2> QED
    BY <1>12, <2>2, <2>3 DEF arp_change
<1>13. ASSUME NEW a \in Ours, SetAddr(a) PROVE TypeOK'
  <2>1. addr_list' \in [Slots -> Ours \cup {NoAddr}]
    BY <1>13 DEF TypeOK, SetAddr
  <2>2. UNCHANGED <<table, arpent_cache, busy_count, packets, routes, calls>>
    BY <1>13 DEF SetAddr
  <2> QED
    BY <2>1, <2>2 DEF TypeOK, table, packets
<1>14. ASSUME NEW a \in Ours, DelAddr(a) PROVE TypeOK'
  BY <1>14 DEF TypeOK, DelAddr
<1>15. ASSUME age, arpent_cache' \in Cells \cup {Root} PROVE TypeOK'
  <2>1. expired \in SUBSET Cells
    BY DEF expired, TypeOK
  <2>2. timer' \in [Cells -> 0 .. 255]
    BY <1>15, AgedByte DEF TypeOK, age
  <2>3. idle' \in [Cells -> Nat]
    BY <1>15 DEF TypeOK, age
  <2>4. busy_count' \in 0 .. MaxBusy
    BY <1>15, SizesAssumption DEF age
  <2> QED
    BY <1>15, <2>1, <2>2, <2>3, <2>4, RemoveType DEF TypeOK, age
<1>16. CASE BusyTick
  <2>1. busy_count' \in 0 .. MaxBusy
    BY <1>16, SizesAssumption DEF TypeOK, BusyTick
  <2>2. idle' \in [Cells -> Nat]
    BY <1>16 DEF TypeOK, BusyTick
  <2> QED
    BY <1>16, <2>1, <2>2 DEF TypeOK, BusyTick
<1>17. CASE arptick \/ \E c \in Cells : TickInCall(c)
  BY <1>15, <1>17 DEF TypeOK, arptick, TickInCall, resetCache
<1>18. CASE UNCHANGED vars
  BY <1>18 DEF TypeOK, vars
<1> QED
  BY <1>1, <1>2, <1>3, <1>4, <1>5, <1>6, <1>7, <1>8, <1>9, <1>10, <1>11, <1>12,
     <1>13, <1>14, <1>16, <1>17, <1>18
     DEF Next, Step, Undefined, Down, process_arp, Manage

\* Every variable of the cache keeps its type; the timer of an entry stays a byte.
THEOREM TypeCorrect == Spec => []TypeOK
  BY InitType, TypeStep, PTL DEF Spec

-----------------------------------------------------------------------------
(***************************************************************************)
(* The table and the cached pointer.  They are inductive together with     *)
(* TypeOK: what dr_downdata() caches comes from the list, and whatever     *)
(* leaves the list passes resetCache().                                    *)
(***************************************************************************)

\* A new entry for an address without one keeps the table sound.
LEMMA NewSound ==
  ASSUME TypeOK, TableSound, alive,
         NEW c \in Cells, NEW a \in Addrs, NEW e \in EtherAddrs \cup {Zero},
         NEW f \in SUBSET Flags, NEW h,
         arptnew(c, a, e, f, h),
         arptab_look(a) = {},
         "COM" \in f <=> e # Zero, f # {} => "COM" \in f,
         UNCHANGED arpent_cache
  PROVE  TableSound' /\ alive'
<1>1. TableSound'
  BY DEF TypeOK, TableSound, arptnew, arptab_look, com
<1>2. alive'
  BY DEF TypeOK, alive, arptnew, com
<1> QED
  BY <1>1, <1>2

\* Removal of any entries keeps the table sound, whatever pointer is left.
LEMMA RemoveTable ==
  ASSUME TypeOK, TableSound, NEW S \in SUBSET listed, Remove(S)
  PROVE  TableSound'
  BY DEF TypeOK, TableSound, Remove, com

\* Removal of any entries keeps the pointer alive when it is reset.
LEMMA RemoveSound ==
  ASSUME TypeOK, TableSound, alive,
         NEW S \in SUBSET listed, Remove(S), resetCache(S)
  PROVE  TableSound' /\ alive'
<1>1. TableSound'
  BY RemoveTable
<1>2. alive'
  BY AddrsAssumption DEF TypeOK, alive, Remove, resetCache, com
<1> QED
  BY <1>1, <1>2

\* Neither does an entry lose anything when it is completed.
LEMMA CompleteSound ==
  ASSUME TypeOK, TableSound, alive,
         NEW c \in listed, NEW e \in EtherAddrs, Complete(c, e),
         UNCHANGED <<listed, iaddr, arpent_cache>>,
         UNCHANGED hold \/ hold' = [hold EXCEPT ![c] = <<>>]
  PROVE  TableSound' /\ alive'
<1>1. TableSound'
  BY AddrsAssumption DEF TypeOK, TableSound, Complete, com
<1>2. alive'
  BY DEF TypeOK, alive, Complete, com
<1> QED
  BY <1>1, <1>2

LEMMA InitSound == Init => TableSound /\ CacheLive
  BY DEF Init, TableSound, CacheLive, alive

\* No call and no tick between calls leaves the pointer to an entry that is gone.
LEMMA AliveStep ==
  ASSUME TypeOK, TableSound, alive, Step \/ UNCHANGED vars
  PROVE  TableSound' /\ alive'
<1>1. ASSUME UNCHANGED <<listed, iaddr, enaddr, flags, hold, arpent_cache>>
      PROVE  TableSound' /\ alive'
  BY <1>1 DEF TableSound, alive, com
<1>2. ASSUME NEW p \in Packets, NEW a \in Addrs, DownKnown(p, a)
      PROVE  TableSound' /\ alive'
  <2>1. TableSound'
    BY <1>2 DEF TableSound, DownKnown, com
  <2>2. alive'
    BY <1>2 DEF alive, DownKnown, arptab_look, com
  <2> QED
    BY <2>1, <2>2
<1>3. ASSUME NEW p \in Packets, NEW a \in Addrs, DownHold(p, a)
      PROVE  TableSound' /\ alive'
  <2>1. \A d \in Cells \ listed : hold'[d] = hold[d]
    BY <1>3 DEF DownHold, arptab_look, TypeOK
  <2>2. TableSound'
    BY <1>3, <2>1 DEF TableSound, DownHold, com
  <2>3. alive'
    BY <1>3 DEF alive, DownHold, com
  <2> QED
    BY <2>2, <2>3
<1>4. ASSUME NEW p \in Packets, NEW a \in Addrs, DownNew(p, a)
      PROVE  TableSound' /\ alive'
  BY <1>4, NewSound DEF DownNew, Flags
<1>5. ASSUME NEW c \in Cells, NEW e \in EtherAddrs, RequestFromKnown(c, e)
      PROVE  TableSound' /\ alive'
  BY <1>5, CompleteSound DEF RequestFromKnown
<1>6. ASSUME NEW c \in Cells, NEW e \in EtherAddrs, process_arp_reply(c, e)
      PROVE  TableSound' /\ alive'
  BY <1>6, CompleteSound DEF process_arp_reply
<1>7. ASSUME NEW a \in Addrs, NEW e \in EtherAddrs \cup {Broadcast}, RequestForUs(a, e)
      PROVE  TableSound' /\ alive'
  <2>1. PICK c \in Cells :
          \/ arptnew(c, a, Zero, {}, <<>>)
          \/ e \in EtherAddrs /\ arptnew(c, a, e, {"COM"}, <<>>)
    BY <1>7 DEF RequestForUs
  <2> QED
    BY <1>7, <2>1, NewSound, AddrsAssumption DEF RequestForUs, Flags
<1>8. ASSUME NEW c \in Cells, arp_delete(c)
      PROVE  TableSound' /\ alive'
  BY <1>8, RemoveSound DEF arp_delete
<1>9. ASSUME NEW c \in Cells, NEW a \in Addrs, NEW e \in EtherAddrs,
             NEW f \in SUBSET {"PERM"}, arp_change(c, a, e, f)
      PROVE  TableSound' /\ alive'
  <2>1. CASE arptnew(c, a, e, {"COM"} \cup f, <<>>) /\ arptab_look(a) = {}
    BY <1>9, <2>1, NewSound, AddrsAssumption DEF arp_change, Flags, arptab_look
  <2>2. CASE /\ c \in arptab_look(a)
             /\ enaddr' = [enaddr EXCEPT ![c] = e]
             /\ flags' = [flags EXCEPT ![c] = {"COM"} \cup f]
             /\ resetCache({c})
             /\ UNCHANGED <<listed, iaddr, hold>>
    <3>1. TableSound'
      BY <2>2, AddrsAssumption DEF TypeOK, TableSound, com, arptab_look
    <3>2. alive'
      BY <2>2, AddrsAssumption DEF TypeOK, alive, com, resetCache
    <3> QED
      BY <3>1, <3>2
  <2> QED
    BY <1>9, <2>1, <2>2 DEF arp_change
<1>10. CASE arptick
  BY <1>10, RemoveSound DEF arptick, age, expired
<1>11. CASE \/ \E p \in Packets : DownLost(p) \/ DownGroup(p)
            \/ \E p \in Packets, a \in Addrs : DownCached(p, a) \/ DownNoMemory(p, a)
            \/ \E a \in Ours : SetAddr(a) \/ DelAddr(a)
            \/ BusyTick \/ UNCHANGED vars
  BY <1>1, <1>11 DEF DownLost, DownGroup, DownCached, DownNoMemory, SetAddr, DelAddr,
                     BusyTick, vars
<1> QED
  BY <1>2, <1>3, <1>4, <1>5, <1>6, <1>7, <1>8, <1>9, <1>10, <1>11
     DEF Step, Down, process_arp, Manage

\* A tick within a call may leave it so, and this is remembered.
LEMMA SoundStep == TypeOK /\ TableSound /\ CacheLive /\ [Next]_vars => TableSound' /\ CacheLive'
<1> SUFFICES ASSUME TypeOK, TableSound, CacheLive, [Next]_vars
             PROVE  TableSound' /\ CacheLive'
  OBVIOUS
<1>1. CASE ~astray /\ Step
  BY <1>1, AliveStep DEF CacheLive
<1>2. CASE UNCHANGED vars
  BY <1>2 DEF vars, TableSound, CacheLive, alive, com
<1>3. ASSUME NEW c \in Cells, TickInCall(c) PROVE TableSound' /\ CacheLive'
  <2>1. Remove(expired) /\ expired \in SUBSET listed /\ astray' = TRUE
    BY <1>3 DEF TickInCall, age, expired
  <2> QED
    BY <2>1, RemoveTable DEF CacheLive
<1> QED
  BY <1>1, <1>2, <1>3 DEF Next, Undefined

\* The list of entries stays sound, whatever is sent, heard or called for.
THEOREM TableIsSound == Spec => []TableSound
  BY InitType, TypeStep, InitSound, SoundStep, PTL DEF Spec

\* Unless a tick has come between arptab_look(), or the test of the cached address, and
\* the use of what was found, and freed it, the cached pointer names a listed entry with
\* an address: no other removal and no management call leaves it behind.
THEOREM CacheIsLive == Spec => []CacheLive
  BY InitType, TypeStep, InitSound, SoundStep, PTL DEF Spec

-----------------------------------------------------------------------------
(***************************************************************************)
(* The lifetime of entries.  at_timer counts the ticks that were counted,  *)
(* busy_count those put off: together they are never behind.               *)
(***************************************************************************)
Counted ==
  \A c \in listed : ~perm(c) =>
    timer[c] <= lifetime(c) /\ idle[c] <= timer[c] + busy_count

\* An entry just set or used has idled for no tick.
LEMMA FreshCounted ==
  ASSUME TypeOK, Counted,
         NEW c \in Cells, Refresh(c), listed' \subseteq listed \cup {c},
         UNCHANGED busy_count,
         \A d \in listed \ {c} : flags'[d] = flags[d]
  PROVE  Counted'
<1> SUFFICES ASSUME NEW d \in listed', ~perm(d)'
             PROVE  (timer[d] <= lifetime(d) /\ idle[d] <= timer[d] + busy_count)'
  BY DEF Counted
<1>1. d \in Cells /\ busy_count \in Nat
  BY SizesAssumption DEF TypeOK
<1>2. CASE d = c
  <2>1. timer'[d] = 0 /\ idle'[d] = 0
    BY <1>2 DEF Refresh, TypeOK
  <2> QED
    BY <1>1, <2>1, SizesAssumption DEF lifetime
<1>3. CASE d # c
  <2>1. timer'[d] = timer[d] /\ idle'[d] = idle[d] /\ flags'[d] = flags[d] /\ d \in listed
    BY <1>1, <1>3 DEF Refresh, TypeOK
  <2> QED
    BY <2>1 DEF Counted, lifetime, perm, com
<1> QED
  BY <1>2, <1>3

\* A completed entry lives longer, not shorter.
LEMMA CompleteCounted ==
  ASSUME TypeOK, Counted, NEW c \in Cells, NEW e, Complete(c, e),
         UNCHANGED <<listed, timer, idle, busy_count>>
  PROVE  Counted'
<1> SUFFICES ASSUME NEW d \in listed', ~perm(d)'
             PROVE  (timer[d] <= lifetime(d) /\ idle[d] <= timer[d] + busy_count)'
  BY DEF Counted
<1>1. d \in listed /\ d \in Cells
  BY DEF TypeOK
<1>2. ~perm(d) /\ (com(d) => com(d)')
  BY <1>1 DEF TypeOK, Complete, perm, com
<1>3. timer[d] <= lifetime(d) /\ idle[d] <= timer[d] + busy_count
  BY <1>1, <1>2 DEF Counted
<1>4. timer \in [Cells -> 0 .. 255]
  BY DEF TypeOK
<1> QED
  BY <1>1, <1>2, <1>3, <1>4, SizesAssumption, TimerAssumption DEF lifetime

LEMMA CountedStep == TypeOK /\ Counted /\ [Next]_vars => Counted'
<1> SUFFICES ASSUME TypeOK, Counted, [Next]_vars PROVE Counted'
  OBVIOUS
<1>1. ASSUME UNCHANGED <<listed, flags, timer, idle, busy_count>> PROVE Counted'
  BY <1>1 DEF Counted, lifetime, perm, com
<1>2. ASSUME NEW p \in Packets, NEW a \in Addrs,
             DownCached(p, a) \/ DownKnown(p, a) \/ DownHold(p, a)
      PROVE  Counted'
  <2>1. PICK c \in Cells : Refresh(c)
    BY <1>2 DEF DownCached, DownKnown, DownHold, cached, arptab_look, TypeOK
  <2>2. UNCHANGED <<listed, flags, busy_count>>
    BY <1>2 DEF DownCached, DownKnown, DownHold
  <2> QED
    BY <2>1, <2>2, FreshCounted
<1>3. ASSUME NEW c \in Cells, NEW a, NEW e, NEW f, NEW h,
             arptnew(c, a, e, f, h), UNCHANGED busy_count
      PROVE  Counted'
  <2>1. \A d \in listed \ {c} : flags'[d] = flags[d]
    BY <1>3 DEF arptnew, TypeOK
  <2>2. Refresh(c) /\ listed' = listed \cup {c}
    BY <1>3 DEF arptnew
  <2> QED
    BY <1>3, <2>1, <2>2, FreshCounted
<1>4. ASSUME NEW p \in Packets, NEW a \in Addrs, DownNew(p, a) PROVE Counted'
  BY <1>3, <1>4 DEF DownNew
<1>5. ASSUME NEW a \in Addrs, NEW e, RequestForUs(a, e) PROVE Counted'
  BY <1>3, <1>5 DEF RequestForUs
<1>6. ASSUME NEW c \in Cells, NEW e, RequestFromKnown(c, e) \/ process_arp_reply(c, e)
      PROVE  Counted'
  BY <1>6, CompleteCounted DEF RequestFromKnown, process_arp_reply
<1>7. ASSUME NEW c \in Cells, arp_delete(c) PROVE Counted'
  <2> SUFFICES ASSUME NEW d \in listed', ~perm(d)'
               PROVE  (timer[d] <= lifetime(d) /\ idle[d] <= timer[d] + busy_count)'
    BY DEF Counted
  <2>1. d \in listed /\ d \in Cells /\ d # c
    BY <1>7 DEF arp_delete, Remove, TypeOK
  <2>2. timer'[d] = timer[d] /\ idle'[d] = idle[d] /\ flags'[d] = flags[d]
    BY <1>7, <2>1 DEF arp_delete, Remove, TypeOK
  <2> QED
    BY <1>7, <2>1, <2>2 DEF arp_delete, Counted, lifetime, perm, com
<1>8. ASSUME NEW c \in Cells, NEW a \in Addrs, NEW e, NEW f, arp_change(c, a, e, f)
      PROVE  Counted'
  <2>1. CASE arptnew(c, a, e, {"COM"} \cup f, <<>>)
    BY <1>3, <1>8, <2>1 DEF arp_change
  <2>2. CASE Refresh(c) /\ flags' = [flags EXCEPT ![c] = {"COM"} \cup f] /\ UNCHANGED listed
    <3>1. \A d \in listed \ {c} : flags'[d] = flags[d]
      BY <2>2 DEF TypeOK
    <3> QED
      BY <1>8, <2>2, <3>1, FreshCounted DEF arp_change
  <2> QED
    BY <1>8, <2>1, <2>2 DEF arp_change
<1>9. ASSUME age PROVE Counted'
  <2> SUFFICES ASSUME NEW d \in listed', ~perm(d)'
               PROVE  (timer[d] <= lifetime(d) /\ idle[d] <= timer[d] + busy_count)'
    BY DEF Counted
  <2>1. d \in listed /\ d \in Cells /\ d \notin expired
    BY <1>9 DEF age, Remove, TypeOK
  <2>2. flags'[d] = flags[d]
    BY <1>9, <2>1 DEF age, Remove, TypeOK
  <2>3. ~perm(d) /\ (com(d)' <=> com(d))
    BY <2>2 DEF perm, com
  <2>4. timer'[d] = aged(d) /\ idle'[d] = idle[d] + 1 /\ busy_count' = 0
    BY <1>9, <2>1, <2>3 DEF age
  <2>5. aged(d) <= lifetime(d)
    <3>1. ~(aged(d) > lifetime(d))
      BY <2>1, <2>3 DEF expired
    <3>2. aged(d) \in Nat /\ lifetime(d) \in Nat
      BY <2>1, AgedByte, SizesAssumption DEF lifetime
    <3> QED
      BY <3>1, <3>2
  <2>6. idle[d] <= timer[d] + busy_count /\ timer[d] <= lifetime(d)
    BY <2>1, <2>3 DEF Counted
  <2>7. timer[d] \in Nat /\ busy_count \in 0 .. MaxBusy /\ idle[d] \in Nat
    <3>1. /\ timer \in [Cells -> 0 .. 255] /\ busy_count \in 0 .. MaxBusy
          /\ idle \in [Cells -> Nat]
      BY DEF TypeOK
    <3> QED
      BY <2>1, <3>1
  <2>8. lifetime(d) <= KillC
    BY SizesAssumption, TimerAssumption DEF lifetime
  <2>9. timer[d] + busy_count + 1 \in 0 .. 255
    <3>1. lifetime(d) \in Nat
      BY SizesAssumption DEF lifetime
    <3>2. KillC \in Nat /\ MaxBusy \in Nat /\ KillC + MaxBusy < 255
      BY SizesAssumption, TimerAssumption
    <3>3. timer[d] <= KillC
      BY <2>6, <2>7, <2>8, <3>1, <3>2
    <3>4. busy_count \in Nat /\ busy_count <= MaxBusy
      BY <2>7, <3>2
    <3>5. timer[d] + busy_count + 1 <= 255
      BY <2>7, <3>2, <3>3, <3>4
    <3> QED
      BY SMTT(30), <2>7, <3>4, <3>5
  <2>10. aged(d) = timer[d] + busy_count + 1
    BY <2>9 DEF aged
  <2>11. lifetime(d)' = lifetime(d)
    BY <2>3 DEF lifetime
  <2> QED
    BY <2>4, <2>5, <2>6, <2>7, <2>10, <2>11
<1>10. CASE BusyTick
  <2> SUFFICES ASSUME NEW d \in listed', ~perm(d)'
               PROVE  (timer[d] <= lifetime(d) /\ idle[d] <= timer[d] + busy_count)'
    BY DEF Counted
  <2>1. d \in listed /\ d \in Cells /\ ~perm(d)
    BY <1>10 DEF BusyTick, TypeOK, perm
  <2>2. timer[d] <= lifetime(d) /\ idle[d] <= timer[d] + busy_count
    BY <2>1 DEF Counted
  <2>3. UNCHANGED <<timer, flags>> /\ idle'[d] = idle[d] + 1 /\ busy_count' = busy_count + 1
    BY <1>10, <2>1 DEF BusyTick
  <2>4. timer[d] \in Nat /\ busy_count \in Nat /\ idle[d] \in Nat
    <3>1. /\ timer \in [Cells -> 0 .. 255] /\ busy_count \in 0 .. MaxBusy
          /\ idle \in [Cells -> Nat]
      BY DEF TypeOK
    <3> QED
      BY <2>1, <3>1, SizesAssumption
  <2>5. lifetime(d)' = lifetime(d)
    BY <2>3 DEF lifetime, com
  <2> QED
    BY <2>2, <2>3, <2>4, <2>5
<1>11. CASE \/ \E p \in Packets : DownLost(p) \/ DownGroup(p)
            \/ \E p \in Packets, a \in Addrs : DownNoMemory(p, a)
            \/ \E a \in Ours : SetAddr(a) \/ DelAddr(a)
            \/ UNCHANGED vars
  BY <1>1, <1>11 DEF DownLost, DownGroup, DownNoMemory, SetAddr, DelAddr, vars
<1> QED
  BY <1>2, <1>4, <1>5, <1>6, <1>7, <1>8, <1>9, <1>10, <1>11
     DEF Next, Step, TickInCall, Undefined, Down, process_arp, Manage, arptick

LEMMA CountedInTime == TypeOK /\ Counted => NotOutlived
<1> SUFFICES ASSUME TypeOK, Counted, NEW c \in listed, ~perm(c)
             PROVE  idle[c] <= lifetime(c) + busy_count
  BY DEF NotOutlived
<1>1. c \in Cells /\ timer \in [Cells -> 0 .. 255] /\ busy_count \in 0 .. MaxBusy
      /\ idle \in [Cells -> Nat]
  BY DEF TypeOK
<1>2. timer[c] \in Nat /\ busy_count \in Nat /\ idle[c] \in Nat /\ lifetime(c) \in Nat
  BY <1>1, SizesAssumption DEF lifetime
<1>3. timer[c] <= lifetime(c) /\ idle[c] <= timer[c] + busy_count
  BY DEF Counted
<1> QED
  BY <1>2, <1>3

\* Every tick counts, also those that came while a call walked the list: no
\* entry outlives its lifetime by more than the ticks still to be counted.
THEOREM InTime == Spec => []NotOutlived
<1>1. Init => Counted
  BY DEF Init, Counted
<1> QED
  BY <1>1, InitType, TypeStep, CountedStep, CountedInTime, PTL DEF Spec

-----------------------------------------------------------------------------
(***************************************************************************)
(* What SPIP was told.  The invariant says it entry by entry: a complete   *)
(* entry was told, and where there is none, SPIP knows of none.            *)
(***************************************************************************)
Told ==
  \A a \in Addrs :
    /\ \A c \in listed : iaddr[c] = a /\ com(c) => routes[a] = enaddr[c]
    /\ (\A c \in listed : iaddr[c] = a => ~com(c)) => routes[a] = Zero

\* Completing an entry tells its address.
LEMMA CompleteTold ==
  ASSUME TypeOK, TableSound, Told,
         NEW c \in listed, NEW e \in EtherAddrs, Complete(c, e), UNCHANGED <<listed, iaddr>>
  PROVE  Told'
<1> SUFFICES ASSUME NEW a \in Addrs
             PROVE  /\ \A d \in listed : iaddr[d] = a /\ com(d)' => routes'[a] = enaddr'[d]
                    /\ (\A d \in listed : iaddr[d] = a => ~com(d)') => routes'[a] = Zero
  BY DEF Told
<1>1. CASE a = iaddr[c]
  <2>1. com(c)' /\ routes'[a] = e /\ enaddr'[c] = e
    BY <1>1 DEF TypeOK, Complete, com
  <2> QED
    BY <1>1, <2>1 DEF TableSound
<1>2. CASE a # iaddr[c]
  <2>1. routes'[a] = routes[a]
    BY <1>2 DEF TypeOK, Complete
  <2>2. \A d \in listed : d # c => enaddr'[d] = enaddr[d] /\ (com(d)' <=> com(d))
    BY DEF TypeOK, Complete, com
  <2> QED
    BY <1>2, <2>1, <2>2 DEF Told
<1> QED
  BY <1>1, <1>2

\* A new entry is told when it is complete, and only then.
LEMMA NewTold ==
  ASSUME TypeOK, Told,
         NEW c \in Cells, NEW a \in Addrs, NEW e, NEW f, NEW h,
         arptnew(c, a, e, f, h), arptab_look(a) = {},
         IF "COM" \in f THEN routes' = [routes EXCEPT ![a] = e] ELSE UNCHANGED routes
  PROVE  Told'
<1> SUFFICES ASSUME NEW b \in Addrs
             PROVE  /\ \A d \in listed' : iaddr'[d] = b /\ com(d)' => routes'[b] = enaddr'[d]
                    /\ (\A d \in listed' : iaddr'[d] = b => ~com(d)') => routes'[b] = Zero
  BY DEF Told
<1>1. \A d \in listed : /\ iaddr'[d] = iaddr[d] /\ enaddr'[d] = enaddr[d]
                        /\ (com(d)' <=> com(d)) /\ iaddr[d] # a
  BY DEF TypeOK, arptnew, com, arptab_look
<1>2. iaddr'[c] = a /\ enaddr'[c] = e /\ (com(c)' <=> "COM" \in f) /\ listed' = listed \cup {c}
  BY DEF TypeOK, arptnew, com
<1>3. CASE b = a
  <2>1. routes[a] = Zero
    BY <1>1 DEF Told
  <2>2. routes'[a] = IF "COM" \in f THEN e ELSE Zero
    BY <2>1 DEF TypeOK
  <2> QED
    BY <1>1, <1>2, <1>3, <2>2
<1>4. CASE b # a
  <2>1. routes'[b] = routes[b]
    BY <1>4 DEF TypeOK
  <2> QED
    BY <1>1, <1>2, <1>4, <2>1 DEF Told
<1> QED
  BY <1>3, <1>4

\* A removal tells the complete entries among those removed.
LEMMA RemoveTold ==
  ASSUME TypeOK, TableSound, Told, NEW S \in SUBSET listed, Remove(S)
  PROVE  Told'
<1> SUFFICES ASSUME NEW a \in Addrs
             PROVE  /\ \A d \in listed' : iaddr'[d] = a /\ com(d)' => routes'[a] = enaddr'[d]
                    /\ (\A d \in listed' : iaddr'[d] = a => ~com(d)') => routes'[a] = Zero
  BY DEF Told
<1>1. \A d \in listed' : /\ d \in listed \ S
                         /\ iaddr'[d] = iaddr[d] /\ enaddr'[d] = enaddr[d]
                         /\ (com(d)' <=> com(d))
  BY DEF TypeOK, Remove, com
<1>2. routes'[a] = IF \E c \in S : com(c) /\ iaddr[c] = a THEN Zero ELSE routes[a]
  BY DEF Remove
<1>3. CASE \E c \in S : com(c) /\ iaddr[c] = a
  <2>1. \A d \in listed' : iaddr'[d] # a
    BY <1>1, <1>3 DEF TableSound
  <2> QED
    BY <1>2, <1>3, <2>1
<1>4. CASE ~ \E c \in S : com(c) /\ iaddr[c] = a
  <2>1. listed' = listed \ S
    BY DEF Remove
  <2> QED
    BY <1>1, <1>2, <1>4, <2>1 DEF Told
<1> QED
  BY <1>3, <1>4

LEMMA ToldStep == TypeOK /\ TableSound /\ Told /\ [Next]_vars => Told'
<1> SUFFICES ASSUME TypeOK, TableSound, Told, [Next]_vars PROVE Told'
  OBVIOUS
<1>1. ASSUME UNCHANGED <<listed, iaddr, enaddr, flags, routes>> PROVE Told'
  BY <1>1 DEF Told, com
<1>2. ASSUME NEW p \in Packets, NEW a \in Addrs, DownNew(p, a) PROVE Told'
  <2>1. PICK c \in Cells : arptnew(c, a, Zero, {}, <<p>>)
    BY <1>2 DEF DownNew
  <2> QED
    BY <1>2, <2>1, NewTold DEF DownNew
<1>3. ASSUME NEW c \in Cells, NEW e \in EtherAddrs,
             RequestFromKnown(c, e) \/ process_arp_reply(c, e)
      PROVE  Told'
  BY <1>3, CompleteTold DEF RequestFromKnown, process_arp_reply
<1>4. ASSUME NEW a \in Addrs, NEW e \in EtherAddrs \cup {Broadcast}, RequestForUs(a, e)
      PROVE  Told'
  <2>1. PICK c \in Cells :
          \/ arptnew(c, a, Zero, {}, <<>>) /\ UNCHANGED routes
          \/ arptnew(c, a, e, {"COM"}, <<>>) /\ routes' = [routes EXCEPT ![a] = e]
    BY <1>4 DEF RequestForUs
  <2>2. arptab_look(a) = {}
    BY <1>4 DEF RequestForUs
  <2>3. CASE arptnew(c, a, Zero, {}, <<>>) /\ UNCHANGED routes
    BY <2>2, <2>3, NewTold
  <2>4. CASE arptnew(c, a, e, {"COM"}, <<>>) /\ routes' = [routes EXCEPT ![a] = e]
    BY <2>2, <2>4, NewTold
  <2> QED
    BY <2>1, <2>3, <2>4
<1>5. ASSUME NEW c \in Cells, arp_delete(c) PROVE Told'
  BY <1>5, RemoveTold DEF arp_delete
<1>6. ASSUME NEW c \in Cells, NEW a \in Addrs, NEW e \in EtherAddrs, NEW f \in SUBSET {"PERM"},
             arp_change(c, a, e, f)
      PROVE  Told'
  <2>1. CASE arptnew(c, a, e, {"COM"} \cup f, <<>>) /\ arptab_look(a) = {}
    BY <1>6, <2>1, NewTold DEF arp_change
  <2>2. CASE /\ c \in arptab_look(a)
             /\ enaddr' = [enaddr EXCEPT ![c] = e]
             /\ flags' = [flags EXCEPT ![c] = {"COM"} \cup f]
             /\ UNCHANGED <<listed, iaddr>>
    <3> SUFFICES ASSUME NEW b \in Addrs
                 PROVE  /\ \A d \in listed : iaddr[d] = b /\ com(d)' => routes'[b] = enaddr'[d]
                        /\ (\A d \in listed : iaddr[d] = b => ~com(d)') => routes'[b] = Zero
      BY <2>2 DEF Told
    <3>1. routes' = [routes EXCEPT ![a] = e]
      BY <1>6 DEF arp_change
    <3>2. c \in listed /\ iaddr[c] = a /\ com(c)' /\ enaddr'[c] = e
      BY <2>2 DEF arptab_look, TypeOK, com
    <3>3. CASE b = a
      BY <3>1, <3>2, <3>3 DEF TableSound, TypeOK
    <3>4. CASE b # a
      <4>1. \A d \in listed : d # c => enaddr'[d] = enaddr[d] /\ (com(d)' <=> com(d))
        BY <2>2 DEF TypeOK, com
      <4> QED
        BY <3>1, <3>2, <3>4, <4>1 DEF Told, TypeOK
    <3> QED
      BY <3>3, <3>4
  <2> QED
    BY <1>6, <2>1, <2>2 DEF arp_change
<1>7. CASE arptick \/ \E c \in Cells : TickInCall(c)
  BY <1>7, RemoveTold DEF arptick, TickInCall, age, expired
<1>8. CASE \/ \E p \in Packets : DownLost(p) \/ DownGroup(p)
           \/ \E p \in Packets, a \in Addrs :
                \/ DownCached(p, a) \/ DownKnown(p, a)
                \/ DownHold(p, a) \/ DownNoMemory(p, a)
           \/ \E a \in Ours : SetAddr(a) \/ DelAddr(a)
           \/ BusyTick \/ UNCHANGED vars
  BY <1>1, <1>8 DEF DownLost, DownGroup, DownCached, DownKnown, DownHold, DownNoMemory,
                    SetAddr, DelAddr, BusyTick, vars
<1> QED
  BY <1>2, <1>3, <1>4, <1>5, <1>6, <1>7, <1>8
     DEF Next, Step, Undefined, Down, process_arp, Manage

LEMMA ToldAgrees == TypeOK /\ TableSound /\ Told => RoutesAgree
<1> SUFFICES ASSUME TypeOK, TableSound, Told, NEW a \in Addrs PROVE routes[a] = known[a]
  BY DEF TypeOK, RoutesAgree, known
<1>1. CASE \E c \in arptab_look(a) : com(c)
  <2> DEFINE d == CHOOSE c \in arptab_look(a) : com(c)
  <2>1. d \in listed /\ iaddr[d] = a /\ com(d)
    BY <1>1 DEF arptab_look
  <2>2. known[a] = enaddr[d]
    BY <1>1 DEF known
  <2> QED
    BY <2>1, <2>2 DEF Told
<1>2. CASE ~ \E c \in arptab_look(a) : com(c)
  BY <1>2 DEF known, arptab_look, Told
<1> QED
  BY <1>1, <1>2

\* No path through the cache changes, completes or removes an entry without
\* SPIP being told.
THEOREM RoutesTold == Spec => []RoutesAgree
<1>1. Init => Told
  BY DEF Init, Told
<1> QED
  BY <1>1, InitType, TypeStep, InitSound, SoundStep, ToldStep, ToldAgrees, PTL DEF Spec

-----------------------------------------------------------------------------
(***************************************************************************)
(* Held packets.                                                           *)
(***************************************************************************)
Increasing(h) == \A i, j \in 1 .. Len(h) : i < j => h[i] < h[j]

\* Packets have come in the order of their numbers.
Came == \A p \in Packets : \A q \in 1 .. p - 1 : fate[q] = "new" => fate[p] = "new"

\* A queue that is not full takes a newer packet at its end.
LEMMA QueueAppend ==
  ASSUME NEW h \in Seq(Packets), NEW p \in Packets,
         Increasing(h), \A q \in Elems(h) : q < p
  PROVE  /\ Elems(Append(h, p)) = Elems(h) \cup {p}
         /\ Increasing(Append(h, p))
         /\ Len(Append(h, p)) = Len(h) + 1
<1>1. Len(Append(h, p)) = Len(h) + 1
  OBVIOUS
<1>2. /\ \A i \in 1 .. Len(h) : Append(h, p)[i] = h[i]
      /\ Append(h, p)[Len(h) + 1] = p
  OBVIOUS
<1>3. 1 .. Len(h) + 1 = (1 .. Len(h)) \cup {Len(h) + 1}
  OBVIOUS
<1>4. Elems(Append(h, p)) = Elems(h) \cup {p}
  BY <1>1, <1>2, <1>3 DEF Elems
<1>5. Increasing(Append(h, p))
  <2> SUFFICES ASSUME NEW i \in 1 .. Len(h) + 1, NEW j \in 1 .. Len(h) + 1, i < j
               PROVE  Append(h, p)[i] < Append(h, p)[j]
    BY <1>1 DEF Increasing
  <2>1. i \in 1 .. Len(h)
    OBVIOUS
  <2>2. CASE j \in 1 .. Len(h)
    BY <1>2, <2>1, <2>2 DEF Increasing
  <2>3. CASE j = Len(h) + 1
    BY <1>2, <2>1, <2>3 DEF Elems
  <2> QED
    BY <2>2, <2>3
<1> QED
  BY <1>1, <1>4, <1>5

\* A queue without its oldest packet.
LEMMA QueueTail ==
  ASSUME NEW h \in Seq(Packets), Len(h) > 0, Increasing(h)
  PROVE  /\ Tail(h) \in Seq(Packets)
         /\ Elems(Tail(h)) = Elems(h) \ {Head(h)}
         /\ Increasing(Tail(h))
         /\ Len(Tail(h)) = Len(h) - 1
         /\ Head(h) \in Elems(h)
<1>1. Tail(h) \in Seq(Packets) /\ Len(Tail(h)) = Len(h) - 1 /\ Head(h) = h[1]
  OBVIOUS
<1>2. \A i \in 1 .. Len(h) - 1 : Tail(h)[i] = h[i + 1]
  OBVIOUS
<1>3. \A i \in 1 .. Len(h) : h[i] \in Nat
  <2>1. \A i \in 1 .. Len(h) : h[i] \in Packets
    OBVIOUS
  <2>2. Packets \subseteq Nat
    BY DEF Packets
  <2> QED
    BY <2>1, <2>2
<1>4. \A i \in 2 .. Len(h) : h[i] # h[1]
  <2> TAKE i \in 2 .. Len(h)
  <2>1. h[1] < h[i]
    BY DEF Increasing
  <2> QED
    BY <1>3, <2>1
<1>5. Elems(Tail(h)) = {h[i] : i \in 2 .. Len(h)}
  <2>1. \A i \in 2 .. Len(h) : i - 1 \in 1 .. Len(h) - 1 /\ Tail(h)[i - 1] = h[i]
    BY <1>2
  <2>2. \A i \in 1 .. Len(h) - 1 : i + 1 \in 2 .. Len(h)
    OBVIOUS
  <2> QED
    BY <1>1, <1>2, <2>1, <2>2 DEF Elems
<1>6. 1 .. Len(h) = (2 .. Len(h)) \cup {1}
  OBVIOUS
<1>7. Elems(Tail(h)) = Elems(h) \ {Head(h)} /\ Head(h) \in Elems(h)
  BY <1>1, <1>4, <1>5, <1>6 DEF Elems
<1>8. Increasing(Tail(h))
  <2> SUFFICES ASSUME NEW i \in 1 .. Len(h) - 1, NEW j \in 1 .. Len(h) - 1, i < j
               PROVE  Tail(h)[i] < Tail(h)[j]
    BY <1>1 DEF Increasing
  <2>1. i + 1 \in 1 .. Len(h) /\ j + 1 \in 1 .. Len(h) /\ i + 1 < j + 1
    OBVIOUS
  <2> QED
    BY <1>2, <2>1 DEF Increasing
<1> QED
  BY <1>1, <1>7, <1>8

LEMMA QueueEmpty == Elems(<<>>) = {} /\ Increasing(<<>>) /\ Len(<<>>) = 0
  BY DEF Elems, Increasing

LEMMA QueueOne ==
  ASSUME NEW p
  PROVE  Elems(<<p>>) = {p} /\ Increasing(<<p>>) /\ Len(<<p>>) = 1
<1>1. Len(<<p>>) = 1 /\ <<p>>[1] = p
  OBVIOUS
<1>2. 1 .. 1 = {1}
  OBVIOUS
<1> QED
  BY <1>1, <1>2 DEF Elems, Increasing

\* The oldest packet not yet sent down is newer than all that were.
LEMMA NextIsNewest ==
  ASSUME TypeOK, Came, NEW p \in Packets, next(p),
         NEW q \in Packets, fate[q] # "new"
  PROVE  q < p
<1>1. p \in Nat /\ q \in Nat /\ p >= 1 /\ q >= 1
  BY DEF Packets
<1>2. q # p
  BY DEF next
<1>3. ~(p < q)
  <2>1. p < q => p \in 1 .. q - 1
    BY <1>1
  <2> QED
    BY <2>1 DEF Came, next
<1> QED
  BY <1>1, <1>2, <1>3

\* Packet p joins the queue of entry c, and those of D leave it and are freed.
Joins(p, c, D) ==
  /\ D \subseteq Elems(hold[c])
  /\ fate' = [q \in Packets |-> IF q = p THEN "held"
                               ELSE IF q \in D THEN "freed" ELSE fate[q]]
  /\ \A d \in Cells : d # c => hold'[d] = hold[d]
  /\ Elems(hold'[c]) = (Elems(hold[c]) \ D) \cup {p}
  /\ Increasing(hold'[c]) /\ Len(hold'[c]) <= HoldMax

\* That is what DownHold() does to one listed entry.
LEMMA HoldQueue ==
  ASSUME TypeOK, HeldSound, Came, NEW p \in Packets, NEW a \in Addrs, DownHold(p, a)
  PROVE  \E c \in listed : \E D \in SUBSET Packets : Joins(p, c, D)
<1>1. PICK c \in arptab_look(a) :
        /\ IF Len(hold[c]) < HoldMax
             THEN /\ hold' = [hold EXCEPT ![c] = Append(@, p)]
                  /\ fate' = [fate EXCEPT ![p] = "held"]
             ELSE /\ hold' = [hold EXCEPT ![c] = Append(Tail(@), p)]
                  /\ fate' = [fate EXCEPT ![p] = "held", ![Head(hold[c])] = "freed"]
  BY DEF DownHold
<1>2. /\ c \in listed /\ c \in Cells /\ hold[c] \in Seq(Packets)
      /\ hold \in [Cells -> Seq(Packets)] /\ fate \in [Packets -> Fates]
  BY <1>1 DEF arptab_look, TypeOK
<1>3. Increasing(hold[c]) /\ Len(hold[c]) <= HoldMax
  BY <1>2 DEF HeldSound, Increasing
<1>4. \A q \in Elems(hold[c]) : q \in Packets /\ q < p
  <2> TAKE q \in Elems(hold[c])
  <2>1. q \in Packets
    BY <1>2 DEF Elems
  <2>2. fate[q] = "held" /\ next(p)
    BY <1>2, <2>1 DEF HeldSound, DownHold
  <2> QED
    BY <2>1, <2>2, NextIsNewest
<1>5. CASE Len(hold[c]) < HoldMax
  <2>1. hold' = [hold EXCEPT ![c] = Append(hold[c], p)] /\ fate' = [fate EXCEPT ![p] = "held"]
    BY <1>1, <1>5
  <2>2. /\ Elems(hold'[c]) = Elems(hold[c]) \cup {p}
        /\ Increasing(hold'[c]) /\ Len(hold'[c]) = Len(hold[c]) + 1
    BY <1>2, <1>3, <1>4, <2>1, QueueAppend
  <2>3. Len(hold'[c]) <= HoldMax
    BY <1>2, <1>5, <2>2, SizesAssumption
  <2>4. fate' = [q \in Packets |-> IF q = p THEN "held"
                                 ELSE IF q \in {} THEN "freed" ELSE fate[q]]
    BY <1>2, <2>1, Zenon
  <2>5. Joins(p, c, {})
    BY <1>1, <1>2, <2>1, <2>2, <2>3, <2>4 DEF Joins
  <2> QED
    BY <1>2, <2>5
<1>6. CASE ~(Len(hold[c]) < HoldMax)
  <2> DEFINE h == hold[c]
  <2>1. /\ hold' = [hold EXCEPT ![c] = Append(Tail(h), p)]
        /\ fate' = [fate EXCEPT ![p] = "held", ![Head(h)] = "freed"]
    BY <1>1, <1>6
  <2>2. Len(h) > 0 /\ Len(h) = HoldMax
    BY <1>2, <1>3, <1>6, SizesAssumption
  <2>3. /\ Tail(h) \in Seq(Packets)
        /\ Elems(Tail(h)) = Elems(h) \ {Head(h)}
        /\ Increasing(Tail(h))
        /\ Len(Tail(h)) = Len(h) - 1
        /\ Head(h) \in Elems(h)
    BY <1>2, <1>3, <2>2, QueueTail
  <2>4. \A q \in Elems(Tail(h)) : q < p
    BY <1>4, <2>3
  <2>5. /\ Elems(Append(Tail(h), p)) = Elems(Tail(h)) \cup {p}
        /\ Increasing(Append(Tail(h), p))
        /\ Len(Append(Tail(h), p)) = Len(Tail(h)) + 1
    BY <2>3, <2>4, QueueAppend
  <2>6. hold'[c] = Append(Tail(h), p)
    BY <1>2, <2>1
  <2>7. Head(h) \in Packets /\ Head(h) # p
    <3>1. Head(h) \in Packets /\ Head(h) < p
      BY <1>4, <2>3
    <3> QED
      BY <3>1 DEF Packets
  <2>8. fate' = [q \in Packets |-> IF q = p THEN "held"
                                 ELSE IF q \in {Head(h)} THEN "freed" ELSE fate[q]]
    BY <1>2, <2>1, <2>7
  <2>9. Len(hold'[c]) <= HoldMax
    BY <2>2, <2>3, <2>5, <2>6, SizesAssumption
  <2>10. {Head(h)} \in SUBSET Packets
    BY <2>7
  <2>11. Joins(p, c, {Head(h)})
    BY <1>1, <1>2, <2>1, <2>3, <2>5, <2>6, <2>7, <2>8, <2>9 DEF Joins
  <2> QED
    BY <1>2, <2>10, <2>11
<1> QED
  BY <1>5, <1>6

LEMMA CameStep == TypeOK /\ HeldSound /\ Came /\ [Next]_vars => Came'
<1> SUFFICES ASSUME TypeOK, HeldSound, Came, [Next]_vars PROVE Came'
  OBVIOUS
<1>1. ASSUME \A q \in Packets : fate'[q] = "new" <=> fate[q] = "new" PROVE Came'
  <2>1. \A p \in Packets : \A q \in 1 .. p - 1 : q \in Packets
    BY SizesAssumption DEF Packets
  <2> QED
    BY <1>1, <2>1 DEF Came
<1>2. ASSUME NEW p \in Packets, next(p), fate'[p] # "new",
             \A q \in Packets \ {p} : fate'[q] = "new" <=> fate[q] = "new"
      PROVE  Came'
  <2>1. \A r \in Packets : \A q \in 1 .. r - 1 : q \in Packets
    BY SizesAssumption DEF Packets
  <2>2. \A r \in Packets : \A q \in 1 .. r - 1 : fate'[q] = "new" => fate'[r] = "new"
    BY <1>2, <2>1 DEF Came, next
  <2> QED
    BY <2>2 DEF Came
<1>3. ASSUME NEW p \in Packets, DownLost(p) \/ DownGroup(p) PROVE Came'
  BY <1>2, <1>3 DEF DownLost, DownGroup, transmit, TypeOK
<1>4. ASSUME NEW p \in Packets, NEW a \in Addrs,
             DownCached(p, a) \/ DownKnown(p, a) \/ DownNew(p, a) \/ DownNoMemory(p, a)
      PROVE  Came'
  <2>1. next(p) /\ \E x \in {"sent", "held", "freed"} : fate' = [fate EXCEPT ![p] = x]
    BY <1>4 DEF DownCached, DownKnown, DownNew, DownNoMemory, transmit
  <2> QED
    BY <1>2, <2>1 DEF TypeOK
<1>5. ASSUME NEW p \in Packets, NEW a \in Addrs, DownHold(p, a) PROVE Came'
  <2>1. PICK c \in listed : \E D \in SUBSET Packets : Joins(p, c, D)
    BY <1>5, HoldQueue
  <2>2. PICK D \in SUBSET Packets : Joins(p, c, D)
    BY <2>1
  <2>3. \A q \in D : fate[q] = "held"
    BY <2>2 DEF HeldSound, Joins
  <2>4. next(p)
    BY <1>5 DEF DownHold
  <2> QED
    BY <1>2, <2>2, <2>3, <2>4 DEF Joins
<1>6. ASSUME NEW c \in Cells, NEW e, process_arp_reply(c, e) PROVE Came'
  <2>1. \A q \in Packets : q \in Elems(hold[c]) => fate[q] = "held"
    BY <1>6 DEF HeldSound, process_arp_reply
  <2> QED
    BY <1>1, <1>6, <2>1 DEF process_arp_reply
<1>7. ASSUME NEW S \in SUBSET listed, Remove(S) PROVE Came'
  <2>1. \A q \in Packets : q \in queued(S) => fate[q] = "held"
    BY DEF HeldSound, queued
  <2> QED
    BY <1>1, <1>7, <2>1 DEF Remove
<1>8. ASSUME UNCHANGED fate PROVE Came'
  BY <1>8 DEF Came
<1>9. CASE \/ \E c \in Cells, e \in EtherAddrs : RequestFromKnown(c, e)
           \/ \E a \in Addrs, e \in EtherAddrs \cup {Broadcast} : RequestForUs(a, e)
           \/ \E c \in Cells, a \in Addrs, e \in EtherAddrs, f \in SUBSET {"PERM"} :
                arp_change(c, a, e, f)
           \/ \E a \in Ours : SetAddr(a) \/ DelAddr(a)
           \/ BusyTick \/ UNCHANGED vars
  BY <1>8, <1>9 DEF RequestFromKnown, RequestForUs, arp_change, SetAddr, DelAddr, BusyTick,
                    vars
<1>10. CASE arptick \/ \E c \in Cells : arp_delete(c) \/ TickInCall(c)
  BY <1>7, <1>10 DEF arptick, TickInCall, age, arp_delete, expired
<1> QED
  BY <1>3, <1>4, <1>5, <1>6, <1>9, <1>10 DEF Next, Step, Undefined, Down, process_arp, Manage

\* A step that leaves queues, and who is held, alone.
LEMMA HeldSame ==
  ASSUME TypeOK, HeldSound, UNCHANGED <<listed, hold>>,
         \A p \in Packets : fate'[p] = "held" <=> fate[p] = "held"
  PROVE  HeldSound'
  BY DEF HeldSound

\* A new entry with a queue of its own.
LEMMA HeldNew ==
  ASSUME TypeOK, TableSound, HeldSound, NEW c \in Cells, NEW a, NEW e, NEW f, NEW h,
         arptnew(c, a, e, f, h),
         Increasing(h), Len(h) <= HoldMax,
         \A p \in Elems(h) : p \in Packets /\ fate[p] # "held",
         \A p \in Packets : fate'[p] = "held" <=> fate[p] = "held" \/ p \in Elems(h)
  PROVE  HeldSound'
<1>1. /\ listed' = listed \cup {c} /\ c \notin listed
      /\ hold'[c] = h
      /\ \A d \in listed : hold'[d] = hold[d]
  BY DEF arptnew, TypeOK
<1>2. \A p \in Packets : fate'[p] = "held" <=> \E d \in listed' : p \in Elems(hold'[d])
  BY <1>1 DEF HeldSound
<1>3. \A b, d \in listed' : b # d => Elems(hold'[b]) \cap Elems(hold'[d]) = {}
  <2>1. \A d \in listed : Elems(hold'[d]) \cap Elems(hold'[c]) = {}
    BY <1>1 DEF HeldSound
  <2>2. \A b, d \in listed : b # d => Elems(hold'[b]) \cap Elems(hold'[d]) = {}
    BY <1>1 DEF HeldSound
  <2> QED
    BY <1>1, <2>1, <2>2
<1>4. \A d \in listed' :
        /\ Len(hold'[d]) <= HoldMax
        /\ Increasing(hold'[d])
  BY <1>1 DEF HeldSound, Increasing
<1> QED
  BY <1>2, <1>3, <1>4 DEF HeldSound, Increasing

\* Some queues become empty, and their packets are held no longer.
LEMMA HeldFewer ==
  ASSUME TypeOK, HeldSound, NEW S \in SUBSET listed,
         listed' \in SUBSET listed, listed \ S \subseteq listed',
         \A c \in listed' \ S : hold'[c] = hold[c],
         \A c \in listed' : c \in S => hold'[c] = <<>>,
         \A p \in Packets : fate'[p] = "held" <=> fate[p] = "held" /\ p \notin queued(S)
  PROVE  HeldSound'
<1>1. \A c \in listed' : Elems(hold'[c]) = IF c \in S THEN {} ELSE Elems(hold[c])
  BY QueueEmpty
<1>2. \A p \in Packets : fate'[p] = "held" <=> \E d \in listed' : p \in Elems(hold'[d])
  <2> TAKE p \in Packets
  <2>1. ASSUME fate'[p] = "held" PROVE \E d \in listed' : p \in Elems(hold'[d])
    <3>1. PICK d \in listed : p \in Elems(hold[d])
      BY <2>1 DEF HeldSound
    <3>2. d \notin S
      BY <2>1, <3>1 DEF queued
    <3> QED
      BY <1>1, <3>1, <3>2
  <2>2. ASSUME NEW d \in listed', p \in Elems(hold'[d]) PROVE fate'[p] = "held"
    <3>1. d \notin S /\ p \in Elems(hold[d]) /\ d \in listed
      BY <1>1, <2>2
    <3>2. fate[p] = "held"
      BY <3>1 DEF HeldSound
    <3>3. p \notin queued(S)
      <4>1. \A b \in S : p \notin Elems(hold[b])
        BY <3>1 DEF HeldSound
      <4> QED
        BY <4>1 DEF queued
    <3> QED
      BY <3>2, <3>3
  <2> QED
    BY <2>1, <2>2
<1>3. \A b, d \in listed' : b # d => Elems(hold'[b]) \cap Elems(hold'[d]) = {}
  BY <1>1 DEF HeldSound
<1>4. \A d \in listed' :
        /\ Len(hold'[d]) <= HoldMax
        /\ Increasing(hold'[d])
  <2> TAKE d \in listed'
  <2>1. CASE d \in S
    BY <2>1, QueueEmpty, SizesAssumption
  <2>2. CASE d \notin S
    BY <2>2 DEF HeldSound, Increasing
  <2> QED
    BY <2>1, <2>2
<1> QED
  BY <1>2, <1>3, <1>4 DEF HeldSound, Increasing

LEMMA HeldStep ==
  TypeOK /\ TableSound /\ HeldSound /\ Came /\ [Next]_vars => HeldSound'
<1> SUFFICES ASSUME TypeOK, TableSound, HeldSound, Came, [Next]_vars PROVE HeldSound'
  OBVIOUS
<1>1. ASSUME NEW p \in Packets,
             DownLost(p) \/ DownGroup(p)
               \/ \E a \in Addrs : DownCached(p, a) \/ DownKnown(p, a) \/ DownNoMemory(p, a)
      PROVE  HeldSound'
  <2>1. /\ fate[p] = "new" /\ UNCHANGED <<listed, hold>>
        /\ \E x \in {"sent", "freed"} : fate' = [fate EXCEPT ![p] = x]
    BY <1>1 DEF DownLost, DownGroup, DownCached, DownKnown, DownNoMemory, transmit, next
  <2> QED
    BY <2>1, HeldSame DEF TypeOK
<1>2. ASSUME NEW p \in Packets, NEW a \in Addrs, DownHold(p, a) PROVE HeldSound'
  <2>1. PICK c \in listed : \E D \in SUBSET Packets : Joins(p, c, D)
    BY <1>2, HoldQueue
  <2>2. PICK D \in SUBSET Packets : Joins(p, c, D)
    BY <2>1
  <2>3. UNCHANGED <<listed, flags>> /\ fate[p] = "new"
    BY <1>2 DEF DownHold, next
  <2>4. \A d \in listed : d \in Cells
    BY DEF TypeOK
  <2>5. \A d \in listed : p \notin Elems(hold[d])
    BY <2>3 DEF HeldSound
  <2>6. \A q \in Packets : fate'[q] = "held" <=> \E d \in listed' : q \in Elems(hold'[d])
    <3> TAKE q \in Packets
    <3>1. CASE q = p
      BY <2>2, <2>3, <3>1 DEF Joins
    <3>2. CASE q # p /\ q \in D
      <4>1. \A d \in listed : d # c => q \notin Elems(hold[d])
        BY <2>2, <3>2 DEF HeldSound, Joins
      <4> QED
        BY <2>2, <2>3, <2>4, <3>2, <4>1 DEF Joins
    <3>3. CASE q # p /\ q \notin D
      <4>1. \A d \in listed : q \in Elems(hold'[d]) <=> q \in Elems(hold[d])
        BY <2>2, <2>4, <3>3 DEF Joins
      <4> QED
        BY <2>2, <2>3, <3>3, <4>1 DEF HeldSound, Joins
    <3> QED
      BY <3>1, <3>2, <3>3
  <2>7. \A b, d \in listed' : b # d => Elems(hold'[b]) \cap Elems(hold'[d]) = {}
    <3>1. \A d \in listed : d # c => hold'[d] = hold[d] /\ Elems(hold[d]) \cap Elems(hold[c]) = {}
      BY <2>2, <2>4 DEF Joins, HeldSound
    <3>2. \A d \in listed : d # c => Elems(hold'[d]) \cap Elems(hold'[c]) = {}
      BY <2>2, <2>5, <3>1 DEF Joins
    <3> QED
      BY <2>3, <3>1, <3>2 DEF HeldSound
  <2>8. \A d \in listed' :
          /\ Len(hold'[d]) <= HoldMax
          /\ Increasing(hold'[d])
      <3> TAKE d \in listed'
    <3>1. CASE d = c
      BY <2>2, <2>4, <3>1 DEF Joins, TypeOK
    <3>2. CASE d # c
      BY <2>2, <2>3, <2>4, <3>2 DEF Joins, HeldSound, Increasing, TypeOK, com
    <3> QED
      BY <3>1, <3>2
  <2> QED
    BY <2>6, <2>7, <2>8 DEF HeldSound, Increasing
<1>3. ASSUME NEW p \in Packets, NEW a \in Addrs, DownNew(p, a) PROVE HeldSound'
  <2>1. PICK c \in Cells : arptnew(c, a, Zero, {}, <<p>>)
    BY <1>3 DEF DownNew
  <2>2. fate[p] = "new" /\ fate' = [fate EXCEPT ![p] = "held"]
    BY <1>3 DEF DownNew, next
  <2>3. \A q \in Packets : fate'[q] = "held" <=> fate[q] = "held" \/ q \in Elems(<<p>>)
    BY <2>2, QueueOne DEF TypeOK
  <2>4. Increasing(<<p>>) /\ Len(<<p>>) <= HoldMax
    BY QueueOne, SizesAssumption
  <2>5. \A q \in Elems(<<p>>) : q \in Packets /\ fate[q] # "held"
    BY <2>2, QueueOne
  <2> QED
    BY <2>1, <2>3, <2>4, <2>5, HeldNew
<1>4. ASSUME NEW c \in Cells, NEW e \in EtherAddrs, RequestFromKnown(c, e) PROVE HeldSound'
  BY <1>4, HeldSame DEF RequestFromKnown
<1>5. ASSUME NEW c \in Cells, NEW e \in EtherAddrs, process_arp_reply(c, e) PROVE HeldSound'
  <2>2. queued({c}) = Elems(hold[c]) /\ {c} \in SUBSET listed
    BY <1>5 DEF queued, process_arp_reply
  <2>3. \A q \in Packets : fate'[q] = "held" <=> fate[q] = "held" /\ q \notin queued({c})
    BY <1>5, <2>2 DEF process_arp_reply
  <2>4. hold' = [hold EXCEPT ![c] = <<>>] /\ hold \in [Cells -> Seq(Packets)]
        /\ UNCHANGED listed
    BY <1>5 DEF process_arp_reply, TypeOK
  <2>5. \A d \in listed : d \in Cells
    BY DEF TypeOK
  <2> QED
    BY <2>2, <2>3, <2>4, <2>5, HeldFewer
<1>6. ASSUME NEW c \in Cells, NEW a, NEW e, NEW f,
             arptnew(c, a, e, f, <<>>), UNCHANGED fate
      PROVE  HeldSound'
  <2>1. Increasing(<<>>) /\ Len(<<>>) <= HoldMax /\ Elems(<<>>) = {}
    BY QueueEmpty, SizesAssumption
  <2> QED
    BY <1>6, <2>1, HeldNew
<1>7. ASSUME NEW a \in Addrs, NEW e, RequestForUs(a, e) PROVE HeldSound'
  <2>1. PICK c \in Cells :
          arptnew(c, a, Zero, {}, <<>>) \/ arptnew(c, a, e, {"COM"}, <<>>)
    BY <1>7 DEF RequestForUs
  <2> QED
    BY <1>6, <1>7, <2>1 DEF RequestForUs
<1>8. ASSUME NEW c \in Cells, NEW a \in Addrs, NEW e, NEW f, arp_change(c, a, e, f)
      PROVE  HeldSound'
  <2>1. CASE arptnew(c, a, e, {"COM"} \cup f, <<>>)
    BY <1>6, <1>8, <2>1 DEF arp_change
  <2>2. CASE UNCHANGED <<listed, hold>>
    BY <1>8, <2>2, HeldSame DEF arp_change
  <2> QED
    BY <1>8, <2>1, <2>2 DEF arp_change
<1>9. ASSUME NEW S \in SUBSET listed, Remove(S) PROVE HeldSound'
  <2>1. /\ listed' = listed \ S
        /\ \A d \in listed' : hold'[d] = hold[d]
    BY <1>9 DEF Remove, TypeOK
  <2>2. \A q \in Packets : fate'[q] = "held" <=> fate[q] = "held" /\ q \notin queued(S)
    BY <1>9 DEF Remove
  <2> QED
    BY <2>1, <2>2, HeldFewer
<1>10. CASE \/ \E a \in Ours : SetAddr(a) \/ DelAddr(a)
            \/ BusyTick \/ UNCHANGED vars
  BY <1>10, HeldSame DEF SetAddr, DelAddr, BusyTick, vars
<1> QED
  BY <1>1, <1>2, <1>3, <1>4, <1>5, <1>7, <1>8, <1>9, <1>10
     DEF Next, Step, TickInCall, Undefined, Down, process_arp, Manage, arptick, age, arp_delete,
         expired

\* A packet is held by one listed entry, in one place, in the order it came, among at most
\* HoldMax; what is called held is held by somebody.
THEOREM Held == Spec => []HeldSound
<1>1. Init => HeldSound /\ Came
  BY DEF Init, HeldSound, Came
<1> QED
  BY <1>1, InitType, TypeStep, InitSound, SoundStep, CameStep, HeldStep, PTL DEF Spec
=============================================================================
