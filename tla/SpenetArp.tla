----------------------------- MODULE SpenetArp -----------------------------
(***************************************************************************)
(* The ARP cache of SPENET (SRC/DPIO/SPF/DRVR/SPENET): packets going down, *)
(* ARP requests and replies coming up, management calls and the cyclic     *)
(* timer work on one list of entries, a pointer to the entry used last,    *)
(* and the packets held by entries that have no hardware address yet.      *)
(* A call is one step.  A tick that comes while it walks the list          *)
(* (busy_flag) is put off, and a step of its own; one that comes later in  *)
(* the call and frees the entry the call has in hand is TickInCall.  The   *)
(* order of the list is left out: no two entries have the same address, so *)
(* it decides nothing.  Asking for an address is left out too: it may send *)
(* nothing, nobody looks at its result, and who is heard depends on        *)
(* nothing that was asked.                                                 *)
(*                                                                         *)
(* A definition marked "mutant" is a slip that its neighbour could have    *)
(* had: no action uses it, and some property below would notice it.        *)
(***************************************************************************)
EXTENDS Naturals, Sequences, FiniteSets

CONSTANTS
  Addrs,         \* Internet addresses
  Ours,          \* those this host may be given
  EtherAddrs,    \* hardware addresses of stations
  Broadcast,     \* the group address
  Zero,          \* at_enaddr of a new entry
  NoAddr,        \* no Internet address: a free cell or slot
  NumProtoAddr,  \* lu_numprotoaddr
  Cells,         \* memory for entries
  Root,          \* arproot
  NPackets,      \* packets sent in a behaviour
  HoldMax,       \* packets an entry holds (6)
  KillC, KillI,  \* ticks a complete, an incomplete entry may idle
  MaxBusy,       \* bound: ticks put off by busy_flag
  MaxCalls       \* bound: calls that delete or change an entry

ASSUME AddrsAssumption ==
  /\ Ours \subseteq Addrs /\ NoAddr \notin Addrs
  /\ Zero \notin EtherAddrs /\ Broadcast \notin EtherAddrs /\ Zero # Broadcast
  /\ Root \notin Cells
ASSUME SizesAssumption ==
  /\ NumProtoAddr \in Nat /\ NPackets \in Nat
  /\ HoldMax \in Nat \ {0}
  /\ KillC \in Nat /\ KillI \in Nat /\ MaxBusy \in Nat /\ MaxCalls \in Nat
\* at_timer is one byte: longer lifetimes would never be reached
ASSUME TimerAssumption == KillI <= KillC /\ KillC + MaxBusy < 255

Packets == 1 .. NPackets
Flags == {"COM", "PERM"}  \* ATF_PUBL only decides who is answered on the wire
Slots == 1 .. NumProtoAddr
Fates == {"new", "held", "sent", "freed"}

VARIABLES
  listed,        \* entries linked into the list
  iaddr, enaddr, flags, timer, hold,   \* fields of an entry
  arpent_cache,  \* entry the last packet was sent by
  busy_count,    \* ticks put off
  addr_list,     \* the host's own addresses
  fate, to,      \* what became of a packet; the address it was sent to
  routes,        \* what the routing messages have told SPIP
  idle,          \* history: ticks since an entry was last used or set
  calls,         \* history: calls that delete or change an entry
  astray         \* history: a tick freed the entry a call had in hand

table == <<listed, iaddr, enaddr, flags, timer, hold, idle>>
packets == <<fate, to>>
vars == <<table, arpent_cache, busy_count, addr_list, packets, routes, calls, astray>>

Elems(s) == {s[i] : i \in 1 .. Len(s)}
com(c) == "COM" \in flags[c]
perm(c) == "PERM" \in flags[c]
inUse(a) == \E i \in Slots : addr_list[i] = a        \* verify_protoaddr()
arptab_look(a) == {c \in listed : iaddr[c] = a}

Init ==
  /\ listed = {} /\ arpent_cache = Root /\ busy_count = 0
  /\ iaddr = [c \in Cells |-> NoAddr]
  /\ enaddr = [c \in Cells |-> Zero]
  /\ flags = [c \in Cells |-> {}]
  /\ timer = [c \in Cells |-> 0]
  /\ idle = [c \in Cells |-> 0]
  /\ hold = [c \in Cells |-> <<>>]
  /\ addr_list = [i \in Slots |-> NoAddr]
  /\ fate = [p \in Packets |-> "new"]
  /\ to = [p \in Packets |-> Zero]
  /\ routes = [a \in Addrs |-> Zero]
  /\ calls = 0 /\ astray = FALSE

(***************************************************************************)
(* Packets going down: dr_downdata() and arpresolve().  Packets come in    *)
(* the order of their numbers.                                             *)
(***************************************************************************)
next(p) == fate[p] = "new" /\ \A q \in 1 .. p - 1 : fate[q] # "new"

transmit(p, e) ==
  /\ fate' = [fate EXCEPT ![p] = "sent"]
  /\ to' = [to EXCEPT ![p] = e]

\* no path, no driver below, or no mbuf for the header
DownLost(p) ==
  /\ next(p)
  /\ fate' = [fate EXCEPT ![p] = "freed"]
  /\ UNCHANGED <<table, arpent_cache, busy_count, addr_list, to, routes, calls>>

\* a broadcast or multicast is sent without looking
DownGroup(p) ==
  /\ next(p) /\ transmit(p, Broadcast)
  /\ UNCHANGED <<table, arpent_cache, busy_count, addr_list, routes, calls>>

\* the timer of an entry starts again
Refresh(c) ==
  /\ timer' = [timer EXCEPT ![c] = 0]
  /\ idle' = [idle EXCEPT ![c] = 0]

cached(a) == arpent_cache # Root /\ iaddr[arpent_cache] = a

DownCached(p, a) ==
  /\ next(p) /\ cached(a)
  /\ Refresh(arpent_cache)
  /\ transmit(p, enaddr[arpent_cache])
  /\ UNCHANGED <<listed, iaddr, enaddr, flags, hold, arpent_cache,
                 busy_count, addr_list, routes, calls>>

DownKnown(p, a) ==
  /\ next(p) /\ ~cached(a)
  /\ \E c \in arptab_look(a) :
       /\ com(c)
       /\ Refresh(c)
       /\ arpent_cache' = c
       /\ transmit(p, enaddr[c])
  /\ UNCHANGED <<listed, iaddr, enaddr, flags, hold, busy_count,
                 addr_list, routes, calls>>

\* one too many held
DownHoldSeven(p, a) ==   \* mutant
  /\ next(p) /\ ~cached(a)
  /\ \E c \in arptab_look(a) :
       /\ ~com(c)
       /\ Refresh(c)
       /\ hold' = [hold EXCEPT ![c] = Append(@, p)]
       /\ fate' = [fate EXCEPT ![p] = "held"]
  /\ UNCHANGED <<listed, iaddr, enaddr, flags, arpent_cache, busy_count,
                 addr_list, to, routes, calls>>

\* an entry without hardware address holds the packet and drops the oldest
\* when it has HoldMax
DownHold(p, a) ==
  /\ next(p) /\ ~cached(a)
  /\ \E c \in arptab_look(a) :
       /\ ~com(c)
       /\ Refresh(c)
       /\ IF Len(hold[c]) < HoldMax
            THEN /\ hold' = [hold EXCEPT ![c] = Append(@, p)]
                 /\ fate' = [fate EXCEPT ![p] = "held"]
            ELSE /\ hold' = [hold EXCEPT ![c] = Append(Tail(@), p)]
                 /\ fate' = [fate EXCEPT ![p] = "held", ![Head(hold[c])] = "freed"]
  /\ UNCHANGED <<listed, iaddr, enaddr, flags, arpent_cache, busy_count,
                 addr_list, to, routes, calls>>

\* arptnew(): cell c becomes the entry for a, with hardware address e, flags f
\* and the packets h
arptnew(c, a, e, f, h) ==
  /\ c \in Cells \ listed
  /\ listed' = listed \cup {c}
  /\ iaddr' = [iaddr EXCEPT ![c] = a]
  /\ enaddr' = [enaddr EXCEPT ![c] = e]
  /\ flags' = [flags EXCEPT ![c] = f]
  /\ hold' = [hold EXCEPT ![c] = h]
  /\ Refresh(c)

DownNew(p, a) ==
  /\ next(p) /\ ~cached(a) /\ arptab_look(a) = {}
  /\ \E c \in Cells : arptnew(c, a, Zero, {}, <<p>>)
  /\ fate' = [fate EXCEPT ![p] = "held"]
  /\ UNCHANGED <<arpent_cache, busy_count, addr_list, to, routes, calls>>

DownNoMemory(p, a) ==
  /\ next(p) /\ ~cached(a) /\ arptab_look(a) = {}
  /\ fate' = [fate EXCEPT ![p] = "freed"]
  /\ UNCHANGED <<table, arpent_cache, busy_count, addr_list, to, routes, calls>>

(***************************************************************************)
(* ARP packets coming up.  Those that find no entry, bear the broadcast    *)
(* address or are not for us change nothing.                               *)
(***************************************************************************)

\* only a first address is told
CompleteFirst(c, e) ==   \* mutant
  /\ enaddr' = [enaddr EXCEPT ![c] = e]
  /\ flags' = [flags EXCEPT ![c] = @ \cup {"COM"}]
  /\ routes' = IF com(c) THEN routes ELSE [routes EXCEPT ![iaddr[c]] = e]

\* an entry gets a hardware address, and SPIP is told
Complete(c, e) ==
  /\ enaddr' = [enaddr EXCEPT ![c] = e]
  /\ flags' = [flags EXCEPT ![c] = @ \cup {"COM"}]
  /\ routes' = [routes EXCEPT ![iaddr[c]] = e]

\* a request from a station we have an entry for
RequestFromKnown(c, e) ==
  /\ c \in listed /\ ~perm(c) /\ enaddr[c] # e
  /\ Complete(c, e)
  /\ UNCHANGED <<listed, iaddr, timer, hold, idle, arpent_cache,
                 busy_count, addr_list, packets, calls>>

\* SaveInCache is never cleared
RequestForUsAgain(a, e) ==   \* mutant
  /\ \E b \in Ours : inUse(b)
  /\ e # Broadcast
  /\ \E c \in Cells : arptnew(c, a, e, {"COM"}, <<>>)
  /\ routes' = [routes EXCEPT ![a] = e]
  /\ UNCHANGED <<arpent_cache, busy_count, addr_list, packets, calls>>

\* the broadcast address is taken for a station's
RequestForUsAnyone(a, e) ==   \* mutant
  /\ arptab_look(a) = {}
  /\ \E b \in Ours : inUse(b)
  /\ \E c \in Cells : arptnew(c, a, e, {"COM"}, <<>>)
  /\ routes' = [routes EXCEPT ![a] = e]
  /\ UNCHANGED <<arpent_cache, busy_count, addr_list, packets, calls>>

\* a request for one of our addresses makes an entry for its sender; a sender
\* with the broadcast address gets an entry that stays incomplete
RequestForUs(a, e) ==
  /\ arptab_look(a) = {}
  /\ \E b \in Ours : inUse(b)
  /\ \E c \in Cells :
       IF e = Broadcast
         THEN arptnew(c, a, Zero, {}, <<>>) /\ UNCHANGED routes
         ELSE arptnew(c, a, e, {"COM"}, <<>>) /\ routes' = [routes EXCEPT ![a] = e]
  /\ UNCHANGED <<arpent_cache, busy_count, addr_list, packets, calls>>

\* the newest packet is sent, those before it are lost
process_arp_replyLast(c, e) ==   \* mutant
  /\ c \in listed /\ ~inUse(iaddr[c])
  /\ Complete(c, e)
  /\ hold' = [hold EXCEPT ![c] = <<>>]
  /\ fate' = [p \in Packets |->
               IF p \notin Elems(hold[c]) THEN fate[p]
               ELSE IF p = hold[c][Len(hold[c])] THEN "sent" ELSE "freed"]
  /\ to' = [p \in Packets |-> IF fate'[p] = "sent" /\ fate[p] = "held" THEN e ELSE to[p]]
  /\ UNCHANGED <<listed, iaddr, timer, idle, arpent_cache, busy_count,
                 addr_list, calls>>

\* a reply completes the entry and sends what it holds, the oldest first
process_arp_reply(c, e) ==
  /\ c \in listed /\ ~inUse(iaddr[c])
  /\ Complete(c, e)
  /\ hold' = [hold EXCEPT ![c] = <<>>]
  /\ fate' = [p \in Packets |-> IF p \in Elems(hold[c]) THEN "sent" ELSE fate[p]]
  /\ to' = [p \in Packets |-> IF p \in Elems(hold[c]) THEN e ELSE to[p]]
  /\ UNCHANGED <<listed, iaddr, timer, idle, arpent_cache, busy_count,
                 addr_list, calls>>

(***************************************************************************)
(* Entries are removed by the timer and by management calls.               *)
(***************************************************************************)

\* the packets that m_free_q() frees with the entries S
queued(S) == UNION {Elems(hold[c]) : c \in S}

\* arp_entry_remove() for the entries S
Remove(S) ==
  /\ listed' = listed \ S
  /\ fate' = [p \in Packets |-> IF p \in queued(S) THEN "freed" ELSE fate[p]]
  /\ hold' = [c \in Cells |-> IF c \in S THEN <<>> ELSE hold[c]]
  /\ iaddr' = [c \in Cells |-> IF c \in S THEN NoAddr ELSE iaddr[c]]
  /\ enaddr' = [c \in Cells |-> IF c \in S THEN Zero ELSE enaddr[c]]
  /\ flags' = [c \in Cells |-> IF c \in S THEN {} ELSE flags[c]]
  /\ routes' = [a \in Addrs |->
                 IF \E c \in S : com(c) /\ iaddr[c] = a THEN Zero ELSE routes[a]]

resetCacheNot(S) == UNCHANGED arpent_cache   \* mutant

resetCache(S) == arpent_cache' = IF arpent_cache \in S THEN Root ELSE arpent_cache

agedOnce(c) == (timer[c] + 1) % 256   \* mutant

lifetime(c) == IF com(c) THEN KillC ELSE KillI
aged(c) == (timer[c] + busy_count + 1) % 256
expired == {c \in listed : ~perm(c) /\ aged(c) > lifetime(c)}

age ==
  /\ Remove(expired)
  /\ timer' = [c \in Cells |-> IF c \in expired THEN 0
                               ELSE IF c \in listed /\ ~perm(c) THEN aged(c)
                               ELSE timer[c]]
  /\ idle' = [c \in Cells |-> IF c \in expired THEN 0
                              ELSE IF c \in listed /\ ~perm(c) THEN idle[c] + 1
                              ELSE idle[c]]
  /\ busy_count' = 0
  /\ UNCHANGED <<addr_list, to, calls>>

arptick == age /\ resetCache(expired)

\* A tick that comes when the call is through with its walk (busy_flag is off)
\* but not with the entry c that it found there, or that was the cached one, and
\* frees this entry: the call goes on by freed memory, and dr_downdata() may
\* cache it.  What the program does from there on is undefined.
TickInCall(c) ==
  /\ ~astray /\ astray' = TRUE
  /\ c \in expired
  /\ age
  /\ \/ resetCache(expired)
     \/ arpent_cache # c /\ (\E p \in Packets : next(p)) /\ arpent_cache' = c

\* a tick that comes while a call walks the list
BusyTick ==
  /\ busy_count < MaxBusy
  /\ busy_count' = busy_count + 1
  /\ idle' = [c \in Cells |-> IF c \in listed /\ ~perm(c) THEN idle[c] + 1 ELSE idle[c]]
  /\ UNCHANGED <<listed, iaddr, enaddr, flags, timer, hold, arpent_cache,
                 addr_list, packets, routes, calls>>

call == calls < MaxCalls /\ calls' = calls + 1

arp_delete(c) ==
  /\ call
  /\ c \in listed
  /\ Remove({c}) /\ resetCache({c})
  /\ timer' = [timer EXCEPT ![c] = 0]
  /\ idle' = [idle EXCEPT ![c] = 0]
  /\ UNCHANGED <<busy_count, addr_list, to>>

\* arp_change() sets an entry, or makes one
arp_change(c, a, e, f) ==
  /\ call
  /\ \/ /\ c \in arptab_look(a)
        /\ enaddr' = [enaddr EXCEPT ![c] = e]
        /\ flags' = [flags EXCEPT ![c] = {"COM"} \cup f]
        /\ Refresh(c)
        /\ resetCache({c})
        /\ UNCHANGED <<listed, iaddr, hold>>
     \/ /\ arptab_look(a) = {}
        /\ arptnew(c, a, e, {"COM"} \cup f, <<>>)
        /\ UNCHANGED arpent_cache
  /\ routes' = [routes EXCEPT ![a] = e]
  /\ UNCHANGED <<busy_count, addr_list, packets>>

\* SPF_SS_SETADDR and SPF_SS_DELADDR: an address may be set twice
SetAddr(a) ==
  /\ \E i \in Slots :
       /\ addr_list[i] = NoAddr /\ \A j \in 1 .. i - 1 : addr_list[j] # NoAddr
       /\ addr_list' = [addr_list EXCEPT ![i] = a]
  /\ UNCHANGED <<table, arpent_cache, busy_count, packets, routes, calls>>

DelAddr(a) ==
  /\ \E i \in Slots :
       /\ addr_list[i] = a /\ \A j \in 1 .. i - 1 : addr_list[j] # a
       /\ addr_list' = [addr_list EXCEPT ![i] = NoAddr]
  /\ UNCHANGED <<table, arpent_cache, busy_count, packets, routes, calls>>

(***************************************************************************)
(* The specification.                                                      *)
(***************************************************************************)
Down ==
  \/ \E p \in Packets : DownLost(p) \/ DownGroup(p)
  \/ \E p \in Packets, a \in Addrs :
       \/ DownCached(p, a) \/ DownKnown(p, a) \/ DownHold(p, a)
       \/ DownNew(p, a) \/ DownNoMemory(p, a)

process_arp ==
  \/ \E c \in Cells, e \in EtherAddrs : RequestFromKnown(c, e) \/ process_arp_reply(c, e)
  \/ \E a \in Addrs, e \in EtherAddrs \cup {Broadcast} : RequestForUs(a, e)

Manage ==
  \/ \E c \in Cells : arp_delete(c)
  \/ \E c \in Cells, a \in Addrs, e \in EtherAddrs, f \in SUBSET {"PERM"} :
       arp_change(c, a, e, f)
  \/ \E a \in Ours : SetAddr(a) \/ DelAddr(a)

Step == Down \/ process_arp \/ Manage \/ arptick \/ BusyTick

\* nothing is said of a program that has used freed memory
Undefined == astray /\ UNCHANGED vars

Next ==
  \/ ~astray /\ Step /\ UNCHANGED astray
  \/ \E c \in Cells : TickInCall(c)
  \/ Undefined

Spec == Init /\ [][Next]_vars

(***************************************************************************)
(* Properties.                                                             *)
(***************************************************************************)
\* Every variable has values of its type; at_timer stays one byte (arpresolve, arptick,
\* arp_change).
TypeOK ==
  /\ listed \subseteq Cells
  /\ iaddr \in [Cells -> Addrs \cup {NoAddr}]
  /\ enaddr \in [Cells -> EtherAddrs \cup {Zero}]
  /\ flags \in [Cells -> SUBSET Flags]
  /\ timer \in [Cells -> 0 .. 255]
  /\ hold \in [Cells -> Seq(Packets)]
  /\ arpent_cache \in Cells \cup {Root}
  /\ busy_count \in 0 .. MaxBusy
  /\ addr_list \in [Slots -> Ours \cup {NoAddr}]
  /\ fate \in [Packets -> Fates]
  /\ to \in [Packets -> EtherAddrs \cup {Zero, Broadcast}]
  /\ routes \in [Addrs -> EtherAddrs \cup {Zero}]
  /\ idle \in [Cells -> Nat]
  /\ calls \in 0 .. MaxCalls
  /\ astray \in BOOLEAN

\* The list of entries is sound whoever works on it: one entry for an address,
\* a complete entry has a hardware address, only complete ones are permanent,
\* and freed memory keeps nothing of a former entry.
TableSound ==
  /\ \A c, d \in listed : iaddr[c] = iaddr[d] => c = d
  /\ \A c \in listed :
       /\ iaddr[c] \in Addrs
       /\ com(c) <=> enaddr[c] # Zero
       /\ flags[c] # {} => com(c)
  /\ \A c \in Cells \ listed :
       iaddr[c] = NoAddr /\ flags[c] = {} /\ hold[c] = <<>> /\ enaddr[c] = Zero

alive == arpent_cache # Root => arpent_cache \in listed /\ com(arpent_cache)

\* Unless a tick has freed an entry that a call had in hand, the cached pointer
\* never outlives its entry, however the entry goes, and never names one that
\* dr_downdata() could not send by.
CacheLive == ~astray => alive

\* A packet is held if and only if one listed entry has it, in one place;
\* packets wait in the order they came, at most HoldMax of them.
HeldSound ==
  /\ \A p \in Packets : fate[p] = "held" <=> \E c \in listed : p \in Elems(hold[c])
  /\ \A c, d \in listed : c # d => Elems(hold[c]) \cap Elems(hold[d]) = {}
  /\ \A c \in listed :
       /\ Len(hold[c]) <= HoldMax
       /\ \A i, j \in 1 .. Len(hold[c]) : i < j => hold[c][i] < hold[c][j]

\* Every tick counts, also those put off: an entry that is not permanent idles
\* no longer than its lifetime and the ticks still to be counted.
NotOutlived == \A c \in listed : ~perm(c) => idle[c] <= lifetime(c) + busy_count

known == [a \in Addrs |->
           IF \E c \in arptab_look(a) : com(c)
             THEN enaddr[CHOOSE c \in arptab_look(a) : com(c)] ELSE Zero]

\* What SPIP was told by routing messages is what the table says: no path of
\* the code changes, completes or removes an entry without telling.
RoutesAgree == routes = known

\* arp.c:689 "Hold onto this mbuf and resend it once the address is finally
\* resolved": no entry with an address holds packets.
HeldUntilResolved == \A c \in listed : com(c) => hold[c] = <<>>
=============================================================================
