----------------------------- MODULE LanceRing -----------------------------
(***************************************************************************)
(* The driver of the Am7990 (SRC/DPIO/SPF/DRVR/SPLANCE): a ring of         *)
(* transmit descriptors, a ring of receive descriptors, and the queue of   *)
(* packets that found the transmit ring full.  Chip and processor share    *)
(* the rings through the bit OWN of each descriptor; dr_downdata() and the *)
(* interrupt service share them through the interrupt mask.                *)
(*                                                                         *)
(* The chip may step in between any two steps of the processor.  A step of *)
(* the processor reads or writes one descriptor or register the chip uses. *)
(* Built without LCLMEM: descriptors point into mbufs.                     *)
(*                                                                         *)
(* A definition marked "mutant" is a slip that its neighbour could have    *)
(* had: no action uses it, and some property below would notice it.        *)
(***************************************************************************)
EXTENDS Naturals, Sequences, FiniteSets

CONSTANTS
  TCount,     \* v_tpcnt: transmit descriptors
  RCount,     \* v_rpcnt: receive descriptors
  NPackets,   \* packets sent in a behaviour
  NFrames,    \* frames that arrive in a behaviour
  Null,       \* v_xmit_tail when no descriptor is in use
  MaxWindow   \* bound: descriptors the chip finishes while xmit_irq() ends

ASSUME SizesAssumption ==
  /\ TCount \in Nat \ {0} /\ RCount \in Nat \ {0}
  /\ NPackets \in Nat /\ NFrames \in Nat
  /\ Null \notin Nat
\* a frame takes at least 51 microseconds, the end of xmit_irq() a few instructions
ASSUME WindowAssumption == MaxWindow \in Nat /\ MaxWindow < TCount

Packets == 1 .. NPackets
Frames == 1 .. NFrames
Xmds == 0 .. TCount - 1
Rmds == 0 .. RCount - 1

VARIABLES
  xflag, xmbuf,  \* transmit descriptor: "none", "own", "done"; its packet
  xmit_head,     \* next descriptor to load
  xmit_tail,     \* oldest descriptor in use
  mdp,           \* descriptor that load_tmd() is working on
  outq,          \* packets that wait for a descriptor
  rflag, rmbuf,  \* receive descriptor: "none", "own", "frame", "bad"; its frame
  recv_head,     \* where recv_irq() begins
  scan,          \* the receive descriptor it looks at
  ioenabled,     \* lu_ioenabled
  ether_drvr,    \* lu_ether_drvr is set
  csr0,          \* interrupt bits of the chip
  le_status,     \* what the interrupt service read of them
  pc,            \* what the processor is at
  chipX, chipR,  \* descriptors the chip uses next
  fate,          \* what became of a packet
  frame,         \* what became of a frame
  up,            \* frames passed up
  present,       \* history: frames in the ring when the scan began
  window         \* history: descriptors finished since xmit_irq()'s last look

xmit == <<xflag, xmbuf, xmit_head, xmit_tail, mdp, outq>>
recv == <<rflag, rmbuf, recv_head, scan, present>>
enabling == <<ioenabled, ether_drvr>>
irq == <<csr0, le_status, pc>>
chip == <<chipX, chipR>>
frames == <<frame, up>>
vars == <<xmit, recv, enabling, irq, chip, fate, frames, window>>


afterNot(i, count) == i + 1                          \* mutant: no test of v_xmit_rend
after(i, count) == IF i + 1 >= count THEN 0 ELSE i + 1
nextXmd(i) == after(i, TCount)
nextRmd(i) == after(i, RCount)
\* init_hdw(): every receive descriptor has a buffer and belongs to the chip
Init ==
  /\ xflag = [i \in Xmds |-> "none"] /\ xmbuf = [i \in Xmds |-> 0]
  /\ xmit_head = 0 /\ xmit_tail = Null /\ mdp = 0 /\ outq = <<>>
  /\ rflag = [i \in Rmds |-> "own"] /\ rmbuf = [i \in Rmds |-> 0]
  /\ recv_head = 0 /\ scan = 0 /\ present = {}
  /\ ioenabled = FALSE /\ ether_drvr = FALSE
  /\ csr0 = {} /\ le_status = {} /\ pc = "idle"
  /\ chipX = 0 /\ chipR = 0
  /\ fate = [p \in Packets |-> "new"]
  /\ frame = [f \in Frames |-> "new"] /\ up = <<>>
  /\ window = 0

(***************************************************************************)
(* load_tmd(): the pointer is put first, then the chip is given the        *)
(* descriptor.  A free descriptor is one where head differs from tail;     *)
(* tail is NULL when none is in use.                                       *)
(***************************************************************************)
free == xmit_head # xmit_tail

load_tmd(p) ==
  /\ mdp' = xmit_head
  /\ xmit_tail' = IF xmit_tail = Null THEN xmit_head ELSE xmit_tail
  /\ xmit_head' = nextXmd(xmit_head)
  /\ xmbuf' = [xmbuf EXCEPT ![xmit_head] = p]
  /\ fate' = [fate EXCEPT ![p] = "ring"]
  /\ UNCHANGED xflag

Own ==
  /\ xflag' = [xflag EXCEPT ![mdp] = "own"]
  /\ UNCHANGED <<xmbuf, xmit_head, xmit_tail, mdp, outq>>

(***************************************************************************)
(* dr_downdata(): packets come in the order of their numbers.              *)
(***************************************************************************)
next(p) == fate[p] = "new" /\ \A q \in 1 .. p - 1 : fate[q] # "new"

\* too long, or no mbuf to pad or to join it
DownLost(p) ==
  /\ pc = "idle" /\ next(p)
  /\ fate' = [fate EXCEPT ![p] = "freed"]
  /\ UNCHANGED <<xmit, recv, enabling, irq, chip, frames, window>>

DownLoad(p) ==
  /\ pc = "idle" /\ next(p) /\ free
  /\ load_tmd(p)
  /\ pc' = "down"
  /\ UNCHANGED <<outq, recv, enabling, csr0, le_status, chip, frames, window>>

DownOwn ==
  /\ pc = "down"
  /\ Own
  /\ pc' = "idle"
  /\ UNCHANGED <<recv, enabling, csr0, le_status, chip, fate, frames, window>>

DownQueue(p) ==
  /\ pc = "idle" /\ next(p) /\ ~free
  /\ outq' = Append(outq, p)
  /\ fate' = [fate EXCEPT ![p] = "outq"]
  /\ UNCHANGED <<xflag, xmbuf, xmit_head, xmit_tail, mdp, recv, enabling, irq, chip, frames, window>>

(***************************************************************************)
(* dr_setstat(): I/O is enabled and disabled; the first push says who      *)
(* takes frames.                                                           *)
(***************************************************************************)
enable_lance(on) ==
  /\ pc = "idle"
  /\ ioenabled' = on
  /\ UNCHANGED <<xmit, recv, ether_drvr, irq, chip, fate, frames, window>>

Push ==
  /\ pc = "idle"
  /\ ether_drvr' = TRUE
  /\ UNCHANGED <<xmit, recv, ioenabled, irq, chip, fate, frames, window>>

(***************************************************************************)
(* isr(): the bits are read once; receive first, then transmit, then       *)
(* errors.                                                                 *)
(***************************************************************************)
isr ==
  /\ pc = "idle" /\ csr0 # {}
  /\ le_status' = csr0
  /\ scan' = recv_head
  /\ present' = {f \in Frames : frame[f] = "ring"}
  /\ pc' = IF csr0 \cap {"RINT", "MISS"} # {} THEN "recv" ELSE "xmit"
  /\ UNCHANGED <<xmit, rflag, rmbuf, recv_head, enabling, csr0, chip, fate, frames, window>>

nextScanShort ==                                    \* mutant: leaves the last one out
  /\ scan' = nextRmd(scan)
  /\ pc' = IF nextRmd(nextRmd(scan)) = recv_head THEN "rclear" ELSE "recv"

\* recv_irq(): once around the ring
nextScan ==
  /\ scan' = nextRmd(scan)
  /\ pc' = IF nextRmd(scan) = recv_head THEN "rclear" ELSE "recv"

RecvOwned ==
  /\ pc = "recv" /\ rflag[scan] = "own"
  /\ nextScan
  /\ UNCHANGED <<xmit, rflag, rmbuf, recv_head, present, enabling, csr0, le_status, chip,
                 fate, frames, window>>

\* an error, or part of a frame that is too long
RecvBad ==
  /\ pc = "recv" /\ rflag[scan] = "bad"
  /\ rflag' = [rflag EXCEPT ![scan] = "own"]
  /\ nextScan
  /\ UNCHANGED <<xmit, rmbuf, recv_head, present, enabling, csr0, le_status, chip, fate,
                 frames, window>>

RecvDisabled ==
  /\ pc = "recv" /\ rflag[scan] = "frame" /\ ~ioenabled
  /\ rflag' = [rflag EXCEPT ![scan] = "own"]
  /\ frame' = [frame EXCEPT ![rmbuf[scan]] = "lost"]
  /\ nextScan
  /\ UNCHANGED <<xmit, rmbuf, recv_head, present, enabling, csr0, le_status, chip, fate, up,
                 window>>

allocate_recv_mbufLate ==                           \* mutant: STP and ENP are left set
  \E got \in BOOLEAN : rflag' = [rflag EXCEPT ![scan] = IF got THEN "own" ELSE @]

\* there may be no memory for a new buffer: the descriptor stays without one
allocate_recv_mbuf ==
  \E got \in BOOLEAN : rflag' = [rflag EXCEPT ![scan] = IF got THEN "own" ELSE "none"]

\* process_mbuf() frees the frame when nobody above takes it
RecvPass ==
  /\ pc = "recv" /\ rflag[scan] = "frame" /\ ioenabled
  /\ IF ether_drvr
       THEN /\ up' = Append(up, rmbuf[scan])
            /\ frame' = [frame EXCEPT ![rmbuf[scan]] = "up"]
       ELSE /\ frame' = [frame EXCEPT ![rmbuf[scan]] = "lost"]
            /\ UNCHANGED up
  /\ allocate_recv_mbuf
  /\ nextScan
  /\ UNCHANGED <<xmit, rmbuf, recv_head, present, enabling, csr0, le_status, chip, fate,
                 window>>

RecvEmpty ==
  /\ pc = "recv" /\ rflag[scan] = "none"
  /\ allocate_recv_mbuf
  /\ nextScan
  /\ UNCHANGED <<xmit, rmbuf, recv_head, present, enabling, csr0, le_status, chip, fate,
                 frames, window>>

\* what arrived in a descriptor already passed loses its interrupt here
RecvClear ==
  /\ pc = "rclear"
  /\ recv_head' = scan
  /\ csr0' = csr0 \ {"RINT"}
  /\ pc' = IF "TINT" \in le_status THEN "xmit" ELSE "exit"
  /\ UNCHANGED <<xmit, rflag, rmbuf, scan, present, enabling, le_status, chip, fate, frames,
                 window>>

XmitFreeNext ==                                     \* mutant: advances before it frees
  /\ pc = "xmit" /\ xmit_tail # Null
  /\ xflag[xmit_tail] # "own"
  /\ fate' = [fate EXCEPT ![xmbuf[nextXmd(xmit_tail)]] = "freed"]
  /\ xflag' = [xflag EXCEPT ![xmit_tail] = "none"]
  /\ xmit_tail' = IF nextXmd(xmit_tail) = xmit_head THEN Null ELSE nextXmd(xmit_tail)
  /\ UNCHANGED <<xmbuf, xmit_head, mdp, outq, recv, enabling, irq, chip, frames, window>>

XmitFreeNoNull ==                                   \* mutant: tail is not reset to NULL
  /\ pc = "xmit" /\ xmit_tail # Null
  /\ xflag[xmit_tail] # "own"
  /\ fate' = [fate EXCEPT ![xmbuf[xmit_tail]] = "freed"]
  /\ xflag' = [xflag EXCEPT ![xmit_tail] = "none"]
  /\ xmit_tail' = nextXmd(xmit_tail)
  /\ UNCHANGED <<xmbuf, xmit_head, mdp, outq, recv, enabling, irq, chip, frames, window>>

\* xmit_irq(): packets that have left are freed, those that wait are loaded
XmitFree ==
  /\ pc = "xmit" /\ xmit_tail # Null
  /\ xflag[xmit_tail] # "own"
  /\ fate' = [fate EXCEPT ![xmbuf[xmit_tail]] = "freed"]
  /\ xflag' = [xflag EXCEPT ![xmit_tail] = "none"]
  /\ xmit_tail' = IF nextXmd(xmit_tail) = xmit_head THEN Null ELSE nextXmd(xmit_tail)
  /\ UNCHANGED <<xmbuf, xmit_head, mdp, outq, recv, enabling, irq, chip, frames, window>>

XmitStop ==
  /\ pc = "xmit" /\ (xmit_tail # Null => xflag[xmit_tail] = "own")
  /\ pc' = "load"
  /\ window' = 0
  /\ UNCHANGED <<xmit, recv, enabling, csr0, le_status, chip, fate, frames>>

XmitLoadLast ==                                     \* mutant: takes the newest
  /\ pc = "load" /\ outq # <<>> /\ free
  /\ load_tmd(outq[Len(outq)])
  /\ outq' = SubSeq(outq, 1, Len(outq) - 1)
  /\ pc' = "own"
  /\ UNCHANGED <<recv, enabling, csr0, le_status, chip, frames, window>>

XmitLoad ==
  /\ pc = "load" /\ outq # <<>> /\ free
  /\ load_tmd(Head(outq))
  /\ outq' = Tail(outq)
  /\ pc' = "own"
  /\ UNCHANGED <<recv, enabling, csr0, le_status, chip, frames, window>>

XmitOwn ==
  /\ pc = "own"
  /\ Own
  /\ pc' = "load"
  /\ UNCHANGED <<recv, enabling, csr0, le_status, chip, fate, frames, window>>

XmitClearEarly ==                                   \* mutant: does not look at the queue
  /\ pc = "load"
  /\ csr0' = csr0 \ {"TINT"}
  /\ pc' = "exit"
  /\ UNCHANGED <<xmit, recv, enabling, le_status, chip, fate, frames, window>>

\* a descriptor finished since the loop looked at it loses its interrupt here
XmitClear ==
  /\ pc = "load" /\ (outq = <<>> \/ ~free)
  /\ csr0' = csr0 \ {"TINT"}
  /\ pc' = "exit"
  /\ UNCHANGED <<xmit, recv, enabling, le_status, chip, fate, frames, window>>

\* le_status ends with the call, and what the history is kept for with it
IsrExit ==
  /\ pc = "exit"
  /\ csr0' = IF "MISS" \in le_status THEN csr0 \ {"MISS"} ELSE csr0
  /\ pc' = "idle"
  /\ le_status' = {} /\ present' = {} /\ window' = 0
  /\ UNCHANGED <<xmit, rflag, rmbuf, recv_head, scan, enabling, chip, fate, frames>>

(***************************************************************************)
(* The chip.                                                               *)
(***************************************************************************)
\* a packet leaves, or is given up after an error on the wire
ChipSend ==
  /\ xflag[chipX] = "own"
  /\ pc \in {"load", "own"} => window < MaxWindow
  /\ window' = IF pc \in {"load", "own"} THEN window + 1 ELSE window
  /\ xflag' = [xflag EXCEPT ![chipX] = "done"]
  /\ fate' = [fate EXCEPT ![xmbuf[chipX]] = "gone"]
  /\ chipX' = nextXmd(chipX)
  /\ csr0' = csr0 \cup {"TINT"}
  /\ UNCHANGED <<xmbuf, xmit_head, xmit_tail, mdp, outq, recv, enabling, le_status, pc, chipR,
                 frames>>

arrives(f) == frame[f] = "new" /\ \A g \in 1 .. f - 1 : frame[g] # "new"

ChipRecv(f, kind) ==
  /\ arrives(f) /\ rflag[chipR] = "own"
  /\ rflag' = [rflag EXCEPT ![chipR] = kind]
  /\ rmbuf' = [rmbuf EXCEPT ![chipR] = f]
  /\ frame' = [frame EXCEPT ![f] = IF kind = "frame" THEN "ring" ELSE "lost"]
  /\ chipR' = nextRmd(chipR)
  /\ csr0' = csr0 \cup {"RINT"}
  /\ UNCHANGED <<xmit, recv_head, scan, present, enabling, le_status, pc, chipX, fate, up,
                 window>>

ChipMiss(f) ==
  /\ arrives(f) /\ rflag[chipR] # "own"
  /\ frame' = [frame EXCEPT ![f] = "lost"]
  /\ csr0' = csr0 \cup {"MISS"}
  /\ UNCHANGED <<xmit, recv, enabling, le_status, pc, chip, fate, up, window>>

Down == \E p \in Packets : DownLost(p) \/ DownLoad(p) \/ DownQueue(p)
Setstat == (\E on \in BOOLEAN : enable_lance(on)) \/ Push
recv_irq == RecvOwned \/ RecvBad \/ RecvDisabled \/ RecvPass \/ RecvEmpty \/ RecvClear
xmit_irq == XmitFree \/ XmitStop \/ XmitLoad \/ XmitOwn \/ XmitClear
Service == recv_irq \/ xmit_irq \/ IsrExit
Receive == \E f \in Frames : (\E kind \in {"frame", "bad"} : ChipRecv(f, kind)) \/ ChipMiss(f)

Next == Down \/ DownOwn \/ Setstat \/ isr \/ Service \/ ChipSend \/ Receive

Spec == Init /\ [][Next]_vars

\* the processor goes on, an interrupt that is pending is taken, the chip transmits
FairSpec ==
  /\ Spec
  /\ WF_vars(DownOwn) /\ WF_vars(isr) /\ WF_vars(Service) /\ WF_vars(ChipSend)

(***************************************************************************)
(* Properties                                                              *)
(***************************************************************************)
Pcs == {"idle", "down", "recv", "rclear", "xmit", "load", "own", "exit"}

\* Types of all variables: head and tail stay inside the ring (load_tmd, xmit_irq).
TypeOK ==
  /\ xflag \in [Xmds -> {"none", "own", "done"}] /\ xmbuf \in [Xmds -> Packets \cup {0}]
  /\ xmit_head \in Xmds /\ xmit_tail \in Xmds \cup {Null} /\ mdp \in Xmds
  /\ outq \in Seq(Packets)
  /\ rflag \in [Rmds -> {"none", "own", "frame", "bad"}] /\ rmbuf \in [Rmds -> Frames \cup {0}]
  /\ recv_head \in Rmds /\ scan \in Rmds /\ present \subseteq Frames
  /\ ioenabled \in BOOLEAN /\ ether_drvr \in BOOLEAN
  /\ csr0 \subseteq {"TINT", "RINT", "MISS"} /\ le_status \subseteq {"TINT", "RINT", "MISS"}
  /\ pc \in Pcs /\ chipX \in Xmds /\ chipR \in Rmds
  /\ fate \in [Packets -> {"new", "outq", "ring", "gone", "freed"}]
  /\ frame \in [Frames -> {"new", "ring", "up", "lost"}] /\ up \in Seq(Frames)
  /\ window \in Nat

loading == pc \in {"down", "own"}

\* Descriptors in use are exactly those from tail up to head, none when tail is NULL
\* and all when tail equals head: the test in load_tmd() and the end of xmit_irq()'s
\* loop agree, whatever the chip has finished meanwhile.
between(i) ==
  /\ xmit_tail # Null
  /\ IF xmit_tail < xmit_head THEN xmit_tail <= i /\ i < xmit_head
                              ELSE xmit_tail <= i \/ i < xmit_head
RingAgrees == \A i \in Xmds : between(i) <=> (xflag[i] # "none" \/ (loading /\ i = mdp))

\* A packet waits in the queue only while the ring is full, so none that comes later
\* finds a free descriptor before it (dr_downdata, xmit_irq).
NoOvertaking == (outq # <<>> /\ pc \notin {"xmit", "load", "own"}) => ~free

\* A descriptor the chip owns points to a packet that is in no other descriptor and
\* not freed: xmit_irq() frees only what the chip has finished with.
ChipReadsLive ==
  \A i \in Xmds : xflag[i] = "own" =>
    /\ xmbuf[i] \in Packets /\ fate[xmbuf[i]] = "ring"
    /\ \A j \in Xmds : xflag[j] # "none" /\ xmbuf[j] = xmbuf[i] => j = i

\* A frame given up to the next layer or dropped is not found in the ring again,
\* with or without memory for a new buffer (recv_irq).
PassedOnce == \A i \in Rmds : rflag[i] = "frame" => frame[rmbuf[i]] = "ring"

\* Whatever was in the ring when the interrupt service began is taken by the end of the
\* scan, wherever the chip goes on meanwhile (recv_irq).
ScanTakesAll == pc = "rclear" => \A f \in present : frame[f] # "ring"

\* Every packet accepted leaves, also one that waits for a descriptor: the interrupt
\* that xmit_irq() may clear unseen is never the last (xmit_irq, dr_downdata).
Leaves == \A p \in Packets : (fate[p] \in {"outq", "ring"}) ~> (fate[p] \in {"gone", "freed"})
=============================================================================
