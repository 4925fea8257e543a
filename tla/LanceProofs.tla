----------------------------- MODULE LanceProofs -----------------------------
(***************************************************************************)
(* Theorems about LanceRing for every size of the rings, every number of   *)
(* packets and frames, and every window; and that it implements            *)
(* TransmitQueue: each step of driver and chip is a step of the queue, or  *)
(* none.                                                                   *)
(***************************************************************************)
EXTENDS LanceService, FiniteSetTheorems, SequenceTheorems, TLAPS

USE DEF xmit, recv, enabling, irq, chip, frames

-----------------------------------------------------------------------------
(***************************************************************************)
(* The inductive invariant.                                                *)
(***************************************************************************)
inUse(i) == xflag[i] # "none" \/ (loading /\ i = mdp)

\* Packets in the ring are all different, with the chip until it is done with them; a
\* packet that waits is in no descriptor and waits once.
Loaded ==
  /\ \A i \in Xmds : inUse(i) => /\ xmbuf[i] \in Packets
                                 /\ fate[xmbuf[i]] = IF xflag[i] = "done" THEN "gone" ELSE "ring"
  /\ \A i, j \in Xmds : inUse(i) /\ inUse(j) /\ xmbuf[i] = xmbuf[j] => i = j
  /\ loading => xflag[mdp] = "none"
Queued ==
  /\ \A k \in 1 .. Len(outq) : outq[k] \in Packets /\ fate[outq[k]] = "outq"
  /\ \A k, l \in 1 .. Len(outq) : outq[k] = outq[l] => k = l

\* A frame is in one descriptor as long as it is in the ring.
holds(i, f) == rflag[i] = "frame" /\ rmbuf[i] = f
Framed ==
  /\ \A i \in Rmds : rflag[i] = "frame" => rmbuf[i] \in Frames /\ frame[rmbuf[i]] = "ring"
  /\ \A i, j \in Rmds : rflag[i] = "frame" /\ rflag[j] = "frame" /\ rmbuf[i] = rmbuf[j] => i = j
  /\ \A f \in Frames : frame[f] = "ring" => \E i \in Rmds : holds(i, f)

\* What the scan has still to look at.
ahead(i) == IF recv_head <= scan THEN scan <= i \/ i < recv_head ELSE scan <= i /\ i < recv_head
ToTake ==
  /\ pc \in {"recv", "rclear"} =>
       \A f \in present : frame[f] = "ring" =>
         pc = "recv" /\ \E i \in Rmds : holds(i, f) /\ ahead(i)
  /\ \A f \in present : frame[f] # "new"

-----------------------------------------------------------------------------
(***************************************************************************)
(* Rings.                                                                  *)
(***************************************************************************)
\* Sizes of the rings, and what their indices are.
LEMMA Sizes ==
  /\ TCount \in Nat \ {0} /\ RCount \in Nat \ {0}
  /\ 0 \in Xmds /\ 0 \in Rmds
  /\ \A i \in Xmds : i \in Nat /\ i < TCount /\ nextXmd(i) \in Xmds /\ i # Null
  /\ \A i \in Rmds : i \in Nat /\ i < RCount /\ nextRmd(i) \in Rmds
<1>1. TCount \in Nat \ {0} /\ RCount \in Nat \ {0} /\ Null \notin Nat
  BY SizesAssumption
<1>2. \A i \in Xmds : i \in Nat /\ i < TCount /\ nextXmd(i) \in Xmds
  BY <1>1 DEF Xmds, nextXmd, after
<1>3. \A i \in Rmds : i \in Nat /\ i < RCount /\ nextRmd(i) \in Rmds
  BY <1>1 DEF Rmds, nextRmd, after
<1> QED
  BY <1>1, <1>2, <1>3 DEF Xmds, Rmds

Span(t, h) == {i \in Xmds : t # Null /\ IF t < h THEN t <= i /\ i < h ELSE t <= i \/ i < h}

\* One more descriptor at the head, which was not in use.
LEMMA Grows ==
  ASSUME NEW t \in Xmds \cup {Null}, NEW h \in Xmds, h # t
  PROVE  /\ h \notin Span(t, h)
         /\ Span(IF t = Null THEN h ELSE t, nextXmd(h)) = Span(t, h) \cup {h}
<1>1. TCount \in Nat \ {0} /\ h \in Nat /\ h < TCount /\ Null \notin Nat
  BY Sizes, SizesAssumption
<1>2. CASE t = Null
  BY <1>1, <1>2 DEF Span, nextXmd, after, Xmds
<1>3. CASE t # Null
  <2>1. t \in Nat /\ t < TCount
    BY <1>3, Sizes
  <2> QED
    BY <1>1, <1>3, <2>1 DEF Span, nextXmd, after, Xmds
<1> QED
  BY <1>2, <1>3

\* One less at the tail.
LEMMA Shrinks ==
  ASSUME NEW t \in Xmds, NEW h \in Xmds
  PROVE  /\ t \in Span(t, h)
         /\ Span(IF nextXmd(t) = h THEN Null ELSE nextXmd(t), h) = Span(t, h) \ {t}
<1>1. /\ TCount \in Nat \ {0} /\ h \in Nat /\ h < TCount /\ t \in Nat /\ t < TCount
      /\ Null \notin Nat /\ t # Null
  BY Sizes, SizesAssumption
<1>2. t \in Span(t, h)
  BY <1>1 DEF Span
<1>3. CASE nextXmd(t) = h
  BY <1>1, <1>3 DEF Span, nextXmd, after, Xmds
<1>4. CASE nextXmd(t) # h
  <2>1. nextXmd(t) \in Nat /\ nextXmd(t) # Null
    BY Sizes
  <2> QED
    BY <1>1, <1>2, <1>4, <2>1 DEF Span, nextXmd, after, Xmds
<1> QED
  BY <1>2, <1>3, <1>4

\* The descriptors between tail and head.
LEMMA SpanIsBetween ==
  ASSUME NEW i \in Xmds
  PROVE  between(i) <=> i \in Span(xmit_tail, xmit_head)
  BY DEF between, Span

-----------------------------------------------------------------------------
(***************************************************************************)
(* Type correctness.                                                       *)
(***************************************************************************)
\* Every step keeps the types.
LEMMA TypeStep == TypeOK /\ Loaded /\ Framed /\ [Next]_vars => TypeOK'
<1> SUFFICES ASSUME TypeOK, Loaded, Framed, [Next]_vars PROVE TypeOK'
  OBVIOUS
<1> USE DEF Pcs
<1>1. ASSUME NEW p \in Packets, DownLost(p) PROVE TypeOK'
  BY <1>1 DEF DownLost, TypeOK
<1>2. ASSUME NEW p \in Packets, load_tmd(p)
      PROVE  /\ xflag' = xflag /\ xmbuf' \in [Xmds -> Packets \cup {0}]
             /\ xmit_head' \in Xmds /\ xmit_tail' \in Xmds \cup {Null} /\ mdp' \in Xmds
             /\ fate' \in [Packets -> {"new", "outq", "ring", "gone", "freed"}]
  BY <1>2, Sizes DEF load_tmd, TypeOK
<1>3. ASSUME NEW p \in Packets, DownLoad(p) PROVE TypeOK'
  BY <1>2, <1>3 DEF DownLoad, TypeOK
<1>4. ASSUME NEW p \in Packets, DownQueue(p) PROVE TypeOK'
  BY <1>4 DEF DownQueue, TypeOK
<1>5. CASE DownOwn \/ XmitOwn
  BY <1>5 DEF DownOwn, XmitOwn, Own, TypeOK
<1>6. CASE Setstat
  BY <1>6 DEF Setstat, enable_lance, Push, TypeOK
<1>7. CASE isr
  BY <1>7 DEF isr, TypeOK
<1>8. ASSUME nextScan PROVE scan' \in Rmds /\ pc' \in Pcs
  BY <1>8, Sizes DEF nextScan, TypeOK
<1>9. CASE RecvOwned \/ RecvBad
  BY <1>8, <1>9 DEF RecvOwned, RecvBad, TypeOK
<1>10. CASE RecvDisabled
  BY <1>8, <1>10 DEF RecvDisabled, TypeOK
<1>11. ASSUME allocate_recv_mbuf
       PROVE rflag' \in [Rmds -> {"none", "own", "frame", "bad"}]
  BY <1>11 DEF allocate_recv_mbuf, TypeOK
<1>12. CASE RecvPass
  <2>1. rmbuf[scan] \in Frames
    BY <1>12 DEF RecvPass, Framed, TypeOK
  <2>2. up' \in Seq(Frames)
    <3>1. up \in Seq(Frames) /\ Append(up, rmbuf[scan]) \in Seq(Frames)
      BY <2>1 DEF TypeOK
    <3> QED
      BY <1>12, <3>1 DEF RecvPass
  <2>3. frame' \in [Frames -> {"new", "ring", "up", "lost"}]
    BY <1>12 DEF RecvPass, TypeOK
  <2> QED
    BY <1>8, <1>11, <1>12, <2>2, <2>3 DEF RecvPass, TypeOK
<1>13. CASE RecvEmpty
  BY <1>8, <1>11, <1>13 DEF RecvEmpty, TypeOK
<1>14. CASE RecvClear
  BY <1>14 DEF RecvClear, TypeOK
<1>15. CASE XmitFree
  BY <1>15, Sizes DEF XmitFree, TypeOK
<1>16. CASE XmitStop \/ XmitClear \/ IsrExit
  <2>1. CASE XmitStop
    BY <2>1 DEF XmitStop, TypeOK
  <2>2. CASE XmitClear
    BY <2>2 DEF XmitClear, TypeOK
  <2>3. CASE IsrExit
    BY <2>3 DEF IsrExit, TypeOK
  <2> QED
    BY <1>16, <2>1, <2>2, <2>3
<1>17. CASE XmitLoad
  <2>1. Head(outq) \in Packets /\ Tail(outq) \in Seq(Packets)
    BY <1>17 DEF XmitLoad, TypeOK
  <2> QED
    BY <1>2, <1>17, <2>1 DEF XmitLoad, TypeOK
<1>18. CASE ChipSend
  BY SMTT(30), <1>18, Sizes DEF ChipSend, TypeOK
<1>19. ASSUME NEW f \in Frames, NEW kind \in {"frame", "bad"}, ChipRecv(f, kind) PROVE TypeOK'
  BY <1>19, Sizes DEF ChipRecv, TypeOK
<1>20. ASSUME NEW f \in Frames, ChipMiss(f) PROVE TypeOK'
  BY <1>20 DEF ChipMiss, TypeOK
<1>21. CASE UNCHANGED vars
  BY <1>21 DEF vars, TypeOK
<1> QED
  BY <1>1, <1>3, <1>4, <1>5, <1>6, <1>7, <1>9, <1>10, <1>12, <1>13, <1>14, <1>15, <1>16, <1>17,
     <1>18, <1>19, <1>20, <1>21
  DEF Next, Down, Service, recv_irq, xmit_irq, Receive

-----------------------------------------------------------------------------
(***************************************************************************)
(* The transmit ring.                                                      *)
(***************************************************************************)
xmitVars == <<xflag, xmbuf, xmit_head, xmit_tail, mdp>>

\* Who touches the transmit side, and when.
LEMMA XmitSteps ==
  ASSUME [Next]_vars
  PROVE  \/ /\ UNCHANGED <<xmitVars, outq, fate, chipX>> /\ loading' = loading
            /\ pc \in {"xmit", "load", "own"} /\ pc' \notin {"xmit", "load", "own"} =>
                 outq = << >> \/ ~free
         \/ \E p \in Packets : DownLost(p) \/ DownLoad(p) \/ DownQueue(p)
         \/ DownOwn \/ XmitOwn \/ XmitLoad \/ XmitFree \/ ChipSend
<1> USE DEF loading, xmitVars
<1>1. CASE Setstat
  BY <1>1 DEF Setstat, enable_lance, Push
<1>2. CASE isr
  BY <1>2 DEF isr
<1>3. CASE recv_irq
  BY <1>3 DEF recv_irq, RecvOwned, RecvBad, RecvDisabled, RecvPass, RecvEmpty, RecvClear, nextScan
<1>4. CASE XmitStop \/ XmitClear \/ IsrExit
  BY <1>4 DEF XmitStop, XmitClear, IsrExit
<1>5. CASE Receive
  BY <1>5 DEF Receive, ChipRecv, ChipMiss
<1>6. CASE UNCHANGED vars
  BY <1>6 DEF vars
<1> QED
  BY <1>1, <1>2, <1>3, <1>4, <1>5, <1>6 DEF Next, Down, Service, xmit_irq

Used == {i \in Xmds : inUse(i)}

\* The property as an equality of sets.
LEMMA RingMeans ==
  ASSUME RingAgrees
  PROVE  Span(xmit_tail, xmit_head) = Used
  BY SpanIsBetween DEF RingAgrees, Used, inUse, Span

\* What is loaded joins at the head, what is freed leaves at the tail.
LEMMA UsedStep ==
  ASSUME TypeOK, RingAgrees, Loaded, [Next]_vars
  PROVE  Span(xmit_tail, xmit_head)' = Used'
<1>0. Span(xmit_tail, xmit_head) = Used
  BY RingMeans
<1>1. ASSUME NEW p \in Packets, load_tmd(p), free, ~loading, loading'
      PROVE  Span(xmit_tail, xmit_head)' = Used'
  <2>1. Span(xmit_tail, xmit_head)' = Used \cup {xmit_head}
    BY <1>0, <1>1, Grows DEF load_tmd, free, TypeOK
  <2>2. Used' = Used \cup {xmit_head}
    BY <1>1 DEF load_tmd, Used, inUse, TypeOK
  <2> QED
    BY <2>1, <2>2
<1>2. CASE UNCHANGED xmitVars /\ loading' = loading
  BY <1>0, <1>2 DEF xmitVars, Used, inUse, Span
<1>3. ASSUME NEW p \in Packets, DownLost(p) \/ DownQueue(p)
      PROVE  Span(xmit_tail, xmit_head)' = Used'
  BY <1>2, <1>3 DEF DownLost, DownQueue, xmitVars, loading
<1>4. ASSUME NEW p \in Packets, DownLoad(p) PROVE Span(xmit_tail, xmit_head)' = Used'
  BY <1>1, <1>4 DEF DownLoad, loading
<1>5. CASE DownOwn \/ XmitOwn
  <2>1. /\ xflag' = [xflag EXCEPT ![mdp] = "own"]
        /\ UNCHANGED <<xmit_head, xmit_tail, mdp>> /\ loading /\ ~loading'
    BY <1>5 DEF DownOwn, XmitOwn, Own, loading
  <2>2. Used' = Used
    BY <2>1 DEF Used, inUse, TypeOK
  <2> QED
    BY <1>0, <2>1, <2>2 DEF Span
<1>6. CASE XmitLoad
  <2>1. outq \in Seq(Packets) /\ outq # << >>
    BY <1>6 DEF XmitLoad, TypeOK
  <2>2. Head(outq) \in Packets
    BY <2>1
  <2> QED
    BY <1>1, <1>6, <2>2 DEF XmitLoad, loading
<1>7. CASE XmitFree
  <2>1. /\ xmit_tail \in Xmds /\ xmit_head \in Xmds /\ xmit_head' = xmit_head
        /\ xmit_tail' = IF nextXmd(xmit_tail) = xmit_head THEN Null ELSE nextXmd(xmit_tail)
        /\ xflag' = [xflag EXCEPT ![xmit_tail] = "none"] /\ ~loading /\ ~loading'
    BY <1>7 DEF XmitFree, TypeOK, loading
  <2>2. Span(xmit_tail, xmit_head)' = Used \ {xmit_tail}
    BY <1>0, <2>1, Shrinks
  <2>3. Used' = Used \ {xmit_tail}
    BY <2>1 DEF Used, inUse, TypeOK
  <2> QED
    BY <2>2, <2>3
<1>8. CASE ChipSend
  <2>1. /\ xflag' = [xflag EXCEPT ![chipX] = "done"] /\ xflag[chipX] = "own"
        /\ UNCHANGED <<xmit_head, xmit_tail, mdp>> /\ loading' = loading
    BY <1>8 DEF ChipSend, loading
  <2>2. Used' = Used
    BY <2>1 DEF Used, inUse, TypeOK
  <2> QED
    BY <1>0, <2>1, <2>2 DEF Span
<1> QED
  BY <1>2, <1>3, <1>4, <1>5, <1>6, <1>7, <1>8, XmitSteps

\* Head and tail go on telling which descriptors are in use.
LEMMA RingStep ==
  ASSUME TypeOK, RingAgrees, Loaded, [Next]_vars
  PROVE  RingAgrees'
<1>1. Span(xmit_tail, xmit_head)' = Used'
  BY UsedStep
<1>2. \A i \in Xmds : between(i)' <=> i \in Span(xmit_tail, xmit_head)'
  BY DEF between, Span
<1> QED
  BY <1>1, <1>2 DEF RingAgrees, Used, inUse

\* No packet is overtaken.
LEMMA OvertakeStep ==
  ASSUME TypeOK, NoOvertaking, [Next]_vars
  PROVE  NoOvertaking'
<1>1. CASE /\ UNCHANGED <<xmitVars, outq, fate>> /\ loading' = loading
           /\ pc \in {"xmit", "load", "own"} /\ pc' \notin {"xmit", "load", "own"} =>
                outq = << >> \/ ~free
  BY <1>1 DEF NoOvertaking, xmitVars, free
<1>2. ASSUME NEW p \in Packets, DownLost(p) \/ DownLoad(p) \/ DownQueue(p)
      PROVE  NoOvertaking'
  BY <1>2 DEF DownLost, DownLoad, DownQueue, NoOvertaking, free
<1>3. CASE DownOwn \/ XmitOwn \/ XmitLoad \/ XmitFree \/ ChipSend
  BY <1>3 DEF DownOwn, XmitOwn, Own, XmitLoad, XmitFree, ChipSend, NoOvertaking, free
<1> QED
  BY <1>1, <1>2, <1>3, XmitSteps

-----------------------------------------------------------------------------
(***************************************************************************)
(* The packets in the ring and in the queue.                               *)
(***************************************************************************)
\* A packet that is in no descriptor is loaded.
LEMMA LoadStep ==
  ASSUME TypeOK, RingAgrees, Loaded, NEW p \in Packets, load_tmd(p), free, ~loading, loading',
         fate[p] \in {"new", "outq"}
  PROVE  Loaded'
<1>1. /\ mdp' = xmit_head /\ xmbuf' = [xmbuf EXCEPT ![xmit_head] = p] /\ xflag' = xflag
      /\ fate' = [fate EXCEPT ![p] = "ring"] /\ xmit_head \in Xmds
  BY DEF load_tmd, TypeOK
<1>2. ~inUse(xmit_head)
  BY RingMeans, Grows DEF Used, free, TypeOK
<1>3. \A i \in Xmds : inUse(i)' <=> inUse(i) \/ i = xmit_head
  BY <1>1, <1>2 DEF inUse
<1>4. \A i \in Xmds : inUse(i) => /\ xmbuf'[i] = xmbuf[i] /\ xmbuf[i] # p
                                  /\ xmbuf[i] \in Packets /\ fate'[xmbuf[i]] = fate[xmbuf[i]]
  BY <1>1, <1>2 DEF Loaded, TypeOK
<1>5. xmbuf'[xmit_head] = p /\ fate'[p] = "ring"
  BY <1>1 DEF TypeOK
<1>6. xflag'[xmit_head] = "none"
  BY <1>1, <1>2 DEF inUse
<1> QED
  BY <1>1, <1>3, <1>4, <1>5, <1>6 DEF Loaded

\* What becomes of a packet that is in no descriptor does not matter to the ring.
LEMMA Elsewhere ==
  ASSUME TypeOK, Loaded, UNCHANGED xmitVars, loading' = loading,
         NEW p \in Packets, fate[p] = "new", NEW v, fate' = [fate EXCEPT ![p] = v]
  PROVE  Loaded'
<1>1. \A i \in Xmds : inUse(i)' <=> inUse(i)
  BY DEF inUse, xmitVars
<1>2. \A i \in Xmds : inUse(i) => fate'[xmbuf[i]] = fate[xmbuf[i]]
  BY DEF Loaded, TypeOK
<1> QED
  BY <1>1, <1>2 DEF Loaded, xmitVars

\* The packets in the ring stay different, and the chip's until it is done.
LEMMA LoadedStep ==
  ASSUME TypeOK, RingAgrees, Loaded, Queued, [Next]_vars
  PROVE  Loaded'
<1>1. CASE UNCHANGED <<xmitVars, fate>> /\ loading' = loading
  BY <1>1 DEF xmitVars, Loaded, inUse
<1>2. ASSUME NEW p \in Packets, DownLost(p) \/ DownQueue(p) PROVE Loaded'
  BY <1>2, Elsewhere DEF DownLost, DownQueue, next, xmitVars, loading
<1>3. ASSUME NEW p \in Packets, DownLoad(p) PROVE Loaded'
  BY <1>3, LoadStep DEF DownLoad, next, loading
<1>4. CASE DownOwn \/ XmitOwn
  <2>1. /\ xflag' = [xflag EXCEPT ![mdp] = "own"] /\ mdp \in Xmds
        /\ UNCHANGED <<xmbuf, mdp, fate>> /\ loading /\ ~loading'
    BY <1>4 DEF DownOwn, XmitOwn, Own, loading, TypeOK
  <2>2. \A i \in Xmds : (inUse(i)' <=> inUse(i)) /\ (xflag'[i] = "done" <=> xflag[i] = "done")
    BY <2>1 DEF inUse, TypeOK, Loaded
  <2> QED
    BY <2>1, <2>2 DEF Loaded
<1>5. CASE XmitLoad
  <2>1. outq \in Seq(Packets) /\ outq # << >>
    BY <1>5 DEF XmitLoad, TypeOK
  <2>2. Head(outq) \in Packets /\ 1 \in 1 .. Len(outq) /\ Head(outq) = outq[1]
    BY <2>1
  <2>3. fate[Head(outq)] = "outq"
    BY <2>2 DEF Queued
  <2> QED
    BY <1>5, <2>2, <2>3, LoadStep DEF XmitLoad, loading
<1>6. CASE XmitFree
  <2>1. /\ xmit_tail \in Xmds /\ xflag' = [xflag EXCEPT ![xmit_tail] = "none"]
        /\ fate' = [fate EXCEPT ![xmbuf[xmit_tail]] = "freed"]
        /\ UNCHANGED <<xmbuf, mdp>> /\ ~loading /\ ~loading'
    BY <1>6 DEF XmitFree, TypeOK, loading
  <2>2. inUse(xmit_tail)
    BY <2>1, RingMeans, Shrinks DEF Used, TypeOK
  <2>3. \A i \in Xmds : inUse(i)' => inUse(i) /\ i # xmit_tail /\ xflag'[i] = xflag[i]
    BY <2>1 DEF inUse, TypeOK
  <2>4. \A i \in Xmds : inUse(i)' => xmbuf[i] # xmbuf[xmit_tail] /\ xmbuf[i] \in Packets
    BY <2>1, <2>2, <2>3 DEF Loaded
  <2>5. \A i \in Xmds : inUse(i)' => fate'[xmbuf[i]] = fate[xmbuf[i]]
    BY <2>1, <2>4 DEF TypeOK
  <2> QED
    BY <2>1, <2>3, <2>5 DEF Loaded
<1>7. CASE ChipSend
  <2>1. /\ xflag' = [xflag EXCEPT ![chipX] = "done"] /\ xflag[chipX] = "own" /\ chipX \in Xmds
        /\ fate' = [fate EXCEPT ![xmbuf[chipX]] = "gone"]
        /\ UNCHANGED <<xmbuf, mdp>> /\ loading' = loading
    BY <1>7 DEF ChipSend, loading, TypeOK
  <2>2. /\ inUse(chipX) /\ xmbuf[chipX] \in Packets
        /\ \A i \in Xmds : inUse(i)' <=> inUse(i)
    BY <2>1 DEF inUse, TypeOK, Loaded
  <2>3. \A i \in Xmds : inUse(i) /\ i # chipX =>
          /\ xmbuf[i] # xmbuf[chipX] /\ xmbuf[i] \in Packets
          /\ fate'[xmbuf[i]] = fate[xmbuf[i]] /\ xflag'[i] = xflag[i]
    BY <2>1, <2>2 DEF Loaded, TypeOK
  <2>4. fate'[xmbuf[chipX]] = "gone" /\ xflag'[chipX] = "done"
    BY <2>1, <2>2 DEF TypeOK
  <2>5. loading => xflag[mdp] = "none" /\ mdp \in Xmds
    BY DEF Loaded, TypeOK
  <2>6. loading' => xflag'[mdp'] = "none"
    BY <2>1, <2>5 DEF TypeOK
  <2> QED
    BY <2>1, <2>2, <2>3, <2>4, <2>6 DEF Loaded
<1> QED
  BY <1>1, <1>2, <1>3, <1>4, <1>5, <1>6, <1>7, XmitSteps

\* The packets that wait stay different, and out of the ring.
LEMMA QueuedStep ==
  ASSUME TypeOK, RingAgrees, Loaded, Queued, [Next]_vars
  PROVE  Queued'
<1>0. outq \in Seq(Packets)
  BY DEF TypeOK
<1>1. CASE UNCHANGED <<outq, fate>>
  BY <1>1 DEF Queued
<1>2. ASSUME NEW p \in Packets, fate[p] # "outq", NEW v, fate' = [fate EXCEPT ![p] = v],
             UNCHANGED outq
      PROVE  Queued'
  BY <1>2 DEF Queued, TypeOK
<1>3. ASSUME NEW p \in Packets, DownLost(p) PROVE Queued'
  BY <1>2, <1>3 DEF DownLost, next
<1>4. ASSUME NEW p \in Packets, DownLoad(p) PROVE Queued'
  BY <1>2, <1>4 DEF DownLoad, load_tmd, next
<1>5. ASSUME NEW p \in Packets, DownQueue(p) PROVE Queued'
  <2>1. outq' = Append(outq, p) /\ fate[p] = "new" /\ fate' = [fate EXCEPT ![p] = "outq"]
    BY <1>5 DEF DownQueue, next
  <2>2. /\ Len(outq') = Len(outq) + 1 /\ outq'[Len(outq) + 1] = p
        /\ \A k \in 1 .. Len(outq) : outq'[k] = outq[k] /\ outq[k] # p
    BY <1>0, <2>1 DEF Queued
  <2>3. \A k \in 1 .. Len(outq') : k \in 1 .. Len(outq) \/ k = Len(outq) + 1
    BY <1>0, <2>2
  <2> QED
    BY <2>1, <2>2, <2>3 DEF Queued, TypeOK
<1>6. CASE XmitLoad
  <2>1. outq' = Tail(outq) /\ outq # << >> /\ fate' = [fate EXCEPT ![Head(outq)] = "ring"]
    BY <1>6 DEF XmitLoad, load_tmd
  <2>2. /\ 1 \in 1 .. Len(outq) /\ Head(outq) = outq[1]
        /\ \A k \in 1 .. Len(outq') : k + 1 \in 1 .. Len(outq) /\ outq'[k] = outq[k + 1] /\ k + 1 # 1
    BY <1>0, <2>1
  <2>3. \A k \in 1 .. Len(outq') : outq'[k] # outq[1]
    BY <2>2 DEF Queued
  <2>4. \A k \in 1 .. Len(outq') : outq'[k] \in Packets /\ fate'[outq'[k]] = "outq"
    BY <2>1, <2>2, <2>3 DEF Queued, TypeOK
  <2>5. \A k, l \in 1 .. Len(outq') : outq'[k] = outq'[l] => k + 1 = l + 1
    BY <2>2 DEF Queued
  <2> QED
    BY <2>4, <2>5 DEF Queued
<1>7. CASE DownOwn \/ XmitOwn
  BY <1>1, <1>7 DEF DownOwn, XmitOwn, Own
<1>8. CASE XmitFree
  <2>1. /\ xmit_tail \in Xmds /\ fate' = [fate EXCEPT ![xmbuf[xmit_tail]] = "freed"]
        /\ UNCHANGED outq
    BY <1>8 DEF XmitFree, TypeOK
  <2>2. inUse(xmit_tail)
    BY <2>1, RingMeans, Shrinks DEF Used, TypeOK
  <2>3. xmbuf[xmit_tail] \in Packets /\ fate[xmbuf[xmit_tail]] # "outq"
    BY <2>1, <2>2 DEF Loaded
  <2> QED
    BY <1>2, <2>1, <2>3
<1>9. CASE ChipSend
  <2>1. /\ chipX \in Xmds /\ xflag[chipX] = "own"
        /\ fate' = [fate EXCEPT ![xmbuf[chipX]] = "gone"] /\ UNCHANGED outq
    BY <1>9 DEF ChipSend, TypeOK
  <2>2. xmbuf[chipX] \in Packets /\ fate[xmbuf[chipX]] # "outq"
    BY <2>1 DEF Loaded, inUse
  <2> QED
    BY <1>2, <2>1, <2>2
<1> QED
  BY <1>1, <1>3, <1>4, <1>5, <1>6, <1>7, <1>8, <1>9, XmitSteps

\* What the chip reads is live.
LEMMA LoadedIsLive == Loaded => ChipReadsLive
  BY DEF Loaded, ChipReadsLive, inUse

-----------------------------------------------------------------------------
(***************************************************************************)
(* The receive ring.                                                       *)
(***************************************************************************)
\* The scan goes on to what is left but the descriptor it has looked at.
LEMMA ScanOn ==
  ASSUME TypeOK, nextScan, UNCHANGED recv_head, NEW i \in Rmds, ahead(i), i # scan
  PROVE  pc' = "recv" /\ ahead(i)'
<1>1. /\ RCount \in Nat \ {0} /\ scan \in Nat /\ scan < RCount /\ recv_head \in Nat
      /\ recv_head < RCount /\ i \in Nat /\ i < RCount
  BY Sizes DEF TypeOK
<1>2. scan' = nextRmd(scan)
  BY DEF nextScan
<1>3. nextRmd(scan) # recv_head
  BY <1>1 DEF nextRmd, after, ahead
<1>4. pc' = "recv"
  BY <1>3 DEF nextScan
<1>5. IF recv_head <= nextRmd(scan) THEN nextRmd(scan) <= i \/ i < recv_head
                                    ELSE nextRmd(scan) <= i /\ i < recv_head
  BY <1>1, <1>3 DEF nextRmd, after, ahead
<1> QED
  BY <1>2, <1>4, <1>5 DEF ahead

\* Who touches the receive side, and when.
LEMMA RecvSteps ==
  ASSUME [Next]_vars
  PROVE  \/ /\ UNCHANGED <<rflag, rmbuf, frame, present, scan, recv_head>>
            /\ pc' = "recv" => pc = "recv"
            /\ pc' = "rclear" => pc = "rclear"
         \/ isr \/ RecvOwned \/ RecvBad \/ RecvDisabled \/ RecvPass \/ RecvEmpty \/ RecvClear
         \/ IsrExit
         \/ \E f \in Frames : (\E kind \in {"frame", "bad"} : ChipRecv(f, kind)) \/ ChipMiss(f)
<1>1. CASE Setstat
  BY <1>1 DEF Setstat, enable_lance, Push
<1>2. CASE Down
  BY <1>2 DEF Down, DownLost, DownLoad, DownQueue
<1>3. CASE DownOwn
  BY <1>3 DEF DownOwn
<1>4. CASE xmit_irq
  BY <1>4 DEF xmit_irq, XmitFree, XmitStop, XmitLoad, XmitOwn, XmitClear
<1>5. CASE ChipSend
  BY <1>5 DEF ChipSend
<1>6. CASE UNCHANGED vars
  BY <1>6 DEF vars
<1> QED
  BY <1>1, <1>2, <1>3, <1>4, <1>5, <1>6 DEF Next, Service, recv_irq, Receive

\* A frame taken from the ring is in no descriptor any more; the others stay.
LEMMA Taken ==
  ASSUME TypeOK, Framed, rflag[scan] = "frame", NEW v \in {"own", "none"},
         rflag' = [rflag EXCEPT ![scan] = v], UNCHANGED rmbuf,
         NEW w \in {"up", "lost"}, frame' = [frame EXCEPT ![rmbuf[scan]] = w]
  PROVE  /\ Framed'
         /\ \A f \in Frames : frame'[f] = "ring" => frame[f] = "ring" /\ f # rmbuf[scan]
         /\ \A i \in Rmds, f \in Frames : holds(i, f) /\ f # rmbuf[scan] => i # scan /\ holds(i, f)'
<1>1. scan \in Rmds /\ rmbuf[scan] \in Frames
  BY DEF TypeOK, Framed
<1>2. \A i \in Rmds : rflag'[i] = "frame" => i # scan /\ rflag[i] = "frame"
  BY <1>1 DEF TypeOK
<1>3. \A f \in Frames : frame'[f] = "ring" => frame[f] = "ring" /\ f # rmbuf[scan]
  BY <1>1 DEF TypeOK
<1>4. \A i \in Rmds, f \in Frames : holds(i, f) /\ f # rmbuf[scan] => i # scan /\ holds(i, f)'
  BY <1>1 DEF holds, TypeOK
<1>5. \A i \in Rmds : rflag'[i] = "frame" => rmbuf'[i] \in Frames /\ frame'[rmbuf'[i]] = "ring"
  BY <1>1, <1>2 DEF Framed, TypeOK
<1> QED
  BY <1>2, <1>3, <1>4, <1>5 DEF Framed

\* What recv_irq() does to a descriptor without a frame.
LEMMA Skipped ==
  ASSUME TypeOK, Framed, rflag[scan] # "frame", NEW v \in {"own", "none"},
         rflag' = rflag \/ rflag' = [rflag EXCEPT ![scan] = v], UNCHANGED <<rmbuf, frame>>
  PROVE  /\ Framed'
         /\ \A i \in Rmds, f \in Frames : holds(i, f) => i # scan /\ holds(i, f)'
<1>1. \A i \in Rmds : rflag'[i] = "frame" <=> rflag[i] = "frame"
  BY DEF TypeOK
<1> QED
  BY <1>1 DEF Framed, holds

\* A frame stays in one descriptor until the scan takes it.
LEMMA FrameStep ==
  ASSUME TypeOK, Framed, ToTake, [Next]_vars
  PROVE  Framed' /\ ToTake'
<1>0. present \subseteq Frames /\ scan \in Rmds
  BY DEF TypeOK
<1>1. CASE /\ UNCHANGED <<rflag, rmbuf, frame, present, scan, recv_head>>
           /\ pc' = "recv" => pc = "recv"
           /\ pc' = "rclear" => pc = "rclear"
  BY <1>1 DEF Framed, ToTake, holds, ahead
<1>2. CASE isr
  <2>1. /\ UNCHANGED <<rflag, rmbuf, frame, recv_head>> /\ scan' = recv_head
        /\ present' = {f \in Frames : frame[f] = "ring"} /\ pc' \in {"recv", "xmit"}
    BY <1>2 DEF isr
  <2>2. \A i \in Rmds : ahead(i)'
    <3>1. recv_head \in Nat /\ \A i \in Rmds : i \in Nat
      BY Sizes DEF TypeOK
    <3> QED
      BY <2>1, <3>1 DEF ahead
  <2>3. Framed'
    BY <2>1 DEF Framed, holds
  <2>4. \A f \in present' : f \in Frames /\ frame[f] = "ring" /\ \E i \in Rmds : holds(i, f)'
    BY <2>1 DEF Framed, holds
  <2>5. ToTake'
    BY <2>1, <2>2, <2>4 DEF ToTake
  <2> QED
    BY <2>3, <2>5
<1>3. ASSUME pc = "recv", nextScan, UNCHANGED <<recv_head, present>>, Framed',
             \A f \in Frames : frame'[f] = "ring" => frame[f] = "ring",
             \A f \in Frames : frame[f] # "new" => frame'[f] # "new",
             \A i \in Rmds, f \in Frames :
               holds(i, f) /\ frame'[f] = "ring" => i # scan /\ holds(i, f)'
      PROVE  ToTake'
  <2>1. ASSUME NEW f \in present, frame'[f] = "ring"
        PROVE  pc' = "recv" /\ \E i \in Rmds : holds(i, f)' /\ ahead(i)'
    <3>1. PICK i \in Rmds : holds(i, f) /\ ahead(i)
      BY <1>0, <1>3, <2>1 DEF ToTake
    <3>2. i # scan /\ holds(i, f)'
      BY <1>0, <1>3, <2>1, <3>1
    <3>3. pc' = "recv" /\ ahead(i)'
      BY <1>3, <3>1, <3>2, ScanOn
    <3> QED
      BY <3>2, <3>3
  <2>2. \A f \in present : frame'[f] # "new"
    BY <1>0, <1>3 DEF ToTake
  <2> QED
    BY <1>3, <2>1, <2>2 DEF ToTake
<1>4. CASE RecvOwned \/ RecvBad \/ RecvEmpty
  <2>1. /\ pc = "recv" /\ nextScan /\ rflag[scan] # "frame"
        /\ UNCHANGED <<recv_head, present, rmbuf, frame>>
        /\ \E v \in {"own", "none"} : rflag' = rflag \/ rflag' = [rflag EXCEPT ![scan] = v]
    BY <1>4 DEF RecvOwned, RecvBad, RecvEmpty, allocate_recv_mbuf
  <2>2. /\ Framed'
        /\ \A i \in Rmds, f \in Frames : holds(i, f) => i # scan /\ holds(i, f)'
    BY <2>1, Skipped
  <2> QED
    BY <1>3, <2>1, <2>2
<1>5. CASE RecvDisabled \/ RecvPass
  <2>1. /\ pc = "recv" /\ nextScan /\ rflag[scan] = "frame"
        /\ UNCHANGED <<recv_head, present, rmbuf>>
        /\ \E v \in {"own", "none"} : rflag' = [rflag EXCEPT ![scan] = v]
        /\ \E w \in {"up", "lost"} : frame' = [frame EXCEPT ![rmbuf[scan]] = w]
    BY <1>5 DEF RecvDisabled, RecvPass, allocate_recv_mbuf
  <2>2. /\ Framed'
        /\ \A f \in Frames : frame'[f] = "ring" => frame[f] = "ring" /\ f # rmbuf[scan]
        /\ \A i \in Rmds, f \in Frames : holds(i, f) /\ f # rmbuf[scan] => i # scan /\ holds(i, f)'
    BY <2>1, Taken
  <2>3. \A f \in Frames : frame[f] # "new" => frame'[f] # "new"
    BY <2>1 DEF TypeOK
  <2> QED
    BY <1>3, <2>1, <2>2, <2>3
<1>6. CASE RecvClear \/ IsrExit
  <2>1. /\ UNCHANGED <<rflag, rmbuf, frame>> /\ pc' \notin {"recv", "rclear"}
        /\ present' \subseteq present
    BY <1>6 DEF RecvClear, IsrExit
  <2>2. Framed'
    BY <2>1 DEF Framed, holds
  <2>3. ToTake'
    BY <2>1 DEF ToTake
  <2> QED
    BY <2>2, <2>3
<1>7. ASSUME NEW f \in Frames, NEW kind \in {"frame", "bad"}, ChipRecv(f, kind)
      PROVE  Framed' /\ ToTake'
  <2>1. /\ frame[f] = "new" /\ rflag[chipR] = "own" /\ chipR \in Rmds
        /\ rflag' = [rflag EXCEPT ![chipR] = kind] /\ rmbuf' = [rmbuf EXCEPT ![chipR] = f]
        /\ frame' = [frame EXCEPT ![f] = IF kind = "frame" THEN "ring" ELSE "lost"]
        /\ UNCHANGED <<present, scan, recv_head, pc>>
    BY <1>7 DEF ChipRecv, arrives, TypeOK
  <2>2. /\ \A i \in Rmds : i # chipR => rflag'[i] = rflag[i] /\ rmbuf'[i] = rmbuf[i]
        /\ rflag'[chipR] = kind /\ rmbuf'[chipR] = f
        /\ \A g \in Frames : g # f => frame'[g] = frame[g]
        /\ frame'[f] = IF kind = "frame" THEN "ring" ELSE "lost"
    BY <2>1 DEF TypeOK
  <2>3. \A i \in Rmds : rflag[i] = "frame" => i # chipR /\ rmbuf[i] \in Frames /\ rmbuf[i] # f
    BY <2>1 DEF Framed
  <2>4. \A i \in Rmds, g \in Frames : holds(i, g) => holds(i, g)' /\ i # chipR /\ g # f
    BY <2>2, <2>3 DEF holds
  <2>5. \A i \in Rmds : rflag'[i] = "frame" => rmbuf'[i] \in Frames /\ frame'[rmbuf'[i]] = "ring"
    BY <2>2, <2>3 DEF Framed
  <2>6. \A i, j \in Rmds : rflag'[i] = "frame" /\ rflag'[j] = "frame" /\ rmbuf'[i] = rmbuf'[j]
                             => i = j
    BY <2>2, <2>3 DEF Framed
  <2>7. \A g \in Frames : frame'[g] = "ring" => \E i \in Rmds : holds(i, g)'
    <3> SUFFICES ASSUME NEW g \in Frames, frame'[g] = "ring" PROVE \E i \in Rmds : holds(i, g)'
      OBVIOUS
    <3>1. CASE g = f
      <4>1. kind = "frame"
        BY <2>2, <3>1
      <4> QED
        BY <2>1, <2>2, <3>1, <4>1 DEF holds
    <3>2. CASE g # f
      BY <2>2, <2>4, <3>2 DEF Framed
    <3> QED
      BY <3>1, <3>2
  <2>8. Framed'
    BY <2>5, <2>6, <2>7 DEF Framed
  <2>9. \A g \in present : g # f /\ frame'[g] = frame[g]
    BY <1>0, <2>1, <2>2 DEF ToTake
  <2>10. \A i \in Rmds : ahead(i)' <=> ahead(i)
    BY <2>1 DEF ahead
  <2> QED
    BY <1>0, <2>1, <2>4, <2>8, <2>9, <2>10 DEF ToTake
<1>8. ASSUME NEW f \in Frames, ChipMiss(f) PROVE Framed' /\ ToTake'
  <2>1. /\ frame[f] = "new" /\ frame' = [frame EXCEPT ![f] = "lost"]
        /\ UNCHANGED <<rflag, rmbuf, present, scan, recv_head, pc>>
    BY <1>8 DEF ChipMiss, arrives
  <2>2. \A g \in Frames : g # f => frame'[g] = frame[g]
    BY <2>1 DEF TypeOK
  <2>3. \A g \in Frames : frame'[g] = "ring" => g # f
    BY <2>1 DEF TypeOK
  <2>4. \A i \in Rmds : rflag[i] = "frame" => rmbuf[i] # f
    BY <2>1 DEF Framed
  <2>5. \A i \in Rmds, g \in Frames : holds(i, g)' <=> holds(i, g)
    BY <2>1 DEF holds
  <2>6. \A i \in Rmds : ahead(i)' <=> ahead(i)
    BY <2>1 DEF ahead
  <2>7. Framed'
    BY <2>1, <2>2, <2>3, <2>4, <2>5 DEF Framed
  <2>8. \A g \in present : g # f
    BY <2>1 DEF ToTake
  <2> QED
    BY <1>0, <2>1, <2>2, <2>5, <2>6, <2>7, <2>8 DEF ToTake
<1> QED
  BY <1>1, <1>2, <1>4, <1>5, <1>6, <1>7, <1>8, RecvSteps

-----------------------------------------------------------------------------
(***************************************************************************)
(* The theorems.                                                           *)
(***************************************************************************)
Ring == TypeOK /\ RingAgrees /\ NoOvertaking /\ Loaded /\ Queued /\ Framed /\ ToTake

\* init_hdw() leaves empty rings.
LEMMA InitRing == Init => Ring
<1> SUFFICES ASSUME Init PROVE Ring
  OBVIOUS
<1>1. TypeOK
  <2>1. << >> \in Seq(Packets) /\ << >> \in Seq(Frames) /\ FALSE \in BOOLEAN
    OBVIOUS
  <2>2. ioenabled \in BOOLEAN /\ ether_drvr \in BOOLEAN
    BY DEF Init
  <2> QED
    BY <2>1, <2>2, Sizes DEF Init, TypeOK, Pcs
<1>2. ~loading /\ \A i \in Xmds : xflag[i] = "none" /\ ~between(i)
  BY DEF Init, loading, between
<1>3. Len(outq) = 0 /\ outq = << >> /\ pc = "idle"
  BY DEF Init
<1>4. Framed /\ ToTake
  BY DEF Init, Framed, ToTake
<1> QED
  BY <1>1, <1>2, <1>3, <1>4 DEF Ring, RingAgrees, NoOvertaking, Loaded, Queued, inUse

\* The parts together are inductive.
LEMMA RingInductive == Ring /\ [Next]_vars => Ring'
  BY TypeStep, RingStep, OvertakeStep, LoadedStep, QueuedStep, FrameStep DEF Ring

\* Every variable keeps its type, and head and tail stay inside the ring.
THEOREM TypeCorrect == Spec => []TypeOK
<1>1. Ring => TypeOK
  BY DEF Ring
<1> QED
  BY InitRing, RingInductive, <1>1, PTL DEF Spec

\* Head and tail tell which descriptors are in use, in rings of every size, one included.
THEOREM HeadAndTail == Spec => []RingAgrees
<1>1. Ring => RingAgrees
  BY DEF Ring
<1> QED
  BY InitRing, RingInductive, <1>1, PTL DEF Spec

\* No packet that waits is overtaken by one that comes later.
THEOREM InTurn == Spec => []NoOvertaking
<1>1. Ring => NoOvertaking
  BY DEF Ring
<1> QED
  BY InitRing, RingInductive, <1>1, PTL DEF Spec

\* The chip never reads a packet that is freed or in another descriptor too.
THEOREM NotFreedEarly == Spec => []ChipReadsLive
<1>1. Ring => ChipReadsLive
  BY LoadedIsLive DEF Ring
<1> QED
  BY InitRing, RingInductive, <1>1, PTL DEF Spec

\* No frame is passed up twice.
THEOREM NotPassedTwice == Spec => []PassedOnce
<1>1. Ring => PassedOnce
  BY DEF Ring, Framed, PassedOnce
<1> QED
  BY InitRing, RingInductive, <1>1, PTL DEF Spec

\* One scan takes all the frames that were there when it began.
THEOREM ScanIsWhole == Spec => []ScanTakesAll
<1>1. Ring => ScanTakesAll
  BY DEF Ring, ToTake, ScanTakesAll
<1> QED
  BY InitRing, RingInductive, <1>1, PTL DEF Spec

-----------------------------------------------------------------------------
(***************************************************************************)
(* What the chip has still to send is one stretch of the ring.             *)
(***************************************************************************)
owed == Cardinality(toSend)
Stretch ==
  /\ owed \in 0 .. TCount
  /\ \A i \in Xmds : i \in toSend <=> \E k \in 0 .. owed - 1 : i = place(chipX, k)
  /\ xmit_head = place(chipX, owed)

\* Places are descriptors; the first is the place itself, and those of one round differ.
LEMMA Places ==
  ASSUME NEW c \in Xmds
  PROVE  /\ \A k \in 0 .. TCount : place(c, k) \in Xmds
         /\ place(c, 0) = c /\ place(c, TCount) = c
         /\ \A k \in 0 .. TCount - 1 : nextXmd(place(c, k)) = place(c, k + 1)
         /\ \A k \in 0 .. TCount - 1 : place(nextXmd(c), k) = place(c, k + 1)
         /\ \A k \in 1 .. TCount - 1 : place(c, k) # c
         /\ \A k, l \in 0 .. TCount - 1 : place(c, k) = place(c, l) => k = l
<1>1. TCount \in Nat \ {0} /\ c \in Nat /\ c < TCount
  BY Sizes
<1> QED
  BY <1>1 DEF place, nextXmd, after, Xmds

\* There are finitely many.
LEMMA Finite == IsFiniteSet(toSend) /\ owed \in Nat
<1>1. IsFiniteSet(Xmds)
  BY Sizes, FS_Interval DEF Xmds
<1>2. toSend \in SUBSET Xmds
  BY DEF toSend
<1>3. IsFiniteSet(toSend)
  BY <1>1, <1>2, FS_Subset
<1> QED
  BY <1>3, FS_CardinalityType DEF owed

\* load_tmd() adds the descriptor at the head.
LEMMA Added ==
  ASSUME TypeOK, Stretch, xmit_head \notin toSend, toSend' = toSend \cup {xmit_head},
         xmit_head' = nextXmd(xmit_head), chipX' = chipX
  PROVE  /\ Stretch' /\ owed' = owed + 1 /\ owed < TCount
         /\ xmit_head = place(chipX, owed)
<1>1. chipX \in Xmds /\ xmit_head \in Xmds /\ TCount \in Nat \ {0} /\ owed \in 0 .. TCount
  BY Sizes DEF TypeOK, Stretch
<1>2. owed' = owed + 1
  BY Finite, FS_AddElement DEF owed
<1>3. owed < TCount
  <2>1. SUFFICES ASSUME owed = TCount PROVE FALSE
    BY <1>1
  <2>2. xmit_head = place(chipX, 0) /\ 0 \in 0 .. owed - 1
    BY <1>1, <2>1, Places DEF Stretch
  <2> QED
    BY <1>1, <2>2 DEF Stretch
<1>4. xmit_head' = place(chipX', owed')
  BY <1>1, <1>2, <1>3, Places DEF Stretch
<1>5. \A i \in Xmds : i \in toSend' <=> \E k \in 0 .. owed' - 1 : i = place(chipX, k)
  <2> TAKE i \in Xmds
  <2>1. \A k \in 0 .. owed : k \in 0 .. owed - 1 \/ k = owed
    BY <1>1
  <2>2. i = xmit_head <=> i = place(chipX, owed)
    BY DEF Stretch
  <2> QED
    BY <1>1, <1>2, <2>1, <2>2 DEF Stretch
<1>6. \A i, k : place(i, k)' = place(i, k)
  BY DEF place
<1> QED
  BY <1>1, <1>2, <1>3, <1>4, <1>5, <1>6 DEF Stretch

\* The chip takes the first one away.
LEMMA Removed ==
  ASSUME TypeOK, Stretch, chipX \in toSend, toSend' = toSend \ {chipX},
         xmit_head' = xmit_head, chipX' = nextXmd(chipX)
  PROVE  Stretch' /\ owed' = owed - 1 /\ owed > 0
<1>1. chipX \in Xmds /\ TCount \in Nat \ {0} /\ owed \in 0 .. TCount
  BY Sizes DEF TypeOK, Stretch
<1>2. owed > 0
  BY <1>1 DEF Stretch
<1>3. owed' = owed - 1
  BY Finite, FS_RemoveElement DEF owed
<1>4. xmit_head' = place(chipX', owed')
  BY <1>1, <1>2, <1>3, Places DEF Stretch
<1>5. ASSUME NEW i \in Xmds
      PROVE  i \in toSend' <=> \E k \in 0 .. owed' - 1 : i = place(chipX', k)
  <2>1. \A k \in 0 .. owed' - 1 :
          /\ place(chipX', k) = place(chipX, k + 1) /\ place(chipX, k + 1) # chipX
          /\ k + 1 \in 0 .. owed - 1
    BY <1>1, <1>2, <1>3, Places
  <2>2. \A k \in 0 .. owed - 1 : k = 0 \/ (k - 1 \in 0 .. owed' - 1 /\ k - 1 + 1 = k)
    BY <1>1, <1>2, <1>3
  <2>3. place(chipX, 0) = chipX
    BY <1>1, Places
  <2>4. ASSUME i \in toSend' PROVE \E k \in 0 .. owed' - 1 : i = place(chipX', k)
    <3>1. PICK k \in 0 .. owed - 1 : i = place(chipX, k)
      BY <2>4 DEF Stretch
    <3>2. k # 0
      BY <2>3, <2>4, <3>1
    <3>3. k - 1 \in 0 .. owed' - 1 /\ place(chipX', k - 1) = i
      BY <2>1, <2>2, <3>1, <3>2
    <3> QED
      BY <3>3
  <2>5. ASSUME NEW k \in 0 .. owed' - 1, i = place(chipX', k) PROVE i \in toSend'
    BY <2>1, <2>5 DEF Stretch
  <2> QED
    BY <2>4, <2>5
<1>6. \A i, k : place(i, k)' = place(i, k)
  BY DEF place
<1> QED
  BY <1>1, <1>2, <1>3, <1>4, <1>5, <1>6 DEF Stretch

-----------------------------------------------------------------------------
(***************************************************************************)
(* The queue that senders see.                                             *)
(***************************************************************************)
\* Descriptors of the stretch hold packets.
LEMMA StretchHolds ==
  ASSUME TypeOK, Loaded, Stretch, NEW k \in 1 .. owed
  PROVE  /\ place(chipX, k - 1) \in toSend /\ place(chipX, k - 1) \in Xmds
         /\ xmbuf[place(chipX, k - 1)] \in Packets
<1>1. owed \in Nat /\ owed <= TCount /\ TCount \in Nat /\ chipX \in Xmds
  BY Finite, Sizes DEF TypeOK, Stretch
<1>2. k - 1 \in 0 .. owed - 1 /\ k - 1 \in 0 .. TCount
  BY <1>1
<1>3. place(chipX, k - 1) \in toSend /\ place(chipX, k - 1) \in Xmds
  BY <1>1, <1>2, Places DEF Stretch
<1>4. inUse(place(chipX, k - 1))
  BY <1>3 DEF toSend, inUse
<1> QED
  BY <1>3, <1>4 DEF Loaded

IsLine ==
  /\ owed \in Nat /\ Len(outq) \in Nat
  /\ waiting \in Seq(Packets) /\ Len(waiting) = owed + Len(outq)
  /\ \A k \in 1 .. owed : waiting[k] = xmbuf[place(chipX, k - 1)]
  /\ \A k \in 1 .. Len(outq) : waiting[owed + k] = outq[k]

LEMMA LineHolds == TypeOK /\ Loaded /\ Stretch => IsLine
<1> SUFFICES ASSUME TypeOK, Loaded, Stretch PROVE IsLine
  OBVIOUS
<1>1. owed \in Nat /\ outq \in Seq(Packets) /\ Len(outq) \in Nat
  BY Finite DEF TypeOK
<1>2. \A k \in 1 .. owed : xmbuf[place(chipX, k - 1)] \in Packets
  BY StretchHolds
<1> DEFINE e(k) == IF k <= owed THEN xmbuf[place(chipX, k - 1)] ELSE outq[k - owed]
<1>3. ASSUME NEW k \in 1 .. owed + Len(outq) PROVE e(k) \in Packets
  <2>1. CASE k <= owed
    BY <1>1, <1>2, <2>1
  <2>2. CASE k > owed
    <3>1. k - owed \in 1 .. Len(outq)
      BY <1>1, <2>2
    <3> QED
      BY <1>1, <2>2, <3>1
  <2> QED
    BY <1>1, <2>1, <2>2
<1>4. waiting = [k \in 1 .. owed + Len(outq) |-> e(k)] /\ owed + Len(outq) \in Nat
  BY <1>1 DEF waiting, owed
<1>5. /\ \A k \in 1 .. owed : e(k) = xmbuf[place(chipX, k - 1)]
      /\ \A k \in 1 .. Len(outq) : e(owed + k) = outq[k] /\ owed + k \in 1 .. owed + Len(outq)
  BY <1>1
<1> HIDE DEF e
<1>6. waiting \in Seq(Packets) /\ Len(waiting) = owed + Len(outq)
  BY <1>3, <1>4
<1>7. \A k \in 1 .. owed : waiting[k] = xmbuf[place(chipX, k - 1)]
  BY <1>1, <1>4, <1>5
<1>8. \A k \in 1 .. Len(outq) : waiting[owed + k] = outq[k]
  BY <1>1, <1>4, <1>5
<1> QED
  BY <1>1, <1>6, <1>7, <1>8 DEF IsLine

LEMMA LineHoldsNext == TypeOK' /\ Loaded' /\ Stretch' => IsLine'
  BY LineHolds, PTL

\* A step that leaves the chip's stretch and the packets in it leaves the queue.
LEMMA SameLine ==
  ASSUME UNCHANGED <<outq, chipX, xmbuf>>, toSend' = toSend
  PROVE  waiting' = waiting
  BY DEF waiting, place

LEMMA SameStretch ==
  ASSUME Stretch, UNCHANGED <<chipX, xmit_head>>, toSend' = toSend
  PROVE  Stretch'
  BY DEF Stretch, owed, place

\* The descriptor load_tmd() fills is not one the chip has still to send.
LEMMA HeadIsFree ==
  ASSUME TypeOK, RingAgrees, free
  PROVE  xmit_head \in Xmds /\ ~inUse(xmit_head) /\ xmit_head \notin toSend
<1>1. xmit_head \in Xmds /\ ~inUse(xmit_head)
  BY RingMeans, Grows DEF Used, free, TypeOK
<1> QED
  BY <1>1 DEF inUse, toSend

\* load_tmd() puts the packet behind those of the stretch.
LEMMA LoadedLine ==
  ASSUME TypeOK, RingAgrees, Loaded, Stretch, NEW p \in Packets, load_tmd(p), free, ~loading,
         loading', chipX' = chipX
  PROVE  /\ Stretch' /\ owed' = owed + 1
         /\ \A k \in 1 .. owed : xmbuf'[place(chipX, k - 1)] = xmbuf[place(chipX, k - 1)]
         /\ xmbuf'[place(chipX, owed)] = p
<1>1. /\ mdp' = xmit_head /\ xmbuf' = [xmbuf EXCEPT ![xmit_head] = p] /\ xflag' = xflag
      /\ xmit_head' = nextXmd(xmit_head) /\ xmit_head \in Xmds /\ xmit_head \notin toSend
  BY HeadIsFree DEF load_tmd
<1>2. toSend' = toSend \cup {xmit_head}
  BY <1>1 DEF toSend
<1>3. /\ Stretch' /\ owed' = owed + 1 /\ owed < TCount /\ owed \in Nat /\ chipX \in Xmds
      /\ xmit_head = place(chipX, owed)
  BY <1>1, <1>2, Added, Finite DEF TypeOK
<1>4. \A k \in 1 .. owed : place(chipX, k - 1) \in toSend /\ place(chipX, k - 1) \in Xmds
  BY StretchHolds
<1>5. \A k \in 1 .. owed : xmbuf'[place(chipX, k - 1)] = xmbuf[place(chipX, k - 1)]
  BY <1>1, <1>4 DEF TypeOK
<1>6. xmbuf'[place(chipX, owed)] = p
  BY <1>1, <1>3 DEF TypeOK
<1> QED
  BY <1>3, <1>5, <1>6

\* A packet that finds a free descriptor joins at the end: nobody waits.
LEMMA Joins ==
  ASSUME TypeOK, TypeOK', RingAgrees, Loaded, Loaded', NoOvertaking, Stretch,
         NEW p \in Packets, DownLoad(p)
  PROVE  Stretch' /\ waiting' = Append(waiting, p)
<1>1. /\ load_tmd(p) /\ free /\ ~loading /\ loading' /\ UNCHANGED <<chipX, outq>>
      /\ pc = "idle"
  BY DEF DownLoad, loading
<1>2. outq = << >> /\ Len(outq) = 0
  BY <1>1 DEF NoOvertaking
<1>3. /\ Stretch' /\ owed' = owed + 1
      /\ \A k \in 1 .. owed : xmbuf'[place(chipX, k - 1)] = xmbuf[place(chipX, k - 1)]
      /\ xmbuf'[place(chipX, owed)] = p
  BY <1>1, LoadedLine
<1>4. owed \in Nat /\ owed + 1 - 1 = owed
  BY Finite
<1>5. /\ waiting \in Seq(Packets) /\ Len(waiting) = owed
      /\ \A k \in 1 .. owed : waiting[k] = xmbuf[place(chipX, k - 1)]
  BY <1>2, <1>4, LineHolds DEF IsLine
<1>6. /\ waiting' \in Seq(Packets) /\ Len(waiting') = owed + 1
      /\ \A k \in 1 .. owed + 1 : waiting'[k] = xmbuf'[place(chipX, k - 1)]
  <2>1. IsLine'
    BY <1>3, LineHoldsNext
  <2>2. \A k : place(chipX, k)' = place(chipX, k)
    BY <1>1 DEF place
  <2> QED
    BY <1>1, <1>2, <1>3, <1>4, <2>1, <2>2 DEF IsLine
<1>7. /\ Append(waiting, p) \in Seq(Packets) /\ Len(Append(waiting, p)) = owed + 1
      /\ \A k \in 1 .. owed : Append(waiting, p)[k] = waiting[k]
      /\ Append(waiting, p)[owed + 1] = p
  BY <1>5, AppendProperties
<1>8. ASSUME NEW k \in 1 .. owed + 1 PROVE waiting'[k] = Append(waiting, p)[k]
  <2>1. CASE k = owed + 1
    BY <1>3, <1>4, <1>6, <1>7, <2>1
  <2>2. CASE k \in 1 .. owed
    BY <1>3, <1>5, <1>6, <1>7, <2>2
  <2>3. k = owed + 1 \/ k \in 1 .. owed
    BY <1>4
  <2> QED
    BY <2>1, <2>2, <2>3
<1>9. waiting' = Append(waiting, p)
  BY <1>6, <1>7, <1>8, SeqEqual
<1> QED
  BY <1>3, <1>9

\* One that finds the ring full joins behind those that wait for a descriptor.
LEMMA JoinsQueue ==
  ASSUME TypeOK, TypeOK', Loaded, Loaded', Stretch, NEW p \in Packets, DownQueue(p)
  PROVE  Stretch' /\ waiting' = Append(waiting, p)
<1>1. /\ outq' = Append(outq, p) /\ UNCHANGED <<chipX, xmbuf, xmit_head>>
      /\ toSend' = toSend
  BY DEF DownQueue, toSend, loading
<1>2. Stretch' /\ owed' = owed
  BY <1>1, SameStretch DEF owed
<1>3. IsLine /\ IsLine'
  BY <1>2, LineHolds, LineHoldsNext
<1>4. \A k : place(chipX, k)' = place(chipX, k)
  BY <1>1 DEF place
<1>5. /\ outq \in Seq(Packets) /\ Len(outq') = Len(outq) + 1
      /\ \A k \in 1 .. Len(outq) : outq'[k] = outq[k]
      /\ outq'[Len(outq) + 1] = p
  BY <1>1, AppendProperties DEF TypeOK
<1>0. owed \in Nat /\ Len(outq) \in Nat
  BY <1>3 DEF IsLine
<1>6. /\ waiting' \in Seq(Packets) /\ Len(waiting') = owed + Len(outq) + 1
      /\ \A k \in 1 .. owed : waiting'[k] = waiting[k]
      /\ \A k \in 1 .. Len(outq) : waiting'[owed + k] = waiting[owed + k]
      /\ waiting'[owed + Len(outq) + 1] = p
  <2>1. waiting' \in Seq(Packets) /\ Len(waiting') = owed + Len(outq')
    BY <1>2, <1>3 DEF IsLine
  <2>2. \A k \in 1 .. owed : waiting'[k] = waiting[k]
    BY <1>1, <1>2, <1>3, <1>4 DEF IsLine
  <2>3. \A k \in 1 .. Len(outq') : waiting'[owed + k] = outq'[k]
    BY <1>2, <1>3 DEF IsLine
  <2>4. \A k \in 1 .. Len(outq) : waiting[owed + k] = outq[k] /\ k \in 1 .. Len(outq')
    BY <1>0, <1>3, <1>5 DEF IsLine
  <2>5. Len(outq) + 1 \in 1 .. Len(outq') /\ owed + (Len(outq) + 1) = owed + Len(outq) + 1
    BY <1>0, <1>5
  <2>6. waiting'[owed + Len(outq) + 1] = p
    BY <1>5, <2>3, <2>5
  <2>7. owed + Len(outq') = owed + Len(outq) + 1
    BY <1>0, <1>5
  <2> QED
    BY <1>5, <2>1, <2>2, <2>3, <2>4, <2>6, <2>7
<1>7. /\ Append(waiting, p) \in Seq(Packets) /\ Len(Append(waiting, p)) = owed + Len(outq) + 1
      /\ \A k \in 1 .. owed + Len(outq) : Append(waiting, p)[k] = waiting[k]
      /\ Append(waiting, p)[owed + Len(outq) + 1] = p
  <2>1. waiting \in Seq(Packets) /\ Len(waiting) = owed + Len(outq)
    BY <1>3 DEF IsLine
  <2> QED
    BY <2>1, AppendProperties
<1>8. ASSUME NEW k \in 1 .. owed + Len(outq) + 1 PROVE waiting'[k] = Append(waiting, p)[k]
  <2>1. CASE k \in 1 .. owed
    BY <1>6, <1>7, <2>1
  <2>2. CASE k \in owed + 1 .. owed + Len(outq)
    <3>1. k - owed \in 1 .. Len(outq) /\ owed + (k - owed) = k /\ k \in 1 .. owed + Len(outq)
      BY <1>0, <2>2
    <3>2. waiting'[owed + (k - owed)] = waiting[owed + (k - owed)]
      BY <1>6, <3>1
    <3> QED
      BY <1>7, <3>1, <3>2
  <2>3. CASE k = owed + Len(outq) + 1
    BY <1>6, <1>7, <2>3
  <2>4. \/ k \in 1 .. owed \/ k \in owed + 1 .. owed + Len(outq)
        \/ k = owed + Len(outq) + 1
    BY <1>0
  <2> QED
    BY <2>1, <2>2, <2>3, <2>4
<1>9. waiting' = Append(waiting, p)
  BY <1>6, <1>7, <1>8, SeqEqual
<1> QED
  BY <1>2, <1>9

\* A packet that moves from the queue to the ring keeps its place.
LEMMA Moves ==
  ASSUME TypeOK, TypeOK', RingAgrees, Loaded, Loaded', Stretch, XmitLoad
  PROVE  Stretch' /\ waiting' = waiting
<1>1. /\ load_tmd(Head(outq)) /\ free /\ ~loading /\ loading' /\ UNCHANGED chipX
      /\ outq # << >> /\ outq' = Tail(outq) /\ outq \in Seq(Packets)
  BY DEF XmitLoad, loading, TypeOK
<1>2. /\ Len(outq) \in Nat \ {0} /\ Head(outq) = outq[1] /\ Head(outq) \in Packets
      /\ Len(outq') = Len(outq) - 1
      /\ \A k \in 1 .. Len(outq) - 1 : outq'[k] = outq[k + 1]
  BY <1>1
<1>3. /\ Stretch' /\ owed' = owed + 1
      /\ \A k \in 1 .. owed : xmbuf'[place(chipX, k - 1)] = xmbuf[place(chipX, k - 1)]
      /\ xmbuf'[place(chipX, owed)] = outq[1]
  BY <1>1, <1>2, LoadedLine
<1>4. IsLine /\ IsLine'
  BY <1>3, LineHolds, LineHoldsNext
<1>5. \A k : place(chipX, k)' = place(chipX, k)
  BY <1>1 DEF place
<1>6. owed \in Nat /\ owed + 1 - 1 = owed
  BY Finite
<1>7. /\ waiting \in Seq(Packets) /\ waiting' \in Seq(Packets)
      /\ Len(waiting) = owed + Len(outq) /\ Len(waiting') = owed + Len(outq)
  BY <1>2, <1>3, <1>4, <1>6 DEF IsLine
<1>8. \A k \in 1 .. owed + 1 : waiting'[k] = xmbuf'[place(chipX, k - 1)]
  BY <1>1, <1>3, <1>4, <1>5 DEF IsLine
<1>9. ASSUME NEW k \in 1 .. owed + Len(outq) PROVE waiting'[k] = waiting[k]
  <2>1. CASE k \in 1 .. owed
    BY <1>3, <1>4, <1>6, <1>8, <2>1 DEF IsLine
  <2>2. CASE k = owed + 1
    <3>1. waiting'[k] = outq[1]
      BY <1>3, <1>6, <1>8, <2>2
    <3>2. 1 \in 1 .. Len(outq)
      BY <1>2
    <3> QED
      BY <1>4, <2>2, <3>1, <3>2 DEF IsLine
  <2>3. CASE k \in owed + 2 .. owed + Len(outq)
    <3> DEFINE l == k - owed - 1
    <3>1. /\ l \in 1 .. Len(outq) - 1 /\ l + 1 \in 1 .. Len(outq)
          /\ owed + 1 + l = k /\ owed + (l + 1) = k
      BY <1>2, <1>6, <2>3
    <3> HIDE DEF l
    <3>2. waiting'[owed + 1 + l] = outq'[l]
      BY <1>2, <1>3, <1>4, <3>1 DEF IsLine
    <3>3. waiting[owed + (l + 1)] = outq[l + 1]
      BY <1>4, <3>1 DEF IsLine
    <3> QED
      BY <1>2, <3>1, <3>2, <3>3
  <2> QED
    BY <1>2, <1>6, <2>1, <2>2, <2>3
<1>10. waiting' = waiting
  BY <1>7, <1>9, SeqEqual
<1> QED
  BY <1>3, <1>10

\* The chip takes the oldest.
LEMMA Leaving ==
  ASSUME TypeOK, TypeOK', Loaded, Loaded', Stretch, ChipSend
  PROVE  /\ Stretch' /\ waiting # << >> /\ waiting' = Tail(waiting)
         /\ Head(waiting) = xmbuf[chipX]
<1>1. /\ xflag[chipX] = "own" /\ xflag' = [xflag EXCEPT ![chipX] = "done"] /\ chipX \in Xmds
      /\ chipX' = nextXmd(chipX) /\ UNCHANGED <<xmbuf, xmit_head, mdp, outq>>
      /\ loading' = loading
  BY DEF ChipSend, TypeOK, loading
<1>2. chipX \in toSend /\ toSend' = toSend \ {chipX}
  BY <1>1 DEF toSend, Loaded, TypeOK
<1>3. Stretch' /\ owed' = owed - 1 /\ owed > 0 /\ owed \in Nat /\ owed \in 0 .. TCount
  BY <1>1, <1>2, Removed, Finite DEF Stretch
<1>4. IsLine /\ IsLine'
  BY <1>3, LineHolds, LineHoldsNext
<1>5. \A k \in 1 .. owed - 1 : place(chipX, k - 1)' = place(chipX, k)
  <2>1. \A k \in 1 .. owed - 1 : k - 1 \in 0 .. TCount - 1 /\ k - 1 + 1 = k
    BY <1>3, Sizes
  <2>2. \A k \in 0 .. TCount - 1 : place(chipX', k) = place(chipX, k + 1)
    BY <1>1, Places
  <2>3. \A k : place(chipX, k)' = place(chipX', k)
    BY DEF place
  <2> QED
    BY <2>1, <2>2, <2>3
<1>6. \A k \in 1 .. owed - 1 : waiting'[k] = waiting[k + 1]
  <2> TAKE k \in 1 .. owed - 1
  <2>1. waiting'[k] = xmbuf[place(chipX, k)]
    BY <1>1, <1>3, <1>4, <1>5 DEF IsLine
  <2>2. k + 1 \in 1 .. owed /\ k + 1 - 1 = k
    BY <1>3
  <2> QED
    BY <1>4, <2>1, <2>2 DEF IsLine
<1>7. \A k \in 1 .. Len(outq) : waiting'[owed - 1 + k] = waiting[owed + k]
  BY <1>1, <1>3, <1>4 DEF IsLine
<1>8. /\ waiting \in Seq(Packets) /\ waiting' \in Seq(Packets) /\ Len(outq) \in Nat
      /\ Len(waiting) = owed + Len(outq) /\ Len(waiting') = owed - 1 + Len(outq)
  BY <1>1, <1>3, <1>4 DEF IsLine
<1>9. /\ waiting # << >> /\ Tail(waiting) \in Seq(Packets)
      /\ Len(Tail(waiting)) = owed - 1 + Len(outq)
      /\ \A k \in 1 .. owed - 1 + Len(outq) : Tail(waiting)[k] = waiting[k + 1]
  BY <1>3, <1>8, HeadTailProperties
<1>10. ASSUME NEW k \in 1 .. owed - 1 + Len(outq) PROVE waiting'[k] = waiting[k + 1]
  <2>1. CASE k \in 1 .. owed - 1
    BY <1>6, <2>1
  <2>2. CASE k \in owed .. owed - 1 + Len(outq)
    <3> DEFINE l == k - owed + 1
    <3>1. l \in 1 .. Len(outq) /\ owed - 1 + l = k /\ owed + l = k + 1
      BY <1>3, <1>8, <2>2
    <3> HIDE DEF l
    <3> QED
      BY <1>7, <3>1
  <2> QED
    BY <1>3, <1>8, <2>1, <2>2
<1>11. waiting' = Tail(waiting)
  BY <1>8, <1>9, <1>10, SeqEqual
<1>12. Head(waiting) = xmbuf[chipX]
  <2>1. 1 \in 1 .. owed /\ 1 - 1 = 0
    BY <1>3
  <2>2. waiting[1] = xmbuf[place(chipX, 0)]
    BY <1>4, <2>1 DEF IsLine
  <2> QED
    BY <1>1, <1>9, <2>2, Places, <1>8, HeadTailProperties
<1> QED
  BY <1>3, <1>9, <1>11, <1>12

-----------------------------------------------------------------------------
(***************************************************************************)
(* Every step.                                                             *)
(***************************************************************************)
seen(v) == IF v \in {"outq", "ring"} THEN "queued" ELSE v

\* What becomes of one packet, as senders see it.
LEMMA Stands ==
  ASSUME TypeOK, NEW p \in Packets, NEW v, fate' = [fate EXCEPT ![p] = v]
  PROVE  /\ standing' = [standing EXCEPT ![p] = seen(v)]
         /\ standing[p] = seen(fate[p])
  BY DEF TypeOK, standing, seen

\* The chip's stretch begins empty, and every step keeps it; the queue makes a step of
\* the abstract one, or none.
LEMMA QueueStep ==
  ASSUME Ring, Ring', Stretch, [Next]_vars
  PROVE  Stretch' /\ [Queue!QueueNext]_(Queue!queueVars)
<1> USE DEF Queue!QueueNext, Queue!queueVars
<1>0. /\ TypeOK /\ TypeOK' /\ Loaded /\ Loaded' /\ RingAgrees /\ NoOvertaking /\ Queued
  BY DEF Ring
<1>1. ASSUME UNCHANGED <<xmbuf, xmit_head, chipX, outq, fate>>, toSend' = toSend
      PROVE  Stretch' /\ UNCHANGED Queue!queueVars
  BY <1>1, SameLine, SameStretch DEF standing
<1>2. CASE UNCHANGED <<xmitVars, outq, fate, chipX>> /\ loading' = loading
  <2>1. UNCHANGED <<xmbuf, xmit_head, chipX, outq, fate>> /\ toSend' = toSend
    BY <1>2 DEF xmitVars, toSend
  <2> QED
    BY <1>1, <2>1
<1>3. ASSUME NEW p \in Packets, DownLost(p)
      PROVE  Stretch' /\ Queue!Refuse(p)
  <2>1. /\ toSend' = toSend /\ UNCHANGED <<xmbuf, xmit_head, chipX, outq>>
        /\ fate' = [fate EXCEPT ![p] = "freed"] /\ fate[p] = "new"
    BY <1>3 DEF DownLost, toSend, loading, next
  <2>2. standing' = [standing EXCEPT ![p] = "freed"] /\ standing[p] = "new"
    BY <1>0, <2>1, Stands DEF seen
  <2> QED
    BY <2>1, <2>2, SameLine, SameStretch DEF Queue!Refuse
<1>4. ASSUME NEW p \in Packets, DownLoad(p) \/ DownQueue(p)
      PROVE  Stretch' /\ Queue!Accept(p)
  <2>1. Stretch' /\ waiting' = Append(waiting, p)
    BY <1>0, <1>4, Joins, JoinsQueue
  <2>2. fate[p] = "new" /\ \E v \in {"ring", "outq"} : fate' = [fate EXCEPT ![p] = v]
    BY <1>4 DEF DownLoad, DownQueue, load_tmd, next
  <2>3. standing' = [standing EXCEPT ![p] = "queued"] /\ standing[p] = "new"
    BY <1>0, <2>2, Stands DEF seen
  <2> QED
    BY <2>1, <2>3 DEF Queue!Accept
<1>5. CASE DownOwn \/ XmitOwn
  <2>1. /\ xflag' = [xflag EXCEPT ![mdp] = "own"] /\ mdp \in Xmds /\ loading /\ ~loading'
        /\ UNCHANGED <<xmbuf, xmit_head, mdp, chipX, outq, fate>>
    BY <1>0, <1>5 DEF DownOwn, XmitOwn, Own, loading, TypeOK
  <2>2. toSend' = toSend
    BY <1>0, <2>1 DEF toSend, TypeOK
  <2> QED
    BY <1>1, <2>1, <2>2
<1>6. CASE XmitLoad
  <2>1. Stretch' /\ waiting' = waiting
    BY <1>0, <1>6, Moves
  <2>2. /\ outq \in Seq(Packets) /\ outq # << >>
        /\ fate' = [fate EXCEPT ![Head(outq)] = "ring"]
    BY <1>0, <1>6 DEF XmitLoad, load_tmd, TypeOK
  <2>3. Head(outq) \in Packets /\ 1 \in 1 .. Len(outq) /\ Head(outq) = outq[1]
    BY <2>2
  <2>4. fate[Head(outq)] = "outq"
    BY <1>0, <2>3 DEF Queued
  <2>5. standing' = [standing EXCEPT ![Head(outq)] = "queued"] /\ standing[Head(outq)] = "queued"
    BY <1>0, <2>2, <2>3, <2>4, Stands DEF seen
  <2>6. standing' = standing
    BY <2>5 DEF standing
  <2> QED
    BY <2>1, <2>6
<1>7. CASE XmitFree
  <2>1. /\ xmit_tail \in Xmds /\ xflag[xmit_tail] # "own"
        /\ xflag' = [xflag EXCEPT ![xmit_tail] = "none"]
        /\ fate' = [fate EXCEPT ![xmbuf[xmit_tail]] = "freed"]
        /\ UNCHANGED <<xmbuf, xmit_head, mdp, chipX, outq>> /\ ~loading /\ ~loading'
    BY <1>0, <1>7 DEF XmitFree, TypeOK, loading
  <2>2. inUse(xmit_tail)
    BY <1>0, <2>1, RingMeans, Shrinks DEF Used, TypeOK
  <2>3. xmbuf[xmit_tail] \in Packets /\ fate[xmbuf[xmit_tail]] = "gone"
    BY <1>0, <2>1, <2>2 DEF Loaded, inUse, TypeOK
  <2>4. toSend' = toSend
    BY <1>0, <2>1 DEF toSend, TypeOK
  <2>5. /\ standing' = [standing EXCEPT ![xmbuf[xmit_tail]] = "freed"]
        /\ standing[xmbuf[xmit_tail]] = "gone"
    BY <1>0, <2>1, <2>3, Stands DEF seen
  <2>6. Queue!Release(xmbuf[xmit_tail])
    BY <2>1, <2>4, <2>5, SameLine DEF Queue!Release
  <2> QED
    BY <2>1, <2>3, <2>4, <2>6, SameStretch
<1>8. CASE ChipSend
  <2>1. /\ Stretch' /\ waiting # << >> /\ waiting' = Tail(waiting)
        /\ Head(waiting) = xmbuf[chipX]
    BY <1>0, <1>8, Leaving
  <2>2. xmbuf[chipX] \in Packets /\ fate' = [fate EXCEPT ![xmbuf[chipX]] = "gone"]
    BY <1>0, <1>8 DEF ChipSend, Loaded, inUse, TypeOK
  <2>3. standing' = [standing EXCEPT ![xmbuf[chipX]] = "gone"]
    BY <1>0, <2>2, Stands DEF seen
  <2> QED
    BY <2>1, <2>3 DEF Queue!Depart
<1> QED
  BY <1>2, <1>3, <1>4, <1>5, <1>6, <1>7, <1>8, XmitSteps

LEMMA InitStretch == Init => Stretch /\ Queue!QueueInit
<1> SUFFICES ASSUME Init PROVE Stretch /\ Queue!QueueInit
  OBVIOUS
<1>1. toSend = {} /\ outq = << >> /\ Len(outq) = 0
  BY DEF Init, toSend, loading
<1>2. owed = 0
  BY <1>1, FS_EmptySet DEF owed
<1>3. Stretch
  BY <1>1, <1>2, Sizes DEF Init, Stretch, place
<1>4. waiting = << >>
  BY <1>1, <1>2 DEF waiting, owed
<1>5. standing = [p \in Packets |-> "new"]
  BY DEF Init, standing
<1> QED
  BY <1>3, <1>4, <1>5 DEF Queue!QueueInit

\* Whoever sends through the driver sees a queue: what it accepts leaves in order, once,
\* and is freed once and not before.
THEOREM Implements == Spec => InOrder
<1>1. Ring /\ Ring' /\ Stretch /\ [Next]_vars
      => Stretch' /\ [Queue!QueueNext]_(Queue!queueVars)
  BY QueueStep
<1> QED
  BY <1>1, InitStretch, InitRing, RingInductive, PTL DEF Spec, InOrder, Queue!QueueSpec

-----------------------------------------------------------------------------
(***************************************************************************)
(* No standstill: the safety core of Leaves.                               *)
(***************************************************************************)
Sent == {i \in Xmds : xflag[i] = "done"}

\* An interrupt of the transmitter is lost only for descriptors finished since the last
\* look, so as long as none is pending one descriptor at least is not finished.
Noticed ==
  /\ window \in 0 .. MaxWindow
  /\ pc \in {"load", "own"} => Cardinality(Sent) <= window
  /\ "TINT" \notin csr0 => Cardinality(Sent) <= MaxWindow

LEMMA SentFinite == IsFiniteSet(Sent) /\ Cardinality(Sent) \in Nat /\ MaxWindow \in Nat
<1>1. IsFiniteSet(Xmds)
  BY Sizes, FS_Interval DEF Xmds
<1>2. Sent \in SUBSET Xmds
  BY DEF Sent
<1>3. IsFiniteSet(Sent)
  BY <1>1, <1>2, FS_Subset
<1> QED
  BY <1>3, FS_CardinalityType, WindowAssumption

\* When xmit_irq()'s first loop stops the chip has finished nothing.
LEMMA AllSeen ==
  ASSUME TypeOK, RingAgrees, Stretch, ~loading, xmit_tail # Null => xflag[xmit_tail] = "own"
  PROVE  Sent = {}
<1>1. SUFFICES ASSUME NEW i \in Xmds, xflag[i] = "done" PROVE FALSE
  BY DEF Sent
<1>2. between(i)
  BY <1>1 DEF RingAgrees
<1>3. /\ TCount \in Nat /\ chipX \in Xmds /\ xmit_head \in Xmds /\ owed \in 0 .. TCount
      /\ xmit_tail \in Xmds /\ xmit_tail \in toSend
  BY <1>2, Sizes DEF TypeOK, Stretch, between, toSend
<1>4. PICK k \in 0 .. owed - 1 : xmit_tail = place(chipX, k)
  BY <1>3 DEF Stretch
<1>5. xmit_head = place(chipX, owed)
  BY DEF Stretch
<1>6. \E l \in 0 .. owed - 1 : i = place(chipX, l)
  <2> DEFINE l == IF chipX <= i THEN i - chipX ELSE i + TCount - chipX
  <2>1. l \in 0 .. owed - 1 /\ i = place(chipX, l)
    BY <1>2, <1>3, <1>4, <1>5 DEF between, place, Xmds
  <2> QED
    BY <2>1
<1>7. i \in toSend
  BY <1>6 DEF Stretch
<1> QED
  BY <1>1, <1>7 DEF toSend

LEMMA NoticedStep ==
  ASSUME Ring, Stretch, Noticed, [Next]_vars
  PROVE  Noticed'
<1>0. TypeOK /\ RingAgrees /\ Loaded
  BY DEF Ring
<1>1. CASE /\ Sent' = Sent /\ window' = window
           /\ pc' \in {"load", "own"} => pc \in {"load", "own"}
           /\ "TINT" \in csr0' <=> "TINT" \in csr0
  BY <1>1 DEF Noticed
<1>2. CASE XmitStop
  <2>1. Sent = {} /\ Sent' = Sent /\ window' = 0 /\ csr0' = csr0
    BY <1>0, <1>2, AllSeen DEF XmitStop, loading, Sent
  <2> QED
    BY <2>1, FS_EmptySet, SentFinite DEF Noticed
<1>3. CASE XmitClear
  <2>1. Sent' = Sent /\ window' = window /\ Cardinality(Sent) <= window /\ pc' = "exit"
    BY <1>3 DEF XmitClear, Sent, Noticed
  <2> QED
    BY <2>1, SentFinite DEF Noticed
<1>4. CASE IsrExit
  <2>1. Sent' = Sent /\ window' = 0 /\ pc' = "idle" /\ ("TINT" \in csr0' <=> "TINT" \in csr0)
    BY <1>4 DEF IsrExit, Sent
  <2> QED
    BY <2>1, SentFinite DEF Noticed
<1>5. CASE XmitFree
  <2>1. /\ xmit_tail \in Xmds /\ xflag' = [xflag EXCEPT ![xmit_tail] = "none"]
        /\ pc' = "xmit" /\ csr0' = csr0 /\ window' = window
    BY <1>0, <1>5 DEF XmitFree, TypeOK
  <2>2. Sent' \in SUBSET Sent
    BY <1>0, <2>1 DEF Sent, TypeOK
  <2>3. Cardinality(Sent') <= Cardinality(Sent) /\ Cardinality(Sent') \in Nat
    BY <2>2, SentFinite, FS_Subset, FS_CardinalityType
  <2> QED
    BY <2>1, <2>3, SentFinite DEF Noticed
<1>6. CASE ChipSend
  <2>1. /\ chipX \in Xmds /\ xflag[chipX] = "own" /\ xflag' = [xflag EXCEPT ![chipX] = "done"]
        /\ "TINT" \in csr0' /\ pc' = pc
        /\ pc \in {"load", "own"} => window < MaxWindow
        /\ window' = IF pc \in {"load", "own"} THEN window + 1 ELSE window
    BY <1>0, <1>6 DEF ChipSend, TypeOK
  <2>2. chipX \notin Sent /\ Sent' = Sent \cup {chipX}
    BY <1>0, <2>1 DEF Sent, TypeOK
  <2>3. Cardinality(Sent') = Cardinality(Sent) + 1
    BY <2>2, SentFinite, FS_AddElement
  <2> QED
    BY <2>1, <2>3, SentFinite DEF Noticed
<1>7. CASE Down
  BY <1>1, <1>7 DEF Down, DownLost, DownLoad, DownQueue, load_tmd, Sent
<1>8. CASE DownOwn \/ XmitOwn
  <2>1. /\ xflag' = [xflag EXCEPT ![mdp] = "own"] /\ mdp \in Xmds /\ xflag[mdp] = "none"
        /\ UNCHANGED <<window, csr0>> /\ (pc' = "load" => pc = "own") /\ pc' # "own"
    BY <1>0, <1>8 DEF DownOwn, XmitOwn, Own, TypeOK, Loaded, loading
  <2>2. Sent' = Sent
    BY <1>0, <2>1 DEF Sent, TypeOK
  <2> QED
    BY <1>1, <2>1, <2>2
<1>9. CASE XmitLoad
  BY <1>1, <1>9 DEF XmitLoad, load_tmd, Sent
<1>10. CASE Setstat \/ isr
  BY <1>1, <1>10 DEF Setstat, enable_lance, Push, isr, Sent
<1>11. CASE recv_irq
  BY <1>1, <1>11 DEF recv_irq, RecvOwned, RecvBad, RecvDisabled, RecvPass, RecvEmpty,
                     RecvClear, nextScan, Sent
<1>12. CASE Receive
  BY <1>1, <1>12 DEF Receive, ChipRecv, ChipMiss, Sent
<1>13. CASE UNCHANGED vars
  BY <1>1, <1>13 DEF vars, Sent
<1> QED
  BY <1>2, <1>3, <1>4, <1>5, <1>6, <1>7, <1>8, <1>9, <1>10, <1>11, <1>12, <1>13
     DEF Next, Service, xmit_irq

\* A full ring in which the chip has nothing to send is finished from end to end.
LEMMA FullIsSent ==
  ASSUME TypeOK, RingAgrees, ~free, toSend = {}
  PROVE  Sent = Xmds
<1>1. \A i \in Xmds : between(i)
  BY Sizes DEF TypeOK, free, between, Xmds
<1> QED
  BY <1>1 DEF TypeOK, RingAgrees, toSend, Sent

-----------------------------------------------------------------------------
(***************************************************************************)
(* Every packet is where its state says, and leaves in its turn.           *)
(***************************************************************************)
inLine(p) == \E k \in 1 .. Len(waiting) : waiting[k] = p

Turns ==
  /\ \A p \in Packets : standing[p] = "queued" <=> inLine(p)
  /\ \A k, l \in 1 .. Len(waiting) : k < l => waiting[k] < waiting[l]
  /\ \A p, q \in Packets : p < q /\ standing[q] # "new" => standing[p] # "new"
  /\ \A p, q \in Packets : standing[p] = "gone" /\ standing[q] = "queued" => p < q

\* Packets are accepted or refused in the order of their numbers.
LEMMA NewInTurn ==
  ASSUME Ring, [Next]_vars, NEW p \in Packets, fate[p] = "new", fate'[p] # "new"
  PROVE  \A q \in Packets : q < p => fate[q] # "new"
<1>0. TypeOK /\ Loaded /\ Queued
  BY DEF Ring
<1>1. SUFFICES next(p)
  BY DEF next, Packets
<1>2. ASSUME NEW q \in Packets, DownLost(q) \/ DownLoad(q) \/ DownQueue(q) PROVE next(p)
  <2>1. next(q) /\ \E v : fate' = [fate EXCEPT ![q] = v]
    BY <1>2 DEF DownLost, DownLoad, DownQueue, load_tmd
  <2> QED
    BY <1>0, <2>1 DEF TypeOK
<1>3. CASE XmitLoad
  <2>1. /\ outq \in Seq(Packets) /\ outq # << >> /\ 1 \in 1 .. Len(outq) /\ Head(outq) = outq[1]
        /\ fate' = [fate EXCEPT ![Head(outq)] = "ring"]
    BY <1>0, <1>3 DEF XmitLoad, load_tmd, TypeOK
  <2> QED
    BY <1>0, <2>1 DEF Queued, TypeOK
<1>4. CASE XmitFree \/ ChipSend
  <2>1. \E i \in Xmds : xflag[i] # "none" /\ \E v : fate' = [fate EXCEPT ![xmbuf[i]] = v]
    <3>1. CASE XmitFree
      <4>1. xmit_tail \in Xmds /\ fate' = [fate EXCEPT ![xmbuf[xmit_tail]] = "freed"] /\ ~loading
        BY <1>0, <3>1 DEF XmitFree, TypeOK, loading
      <4>2. inUse(xmit_tail)
        BY <1>0, <4>1, RingMeans, Shrinks DEF Used, TypeOK, Ring
      <4> QED
        BY <4>1, <4>2 DEF inUse
    <3>2. CASE ChipSend
      BY <1>0, <3>2 DEF ChipSend, TypeOK
    <3> QED
      BY <1>4, <3>1, <3>2
  <2> QED
    BY <1>0, <2>1 DEF Loaded, inUse, TypeOK
<1>5. CASE fate' = fate
  BY <1>5
<1> QED
  BY <1>2, <1>3, <1>4, <1>5, XmitSteps DEF DownOwn, XmitOwn

LEMMA TurnsStep ==
  ASSUME Ring, Ring', Stretch, Stretch', Turns, [Next]_vars
  PROVE  Turns'
<1>0. /\ waiting \in Seq(Packets) /\ waiting' \in Seq(Packets)
      /\ standing \in [Packets -> {"new", "queued", "gone", "freed"}]
  BY LineHolds, LineHoldsNext DEF Ring, IsLine, TypeOK, standing
<1>1. [Queue!QueueNext]_(Queue!queueVars)
  BY QueueStep
<1>2. ASSUME NEW p \in Packets, standing[p] = "new", standing'[p] # "new"
      PROVE  \A q \in Packets : q < p => standing[q] # "new"
  <2>1. fate[p] = "new" /\ fate'[p] # "new"
    BY <1>2 DEF standing
  <2> QED
    BY <2>1, NewInTurn DEF standing
<1>3. ASSUME NEW p \in Packets, Queue!Accept(p) PROVE Turns'
  <2>1. /\ standing[p] = "new" /\ waiting' = Append(waiting, p)
        /\ standing' = [standing EXCEPT ![p] = "queued"]
    BY <1>3 DEF Queue!Accept
  <2>2. \A q \in Packets : q < p => standing[q] # "new"
    BY <1>0, <1>2, <2>1
  <2>3. \A q \in Packets : standing[q] # "new" => q < p
    BY <2>1 DEF Turns, Packets
  <2>4. /\ Len(waiting') = Len(waiting) + 1 /\ waiting'[Len(waiting) + 1] = p
        /\ \A k \in 1 .. Len(waiting) : waiting'[k] = waiting[k] /\ waiting[k] \in Packets
    BY <1>0, <2>1
  <2>5. \A k \in 1 .. Len(waiting') : k \in 1 .. Len(waiting) \/ k = Len(waiting) + 1
    BY <1>0, <2>4
  <2>6. \A k \in 1 .. Len(waiting) : waiting[k] < p /\ k < Len(waiting) + 1
    BY <1>0, <2>3, <2>4 DEF Turns, inLine
  <2>7. \A q \in Packets : inLine(q)' <=> inLine(q) \/ q = p
    BY <1>0, <2>4, <2>5 DEF inLine
  <2>8. \A q \in Packets : standing'[q] = IF q = p THEN "queued" ELSE standing[q]
    BY <1>0, <2>1
  <2>9. \A k, l \in 1 .. Len(waiting') : k < l => waiting'[k] < waiting'[l]
    BY <1>0, <2>4, <2>5, <2>6 DEF Turns
  <2> QED
    BY <2>2, <2>3, <2>7, <2>8, <2>9 DEF Turns
<1>4. ASSUME NEW p \in Packets, Queue!Refuse(p) \/ Queue!Release(p) PROVE Turns'
  <2>1. /\ standing[p] \in {"new", "gone"} /\ waiting' = waiting
        /\ standing' = [standing EXCEPT ![p] = "freed"]
    BY <1>4 DEF Queue!Refuse, Queue!Release
  <2>2. \A q \in Packets : q < p => standing[q] # "new"
    BY <1>0, <1>2, <2>1 DEF Turns
  <2>3. \A q \in Packets : standing'[q] = IF q = p THEN "freed" ELSE standing[q]
    BY <1>0, <2>1
  <2>4. \A q \in Packets : inLine(q)' <=> inLine(q)
    BY <2>1 DEF inLine
  <2> QED
    BY <2>1, <2>2, <2>3, <2>4 DEF Turns
<1>5. CASE Queue!Depart
  <2>1. /\ waiting # << >> /\ waiting' = Tail(waiting)
        /\ standing' = [standing EXCEPT ![Head(waiting)] = "gone"]
    BY <1>5 DEF Queue!Depart
  <2>2. /\ 1 \in 1 .. Len(waiting) /\ Head(waiting) = waiting[1] /\ waiting[1] \in Packets
        /\ \A k \in 1 .. Len(waiting') :
             k + 1 \in 1 .. Len(waiting) /\ 1 < k + 1 /\ waiting'[k] = waiting[k + 1]
        /\ \A k \in 1 .. Len(waiting) : k = 1 \/ (k - 1 \in 1 .. Len(waiting') /\ k - 1 + 1 = k)
    BY <1>0, <2>1
  <2>3. /\ \A k \in 1 .. Len(waiting) : waiting[k] \in Packets
        /\ \A k \in 1 .. Len(waiting) : k # 1 => waiting[1] < waiting[k]
    BY <1>0 DEF Turns
  <2>4. \A q \in Packets : inLine(q)' <=> inLine(q) /\ q # waiting[1]
    <3> TAKE q \in Packets
    <3>1. ASSUME inLine(q), q # waiting[1] PROVE inLine(q)'
      <4>1. PICK k \in 1 .. Len(waiting) : waiting[k] = q
        BY <3>1 DEF inLine
      <4>2. k - 1 \in 1 .. Len(waiting') /\ k - 1 + 1 = k
        BY <2>2, <3>1, <4>1
      <4>3. waiting'[k - 1] = q
        BY <2>2, <4>1, <4>2
      <4> QED
        BY <4>2, <4>3 DEF inLine
    <3>2. ASSUME inLine(q)' PROVE inLine(q) /\ q # waiting[1]
      <4>1. PICK k \in 1 .. Len(waiting') : waiting'[k] = q
        BY <3>2 DEF inLine
      <4>2. k + 1 \in 1 .. Len(waiting) /\ waiting[k + 1] = q /\ waiting[1] < waiting[k + 1]
        BY <2>2, <2>3, <4>1
      <4> QED
        BY <2>2, <4>2 DEF inLine, Packets
    <3> QED
      BY <3>1, <3>2
  <2>5. \A q \in Packets : standing'[q] = IF q = waiting[1] THEN "gone" ELSE standing[q]
    BY <1>0, <2>1, <2>2
  <2>6. \A k, l \in 1 .. Len(waiting') : k < l => waiting'[k] < waiting'[l]
    BY <1>0, <2>2 DEF Turns
  <2>7. standing[waiting[1]] = "queued"
    BY <2>2 DEF Turns, inLine
  <2>8. \A q \in Packets : standing'[q] = "queued" => waiting[1] < q
    BY <2>2, <2>3, <2>5 DEF Turns, inLine
  <2> QED
    BY <2>2, <2>4, <2>5, <2>6, <2>7, <2>8 DEF Turns
<1>6. CASE UNCHANGED Queue!queueVars
  BY <1>6 DEF Queue!queueVars, Turns, inLine
<1> QED
  BY <1>1, <1>3, <1>4, <1>5, <1>6 DEF Queue!QueueNext

\* Where a packet is by what its state says.
Placed ==
  \A p \in Packets :
    /\ fate[p] = "outq" => \E k \in 1 .. Len(outq) : outq[k] = p
    /\ fate[p] = "ring" => \E i \in toSend : xmbuf[i] = p
    /\ fate[p] = "gone" => \E i \in Sent : xmbuf[i] = p
Findable == \A p \in Packets : fate[p] = "gone" => \E i \in Sent : xmbuf[i] = p

LEMMA FindableStep ==
  ASSUME Ring, Findable, [Next]_vars
  PROVE  Findable'
<1>0. TypeOK /\ Loaded /\ Queued /\ RingAgrees
  BY DEF Ring
<1>1. ASSUME NEW p \in Packets, load_tmd(p), free, ~loading PROVE Findable'
  <2>1. /\ xmit_head \in Xmds /\ xmit_head \notin Sent /\ Sent' = Sent
        /\ xmbuf' = [xmbuf EXCEPT ![xmit_head] = p] /\ fate' = [fate EXCEPT ![p] = "ring"]
    <3>1. ~inUse(xmit_head)
      BY <1>0, <1>1, RingMeans, Grows DEF Used, TypeOK, free
    <3> QED
      BY <1>0, <1>1, <3>1 DEF load_tmd, TypeOK, Sent, inUse
  <2> QED
    BY <1>0, <2>1 DEF Findable, TypeOK, Sent
<1>2. CASE /\ Sent' = Sent /\ xmbuf' = xmbuf
           /\ fate' = fate \/ \E p \in Packets : \E v \in {"freed", "outq"} :
                                fate' = [fate EXCEPT ![p] = v]
  BY <1>0, <1>2 DEF Findable, TypeOK
<1>3. ASSUME NEW p \in Packets, DownLost(p) \/ DownQueue(p) PROVE Findable'
  BY <1>2, <1>3 DEF DownLost, DownQueue, Sent
<1>4. ASSUME NEW p \in Packets, DownLoad(p) PROVE Findable'
  BY <1>1, <1>4 DEF DownLoad, loading
<1>5. CASE DownOwn \/ XmitOwn
  <2>1. /\ xflag' = [xflag EXCEPT ![mdp] = "own"] /\ mdp \in Xmds /\ xflag[mdp] = "none"
        /\ UNCHANGED <<xmbuf, fate>>
    BY <1>0, <1>5 DEF DownOwn, XmitOwn, Own, TypeOK, Loaded, loading
  <2>2. Sent' = Sent
    BY <1>0, <2>1 DEF Sent, TypeOK
  <2> QED
    BY <1>2, <2>1, <2>2
<1>6. CASE XmitLoad
  <2>1. outq \in Seq(Packets) /\ outq # << >>
    BY <1>0, <1>6 DEF XmitLoad, TypeOK
  <2>2. Head(outq) \in Packets
    BY <2>1
  <2> QED
    BY <1>1, <1>6, <2>2 DEF XmitLoad, loading
<1>7. CASE XmitFree
  <2>1. /\ xmit_tail \in Xmds /\ xflag' = [xflag EXCEPT ![xmit_tail] = "none"]
        /\ fate' = [fate EXCEPT ![xmbuf[xmit_tail]] = "freed"] /\ UNCHANGED xmbuf /\ ~loading
    BY <1>0, <1>7 DEF XmitFree, TypeOK, loading
  <2>2. inUse(xmit_tail)
    BY <1>0, <2>1, RingMeans, Shrinks DEF Used, TypeOK
  <2>3. xmbuf[xmit_tail] \in Packets
    BY <1>0, <2>1, <2>2 DEF Loaded
  <2>4. ASSUME NEW p \in Packets, fate'[p] = "gone" PROVE \E i \in Sent' : xmbuf'[i] = p
    <3>1. p # xmbuf[xmit_tail] /\ fate[p] = "gone"
      BY <1>0, <2>1, <2>3, <2>4 DEF TypeOK
    <3>2. PICK i \in Sent : xmbuf[i] = p
      BY <3>1 DEF Findable
    <3>3. i \in Sent'
      BY <1>0, <2>1, <3>1, <3>2 DEF Sent, TypeOK
    <3> QED
      BY <2>1, <3>2, <3>3
  <2> QED
    BY <2>4 DEF Findable
<1>8. CASE ChipSend
  <2>1. /\ chipX \in Xmds /\ xflag' = [xflag EXCEPT ![chipX] = "done"]
        /\ fate' = [fate EXCEPT ![xmbuf[chipX]] = "gone"] /\ UNCHANGED xmbuf
    BY <1>0, <1>8 DEF ChipSend, TypeOK
  <2>2. Sent' = Sent \cup {chipX}
    BY <1>0, <2>1 DEF Sent, TypeOK
  <2>3. ASSUME NEW p \in Packets, fate'[p] = "gone" PROVE p = xmbuf[chipX] \/ fate[p] = "gone"
    BY <1>0, <2>1, <2>3 DEF TypeOK
  <2> QED
    BY <2>1, <2>2, <2>3 DEF Findable
<1>9. CASE UNCHANGED <<xmitVars, fate>>
  BY <1>2, <1>9 DEF xmitVars, Sent
<1> QED
  BY <1>3, <1>4, <1>5, <1>6, <1>7, <1>8, <1>9, XmitSteps

\* Packets that are accepted are in ring or queue, because they are in line.
LEMMA PlacedHolds ==
  ASSUME Ring, Stretch, Turns, Findable
  PROVE  Placed
<1>0. TypeOK /\ Loaded /\ Queued /\ IsLine
  BY LineHolds DEF Ring
<1>1. SUFFICES ASSUME NEW p \in Packets, fate[p] \in {"outq", "ring"}
               PROVE  /\ fate[p] = "outq" => \E k \in 1 .. Len(outq) : outq[k] = p
                      /\ fate[p] = "ring" => \E i \in toSend : xmbuf[i] = p
  BY DEF Placed, Findable
<1>2. PICK k \in 1 .. owed + Len(outq) : waiting[k] = p
  BY <1>0, <1>1 DEF Turns, standing, inLine, IsLine
<1>3. CASE k \in 1 .. owed
  <2>1. place(chipX, k - 1) \in toSend /\ xmbuf[place(chipX, k - 1)] = p
    BY <1>0, <1>2, <1>3, StretchHolds DEF IsLine
  <2>2. fate[p] # "outq"
    BY <1>0, <2>1 DEF toSend, Loaded, inUse
  <2> QED
    BY <1>1, <2>1, <2>2
<1>4. CASE k \in owed + 1 .. owed + Len(outq)
  <2>1. k - owed \in 1 .. Len(outq) /\ owed + (k - owed) = k
    BY <1>0, <1>4 DEF IsLine
  <2>2. outq[k - owed] = p
    BY <1>0, <1>2, <2>1 DEF IsLine
  <2> QED
    BY <1>0, <1>1, <2>1, <2>2 DEF Queued
<1> QED
  BY <1>0, <1>2, <1>3, <1>4 DEF IsLine

-----------------------------------------------------------------------------
(***************************************************************************)
(* Ring, line and interrupt together.                                      *)
(***************************************************************************)
Whole == Ring /\ Stretch /\ Turns /\ Findable /\ Noticed

LEMMA InitWhole == Init => Whole
<1> SUFFICES ASSUME Init PROVE Whole
  OBVIOUS
<1>1. Ring /\ Stretch
  BY InitRing, InitStretch
<1>2. toSend = {} /\ Sent = {} /\ outq = << >> /\ Len(outq) = 0 /\ pc = "idle" /\ window = 0
  BY DEF Init, toSend, Sent, loading
<1>3. waiting = << >> /\ Len(waiting) = 0
  BY <1>2, FS_EmptySet DEF waiting
<1>4. \A p \in Packets : standing[p] = "new" /\ fate[p] = "new"
  BY DEF Init, standing
<1>5. Turns /\ Findable
  BY <1>3, <1>4 DEF Turns, Findable, inLine
<1>6. Noticed
  BY <1>2, FS_EmptySet, SentFinite DEF Noticed
<1> QED
  BY <1>1, <1>5, <1>6 DEF Whole

LEMMA WholeInductive == Whole /\ [Next]_vars => Whole'
<1> SUFFICES ASSUME Whole, [Next]_vars PROVE Whole'
  OBVIOUS
<1>1. Ring /\ Stretch /\ Turns /\ Findable /\ Noticed
  BY DEF Whole
<1>2. Ring'
  BY <1>1, RingInductive
<1>3. Stretch'
  BY <1>1, <1>2, QueueStep
<1>4. Turns' /\ Findable' /\ Noticed'
  BY <1>1, <1>2, <1>3, TurnsStep, FindableStep, NoticedStep
<1> QED
  BY <1>2, <1>3, <1>4 DEF Whole

\* No packet is mislaid, neither by load_tmd() nor by xmit_irq(): one that waits is in
\* the queue, one that the chip has to send is in a descriptor that it is to send, and one
\* that has left, and whose memory is to be freed, in a descriptor that xmit_irq() frees.
THEOREM NothingMislaid == Spec => []Placed
<1>1. Whole => Placed
  BY PlacedHolds DEF Whole
<1> QED
  BY InitWhole, WholeInductive, <1>1, PTL DEF Spec

\* Packets leave in the order in which they came: when one has left, all that came before
\* it have left too or were given up at once (dr_downdata(), load_tmd(), xmit_irq()).
THEOREM LeavesInTurn ==
  Spec => [](\A p, q \in Packets : p < q /\ fate[q] = "gone" => fate[p] \in {"gone", "freed"})
<1>1. Whole => \A p, q \in Packets : p < q /\ fate[q] = "gone" => fate[p] \in {"gone", "freed"}
  <2> SUFFICES ASSUME Whole, NEW p \in Packets, NEW q \in Packets, p < q, fate[q] = "gone"
               PROVE  fate[p] \in {"gone", "freed"}
    OBVIOUS
  <2>1. TypeOK /\ Turns
    BY DEF Whole, Ring
  <2>2. standing[q] = "gone" /\ standing[p] # "new"
    BY <2>1 DEF standing, Turns
  <2>3. standing[p] # "queued"
    BY <2>1, <2>2 DEF Turns, Packets
  <2> QED
    BY <2>1, <2>2, <2>3 DEF standing, TypeOK
<1> QED
  BY InitWhole, WholeInductive, <1>1, PTL DEF Spec

\* As long as a packet that was accepted has not left there is something that goes on: the
\* processor is at work, or an interrupt of the transmitter is pending, or the chip owns
\* the descriptor that it looks at next.  xmit_irq() clears TINT after its last look at
\* the ring, and yet never the only one: not all descriptors finish in that window.
THEOREM NeverStuck ==
  Spec => []((\E p \in Packets : fate[p] \in {"outq", "ring"})
               => pc # "idle" \/ "TINT" \in csr0 \/ xflag[chipX] = "own")
<1>1. ASSUME Whole, NEW p \in Packets, fate[p] \in {"outq", "ring"}, pc = "idle"
      PROVE  "TINT" \in csr0 \/ xflag[chipX] = "own"
  <2>0. TypeOK /\ RingAgrees /\ NoOvertaking /\ Stretch /\ Placed
    BY <1>1, PlacedHolds DEF Whole, Ring
  <2>1. CASE toSend # {}
    <3>1. owed \in Nat /\ owed # 0
      BY <2>1, Finite, FS_EmptySet DEF owed
    <3>2. place(chipX, 0) \in toSend
      BY <2>0, <3>1, Sizes, Places DEF Stretch, TypeOK
    <3>3. chipX \in toSend
      BY <2>0, <3>2, Places DEF TypeOK
    <3> QED
      BY <1>1, <3>3 DEF toSend, loading
  <2>2. CASE toSend = {}
    <3>1. outq # << >>
      BY <1>1, <2>0, <2>2 DEF Placed
    <3>2. Sent = Xmds
      BY <1>1, <2>0, <2>2, <3>1, FullIsSent DEF NoOvertaking
    <3>3. Cardinality(Xmds) = TCount
      BY Sizes, FS_Interval DEF Xmds
    <3>4. ~(Cardinality(Sent) <= MaxWindow)
      BY <3>2, <3>3, Sizes, WindowAssumption
    <3> QED
      BY <1>1, <3>4 DEF Whole, Noticed
  <2> QED
    BY <2>1, <2>2
<1>2. Whole => ((\E p \in Packets : fate[p] \in {"outq", "ring"})
                 => pc # "idle" \/ "TINT" \in csr0 \/ xflag[chipX] = "own")
  BY <1>1
<1> QED
  BY InitWhole, WholeInductive, <1>2, PTL DEF Spec
=============================================================================
