--------------------------- MODULE TouchpadProofs ---------------------------
(***************************************************************************)
(* Theorems about Touchpad, for any processes, any places on the pad, both *)
(* sizes of a packet and every kind of failure.                            *)
(***************************************************************************)
EXTENDS TouchpadService, TLAPS

USE DEF hardware, packets, reading, waiting, asking

(***************************************************************************)
(* Types                                                                   *)
(***************************************************************************)

\* The index goes round inside the packet.
LEMMA NextIndex ==
  ASSUME NEW i \in 0 .. PKTBUFSIZ - 1
  PROVE  (i + 1) % PKTBUFSIZ = IF i + 1 = PKTBUFSIZ THEN 0 ELSE i + 1
<1>1. CASE PKTBUFSIZ = 4
  BY <1>1
<1>2. CASE PKTBUFSIZ = 9
  BY <1>2
<1> QED
  BY <1>1, <1>2, SizeAssumption

\* What present() leaves behind, whichever packet it is.
LEMMA PresentType ==
  ASSUME TypeOK, NEW k \in {"down", "move", "up"}, NEW at \in Points, present(k, at)
  PROVE  /\ pktbuf' \in Packets /\ bytes_avail' \in 0 .. PKTBUFSIZ
         /\ pktbuf_index' \in 0 .. PKTBUFSIZ - 1 /\ got' \in Packets \X (0 .. PKTBUFSIZ - 1)
         /\ datapid' \in Procs \cup {NoProc} /\ asked' \subseteq Procs
         /\ v_wake' \in Procs \cup {NoProc} /\ v_busy' \in Procs \cup {NoProc}
         /\ pc' \in [Procs -> {"out", "look", "asleep"}] /\ woken' \in [Procs -> BOOLEAN]
<1>1. pktbuf' \in Packets
  BY DEF present, Packets
<1>2. bytes_avail' \in 0 .. PKTBUFSIZ
  BY SizeAssumption DEF present
<1>3. woken' \in [Procs -> BOOLEAN]
  <2>1. woken' = [p \in Procs |-> woken[p] \/ (p = v_wake /\ pc[p] = "asleep")]
    BY DEF present
  <2>2. \A p \in Procs : woken[p] \in BOOLEAN
    BY DEF TypeOK
  <2> QED
    BY <2>1, <2>2, Zenon
<1> QED
  BY <1>1, <1>2, <1>3 DEF present, TypeOK

THEOREM TypeCorrect == Spec => []TypeOK
<1>1. ASSUME Init PROVE TypeOK
  <2>1. pktbuf \in Packets /\ last \in Points
    BY <1>1 DEF Init, Packets
  <2>2. 0 \in 0 .. PKTBUFSIZ /\ 0 \in 0 .. PKTBUFSIZ - 1
    BY SizeAssumption
  <2>3. pc \in [Procs -> {"out", "look", "asleep"}] /\ woken \in [Procs -> BOOLEAN]
    BY <1>1 DEF Init
  <2>4. got \in Packets \X (0 .. PKTBUFSIZ - 1)
    BY <1>1, <2>1, <2>2 DEF Init
  <2> QED
    BY <1>1, <2>1, <2>2, <2>3, <2>4 DEF Init, TypeOK
<1>2. ASSUME TypeOK, [Next]_vars PROVE TypeOK'
  <2>1. ASSUME NEW q \in Points, Touch(q) PROVE TypeOK'
    BY <1>2, <2>1 DEF Touch, TypeOK
  <2>2. CASE Lift
    BY <1>2, <2>2 DEF Lift, TypeOK
  <2>3. CASE real_isr
    BY <1>2, <2>3, KindsAssumption DEF real_isr, install_one_shot, TypeOK
  <2>4. CASE AlarmWait \/ AlarmBounce \/ AlarmStill
    BY <1>2, <2>4, KindsAssumption
    DEF AlarmWait, AlarmBounce, AlarmStill, again, install_one_shot, TypeOK
  <2>5. CASE AlarmSpurious
    BY <1>2, <2>5 DEF AlarmSpurious, standDown, TypeOK
  <2>6. CASE AlarmUp
    <3>1. last \in Points /\ present("up", last)
      BY <1>2, <2>6 DEF AlarmUp, TypeOK
    <3>2. alarm' \in BOOLEAN /\ penirq' \in BOOLEAN /\ spen' \in BOOLEAN /\ pen' = pen
      BY <2>6 DEF AlarmUp, standDown
    <3>3. stage' = stage /\ last' = last /\ pointer_down_flag' \in BOOLEAN
      BY <2>6 DEF AlarmUp, standDown
    <3> QED
      BY <1>2, <3>1, <3>2, <3>3, PresentType DEF TypeOK
  <2>7. CASE AlarmDown \/ AlarmMove
    <3>1. pen \in Points /\ (present("down", pen) \/ present("move", pen))
      BY <1>2, <2>7 DEF AlarmDown, AlarmMove, TypeOK
    <3>2. alarm' \in BOOLEAN /\ penirq' = penirq /\ spen' = spen /\ pen' = pen
      BY <2>7, KindsAssumption DEF AlarmDown, AlarmMove, again, install_one_shot
    <3>3. stage' = stage /\ last' = pen /\ pointer_down_flag' = FALSE
      BY <2>7 DEF AlarmDown, AlarmMove
    <3> QED
      BY <1>2, <3>1, <3>2, <3>3, PresentType DEF TypeOK
  <2>8. ASSUME NEW p \in Procs, ReadEnter(p) PROVE TypeOK'
    BY <1>2, <2>8 DEF ReadEnter, TypeOK
  <2>9. ASSUME NEW p \in Procs, ReadSleep(p) PROVE TypeOK'
    BY <1>2, <2>9 DEF ReadSleep, TypeOK
  <2>10. ASSUME NEW p \in Procs, ReadFail(p) PROVE TypeOK'
    BY <1>2, <2>10 DEF ReadFail, leave, TypeOK
  <2>11. ASSUME NEW p \in Procs, ReadTake(p) PROVE TypeOK'
    <3>1. pktbuf_index' \in 0 .. PKTBUFSIZ - 1
      BY <1>2, <2>11, NextIndex, SizeAssumption DEF ReadTake, nextIndex, TypeOK
    <3>2. bytes_avail' \in 0 .. PKTBUFSIZ
      BY <1>2, <2>11, SizeAssumption DEF ReadTake, TypeOK
    <3>3. got' \in Packets \X (0 .. PKTBUFSIZ - 1)
      BY <1>2, <2>11 DEF ReadTake, TypeOK
    <3> QED
      BY <1>2, <2>11, <3>1, <3>2, <3>3 DEF ReadTake, leave, TypeOK
  <2>12. ASSUME NEW p \in Procs, Signal(p) PROVE TypeOK'
    BY <1>2, <2>12 DEF Signal, TypeOK
  <2>13. ASSUME NEW p \in Procs, SS_SSig(p) \/ SS_Relea(p) PROVE TypeOK'
    BY <1>2, <2>13, SizeAssumption DEF SS_SSig, SS_Relea, TypeOK
  <2>14. CASE TermMask \/ TermRemove \/ TermAlarm
    BY <1>2, <2>14 DEF TermMask, TermRemove, TermAlarm, TypeOK
  <2>15. CASE UNCHANGED vars
    BY <1>2, <2>15 DEF vars, TypeOK
  <2> QED
    BY <1>2, <2>1, <2>2, <2>3, <2>4, <2>5, <2>6, <2>7, <2>8, <2>9, <2>10, <2>11, <2>12,
       <2>13, <2>14, <2>15 DEF Next, alarm_h, read
<1> QED
  BY <1>1, <1>2, PTL DEF Spec

(***************************************************************************)
(* Interrupt and alarm                                                     *)
(***************************************************************************)

\* The pen is watched by the interrupt or by the alarm and never by both, and no alarm
\* outlives the driver's memory, although term() lets both go on between its steps.
THEOREM Watched == Spec => []PenWatched
<1>1. Init => PenWatched
  BY DEF Init, PenWatched
<1>2. ASSUME TypeOK, PenWatched, [Next]_vars PROVE PenWatched'
  <2>1. ASSUME NEW q \in Points, Touch(q) PROVE PenWatched'
    BY <1>2, <2>1 DEF Touch, PenWatched
  <2>2. CASE Lift
    BY <1>2, <2>2 DEF Lift, PenWatched
  <2>3. CASE real_isr
    BY <1>2, <2>3, KindsAssumption DEF real_isr, install_one_shot, PenWatched
  <2>4. CASE AlarmWait \/ AlarmBounce \/ AlarmStill \/ AlarmDown \/ AlarmMove
    <3>1. again /\ stage' = stage
      BY <2>4 DEF AlarmWait, AlarmBounce, AlarmStill, AlarmDown, AlarmMove
    <3> QED
      BY <1>2, <3>1, KindsAssumption DEF again, install_one_shot, PenWatched
  <2>5. CASE AlarmSpurious \/ AlarmUp
    BY <1>2, <2>5 DEF AlarmSpurious, AlarmUp, standDown, PenWatched
  <2>6. ASSUME NEW p \in Procs,
               ReadEnter(p) \/ read(p) \/ Signal(p) \/ SS_SSig(p) \/ SS_Relea(p)
        PROVE  PenWatched'
    BY <1>2, <2>6
    DEF ReadEnter, read, ReadSleep, ReadFail, ReadTake, Signal, SS_SSig, SS_Relea, PenWatched
  <2>7. CASE TermMask \/ TermRemove \/ TermAlarm
    BY <1>2, <2>7 DEF TermMask, TermRemove, TermAlarm, PenWatched
  <2>8. CASE UNCHANGED vars
    BY <1>2, <2>8 DEF vars, PenWatched
  <2> QED
    BY <1>2, <2>1, <2>2, <2>3, <2>4, <2>5, <2>6, <2>7, <2>8 DEF Next, alarm_h
<1> QED
  BY <1>1, <1>2, TypeCorrect, PTL DEF Spec

(***************************************************************************)
(* Signals and sleepers                                                    *)
(***************************************************************************)

\* SCF's gate: who is inside read() is the one that v_busy names.
OneInside == \A p \in Procs : pc[p] # "out" => v_busy = p

\* Who was promised a signal is the one that datapid names, who sleeps unwoken is the one
\* that v_wake names, and neither waits while there is something to read.
THEOREM Promised == Spec => []NobodyForgotten
<1> DEFINE Inv == NobodyForgotten /\ OneInside
<1>1. Init => Inv
  BY DEF Init, NobodyForgotten, OneInside
<1>2. ASSUME TypeOK, Inv, [Next]_vars PROVE Inv'
  <2>1. ASSUME NEW q \in Points, Touch(q) \/ Lift PROVE Inv'
    BY <1>2, <2>1 DEF Touch, Lift, NobodyForgotten, OneInside
  <2>2. CASE real_isr \/ AlarmWait \/ AlarmBounce \/ AlarmStill \/ AlarmSpurious
    BY <1>2, <2>2
    DEF real_isr, AlarmWait, AlarmBounce, AlarmStill, AlarmSpurious, NobodyForgotten, OneInside
  <2>3. CASE AlarmUp \/ AlarmDown \/ AlarmMove
    <3>1. \E k, at : present(k, at)
      BY <2>3 DEF AlarmUp, AlarmDown, AlarmMove
    <3>2. /\ datapid' = NoProc /\ asked' = asked \ {datapid}
          /\ UNCHANGED <<pc, v_busy>>
          /\ woken' = [p \in Procs |-> woken[p] \/ (p = v_wake /\ pc[p] = "asleep")]
      BY <3>1 DEF present
    <3>3. \A p \in Procs : ~(pc'[p] = "asleep" /\ ~woken'[p])
      <4>1. \A p \in Procs : woken'[p] = (woken[p] \/ (p = v_wake /\ pc[p] = "asleep"))
        BY <3>2
      <4>2. \A p \in Procs : pc[p] = "asleep" /\ ~woken[p] => v_wake = p
        BY <1>2 DEF NobodyForgotten
      <4> QED
        BY <3>2, <4>1, <4>2, Zenon
    <3>4. asked' = {datapid'} \ {NoProc}
      BY <1>2, <3>2 DEF NobodyForgotten
    <3> QED
      BY <1>2, <3>2, <3>3, <3>4 DEF NobodyForgotten, OneInside
  <2>4. ASSUME NEW p \in Procs, ReadEnter(p) PROVE Inv'
    <3>1. \A q \in Procs : pc[q] = "out"
      BY <1>2, <2>4, ProcsAssumption DEF ReadEnter, OneInside
    <3>2. /\ pc' = [pc EXCEPT ![p] = "look"] /\ v_busy' = p
          /\ UNCHANGED <<bytes_avail, v_wake, woken, datapid, asked>>
      BY <2>4 DEF ReadEnter
    <3>3. \A q \in Procs : pc'[q] # "asleep" /\ (pc'[q] # "out" => q = p)
      BY <1>2, <3>1, <3>2 DEF TypeOK
    <3> QED
      BY <1>2, <3>2, <3>3 DEF NobodyForgotten, OneInside
  <2>5. ASSUME NEW p \in Procs, read(p) PROVE Inv'
    <3>1. pc[p] # "out"
      BY <2>5 DEF read, ReadSleep, ReadFail, ReadTake, looks
    <3>2. \A q \in Procs \ {p} : pc[q] = "out"
      BY <1>2, <3>1 DEF OneInside
    <3>3. CASE ReadSleep(p)
      BY <1>2, <3>1, <3>2, <3>3 DEF ReadSleep, NobodyForgotten, OneInside, TypeOK
    <3>4. CASE ReadFail(p) \/ ReadTake(p)
      <4>1. pc' = [pc EXCEPT ![p] = "out"] /\ UNCHANGED <<datapid, asked>>
        BY <3>4 DEF ReadFail, ReadTake, leave
      <4>2. \A q \in Procs : pc'[q] = "out"
        BY <1>2, <3>2, <4>1 DEF TypeOK
      <4>3. datapid # NoProc => bytes_avail' = 0
        BY <1>2, <3>4 DEF ReadFail, ReadTake, NobodyForgotten
      <4> QED
        BY <1>2, <4>1, <4>2, <4>3 DEF NobodyForgotten, OneInside
    <3> QED
      BY <2>5, <3>3, <3>4 DEF read
  <2>6. ASSUME NEW p \in Procs, Signal(p) PROVE Inv'
    <3>1. woken' = [woken EXCEPT ![p] = TRUE]
          /\ UNCHANGED <<bytes_avail, v_wake, v_busy, pc, datapid, asked>>
      BY <2>6 DEF Signal
    <3>2. \A q \in Procs : ~woken'[q] => ~woken[q]
      BY <1>2, <3>1 DEF TypeOK
    <3> QED
      BY <1>2, <3>1, <3>2 DEF NobodyForgotten, OneInside
  <2>7. ASSUME NEW p \in Procs, SS_SSig(p) \/ SS_Relea(p) PROVE Inv'
    BY <1>2, <2>7, ProcsAssumption DEF SS_SSig, SS_Relea, free, NobodyForgotten, OneInside
  <2>8. CASE TermMask \/ TermRemove \/ TermAlarm
    BY <1>2, <2>8 DEF TermMask, TermRemove, TermAlarm, NobodyForgotten, OneInside
  <2>9. CASE UNCHANGED vars
    BY <1>2, <2>9 DEF vars, NobodyForgotten, OneInside
  <2> QED
    BY <1>2, <2>1, <2>2, <2>3, <2>4, <2>5, <2>6, <2>7, <2>8, <2>9, PointsAssumption
    DEF Next, alarm_h
<1> QED
  BY <1>1, <1>2, TypeCorrect, PTL DEF Spec
(***************************************************************************)
(* The stream of packets                                                   *)
(***************************************************************************)

\* The place that alarm_h() compares with is the one it reported last.
Located == last = pktbuf.at

\* Both sizes of a packet: the place of the next byte is the index, taking it moves the
\* index and not the start, and a packet made or lost moves neither.
LEMMA Places ==
  ASSUME NEW i \in 0 .. PKTBUFSIZ - 1, NEW n \in 0 .. PKTBUFSIZ
  PROVE  /\ n > 0 => (((i + n) % PKTBUFSIZ) + PKTBUFSIZ - n) % PKTBUFSIZ = i
         /\ n > 0 => (((i + 1) % PKTBUFSIZ) + (n - 1)) % PKTBUFSIZ = (i + n) % PKTBUFSIZ
         /\ (i + 0) % PKTBUFSIZ = i /\ (i + PKTBUFSIZ) % PKTBUFSIZ = i
<1>1. CASE PKTBUFSIZ = 4
  BY <1>1
<1>2. CASE PKTBUFSIZ = 9
  BY <1>2
<1> QED
  BY <1>1, <1>2, SizeAssumption

\* A packet made is a packet of the stream, read from where the one before it was.
LEMMA Made ==
  ASSUME TypeOK, bytes_avail = 0, NEW k, NEW q, present(k, q), last' = q
  PROVE  Located' /\ Stream!Make(Stream!PacketOf(k, q))
<1>1. pktbuf' = [kind |-> k, at |-> q] /\ bytes_avail' \in {0, PKTBUFSIZ}
  BY DEF present
<1>2. pktbuf_index \in 0 .. PKTBUFSIZ - 1 /\ pktbuf_index' = pktbuf_index /\ got' = got
  BY DEF present, TypeOK
<1>3. start = pktbuf_index /\ start' = pktbuf_index
  <2>1. 0 \in 0 .. PKTBUFSIZ /\ PKTBUFSIZ \in 0 .. PKTBUFSIZ
    BY SizeAssumption
  <2>2. /\ (pktbuf_index + 0) % PKTBUFSIZ = pktbuf_index
        /\ (pktbuf_index + PKTBUFSIZ) % PKTBUFSIZ = pktbuf_index
    BY <1>2, <2>1, Places
  <2>3. start' = (pktbuf_index + bytes_avail') % PKTBUFSIZ
    BY <1>2 DEF start
  <2> QED
    BY <1>1, <2>2, <2>3 DEF start
<1>4. last' = pktbuf'.at
  BY <1>1
<1> QED
  BY <1>1, <1>2, <1>3, <1>4 DEF Stream!Make, Stream!PacketOf, Located

\* A program gets the packets in the order pen down, moves, pen up, none written over while
\* it is read, and whole until somebody asks for a signal in the middle of one; from then
\* on each is read from the same place on, and around.
THEOREM Implements == Spec => WholePackets
<1>1. ASSUME Init PROVE Stream!StreamInit /\ Located
  <2>1. pktbuf \in [kind : {"none"}, at : Points] /\ got = <<pktbuf, 0>> /\ bytes_avail = 0
    BY <1>1 DEF Init
  <2>2. pktbuf_index = 0 /\ last = pktbuf.at /\ told = "up"
    BY <1>1 DEF Init, told
  <2>3. start = 0
    BY <2>1, <2>2, Places, SizeAssumption DEF start
  <2> QED
    BY <2>1, <2>2, <2>3 DEF Stream!StreamInit, Located
<1>2. ASSUME TypeOK, Located, [Next]_vars
      PROVE  Located' /\ [Stream!StreamNext]_(Stream!streamVars)
  <2> DEFINE Quiet == UNCHANGED <<packets, reading>>
  <2>1. ASSUME Quiet PROVE Located' /\ [Stream!StreamNext]_(Stream!streamVars)
    BY <1>2, <2>1 DEF Located, Stream!streamVars, told, start
  <2>2. ASSUME NEW q \in Points, Touch(q) PROVE Quiet
    BY <2>2 DEF Touch
  <2>3. CASE Lift \/ real_isr \/ AlarmWait \/ AlarmBounce \/ AlarmStill \/ AlarmSpurious
    <3>1. Quiet
      BY <2>3 DEF Lift, real_isr, AlarmWait, AlarmBounce, AlarmStill, AlarmSpurious
    <3> QED
      BY <2>1, <3>1
  <2>4. CASE AlarmUp
    <3>1. bytes_avail = 0 /\ present("up", last) /\ last' = last
      BY <1>2, <2>4 DEF AlarmUp, standDown, unread, TypeOK
    <3>2. Located' /\ Stream!Make(Stream!PacketOf("up", last))
      BY <1>2, <3>1, Made
    <3>3. told = "down" /\ told' = "up" /\ last = pktbuf.at
      BY <1>2, <2>4 DEF AlarmUp, told, Located
    <3>4. Stream!Up
      BY <3>2, <3>3 DEF Stream!Up
    <3> QED
      BY <3>2, <3>4 DEF Stream!StreamNext
  <2>5. CASE AlarmDown
    <3>1. bytes_avail = 0 /\ present("down", pen) /\ last' = pen /\ pen \in Points
      BY <1>2, <2>5 DEF AlarmDown, unread, TypeOK
    <3>2. Located' /\ Stream!Make(Stream!PacketOf("down", pen))
      BY <1>2, <3>1, Made
    <3>3. told = "up" /\ told' = "down"
      BY <2>5 DEF AlarmDown, told
    <3>4. Stream!Down(pen)
      BY <3>2, <3>3 DEF Stream!Down
    <3> QED
      BY <3>1, <3>2, <3>4 DEF Stream!StreamNext
  <2>6. CASE AlarmMove
    <3>1. bytes_avail = 0 /\ present("move", pen) /\ last' = pen /\ pen \in Points
      BY <1>2, <2>6 DEF AlarmMove, unread, TypeOK
    <3>2. Located' /\ Stream!Make(Stream!PacketOf("move", pen))
      BY <1>2, <3>1, Made
    <3>3. told = "down" /\ told' = told /\ pen # pktbuf.at
      BY <1>2, <2>6 DEF AlarmMove, told, Located
    <3>4. Stream!Move(pen)
      BY <3>2, <3>3 DEF Stream!Move
    <3> QED
      BY <3>1, <3>2, <3>4 DEF Stream!StreamNext
  <2>7. ASSUME NEW p \in Procs, ReadTake(p)
        PROVE  Located' /\ [Stream!StreamNext]_(Stream!streamVars)
    <3>1. bytes_avail \in 1 .. PKTBUFSIZ /\ pktbuf_index \in 0 .. PKTBUFSIZ - 1
      BY <1>2, <2>7, SizeAssumption DEF ReadTake, TypeOK
    <3>2. /\ got' = <<pktbuf, pktbuf_index>> /\ bytes_avail' = bytes_avail - 1
          /\ UNCHANGED packets /\ pktbuf_index' = (pktbuf_index + 1) % PKTBUFSIZ
      BY <2>7 DEF ReadTake, nextIndex
    <3>3. Stream!place = pktbuf_index
      BY <3>1, Places, SizeAssumption DEF Stream!place, start
    <3>4. start' = start
      BY <3>1, <3>2, Places, SizeAssumption DEF start
    <3>5. Stream!Take
      BY <3>1, <3>2, <3>3, <3>4 DEF Stream!Take, told
    <3> QED
      BY <1>2, <3>2, <3>5 DEF Located, Stream!StreamNext
  <2>8. ASSUME NEW p \in Procs, ReadEnter(p) \/ ReadSleep(p) \/ ReadFail(p) \/ Signal(p)
        PROVE  Quiet
    BY <2>8 DEF ReadEnter, ReadSleep, ReadFail, Signal
  <2>9. ASSUME NEW p \in Procs, SS_SSig(p)
        PROVE  Located' /\ [Stream!StreamNext]_(Stream!streamVars)
    <3>1. /\ bytes_avail \in 0 .. PKTBUFSIZ - 1 /\ pktbuf_index \in 0 .. PKTBUFSIZ - 1
          /\ bytes_avail' = 0 /\ UNCHANGED <<packets, pktbuf_index, got>>
      BY <1>2, <2>9, SizeAssumption DEF SS_SSig, TypeOK
    <3>2. CASE bytes_avail = 0
      <4>1. Quiet
        BY <3>1, <3>2
      <4> QED
        BY <2>1, <4>1
    <3>3. CASE bytes_avail # 0
      <4>1. Stream!place = pktbuf_index
        BY <3>1, <3>3, Places, SizeAssumption DEF Stream!place, start
      <4>2. start' = pktbuf_index
        <5>1. 0 \in 0 .. PKTBUFSIZ
          BY SizeAssumption
        <5>2. (pktbuf_index + 0) % PKTBUFSIZ = pktbuf_index
          BY <3>1, <5>1, Places
        <5> QED
          BY <3>1, <5>2 DEF start
      <4>3. Stream!Tear
        BY <3>1, <3>3, <4>1, <4>2, SizeAssumption DEF Stream!Tear, told
      <4> QED
        BY <1>2, <3>1, <4>3 DEF Located, Stream!StreamNext
    <3> QED
      BY <3>2, <3>3
  <2>12. ASSUME NEW p \in Procs, SS_Relea(p) PROVE Quiet
    BY <2>12 DEF SS_Relea
  <2>10. CASE TermMask \/ TermRemove \/ TermAlarm
    <3>1. Quiet
      BY <2>10 DEF TermMask, TermRemove, TermAlarm
    <3> QED
      BY <2>1, <3>1
  <2>11. CASE UNCHANGED vars
    <3>1. Quiet
      BY <2>11 DEF vars
    <3> QED
      BY <2>1, <3>1
  <2> QED
    BY <1>2, <2>1, <2>2, <2>3, <2>4, <2>5, <2>6, <2>7, <2>8, <2>9, <2>12, <2>10,
       <2>11
    DEF Next, alarm_h, read
<1>3. TypeOK /\ Located /\ [Next]_vars => Located' /\ [Stream!StreamNext]_(Stream!streamVars)
  BY <1>2
<1> QED
  BY <1>1, <1>3, TypeCorrect, PTL DEF Spec, WholePackets, Stream!StreamSpec
(***************************************************************************)
(* The chain of alarms                                                     *)
(***************************************************************************)

\* The interrupt is on only when a pen that was reported down has been reported up.
Reported == penirq => pointer_down_flag

\* The alarm is set as long as a lift has not been reported.
ChainUnbroken == stage = "on" /\ ~pointer_down_flag /\ ~AlarmFails => alarm

\* From the packet for pen down to the one for pen up the alarm never stops, whatever path
\* alarm_h() leaves by: a lift is not left to an interrupt that says nothing of it.
THEOREM LiftIsWatched == Spec => [](Reported /\ ChainUnbroken)
<1>1. Init => Reported
  BY DEF Init, Reported
<1>2. ASSUME TypeOK, PenWatched, Reported, [Next]_vars PROVE Reported'
  <2>1. ASSUME NEW q \in Points, Touch(q) \/ Lift PROVE Reported'
    BY <1>2, <2>1 DEF Touch, Lift, Reported
  <2>2. CASE real_isr
    BY <2>2 DEF real_isr, Reported
  <2>3. CASE AlarmWait \/ AlarmBounce \/ AlarmStill \/ AlarmDown \/ AlarmMove
    <3>1. alarm /\ penirq' = penirq
      BY <2>3 DEF AlarmWait, AlarmBounce, AlarmStill, AlarmDown, AlarmMove, again
    <3> QED
      BY <1>2, <3>1 DEF PenWatched, Reported
  <2>4. CASE AlarmSpurious \/ AlarmUp
    BY <2>4 DEF AlarmSpurious, AlarmUp, Reported
  <2>5. ASSUME NEW p \in Procs,
               ReadEnter(p) \/ read(p) \/ Signal(p) \/ SS_SSig(p) \/ SS_Relea(p)
        PROVE  Reported'
    BY <1>2, <2>5
    DEF ReadEnter, read, ReadSleep, ReadFail, ReadTake, Signal, SS_SSig, SS_Relea, Reported
  <2>6. CASE TermMask \/ TermRemove \/ TermAlarm
    BY <1>2, <2>6 DEF TermMask, TermRemove, TermAlarm, Reported
  <2>7. CASE UNCHANGED vars
    BY <1>2, <2>7 DEF vars, Reported
  <2> QED
    BY <1>2, <2>1, <2>2, <2>3, <2>4, <2>5, <2>6, <2>7, PointsAssumption DEF Next, alarm_h
<1>3. PenWatched /\ Reported => ChainUnbroken
  BY KindsAssumption DEF PenWatched, Reported, ChainUnbroken
<1> QED
  BY <1>1, <1>2, <1>3, TypeCorrect, Watched, PTL DEF Spec
=============================================================================
