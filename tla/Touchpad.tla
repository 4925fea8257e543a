------------------------------ MODULE Touchpad ------------------------------
(***************************************************************************)
(* The touchpad driver of the MC68328ADS                                   *)
(* (OS9/SRC/IO/SCF/DRVR/MC328ADS/TOUCHPAD).  The pen interrupt starts a    *)
(* one-shot alarm and masks itself; the alarm handler samples the pad,     *)
(* makes packets, and sets the next alarm or, when the pen is up, unmasks  *)
(* the interrupt.  Programs read packets byte by byte, asleep until one is *)
(* there, or ask for a signal.                                             *)
(*                                                                         *)
(* A step is what no other party can interrupt: real_isr(), alarm_h(), a   *)
(* section between two calls of mask_irq().  alarm_h() goes on only with   *)
(* bytes_avail at 0 and nothing else runs until it ends, so its three      *)
(* tests for an overrun, and read()'s, never hold and are left out.        *)
(*                                                                         *)
(* A definition marked "mutant" is a slip that its neighbour could have    *)
(* had: no action uses it, and some property below would notice it.        *)
(***************************************************************************)
EXTENDS Naturals

CONSTANTS
  Procs,        \* processes that use the device, each by a path of its own
  NoProc,       \* no process: datapid, v_wake and v_busy at 0
  Points,       \* places on the pad that lie farther apart than TOLERANCE
  Off,          \* the pen touches nowhere
  PKTBUFSIZ,    \* bytes of a packet: 4, or 9 with TIME_STAMP
  SendFails,    \* a signal may fail: its process is gone, or can take no more
  AlarmFails    \* F$Alarm may fail; nobody looks at what it returns

ASSUME ProcsAssumption == NoProc \notin Procs
ASSUME PointsAssumption == Off \notin Points /\ Points # {}
ASSUME SizeAssumption == PKTBUFSIZ \in {4, 9}
ASSUME KindsAssumption == SendFails \in BOOLEAN /\ AlarmFails \in BOOLEAN

VARIABLES
  pen,                \* where the pen is
  penirq,             \* the pen interrupt is unmasked and its pin set up for it
  spen,               \* it is pending
  alarm,              \* the alarm is set
  stage,              \* "on", then what term() has done: "masked", "removed", "off"
  pointer_down_flag,  \* the next packet is Pointer Down
  last,               \* last_x and last_y
  pktbuf,             \* the packet
  bytes_avail,        \* bytes of it to be read
  pktbuf_index,       \* where read() goes on
  datapid,            \* who gets a signal when data are ready
  v_wake, v_busy,     \* who sleeps in read(); who is in it
  pc, woken,          \* where a process is; a signal that ends its sleep
  asked,              \* history: who has been promised a signal
  got                 \* history: the last byte read, as packet and index

hardware == <<pen, penirq, spen, alarm>>
packets == <<pointer_down_flag, last, pktbuf>>
reading == <<bytes_avail, pktbuf_index, got>>
waiting == <<v_wake, v_busy, pc, woken>>
asking == <<datapid, asked>>
vars == <<hardware, stage, packets, reading, waiting, asking>>

Packets == [kind : {"none", "down", "move", "up"}, at : Points]

\* init() has run: the interrupt is on and nothing is known of the pen
Init ==
  /\ pen = Off /\ penirq = TRUE /\ spen = FALSE /\ alarm = FALSE /\ stage = "on"
  /\ pointer_down_flag = TRUE
  /\ pktbuf \in [kind : {"none"}, at : Points] /\ last = pktbuf.at
  /\ bytes_avail = 0 /\ pktbuf_index = 0 /\ got = <<pktbuf, 0>>
  /\ datapid = NoProc /\ asked = {}
  /\ v_wake = NoProc /\ v_busy = NoProc
  /\ pc = [p \in Procs |-> "out"] /\ woken = [p \in Procs |-> FALSE]

(***************************************************************************)
(* The pen                                                                 *)
(***************************************************************************)

\* put down, or moved
Touch(q) ==
  /\ pen # q /\ pen' = q
  /\ spen' = (spen \/ (penirq /\ pen = Off))
  /\ UNCHANGED <<penirq, alarm, stage, packets, reading, waiting, asking>>

Lift ==
  /\ pen # Off /\ pen' = Off
  /\ UNCHANGED <<penirq, spen, alarm, stage, packets, reading, waiting, asking>>

(***************************************************************************)
(* The interrupt                                                           *)
(***************************************************************************)

install_one_shot == alarm' \in {TRUE, ~AlarmFails}

real_isr ==
  /\ penirq /\ spen /\ stage \in {"on", "masked"}
  /\ penirq' = FALSE /\ spen' = FALSE
  /\ install_one_shot
  /\ UNCHANGED <<pen, stage, packets, reading, waiting, asking>>

(***************************************************************************)
(* The alarm.  What it sees of the pen in its samples is a touch, a pen    *)
(* that is up, or neither: bouncing, or moving too fast.                   *)
(***************************************************************************)

neverAgain == alarm /\ alarm' = FALSE /\ UNCHANGED <<pen, penirq, spen>>   \* mutant

again == alarm /\ install_one_shot /\ UNCHANGED <<pen, penirq, spen>>

unread == bytes_avail # 0

standDownOnly ==   \* mutant: the alarm is not deleted
  /\ alarm /\ ~unread
  /\ penirq' = TRUE /\ spen' \in {FALSE, pen # Off}
  /\ UNCHANGED <<pen, stage, alarm>>

\* The pen was up when sampled.  If it has been put down since, that may have been too
\* early for the interrupt.
standDown ==
  /\ alarm /\ ~unread
  /\ alarm' = FALSE /\ penirq' = TRUE
  /\ spen' \in {FALSE, pen # Off}
  /\ UNCHANGED <<pen, stage>>

\* The packet is there; who sleeps is woken, who asked is sent a signal.  A packet that
\* was to be signalled and could not be is dropped.
present(kind, at) ==
  /\ pktbuf' = [kind |-> kind, at |-> at]
  /\ \/ bytes_avail' = PKTBUFSIZ
     \/ SendFails /\ datapid # NoProc /\ bytes_avail' = 0
  /\ woken' = [p \in Procs |-> woken[p] \/ (p = v_wake /\ pc[p] = "asleep")]
  /\ v_wake' = NoProc
  /\ datapid' = NoProc /\ asked' = asked \ {datapid}
  /\ UNCHANGED <<pktbuf_index, got, v_busy, pc>>

AlarmWait ==
  /\ unread /\ again
  /\ UNCHANGED <<stage, packets, reading, waiting, asking>>

AlarmBounce ==
  /\ ~unread /\ again
  /\ UNCHANGED <<stage, packets, reading, waiting, asking>>

AlarmSpurious ==
  /\ standDown /\ pointer_down_flag
  /\ UNCHANGED <<packets, reading, waiting, asking>>

AlarmUpNoReset ==   \* mutant
  /\ standDown /\ ~pointer_down_flag
  /\ present("up", last)
  /\ UNCHANGED <<pointer_down_flag, last>>

AlarmUp ==
  /\ standDown /\ ~pointer_down_flag
  /\ present("up", last)
  /\ pointer_down_flag' = TRUE
  /\ UNCHANGED last

AlarmDown ==
  /\ ~unread /\ again /\ pen # Off /\ pointer_down_flag
  /\ pointer_down_flag' = FALSE
  /\ last' = pen
  /\ present("down", pen)
  /\ UNCHANGED stage

AlarmStill ==
  /\ ~unread /\ again /\ pen = last /\ ~pointer_down_flag
  /\ UNCHANGED <<stage, packets, reading, waiting, asking>>

AlarmMove ==
  /\ ~unread /\ again /\ pen \notin {Off, last} /\ ~pointer_down_flag
  /\ last' = pen
  /\ present("move", pen)
  /\ UNCHANGED <<stage, pointer_down_flag>>

alarm_h ==
  \/ AlarmWait \/ AlarmBounce \/ AlarmSpurious \/ AlarmUp
  \/ AlarmDown \/ AlarmStill \/ AlarmMove

(***************************************************************************)
(* read(): SCF lets one process in at a time.  With a signal promised to   *)
(* somebody it returns EOS_DEVBSY and changes nothing.                     *)
(***************************************************************************)
ReadEnter(p) ==
  /\ stage = "on" /\ pc[p] = "out" /\ v_busy = NoProc
  /\ datapid = NoProc
  /\ v_busy' = p
  /\ pc' = [pc EXCEPT ![p] = "look"]
  /\ UNCHANGED <<hardware, stage, packets, reading, v_wake, woken, asking>>

looks(p) == pc[p] = "look" \/ (pc[p] = "asleep" /\ woken[p])

ReadSleep(p) ==
  /\ looks(p) /\ bytes_avail = 0
  /\ v_wake' = v_busy
  /\ pc' = [pc EXCEPT ![p] = "asleep"]
  /\ woken' = [woken EXCEPT ![p] = FALSE]
  /\ UNCHANGED <<hardware, stage, packets, reading, v_busy, asking>>

leave(p) ==
  /\ v_busy' = NoProc
  /\ pc' = [pc EXCEPT ![p] = "out"]
  /\ woken' = [woken EXCEPT ![p] = FALSE]
  /\ UNCHANGED v_wake

\* a deadly signal, or the process is condemned: EOS_READ
ReadFail(p) ==
  /\ pc[p] = "asleep" /\ woken[p] /\ bytes_avail = 0
  /\ leave(p)
  /\ UNCHANGED <<hardware, stage, packets, reading, asking>>

nextIndexNot == pktbuf_index + 1   \* mutant

nextIndex == (pktbuf_index + 1) % PKTBUFSIZ

ReadTake(p) ==
  /\ looks(p) /\ bytes_avail # 0
  /\ got' = <<pktbuf, pktbuf_index>>
  /\ pktbuf_index' = nextIndex
  /\ bytes_avail' = bytes_avail - 1
  /\ leave(p)
  /\ UNCHANGED <<hardware, stage, packets, asking>>

read(p) == ReadSleep(p) \/ ReadFail(p) \/ ReadTake(p)

\* any other signal ends a sleep too
Signal(p) ==
  /\ pc[p] = "asleep" /\ ~woken[p]
  /\ woken' = [woken EXCEPT ![p] = TRUE]
  /\ UNCHANGED <<hardware, stage, packets, reading, v_wake, v_busy, pc, asking>>

(***************************************************************************)
(* putstat().  SS_SSig on a packet not begun sends the signal at once; one *)
(* more promise is refused: neither changes anything here.  In the middle  *)
(* of a packet it drops the rest, and the index stays where it was.        *)
(***************************************************************************)
freeNot == TRUE   \* mutant

free == datapid = NoProc

SS_SSig(p) ==
  /\ stage = "on" /\ pc[p] = "out"
  /\ free /\ bytes_avail # PKTBUFSIZ
  /\ datapid' = p /\ asked' = asked \cup {p}
  /\ bytes_avail' = 0
  /\ UNCHANGED <<hardware, stage, packets, pktbuf_index, got, waiting>>

\* SS_Relea, and SS_Close of a process's path
SS_Relea(p) ==
  /\ stage = "on" /\ pc[p] = "out" /\ datapid = p
  /\ datapid' = NoProc /\ asked' = asked \ {p}
  /\ UNCHANGED <<hardware, stage, packets, reading, waiting>>

(***************************************************************************)
(* term(): no path is open any more.  Interrupt and alarm go on between    *)
(* its steps.                                                              *)
(***************************************************************************)
TermMask ==
  /\ stage = "on" /\ \A p \in Procs : pc[p] = "out"
  /\ stage' = "masked" /\ penirq' = FALSE
  /\ UNCHANGED <<pen, spen, alarm, packets, reading, waiting, asking>>

TermRemove ==
  /\ stage = "masked" /\ stage' = "removed"
  /\ UNCHANGED <<hardware, packets, reading, waiting, asking>>

TermAlarm ==
  /\ stage = "removed" /\ stage' = "off"
  /\ alarm' = FALSE
  /\ datapid' = NoProc /\ asked' = {}
  /\ UNCHANGED <<pen, penirq, spen, packets, reading, waiting>>

Next ==
  \/ \E q \in Points : Touch(q)
  \/ Lift \/ real_isr \/ alarm_h
  \/ \E p \in Procs : ReadEnter(p) \/ read(p) \/ Signal(p) \/ SS_SSig(p) \/ SS_Relea(p)
  \/ TermMask \/ TermRemove \/ TermAlarm

Spec == Init /\ [][Next]_vars

\* The alarm goes off; a pen that is up is seen so sooner or later; who is woken runs, and
\* somebody reads what there is.
Fairness ==
  /\ WF_vars(alarm_h)
  /\ SF_vars(pen = Off /\ AlarmUp)
  /\ \A p \in Procs : WF_vars(read(p)) /\ WF_vars(unread /\ ReadEnter(p))

FairSpec == Spec /\ Fairness

(***************************************************************************)
(* Properties                                                              *)
(***************************************************************************)

\* Every variable has values of its type; pktbuf_index stays inside the packet.
TypeOK ==
  /\ pen \in Points \cup {Off}
  /\ penirq \in BOOLEAN /\ spen \in BOOLEAN /\ alarm \in BOOLEAN
  /\ stage \in {"on", "masked", "removed", "off"}
  /\ pointer_down_flag \in BOOLEAN /\ last \in Points /\ pktbuf \in Packets
  /\ bytes_avail \in 0 .. PKTBUFSIZ /\ pktbuf_index \in 0 .. PKTBUFSIZ - 1
  /\ got \in Packets \X (0 .. PKTBUFSIZ - 1)
  /\ datapid \in Procs \cup {NoProc} /\ asked \subseteq Procs
  /\ v_wake \in Procs \cup {NoProc} /\ v_busy \in Procs \cup {NoProc}
  /\ pc \in [Procs -> {"out", "look", "asleep"}] /\ woken \in [Procs -> BOOLEAN]

\* The pen is watched by the interrupt or by the alarm and never by both, whatever
\* path alarm_h() leaves by, and no alarm outlives the driver's memory (real_isr,
\* alarm_h, term).
PenWatched ==
  /\ ~(penirq /\ alarm)
  /\ stage = "on" /\ ~AlarmFails => penirq \/ alarm
  /\ stage = "off" => ~alarm

\* Whoever was promised a signal is the one that datapid names, with nothing to read yet;
\* whoever sleeps in read() with nothing to wake him is the one that v_wake names, with
\* nothing to read either: a packet never waits while its reader does (SS_SSig, read,
\* alarm_h).
NobodyForgotten ==
  /\ asked = {datapid} \ {NoProc}
  /\ datapid # NoProc => bytes_avail = 0
  /\ \A p \in Procs : pc[p] = "asleep" /\ ~woken[p] => v_wake = p /\ bytes_avail = 0

\* A pen that is lifted for good is reported, unless the driver is terminated: the chain
\* of one-shot alarms never breaks, and no packet stays in its way (alarm_h, read).
LiftReported ==
  stage = "on" /\ ~pointer_down_flag /\ pen = Off
    ~> pointer_down_flag \/ pen # Off \/ stage # "on"
=============================================================================
