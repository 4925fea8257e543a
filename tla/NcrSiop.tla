------------------------------ MODULE NcrSiop ------------------------------
(***************************************************************************)
(* The low-level SCSI driver for the NCR 53C710 SCSI I/O processor, the    *)
(* SCRIPT it runs on the chip, the devices of the bus and the processes    *)
(* that call exec().  One logical thread (threadstate, scriptstart, ...)   *)
(* per SCSI id; the thread of SelfId is the idle thread.                   *)
(*                                                                         *)
(* Four parties take steps: processes in exec(), the chip with the target  *)
(* it is connected to, the chip's interrupt service irq(), and - only in   *)
(* a build with the auxiliary timer - the timer's service seltoirq().      *)
(* Interrupt services run at one level: they exclude each other and the    *)
(* processes, not the chip.                                                *)
(*                                                                         *)
(* A definition marked "mutant" is a slip that its neighbour could have    *)
(* had: no action uses it, and some property below would notice it.        *)
(***************************************************************************)
EXTENDS Integers, FiniteSets

CONSTANTS
    Procs,        \* the processes that call exec()
    SystemProcs,  \* those whose id is 0 or 1: they poll and are sent no signal
    NoProc,       \* the processid of a thread nobody has used
    Targets,      \* the SCSI ids of the bus other than ours
    SelfId,       \* lst->selfid
    NoTarget,     \* the bus has no initiator-target connection
    Present,      \* the ids at which a device answers selection
    Uses,         \* Uses[p]: the ids that p addresses commands to
    AuxTimer,     \* TRUE in a build with -dAUX_TIMER
    Statuses,     \* the SCSI status bytes that targets send
    Tags,         \* 1 where no command outlives its exec(), else 2
    Faults,       \* the kinds of trouble that may happen
    MaxFaults     \* how many of them may happen in a behaviour

Ids == Targets \cup {SelfId}

FaultKinds == {"udc", "udc_resel", "sge", "rrst", "par", "berr", "berr_free",
               "pm", "unknph", "badmsg", "notmsgi"}

NTHREADS == 8

ASSUME IdsAssumption == Ids \subseteq 0..(NTHREADS - 1) /\ SelfId \notin Targets
                        /\ NoTarget \notin Ids /\ Present \subseteq Targets
ASSUME ProcsAssumption == NoProc \notin Procs /\ SystemProcs \subseteq Procs
                          /\ Uses \in [Procs -> SUBSET Ids]
ASSUME BuildAssumption == AuxTimer \in BOOLEAN /\ MaxFaults \in Nat
                          /\ Faults \subseteq FaultKinds
ASSUME CommandAssumption == Tags \in Nat \ {0} /\ "GOOD" \in Statuses

VARIABLES
    \* the callers, and the kernel's record of their signals
    pc,           \* where each process is in exec()
    cid,          \* the id its command is for
    tag,          \* tells two consecutive commands of a process apart
    sig,          \* a SIGWAKE is pending for the process
    \* struct logical_thread, one per id
    threadstate, scriptstart, chiperror, cmdstatus, processid, thread_sem, waiters,
    \* struct lstat
    wakes,        \* how many entries of wakequeue are in use
    wakequeue,    \* the processids in those entries
    chipbusy, phythread, sipflag, lastthread,
    \* the auxiliary timer, the chip and the bus
    timer,        \* what the one timer is running for
    dsp,          \* where the SCRIPT executes
    scratch0,     \* PH_SELECT, PH_MESS, a data phase, or another
    sigp,         \* SIGP of istat
    intr,         \* interrupt conditions latched in the chip
    busrst,       \* we hold the bus reset line
    conn,         \* the target connected to us
    tgt,          \* tgt[t]: what the device at t is doing, for which command
    \* interrupt service
    inirq,        \* irq() is running
    todo,         \* the conditions it has read and not yet served
    \* history
    executed,     \* commands that a target carried out to the end
    nfaults

procVars   == <<pc, cid, tag, sig>>
semVars    == <<thread_sem, waiters>>
cmdVars    == <<processid, cmdstatus>>
threadVars == <<threadstate, scriptstart, chiperror>>
wakeVars   == <<wakes, wakequeue>>
schedVars  == <<phythread, sipflag, lastthread, timer, dsp>>
busVars    == <<busrst, conn, tgt>>
irqVars    == <<inirq, todo>>
vars == <<procVars, semVars, cmdVars, threadVars, wakeVars, chipbusy,
          schedVars, scratch0, sigp, intr, busVars, irqVars, executed, nfaults>>

ThreadStates == {"EMPTY", "PENDING", "LOGICAL", "PHYSICAL", "DONE"}
Entries      == {"null", "WAITFORRESELECT", "SELECT", "WHICHPHASE"}
ChipErrors   == {"none", "BUSY", "E_UNIT", "E_DIDC", "E_HARDWARE"}
Commands     == (Procs \cup {NoProc}) \X (0..(Tags - 1))
NoCmd        == <<NoProc, 0>>
Phases       == {"SELECT", "MESS", "DATA", "OTHER"}
Timers       == {"off", "select", "tick", "long"}
TargetStates == {"free", "selected", "busy", "disconnected", "reselecting"}
Critical     == {"setup", "enqueue", "check", "sleep", "result"}

\* conditions of sstat0, served in this order, and those of dstat; SC_AGAIN is SC_RESEL or
\* NOTMSGI from a chip that was connected when it was started
ScsiBits == {"PAR", "RRST", "UDC", "SGE", "STO", "PM"}
DmaBits  == {"BF", "SC_DONE", "SC_SIGP", "SC_RESEL", "SC_IDISC", "UNKNPH",
             "NOTMSGI", "BADMSG", "SC_AGAIN"}
ReselBits == {"SC_RESEL", "NOTMSGI"}

Init ==
    /\ pc = [p \in Procs |-> "idle"]
    /\ cid = [p \in Procs |-> SelfId]
    /\ tag = [p \in Procs |-> 0]
    /\ sig = [p \in Procs |-> FALSE]
    /\ threadstate = [i \in Ids |-> "EMPTY"]
    /\ scriptstart = [i \in Ids |-> IF i = SelfId THEN "WAITFORRESELECT" ELSE "null"]
    /\ chiperror = [i \in Ids |-> "none"]
    /\ cmdstatus = [i \in Ids |-> "GOOD"]
    /\ processid = [i \in Ids |-> NoProc]
    /\ thread_sem = [i \in Ids |-> 0]
    /\ waiters = [i \in Ids |-> 0]
    /\ wakes = 0
    /\ wakequeue = {}
    /\ chipbusy = "CHIPFREE"
    /\ phythread = SelfId
    /\ sipflag = FALSE
    /\ lastthread = 0
    /\ timer = "off"
    /\ dsp = "WAITFORRESELECT"
    /\ scratch0 = "OTHER"
    /\ sigp = FALSE
    /\ intr = {}
    /\ busrst = FALSE
    /\ conn = NoTarget
    /\ tgt = [t \in Targets |-> [st |-> "free", cmd |-> NoCmd]]
    /\ inirq = FALSE
    /\ todo = {}
    /\ executed = {}
    /\ nfaults = 0
-----------------------------------------------------------------------------
(***************************************************************************)
(* Processes: exec(), grabsem() and enqueue().  A process runs only while  *)
(* no interrupt service does.                                              *)
(***************************************************************************)
command(p) == <<p, IF p = NoProc THEN 0 ELSE tag[p]>>

\* exec(cmd) with valid arguments: the id it checks against is MAXSCSI only
Exec(p, i) ==
    /\ ~inirq /\ pc[p] = "idle" /\ i \in Uses[p]
    /\ pc' = [pc EXCEPT ![p] = "chipwait"]
    /\ cid' = [cid EXCEPT ![p] = i]
    /\ tag' = [tag EXCEPT ![p] = (@ + 1) % Tags]
    /\ executed' = executed \ {<<p, (tag[p] + 1) % Tags>>}
    /\ UNCHANGED <<sig, semVars, cmdVars, threadVars, wakeVars,
                   chipbusy, schedVars, scratch0, sigp, intr, busVars, irqVars,
                   nfaults>>

\* while( lst->chipbusy != CHIPFREE ) sleep two ticks
ChipWait(p) ==
    /\ ~inirq /\ pc[p] = "chipwait" /\ chipbusy = "CHIPFREE"
    /\ pc' = [pc EXCEPT ![p] = "grabsem"]
    /\ UNCHANGED <<cid, tag, sig, semVars, cmdVars, threadVars,
                   wakeVars, chipbusy, schedVars, scratch0, sigp, intr, busVars,
                   irqVars, executed, nfaults>>

semFreeForWaiters(i) == thread_sem[i] = 0 \/ waiters[i] > 0   \* mutant

semFree(i) == thread_sem[i] = 0

\* grabsem() finds the semaphore free, at once or after some ticks of waiting
GrabSem(p) ==
    LET i == cid[p] IN
    /\ ~inirq /\ pc[p] \in {"grabsem", "semwait"} /\ semFree(i)
    /\ thread_sem' = [thread_sem EXCEPT ![i] = 1]
    /\ waiters' = [waiters EXCEPT ![i] = IF pc[p] = "semwait" THEN @ - 1 ELSE @]
    /\ pc' = [pc EXCEPT ![p] = "setup"]
    /\ UNCHANGED <<cid, tag, sig, cmdVars, threadVars, wakeVars,
                   chipbusy, schedVars, scratch0, sigp, intr, busVars, irqVars,
                   executed, nfaults>>

\* grabsem() finds it taken: count the waiter once, then sleep tick by tick
WaitSem(p) ==
    LET i == cid[p] IN
    /\ ~inirq /\ pc[p] = "grabsem" /\ ~semFree(i)
    /\ waiters' = [waiters EXCEPT ![i] = @ + 1]
    /\ pc' = [pc EXCEPT ![p] = "semwait"]
    /\ UNCHANGED <<cid, tag, sig, thread_sem, cmdVars, threadVars,
                   wakeVars, chipbusy, schedVars, scratch0, sigp, intr, busVars,
                   irqVars, executed, nfaults>>

\* exec() conditions the thread for the command: set_msg(), act_scsi_select()
Setup(p) ==
    LET i == cid[p] IN
    /\ ~inirq /\ pc[p] = "setup"
    /\ chiperror' = [chiperror EXCEPT ![i] = "none"]
    /\ cmdstatus' = [cmdstatus EXCEPT ![i] = "GOOD"]
    /\ processid' = [processid EXCEPT ![i] = p]
    /\ scriptstart' = [scriptstart EXCEPT ![i] = "SELECT"]
    /\ pc' = [pc EXCEPT ![p] = "enqueue"]
    /\ UNCHANGED <<cid, tag, sig, semVars, threadstate, wakeVars, chipbusy,
                   schedVars, scratch0, sigp, intr, busVars, irqVars, executed,
                   nfaults>>

ncr_kickNot == sigp' = sigp   \* mutant

ncr_kick == sigp' = TRUE

\* enqueue(): with interrupts masked, mark the thread pending and kick the chip
Enqueue(p) ==
    /\ ~inirq /\ pc[p] = "enqueue"
    /\ threadstate' = [threadstate EXCEPT ![cid[p]] = "PENDING"]
    /\ ncr_kick
    /\ pc' = [pc EXCEPT ![p] = "check"]
    /\ UNCHANGED <<cid, tag, sig, semVars, cmdVars, scriptstart,
                   chiperror, wakeVars, chipbusy, schedVars, scratch0, intr,
                   busVars, irqVars, executed, nfaults>>

\* while ( lth->threadstate != TH_DONE ), with interrupts unmasked
CheckDone(p) ==
    /\ ~inirq /\ pc[p] = "check"
    /\ pc' = [pc EXCEPT ![p] = IF threadstate[cid[p]] = "DONE" THEN "result"
                                                              ELSE "sleep"]
    /\ UNCHANGED <<cid, tag, sig, semVars, cmdVars, threadVars,
                   wakeVars, chipbusy, schedVars, scratch0, sigp, intr, busVars,
                   irqVars, executed, nfaults>>

WakeUpOnce(p) ==   \* mutant
    /\ ~inirq /\ pc[p] = "sleep"
    /\ sig[p] \/ p \in SystemProcs
    /\ sig' = [sig EXCEPT ![p] = FALSE]
    /\ pc' = [pc EXCEPT ![p] = "result"]
    /\ UNCHANGED <<cid, tag, semVars, cmdVars, threadVars,
                   wakeVars, chipbusy, schedVars, scratch0, sigp, intr, busVars,
                   irqVars, executed, nfaults>>

\* the sleep ends: for a user process when a signal is or becomes pending, for
\* the system process after two ticks
WakeUp(p) ==
    /\ ~inirq /\ pc[p] = "sleep"
    /\ sig[p] \/ p \in SystemProcs
    /\ sig' = [sig EXCEPT ![p] = FALSE]
    /\ pc' = [pc EXCEPT ![p] = "check"]
    /\ UNCHANGED <<cid, tag, semVars, cmdVars, threadVars,
                   wakeVars, chipbusy, schedVars, scratch0, sigp, intr, busVars,
                   irqVars, executed, nfaults>>

\* exec() takes its result and frees the semaphore
Result(i) == IF chiperror[i] # "none" THEN chiperror[i] ELSE cmdstatus[i]

Return(p) ==
    LET i == cid[p] IN
    /\ ~inirq /\ pc[p] = "result"
    /\ executed' = executed \ {command(p)}
    /\ thread_sem' = [thread_sem EXCEPT ![i] = 0]
    /\ pc' = [pc EXCEPT ![p] = "idle"]
    /\ UNCHANGED <<cid, tag, sig, waiters, cmdVars, threadVars,
                   wakeVars, chipbusy, schedVars, scratch0, sigp, intr, busVars,
                   irqVars, nfaults>>

-----------------------------------------------------------------------------
(***************************************************************************)
(* The SCRIPT and the bus.  The chip runs until it latches an interrupt    *)
(* condition; a write to dsp starts it again.  The SCRIPT reads the        *)
(* command of the thread phythread points to and writes status there.     *)
(***************************************************************************)
\* conditions read together are served before a SCRIPT restarted meanwhile gets on
Running == intr = {} /\ dsp # "HALT" /\ todo = {}

Latch(c) == intr' = intr \cup {c} /\ dsp' = "HALT"

Connected(st) == Running /\ conn # NoTarget /\ tgt[conn].st \in st

\* what a step of the chip never touches
ChipOnly == UNCHANGED <<procVars, semVars, processid, threadVars, wakeVars, chipbusy,
                        phythread, lastthread, timer, busrst, irqVars>>

\* WAITFORRESELECT with SIGP set: reading ctest2 clears it, and tells the driver
\* only when no target is connected
WaitSigp ==
    /\ Running /\ dsp = "WAITFORRESELECT" /\ sigp
    /\ sigp' = FALSE
    /\ IF conn = NoTarget THEN Latch("SC_SIGP") ELSE UNCHANGED <<intr, dsp>>
    /\ scratch0' = "OTHER"
    /\ ChipOnly /\ UNCHANGED <<sipflag, cmdstatus, conn, tgt, executed, nfaults>>

\* a disconnected target connects, while the SCRIPT waits for it or tries to select
Reselect(t) ==
    /\ Running /\ dsp \in {"WAITFORRESELECT", "SELECT"}
    /\ conn = NoTarget /\ ~busrst /\ tgt[t].st = "disconnected"
    /\ conn' = t
    /\ tgt' = [tgt EXCEPT ![t].st = "reselecting"]
    /\ ChipOnly
    /\ UNCHANGED <<sipflag, cmdstatus, scratch0, sigp, intr, dsp, executed, nfaults>>

\* resel_adr: the SCRIPT saves the reselector's id and takes the message after it
Reselected ==
    /\ Connected({"reselecting"}) /\ dsp \in {"WAITFORRESELECT", "SELECT"}
    /\ scratch0' = IF dsp = "SELECT" THEN "SELECT" ELSE "OTHER"
    /\ tgt' = [tgt EXCEPT ![conn].st = "busy"]
    /\ \/ Latch("SC_RESEL") /\ UNCHANGED nfaults
       \/ /\ "notmsgi" \in Faults /\ nfaults < MaxFaults
          /\ Latch("NOTMSGI") /\ nfaults' = nfaults + 1
    /\ ChipOnly /\ UNCHANGED <<sipflag, cmdstatus, sigp, conn, executed>>

\* already_selected, or wait reselect with a target still connected: resel_adr once more,
\* with the target in whatever phase it is.  Only the timer's service starts the chip so.
Reconnected ==
    /\ AuxTimer /\ Connected({"selected", "busy"}) /\ dsp \in {"WAITFORRESELECT", "SELECT"}
    /\ scratch0' = IF dsp = "SELECT" THEN "SELECT" ELSE "OTHER"
    /\ \E c \in {"SC_AGAIN", "PM"} : Latch(c)
    /\ ChipOnly /\ UNCHANGED <<sipflag, cmdstatus, sigp, conn, tgt, executed, nfaults>>

\* SELECTATN/SELECTNOATN: the target answers the selection ...
SelectWon ==
    /\ Running /\ dsp = "SELECT" /\ conn = NoTarget /\ ~busrst
    /\ phythread \in Present
    /\ conn' = phythread
    /\ tgt' = [tgt EXCEPT ![phythread] = [st |-> "selected", cmd |-> NoCmd]]
    /\ scratch0' = "SELECT"
    /\ dsp' = "SELECTED"
    /\ ChipOnly /\ UNCHANGED <<sipflag, cmdstatus, sigp, intr, executed, nfaults>>

\* ... and if it goes on with the phase expected (message out, or command without ATN),
\* the SCRIPT clears the select-in-progress flag in memory
SelectDone ==
    /\ Running /\ dsp = "SELECTED"
    /\ \/ sipflag' = FALSE /\ scratch0' = "MESS"
       \/ UNCHANGED sipflag /\ scratch0' = "OTHER"
    /\ dsp' = "WHICHPHASE"
    /\ ChipOnly /\ UNCHANGED <<cmdstatus, sigp, intr, conn, tgt, executed, nfaults>>

\* nobody answers: the chip's own select timer, off in a build with AUX_TIMER
SelectTimeout ==
    /\ Running /\ dsp = "SELECT" /\ conn = NoTarget /\ ~AuxTimer
    /\ phythread \notin Present \/ busrst
    /\ scratch0' = "SELECT"
    /\ Latch("STO")
    /\ ChipOnly /\ UNCHANGED <<sipflag, cmdstatus, sigp, conn, tgt, executed, nfaults>>

\* send_cmd: the target takes the command of the physical thread
SendCommand ==
    /\ Connected({"selected"}) /\ dsp = "WHICHPHASE"
    /\ tgt' = [tgt EXCEPT ![conn] = [st |-> "busy", cmd |-> command(processid[phythread])]]
    /\ scratch0' = "OTHER"
    /\ ChipOnly
    /\ UNCHANGED <<sipflag, cmdstatus, sigp, intr, dsp, conn, executed, nfaults>>

\* input_data/output_data: the move starts, and ends with the count exhausted
DataPhase ==
    /\ Connected({"busy"}) /\ dsp \in {"WHICHPHASE", "DATA"}
    /\ dsp' = IF dsp = "DATA" THEN "WHICHPHASE" ELSE "DATA"
    /\ scratch0' = IF dsp = "DATA" THEN "OTHER" ELSE "DATA"
    /\ ChipOnly
    /\ UNCHANGED <<sipflag, cmdstatus, sigp, intr, conn, tgt, executed, nfaults>>

\* the target leaves the data phase before the count is exhausted
PhaseMismatch ==
    /\ Connected({"busy"}) /\ dsp = "DATA"
    /\ Latch("PM")
    /\ ChipOnly
    /\ UNCHANGED <<sipflag, cmdstatus, sigp, scratch0, conn, tgt, executed, nfaults>>

\* status and COMMAND COMPLETE, then the target leaves the bus
CommandComplete ==
    /\ Connected({"busy"}) /\ dsp = "WHICHPHASE"
    /\ \E s \in Statuses : cmdstatus' = [cmdstatus EXCEPT ![phythread] = s]
    /\ executed' = executed \cup {tgt[conn].cmd}
    /\ tgt' = [tgt EXCEPT ![conn] = [st |-> "free", cmd |-> NoCmd]]
    /\ conn' = NoTarget
    /\ scratch0' = "OTHER"
    /\ Latch("SC_DONE")
    /\ ChipOnly /\ UNCHANGED <<sipflag, sigp, nfaults>>

\* DISCONNECT: the target keeps the command and leaves the bus
Disconnect ==
    /\ Connected({"busy"}) /\ dsp \in {"WHICHPHASE", "FREEIT"}
    /\ tgt' = [tgt EXCEPT ![conn].st = "disconnected"]
    /\ conn' = NoTarget
    /\ scratch0' = "OTHER"
    /\ Latch("SC_IDISC")
    /\ ChipOnly /\ UNCHANGED <<sipflag, cmdstatus, sigp, executed, nfaults>>

\* FREEIT: the target is run dry until it completes; with no target on the bus
\* the SCRIPT falls through to WAITFORRESELECT
FreeIt ==
    /\ Running /\ dsp = "FREEIT"
    /\ IF conn = NoTarget
       THEN dsp' = "WAITFORRESELECT" /\ UNCHANGED <<intr, conn, tgt>>
       ELSE /\ Latch("SC_DONE")
            /\ tgt' = [tgt EXCEPT ![conn] = [st |-> "free", cmd |-> NoCmd]]
            /\ conn' = NoTarget
    /\ ChipOnly /\ UNCHANGED <<sipflag, cmdstatus, sigp, scratch0, executed, nfaults>>

\* an interrupt condition that nobody asked for
Fault(kind) ==
    /\ kind \in Faults /\ nfaults < MaxFaults
    /\ nfaults' = nfaults + 1
    /\ ChipOnly /\ UNCHANGED <<sipflag, cmdstatus, sigp, scratch0, executed>>

\* the connected target drops off the bus, with or without its command
UnexpectedDisconnect ==
    /\ Connected({"selected", "busy"})
    /\ \/ Fault("udc") /\ tgt' = [tgt EXCEPT ![conn] = [st |-> "free", cmd |-> NoCmd]]
       \/ /\ Fault("udc_resel") /\ tgt[conn].st = "busy"
          /\ tgt' = [tgt EXCEPT ![conn].st = "disconnected"]
    /\ conn' = NoTarget
    /\ Latch("UDC")

\* somebody resets the bus; it can come on top of another condition
BusReset ==
    /\ Fault("rrst") /\ todo = {} /\ ~busrst
    /\ tgt' = [t \in Targets |-> [st |-> "free", cmd |-> NoCmd]]
    /\ conn' = NoTarget
    /\ \E more \in IF conn = NoTarget THEN {{}} ELSE {{}, {"UDC"}} :
            intr' = intr \cup {"RRST"} \cup more
    /\ dsp' = "HALT"

\* gross error, parity error, illegal phase or message from a connected target
ConnectedTrouble(kind, c) ==
    /\ Fault(kind)
    /\ Connected({"selected", "busy"})
    /\ c \in {"PM", "UNKNPH", "BADMSG"} => dsp = "WHICHPHASE"
    /\ Latch(c)
    /\ UNCHANGED <<conn, tgt>>

\* the chip's DMA meets a bus error: on a command under way, or on the SCRIPT
\* while it waits or selects
BusError ==
    /\ Fault(IF Connected({"selected", "busy"}) THEN "berr" ELSE "berr_free")
    /\ Running
    /\ Latch("BF")
    /\ UNCHANGED <<conn, tgt>>

-----------------------------------------------------------------------------
(***************************************************************************)
(* Starting the chip: rethread() and reschedule().  ts is the threadstate, *)
(* sip the select flag and tmr the timer as the caller left them.          *)
(***************************************************************************)
start_sto(tmr) == IF AuxTimer THEN "select" ELSE tmr

rethread(i, entry, ts, sip, tmr) ==
    /\ phythread' = i
    /\ threadstate' = [ts EXCEPT ![i] = IF i = SelfId THEN "EMPTY" ELSE "PHYSICAL"]
    /\ sipflag' = (sip \/ entry = "SELECT")
    /\ timer' = IF entry = "SELECT" THEN start_sto(tmr) ELSE tmr
    /\ dsp' = IF i = SelfId THEN "WAITFORRESELECT" ELSE entry

\* the highest pending id other than the last one served, else that one, else
\* the idle thread
nextThread(ts) ==
    LET pending == {i \in Ids : ts[i] = "PENDING"}
        others  == pending \ {lastthread}
    IN  IF others # {} THEN CHOOSE i \in others : \A j \in others : j <= i
        ELSE IF pending # {} THEN lastthread ELSE SelfId

reschedule(ts, sip, tmr) ==
    LET next == nextThread(ts) IN
    /\ lastthread' = IF ts[next] = "PENDING" THEN next ELSE lastthread
    /\ rethread(next, scriptstart[next], ts, sip, tmr)

scsi_freeNow(i) ==   \* mutant
    reschedule([threadstate EXCEPT ![i] = "EMPTY"], sipflag, timer)

\* run the SCRIPT that frees the bus; for the idle thread, reschedule
scsi_free(i) ==
    IF i = SelfId
    THEN reschedule([threadstate EXCEPT ![i] = "EMPTY"], sipflag, timer)
    ELSE /\ dsp' = "FREEIT"
         /\ UNCHANGED <<phythread, lastthread, threadstate, sipflag, timer>>

queueWakesTwice(n, pids) == wakes' = wakes + 2 * n /\ wakequeue' = wakequeue \cup pids \* mutant

queueWakes(n, pids) == wakes' = wakes + n /\ wakequeue' = wakequeue \cup pids

-----------------------------------------------------------------------------
(***************************************************************************)
(* irq(): read the latched conditions, serve each in the order of          *)
(* ncr_irq_sort(), look again, and at the end send the queued wake-ups.    *)
(***************************************************************************)
toServeAll == intr   \* mutant

\* reading sstat2 as a long clears all; dstat's bits are looked at only when
\* no SCSI bit is set, else they are lost
toServe == IF intr \cap ScsiBits # {} THEN intr \cap ScsiBits ELSE intr

IrqSort ==
    /\ intr # {} /\ todo = {}
    /\ inirq' = TRUE
    /\ todo' = toServe
    /\ intr' = {}
    /\ UNCHANGED <<procVars, semVars, cmdVars, threadVars, wakeVars,
                   chipbusy, schedVars, scratch0, sigp, busVars, executed, nfaults>>

wakesButOne == IF wakequeue = {} THEN {} ELSE wakequeue \ {CHOOSE p \in wakequeue : TRUE} \* mutant

\* those that are sent a SIGWAKE
toWake == wakequeue \ SystemProcs

\* the loop ends: one SIGWAKE per queued user process
IrqExit ==
    /\ inirq /\ intr = {} /\ todo = {}
    /\ inirq' = FALSE
    /\ sig' = [p \in Procs |-> sig[p] \/ p \in toWake]
    /\ wakes' = 0 /\ wakequeue' = {}
    /\ UNCHANGED <<pc, cid, tag, semVars, cmdVars, threadVars,
                   chipbusy, schedVars, scratch0, sigp, intr, busVars, todo,
                   executed, nfaults>>

Rank(c) == CASE c = "PAR" -> 1 [] c = "RRST" -> 2 [] c = "UDC" -> 3
             [] c = "SGE" -> 4 [] c = "STO" -> 5 [] c = "PM" -> 6 [] OTHER -> 7

\* what every service routine has in common
Serve(c) ==
    /\ c \in todo /\ \A d \in todo : Rank(c) <= Rank(d)
    /\ todo' = todo \ {c}
    /\ UNCHANGED <<procVars, semVars, cmdVars, scratch0, sigp,
                   inirq, executed, nfaults>>

BusAlone  == UNCHANGED <<chipbusy, intr, busrst, conn, tgt>>
WakeAlone == UNCHANGED wakeVars
SetErrorNot(i, e) == chiperror' = chiperror   \* mutant

SetError(i, e) == chiperror' = [chiperror EXCEPT ![i] = e]

finishedNot(i) == threadstate   \* mutant

finished(i) == [threadstate EXCEPT ![i] = "DONE"]

scripti_done ==
    /\ Serve("SC_DONE")
    /\ queueWakes(1, {processid[phythread]})
    /\ reschedule(finished(phythread), sipflag, "off")
    /\ UNCHANGED <<scriptstart, chiperror>> /\ BusAlone

scripti_sigp ==
    /\ Serve("SC_SIGP")
    /\ reschedule(threadstate, sipflag, timer)
    /\ UNCHANGED <<scriptstart, chiperror>> /\ BusAlone /\ WakeAlone

\* lcrcid.tid: nothing changes the connection between its latch and its use
reselector == conn

ncr_ph_selectNever == FALSE   \* mutant

ncr_ph_select == scratch0 = "SELECT"

\* a selection under way goes back to pending; the reselecting target's thread
\* continues whatever state it is in
scripti_resel ==
    LET ts == [threadstate EXCEPT ![phythread] =
                   IF ncr_ph_select THEN "PENDING" ELSE "LOGICAL"]
    IN  /\ Serve("SC_RESEL")
        /\ rethread(reselector, "WHICHPHASE", ts, sipflag /\ ~ncr_ph_select,
                    IF ncr_ph_select THEN "off" ELSE timer)
        /\ UNCHANGED <<lastthread, scriptstart, chiperror>> /\ BusAlone /\ WakeAlone

\* the same, or find_lth(), for the id that lcrc was left with: the target's if it had
\* reselected us, anything if we had selected it
scripti_again ==
    LET ts == [threadstate EXCEPT ![phythread] =
                   IF ncr_ph_select THEN "PENDING" ELSE "LOGICAL"]
        sip == sipflag /\ ~ncr_ph_select
        tmr == IF ncr_ph_select THEN "off" ELSE timer
    IN  /\ Serve("SC_AGAIN")
        /\ \E i \in Ids :
              \/ i = SelfId /\ reschedule(ts, sip, tmr)
              \/ i # SelfId /\ rethread(i, "WHICHPHASE", ts, sip, tmr) /\ UNCHANGED lastthread
              \/ rethread(i, "WHICHPHASE", threadstate, sipflag, timer) /\ UNCHANGED lastthread
        /\ UNCHANGED <<scriptstart, chiperror>> /\ BusAlone /\ WakeAlone

scripti_idisc ==
    LET cur == phythread IN
    /\ Serve("SC_IDISC")
    /\ scriptstart' = [scriptstart EXCEPT ![cur] =
                           IF threadstate[cur] = "LOGICAL" THEN @ ELSE "WHICHPHASE"]
    /\ reschedule([threadstate EXCEPT ![cur] = "LOGICAL"], sipflag, timer)
    /\ UNCHANGED chiperror /\ BusAlone /\ WakeAlone

unknph ==
    /\ Serve("UNKNPH")
    /\ SetError(phythread, "BUSY")
    /\ scsi_free(phythread)
    /\ UNCHANGED scriptstart /\ BusAlone /\ WakeAlone

\* find_lth(): the thread the chip was working for is not put back
notmsgi ==
    /\ Serve("NOTMSGI")
    /\ rethread(reselector, "WHICHPHASE", threadstate, sipflag, timer)
    /\ UNCHANGED <<lastthread, scriptstart, chiperror>> /\ BusAlone /\ WakeAlone

scripti_badmsg ==
    /\ Serve("BADMSG")
    /\ SetError(phythread, "BUSY")
    /\ rethread(phythread, "WHICHPHASE", threadstate, sipflag, timer)
    /\ UNCHANGED <<lastthread, scriptstart>> /\ BusAlone /\ WakeAlone

dma_buserror ==
    /\ Serve("BF")
    /\ SetError(phythread, "BUSY")
    /\ IF scratch0 = "DATA"
       THEN /\ scriptstart' = [scriptstart EXCEPT ![phythread] = "WHICHPHASE"]
            /\ rethread(phythread, "WHICHPHASE", threadstate, sipflag, timer)
            /\ UNCHANGED lastthread
       ELSE scsi_free(phythread) /\ UNCHANGED scriptstart
    /\ BusAlone /\ WakeAlone

\* ncr_ph_mess() looks at scratch3, where the SCRIPT only ever moves SEL_DONE
ncr_ph_mess == FALSE

siop_par ==
    /\ Serve("PAR")
    /\ SetError(phythread, "BUSY")
    /\ IF ncr_ph_mess
       THEN rethread(phythread, "WHICHPHASE", threadstate, sipflag, timer)
            /\ UNCHANGED lastthread
       ELSE scsi_free(phythread)
    /\ UNCHANGED scriptstart /\ BusAlone /\ WakeAlone

brokenPhysical == {i \in Targets : threadstate[i] = "PHYSICAL"}   \* mutant

\* every physical or logical thread is broken by a bus reset
broken == {i \in Targets : threadstate[i] \in {"PHYSICAL", "LOGICAL"}}

resetThreads(tmr) ==
    /\ chiperror' = [i \in Ids |-> IF i \in broken /\ chiperror[i] # "E_HARDWARE"
                                   THEN "E_DIDC" ELSE chiperror[i]]
    /\ queueWakes(Cardinality(broken), {processid[i] : i \in broken})
    /\ reschedule([i \in Ids |-> IF i \in broken THEN "DONE" ELSE threadstate[i]],
                  sipflag, tmr)
    /\ UNCHANGED scriptstart

siop_rrst == Serve("RRST") /\ resetThreads(timer) /\ BusAlone

siop_udc ==
    /\ Serve("UDC")
    /\ SetError(phythread, "BUSY")
    /\ queueWakes(1, {processid[phythread]})
    /\ reschedule(finished(phythread), sipflag, timer)
    /\ UNCHANGED scriptstart /\ BusAlone

siop_sto ==
    /\ Serve("STO")
    /\ SetError(phythread, "E_UNIT")
    /\ queueWakes(1, {processid[phythread]})
    /\ reschedule(finished(phythread), FALSE, "off")
    /\ UNCHANGED scriptstart /\ BusAlone

\* assert bus reset and leave the rest to the timer; the chip may or may not
\* report the reset it drives itself
siop_sge ==
    /\ Serve("SGE")
    /\ SetError(phythread, "E_HARDWARE")
    /\ chipbusy' = "DEASERTRST"
    /\ timer' = IF AuxTimer THEN "tick" ELSE timer
    /\ busrst' = TRUE /\ conn' = NoTarget
    /\ tgt' = [t \in Targets |-> [st |-> "free", cmd |-> NoCmd]]
    /\ intr' \in {intr, intr \cup {"RRST"}}
    /\ UNCHANGED <<threadstate, scriptstart, phythread, lastthread, sipflag, dsp>>
    /\ WakeAlone

siop_pm ==
    LET cur == phythread IN
    /\ Serve("PM")
    /\ IF cur = SelfId
       THEN scsi_free(cur) /\ UNCHANGED scriptstart
       ELSE /\ scriptstart' = [scriptstart EXCEPT ![cur] = "WHICHPHASE"]
            /\ rethread(cur, "WHICHPHASE", threadstate, sipflag, timer)
            /\ UNCHANGED lastthread
    /\ UNCHANGED chiperror /\ BusAlone /\ WakeAlone

-----------------------------------------------------------------------------
(***************************************************************************)
(* seltoirq(): the service of the auxiliary timer, at the level of irq().  *)
(***************************************************************************)
Timer ==
    /\ ~inirq /\ timer # "off"
    /\ UNCHANGED <<pc, cid, tag, semVars, cmdVars, scratch0,
                   irqVars, executed, nfaults>>

\* The soft reset stops the chip and clears what it had latched; a target left alone gives up.
reset ==
    /\ intr \cap DmaBits = {}
    /\ intr' = {} /\ sigp' = FALSE /\ busrst' = FALSE /\ conn' = NoTarget
    /\ tgt' = [t \in Targets |-> IF t = conn THEN [st |-> "free", cmd |-> NoCmd]
                                             ELSE tgt[t]]

\* ncr_reset() refuses: dstat has a condition, which is lost by being read, or the FIFO is
\* not empty.  Nobody looks at the result: the chip is as it was, and is started again.
refused(rst) ==
    /\ intr \cap DmaBits # {} \/ conn # NoTarget
    /\ intr' = intr \ DmaBits /\ busrst' = rst
    /\ UNCHANGED <<sigp, conn, tgt>>

\* rst: the bus reset line is held so far
chipreset(rst) == reset \/ refused(rst)

TimerSelectQuiet ==   \* mutant
    /\ Timer /\ sipflag
    /\ SetError(phythread, "E_UNIT")
    /\ chipreset(busrst)
    /\ chipbusy' = "CHIPFREE"
    /\ reschedule(finished(phythread), sipflag, "off")
    /\ UNCHANGED <<sig, scriptstart, wakeVars>>

\* a selection took too long
TimerSelect ==
    /\ Timer /\ sipflag
    /\ SetError(phythread, "E_UNIT")
    /\ chipreset(busrst)
    /\ sig' = [p \in Procs |-> sig[p] \/ p = processid[phythread]]
    /\ chipbusy' = "CHIPFREE"
    /\ reschedule(finished(phythread), sipflag, "off")
    /\ UNCHANGED <<scriptstart, wakeVars>>

\* the bus reset has lasted long enough: release it and start the long timer
TimerReset ==
    /\ Timer /\ ~sipflag /\ chipbusy = "DEASERTRST"
    /\ chipbusy' = "RSTDONE"
    /\ chipreset(FALSE)
    /\ resetThreads("long")
    /\ UNCHANGED sig

\* the long timer has elapsed
TimerFree ==
    /\ Timer /\ ~sipflag /\ chipbusy = "RSTDONE"
    /\ chipbusy' = "CHIPFREE"
    /\ reschedule(threadstate, sipflag, "off")
    /\ UNCHANGED <<sig, scriptstart, chiperror, wakeVars, sigp, intr, busrst, conn, tgt>>

\* nothing to do but stop the timer
TimerIdle ==
    /\ Timer /\ ~sipflag /\ chipbusy = "CHIPFREE"
    /\ timer' = "off"
    /\ UNCHANGED <<sig, threadVars, wakeVars, chipbusy, phythread, sipflag,
                   lastthread, dsp, sigp, intr, busrst, conn, tgt>>

-----------------------------------------------------------------------------
Process(p) == \/ ChipWait(p) \/ GrabSem(p) \/ WaitSem(p) \/ Setup(p) \/ Enqueue(p)
              \/ CheckDone(p) \/ WakeUp(p) \/ Return(p)

\* what the chip and well-behaved targets do
Chip == \/ WaitSigp \/ SelectWon \/ SelectDone \/ SelectTimeout \/ SendCommand
        \/ DataPhase \/ PhaseMismatch \/ CommandComplete \/ Disconnect \/ FreeIt
        \/ Reselected \/ Reconnected
        \/ \E t \in Targets : Reselect(t)

Trouble == \/ UnexpectedDisconnect \/ BusReset \/ BusError
           \/ ConnectedTrouble("sge", "SGE") \/ ConnectedTrouble("par", "PAR")
           \/ ConnectedTrouble("pm", "PM") \/ ConnectedTrouble("unknph", "UNKNPH")
           \/ ConnectedTrouble("badmsg", "BADMSG")

Irq == \/ IrqSort \/ IrqExit
       \/ scripti_done \/ scripti_sigp \/ scripti_resel \/ scripti_again \/ scripti_idisc
       \/ unknph \/ notmsgi \/ scripti_badmsg \/ dma_buserror
       \/ siop_par \/ siop_rrst \/ siop_udc \/ siop_sge \/ siop_sto \/ siop_pm

seltoirq == TimerSelect \/ TimerReset \/ TimerFree \/ TimerIdle

Next == \/ \E p \in Procs : Process(p) \/ \E i \in Uses[p] : Exec(p, i)
        \/ Chip \/ Trouble \/ Irq \/ seltoirq

Spec == Init /\ [][Next]_vars

\* The processor and the chip keep going; a SCRIPT instruction that waits is
\* resumed by its device.  Devices answer in the end: one that holds a command
\* reselects and completes it, however often it disconnects before.  Our id
\* has the highest arbitration priority, so that a selection that is tried over
\* and over succeeds.
Fairness ==
    /\ \A p \in Procs : SF_vars(Process(p))
    /\ WF_vars(Irq) /\ WF_vars(seltoirq)
    /\ WF_vars(Chip)
    /\ \A t \in Targets : /\ SF_vars(SelectWon /\ phythread = t)
                          /\ SF_vars(CommandComplete /\ conn = t)
                          /\ SF_vars(Reselect(t))

FairSpec == Spec /\ Fairness
-----------------------------------------------------------------------------
(***************************************************************************)
(* Properties.                                                             *)
(***************************************************************************)
CallersOK ==
    /\ pc \in [Procs -> {"idle", "chipwait", "grabsem", "semwait"} \cup Critical]
    /\ cid \in [Procs -> Ids]
    /\ tag \in [Procs -> 0..(Tags - 1)]
    /\ sig \in [Procs -> BOOLEAN]
    /\ executed \subseteq Commands

ThreadsOK ==
    /\ threadstate \in [Ids -> ThreadStates]
    /\ scriptstart \in [Ids -> Entries]
    /\ chiperror \in [Ids -> ChipErrors]
    /\ cmdstatus \in [Ids -> Statuses]
    /\ processid \in [Ids -> Procs \cup {NoProc}]
    /\ thread_sem \in [Ids -> 0..1]
    /\ waiters \in [Ids -> Int]

SchedOK ==
    /\ wakes \in Nat
    /\ wakequeue \subseteq Procs \cup {NoProc}
    /\ chipbusy \in {"CHIPFREE", "DEASERTRST", "RSTDONE"}
    /\ phythread \in Ids
    /\ sipflag \in BOOLEAN
    /\ lastthread \in Ids \cup {0}
    /\ timer \in Timers

BusOK ==
    /\ dsp \in Entries \cup {"HALT", "SELECTED", "DATA", "FREEIT"}
    /\ scratch0 \in Phases
    /\ sigp \in BOOLEAN
    /\ busrst \in BOOLEAN
    /\ conn \in Targets \cup {NoTarget}
    /\ tgt \in [Targets -> [st : TargetStates, cmd : Commands]]
    /\ nfaults \in 0..MaxFaults

\* Conditions of the SCSI core and of the DMA core are never served together,
\* and a reselection is served while its target is still connected.
IrqOK ==
    /\ intr \subseteq ScsiBits \cup DmaBits
    /\ todo \subseteq ScsiBits \/ todo \subseteq DmaBits
    /\ inirq \in BOOLEAN
    /\ todo # {} => inirq /\ (intr = {} \/ (intr = {"RRST"} /\ todo \subseteq ScsiBits))
    /\ (intr \cup todo) \cap ScsiBits = {} /\ (intr \cup todo) \cap ReselBits # {}
       => conn \in Targets
    /\ "SC_AGAIN" \in intr \cup todo => AuxTimer

\* Every variable has values of its type: what scripti_resel() and find_lth()
\* read as the reselector's id is one, and reschedule() finds a thread.
TypeOK == CallersOK /\ ThreadsOK /\ SchedOK /\ BusOK /\ IrqOK

\* The thread of an id belongs to one process at a time: between grabsem() and
\* the end of exec() no other process is there for that id, the semaphore tells
\* so, and from enqueue() on the wake-up of the thread goes to that process.
OneOwner ==
    /\ \A p, q \in Procs : /\ pc[p] \in Critical /\ pc[q] \in Critical
                            /\ cid[p] = cid[q]
                            => p = q
    /\ \A i \in Ids : thread_sem[i] = 1 <=>
                         \E p \in Procs : pc[p] \in Critical /\ cid[p] = i
    /\ \A p \in Procs : pc[p] \in Critical \ {"setup"} => processid[cid[p]] = p

\* At most the thread that the SCRIPT's data structure address points to is
\* physical, whatever order selections, reselections and errors come in.
OnePhysical == \A i \in Targets : threadstate[i] = "PHYSICAL" => phythread = i

\* No wake-up is lost between the test of threadstate in enqueue() and the
\* sleep after it: a user process asleep for a finished thread has its signal
\* pending, or is in the queue of an interrupt service that still runs.
NoLostWakeup ==
    \A p \in Procs \ SystemProcs :
        pc[p] = "sleep" /\ threadstate[cid[p]] = "DONE" /\ ~sig[p]
        => inirq /\ p \in wakequeue

\* With the auxiliary timer a wake-up may be left in the queue when no interrupt
\* service runs: seltoirq() sends only its own.  It is not forgotten, though.
WakeIsKept ==
    \A p \in Procs \ SystemProcs :
        pc[p] = "sleep" /\ threadstate[cid[p]] = "DONE" => sig[p] \/ p \in wakequeue

\* No request for the chip is lost between enqueue(), the SCRIPT's reads of istat
\* and irq(): a chip at rest with a pending thread has SIGP set, or a target is
\* about to raise an interrupt.
PendingIsSeen ==
    Running /\ dsp = "WAITFORRESELECT" /\ (\E i \in Ids : threadstate[i] = "PENDING")
    => sigp \/ conn # NoTarget

quiet == ~inirq /\ intr = {} /\ ~busrst

\* The driver and the devices agree on who is disconnected: while no interrupt
\* is outstanding, a thread is logical exactly when its target left the bus
\* with the command of the thread's owner.
LogicalMeansDisconnected ==
    quiet => \A t \in Targets :
        /\ threadstate[t] = "LOGICAL" <=> tgt[t].st \in {"disconnected", "reselecting"}
        /\ threadstate[t] = "LOGICAL" => tgt[t].cmd = command(processid[t])

\* One irq() never queues more wake-ups than wakequeue has entries, one per id,
\* however many conditions it serves before it sends them.
WakeQueueFits == wakes <= Cardinality(Ids)

\* The SCRIPT is given to another thread only when the bus is free: while the
\* target of the physical thread is connected, the thread stays physical.
RestartOnBusFree ==
    [][conn # NoTarget /\ phythread = conn /\ conn' = conn => phythread' = phythread]_vars

\* Every exec() comes to an end.
CallReturns == \A p \in Procs : pc[p] = "chipwait" ~> pc[p] = "idle"
=============================================================================
