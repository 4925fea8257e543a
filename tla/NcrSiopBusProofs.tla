-------------------------- MODULE NcrSiopBusProofs --------------------------
(***************************************************************************)
(* Further theorems about NcrSiop, in the build without the auxiliary      *)
(* timer: what the driver knows of the bus, how it schedules, and that it  *)
(* never stands still.  Each layer excludes the faults that break it and   *)
(* no others: none at first; targets that drop off the bus with a command, *)
(* where threads are finished; the two faults that break OnePhysical,      *)
(* where idle and busy must be told apart; resets, where nothing may stop. *)
(***************************************************************************)
EXTENDS NcrSiopProofs

USE DEF procVars, semVars, cmdVars, threadVars, wakeVars, schedVars, busVars, irqVars

-----------------------------------------------------------------------------
(***************************************************************************)
(* What serving a condition does to the chip and the threads.              *)
(***************************************************************************)
\* reschedule(), from the states ts
Starts(ts) ==
    /\ phythread' = nextThread(ts)
    /\ threadstate' = [ts EXCEPT ![nextThread(ts)] =
                           IF nextThread(ts) = SelfId THEN "EMPTY" ELSE "PHYSICAL"]
    /\ dsp' = IF nextThread(ts) = SelfId THEN "WAITFORRESELECT"
                                         ELSE scriptstart[nextThread(ts)]

\* rethread() of thread i, from the states ts
Continues(i, ts) ==
    /\ phythread' = i
    /\ threadstate' = [ts EXCEPT ![i] = IF i = SelfId THEN "EMPTY" ELSE "PHYSICAL"]
    /\ dsp' = IF i = SelfId THEN "WAITFORRESELECT" ELSE "WHICHPHASE"

\* the SCRIPT that frees the bus, for the physical thread
Frees == phythread # SelfId /\ dsp' = "FREEIT" /\ UNCHANGED <<phythread, threadstate>>

Ending == {"SC_DONE", "UDC", "STO"}
Mending == {"UNKNPH", "BF", "PAR", "PM", "BADMSG"}

Outcome(c) ==
    \/ c \in Ending /\ Starts(finished(phythread)) /\ wakes' = wakes + 1
    \/ c = "SC_SIGP" /\ Starts(threadstate) /\ wakes' = wakes
    \/ /\ c = "SC_RESEL" /\ wakes' = wakes
       /\ Continues(conn, [threadstate EXCEPT ![phythread] =
                               IF ncr_ph_select THEN "PENDING" ELSE "LOGICAL"])
    \/ c = "NOTMSGI" /\ Continues(conn, threadstate) /\ wakes' = wakes
    \/ /\ c = "SC_IDISC" /\ wakes' = wakes
       /\ Starts([threadstate EXCEPT ![phythread] = "LOGICAL"])
    \/ /\ c \in Mending /\ wakes' = wakes
       /\ \/ phythread = SelfId /\ Starts([threadstate EXCEPT ![SelfId] = "EMPTY"])
          \/ /\ c \in {"PM", "BF", "BADMSG"} /\ (c = "PM" => phythread # SelfId)
             /\ Continues(phythread, threadstate)
          \/ c \in {"UNKNPH", "BF", "PAR"} /\ Frees
    \/ /\ c = "RRST" /\ wakes' = wakes + Cardinality(broken)
       /\ Starts([i \in Ids |-> IF i \in broken THEN "DONE" ELSE threadstate[i]])

LEMMA Restarts ==
    ASSUME NEW ts, NEW sip, NEW tmr, reschedule(ts, sip, tmr)
    PROVE  Starts(ts)
    BY DEF reschedule, rethread, Starts

LEMMA Rethreads ==
    ASSUME NEW i, NEW ts, NEW sip, NEW tmr, rethread(i, "WHICHPHASE", ts, sip, tmr)
    PROVE  Continues(i, ts)
    BY DEF rethread, Continues

LEMMA FreesOrRestarts ==
    ASSUME scsi_free(phythread)
    PROVE  \/ phythread = SelfId /\ Starts([threadstate EXCEPT ![SelfId] = "EMPTY"])
           \/ Frees
    BY Restarts DEF scsi_free, Frees

-----------------------------------------------------------------------------
(***************************************************************************)
(* The bus, under every fault.  Whoever finishes a thread, or takes the    *)
(* bus from it, finds the bus free; conditions come one at a time, but for *)
(* a bus reset and the disconnect it causes; and a connected target is     *)
(* that of the physical thread, or its reselection is not served yet.      *)
(***************************************************************************)
BusFree == outstanding \cap (Ending \cup {"RRST", "SC_SIGP", "SC_IDISC"}) # {}
           => conn = NoTarget

Single ==
    /\ \A c, d \in outstanding \ {"RRST", "UDC"} : c = d
    /\ \A c, d \in outstanding \cap Ending : c = d
    /\ "UDC" \in intr => intr = {"UDC"} \/ "RRST" \in intr
    /\ todo # {} => intr = {}

Connection ==
    conn # NoTarget =>
        \/ tgt[conn].st \in {"selected", "busy"} /\ phythread = conn
        \/ tgt[conn].st = "busy" /\ ReselBits \cap outstanding # {}
        \/ tgt[conn].st = "reselecting" /\ ReselBits \cap outstanding = {}

Grounded == TypeOK /\ IrqQueues /\ OneOwner /\ BusFree /\ Single /\ Connection

\* irq() reads the conditions, ends, asserts the bus reset or serves a condition.
LEMMA IrqOutcome ==
    ASSUME Grounded, Irq
    PROVE  \/ IrqSort \/ IrqExit \/ siop_sge
           \/ \E c : Serve(c) /\ Outcome(c) /\ BusAlone
<1>0. ~scripti_again
    BY NeverAgain DEF Grounded, IrqQueues
<1>1. CASE scripti_done
    BY <1>1, Restarts DEF scripti_done, Outcome, Ending, queueWakes
<1>2. CASE siop_udc
    BY <1>2, Restarts DEF siop_udc, Outcome, Ending, queueWakes
<1>3. CASE siop_sto
    BY <1>3, Restarts DEF siop_sto, Outcome, Ending, queueWakes
<1>4. CASE scripti_sigp
    BY <1>4, Restarts DEF scripti_sigp, Outcome, WakeAlone
<1>5. CASE scripti_idisc
    BY <1>5, Restarts DEF scripti_idisc, Outcome, WakeAlone
<1>6. CASE scripti_resel
    BY <1>6, Rethreads DEF scripti_resel, Outcome, reselector, WakeAlone
<1>7. CASE siop_rrst
    BY <1>7, Restarts DEF siop_rrst, resetThreads, Outcome, queueWakes
<1>8. CASE unknph
    BY <1>8, FreesOrRestarts DEF unknph, Outcome, Mending, WakeAlone
<1>9. CASE siop_par
    BY <1>9, FreesOrRestarts DEF siop_par, ncr_ph_mess, Outcome, Mending, WakeAlone
<1>10. CASE siop_pm
  <2>1. CASE phythread = SelfId
    <3>1. Starts([threadstate EXCEPT ![SelfId] = "EMPTY"])
        BY <1>10, <2>1, FreesOrRestarts DEF siop_pm, Frees
    <3> QED
        BY <1>10, <2>1, <3>1 DEF siop_pm, Outcome, Mending, WakeAlone
  <2>2. CASE phythread # SelfId
      BY <1>10, <2>2, Rethreads DEF siop_pm, Outcome, Mending, WakeAlone
  <2> QED
      BY <2>1, <2>2
<1>11. CASE dma_buserror
    BY <1>11, FreesOrRestarts, Rethreads DEF dma_buserror, Outcome, Mending, WakeAlone
<1>12. CASE scripti_badmsg
    BY <1>12, Rethreads DEF scripti_badmsg, Outcome, Mending, WakeAlone
<1>13. CASE notmsgi
    BY <1>13, Rethreads DEF notmsgi, Outcome, reselector, WakeAlone
<1> QED
    BY <1>1, <1>2, <1>3, <1>4, <1>5, <1>6, <1>7, <1>8, <1>9, <1>10, <1>11, <1>12, <1>13,
       <1>0
    DEF Irq

\* What is outstanding while a condition is served.
LEMMA Serving ==
    ASSUME Grounded, NEW c, Serve(c)
    PROVE  /\ c \in todo /\ c \in outstanding /\ outstanding = todo
           /\ todo' = todo \ {c} /\ intr = {} /\ inirq /\ inirq'
           /\ todo \subseteq ScsiBits \/ todo \subseteq DmaBits
           /\ c \in DmaBits => todo = {c}
           /\ c \notin {"RRST", "UDC"} => todo \subseteq {c, "RRST", "UDC"}
           /\ conn \in Targets \cup {NoTarget} /\ phythread \in Ids
           /\ NoTarget \notin Targets /\ SelfId \notin Targets
<1>1. c \in todo /\ todo' = todo \ {c} /\ inirq' = inirq
    BY DEF Serve
<1>2. intr = {} /\ outstanding = todo /\ inirq
    BY <1>1 DEF Grounded, Single, outstanding, TypeOK, IrqOK
<1>3. todo \subseteq ScsiBits \/ todo \subseteq DmaBits
    BY DEF Grounded, TypeOK, IrqOK
<1>4. c \notin {"RRST", "UDC"} => todo \subseteq {c, "RRST", "UDC"}
    BY <1>1, <1>2 DEF Grounded, Single
<1>5. c \in DmaBits => todo = {c}
    BY <1>1, <1>3, <1>4 DEF ScsiBits, DmaBits
<1>6. /\ conn \in Targets \cup {NoTarget} /\ phythread \in Ids
      /\ NoTarget \notin Targets /\ SelfId \notin Targets
    BY IdsAssumption DEF Grounded, TypeOK, BusOK, SchedOK, Ids
<1> QED
    BY <1>1, <1>2, <1>3, <1>4, <1>5, <1>6

\* Serving a condition leaves the chip to the thread of the connected target.
LEMMA ConnectedKept ==
    ASSUME Grounded, NEW c, Serve(c), Outcome(c), conn # NoTarget
    PROVE  /\ phythread = conn => phythread' = conn
           /\ \/ c \in ReselBits /\ phythread' = conn /\ tgt[conn].st \in {"selected", "busy"}
              \/ c \in Mending /\ ReselBits \cap outstanding = {}
<1>1. /\ c \in todo /\ c \in outstanding /\ conn \in Targets /\ conn # SelfId
      /\ todo \subseteq ScsiBits \/ todo \subseteq DmaBits
    BY Serving
<1>2. c \in ReselBits \/ c \in Mending
    BY <1>1 DEF Grounded, BusFree, Outcome, Ending, ReselBits
<1>3. CASE c \in ReselBits
  <2>1. tgt[conn].st \in {"selected", "busy"}
      BY <1>1, <1>3 DEF Grounded, Connection
  <2> QED
      BY <1>3, <2>1 DEF Outcome, Ending, Mending, Continues, ReselBits
<1>4. CASE c \in Mending
  <2>1. ReselBits \cap outstanding = {}
      BY <1>1, <1>4, Serving DEF Mending, ReselBits, ScsiBits, DmaBits
  <2>2. phythread = conn => phythread' = conn
      BY <1>1, <1>4 DEF Outcome, Ending, Mending, Continues, Frees
  <2> QED
      BY <1>4, <2>1, <2>2
<1> QED
    BY <1>2, <1>3, <1>4

LEMMA ServeGrounded ==
    ASSUME Grounded, NEW c, Serve(c), Outcome(c), BusAlone
    PROVE  BusFree' /\ Single' /\ Connection'
<1>1. /\ outstanding' = todo \ {c} /\ outstanding = todo /\ intr' = {} /\ UNCHANGED <<conn, tgt>>
    BY Serving DEF BusAlone, outstanding
<1>2. BusFree' /\ Single'
    BY <1>1 DEF Grounded, BusFree, Single
<1>3. Connection'
  <2>1. SUFFICES ASSUME conn # NoTarget PROVE Connection'
      BY <1>1 DEF Connection
  <2>2. CASE c \in ReselBits /\ phythread' = conn /\ tgt[conn].st \in {"selected", "busy"}
      BY <1>1, <2>2 DEF Connection
  <2>3. CASE ReselBits \cap outstanding = {}
      BY <1>1, <2>1, <2>3, ConnectedKept DEF Grounded, Connection
  <2> QED
      BY <2>1, <2>2, <2>3, ConnectedKept
<1> QED
    BY <1>2, <1>3

LEMMA ChipGrounded ==
    ASSUME Grounded, Chip \/ Trouble
    PROVE  BusFree' /\ Single' /\ Connection'
<1> USE DEF ChipOnly, Running, Connected, Latch, outstanding
<1>1. /\ conn \in Targets \cup {NoTarget} /\ NoTarget \notin Targets /\ SelfId \notin Targets
      /\ tgt \in [Targets -> [st : TargetStates, cmd : Commands]]
    BY IdsAssumption DEF Grounded, TypeOK, BusOK, Ids
<1>2. UNCHANGED <<phythread, todo>>
    BY DEF Chip, Trouble, WaitSigp, SelectWon, SelectDone, SelectTimeout,
           SendCommand, DataPhase, PhaseMismatch, CommandComplete, Disconnect, FreeIt,
           Reselected, Reconnected, Reselect, UnexpectedDisconnect, BusReset, BusError,
           ConnectedTrouble, Fault
\* a step that latches at most one condition
<1>3. ASSUME intr = {}, todo = {}, intr' = {} \/ \E c : intr' = {c}
      PROVE  Single'
    BY <1>2, <1>3 DEF Single
<1>4. ASSUME UNCHANGED <<conn, tgt>>, intr = {}, todo = {}, ReselBits \cap intr' = {},
             intr' = {} \/ \E c : intr' = {c},
             intr' \cap (Ending \cup {"RRST", "SC_SIGP", "SC_IDISC"}) # {} => conn = NoTarget
      PROVE  BusFree' /\ Single' /\ Connection'
    BY <1>2, <1>3, <1>4 DEF Grounded, BusFree, Connection
<1>5. CASE WaitSigp \/ SelectTimeout
    BY <1>4, <1>5 DEF WaitSigp, SelectTimeout, ReselBits
<1>6. CASE SelectDone \/ DataPhase
    BY <1>4, <1>6 DEF SelectDone, DataPhase
<1>7. CASE PhaseMismatch \/ BusError
    BY <1>4, <1>7 DEF PhaseMismatch, BusError, Fault, ReselBits, Ending
<1>8. ASSUME NEW kind, NEW c \in {"SGE", "PAR", "PM", "UNKNPH", "BADMSG"},
             ConnectedTrouble(kind, c)
      PROVE  BusFree' /\ Single' /\ Connection'
    BY <1>4, <1>8 DEF ConnectedTrouble, Fault, ReselBits, Ending
\* the target leaves the bus
<1>9. ASSUME intr = {}, todo = {}, conn' = NoTarget, \E c : intr' = {c}
      PROVE  BusFree' /\ Single' /\ Connection'
    BY <1>3, <1>9 DEF BusFree, Connection
<1>10. CASE CommandComplete \/ Disconnect \/ UnexpectedDisconnect
    BY <1>9, <1>10 DEF CommandComplete, Disconnect, UnexpectedDisconnect
<1>11. CASE FreeIt
  <2>1. CASE conn = NoTarget
      BY <1>4, <1>11, <2>1 DEF FreeIt
  <2>2. CASE conn # NoTarget
      BY <1>9, <1>11, <2>2 DEF FreeIt
  <2> QED
      BY <2>1, <2>2
\* it comes, or goes on
<1>12. ASSUME intr = {}, todo = {}, intr' = {}, conn' \in Targets,
              \/ tgt'[conn'].st \in {"selected", "busy"} /\ phythread = conn'
              \/ tgt'[conn'].st = "reselecting"
       PROVE  BusFree' /\ Single' /\ Connection'
    BY <1>2, <1>3, <1>12 DEF BusFree, Connection, ReselBits
<1>13. ASSUME NEW t \in Targets, Reselect(t) PROVE BusFree' /\ Single' /\ Connection'
    BY <1>1, <1>12, <1>13 DEF Reselect
<1>14. CASE SelectWon
    BY <1>1, <1>12, <1>14, IdsAssumption DEF SelectWon
<1>15. CASE SendCommand
  <2>1. phythread = conn
      BY <1>15 DEF SendCommand, Grounded, Connection
  <2> QED
      BY <1>1, <1>12, <1>15, <2>1 DEF SendCommand
<1>16. CASE Reselected
  <2>1. /\ conn' = conn /\ conn \in Targets /\ tgt'[conn].st = "busy" /\ intr = {} /\ todo = {}
        /\ intr' = {"SC_RESEL"} \/ intr' = {"NOTMSGI"}
      BY <1>1, <1>16 DEF Reselected
  <2> QED
      BY <1>2, <1>3, <2>1 DEF BusFree, Connection, ReselBits, Ending
\* a bus reset, on top of what is latched
<1>17. CASE BusReset
  <2>1. /\ todo = {} /\ conn' = NoTarget
        /\ intr' = intr \cup {"RRST"} \/ (conn # NoTarget /\ intr' = intr \cup {"RRST", "UDC"})
      BY <1>17 DEF BusReset
  <2>2. conn # NoTarget => intr \cap Ending = {}
      BY DEF Grounded, BusFree
  <2>3. Single'
    <3>1. \A c, d \in outstanding' \ {"RRST", "UDC"} : c = d
        BY <1>2, <2>1 DEF Grounded, Single
    <3>2. \A c, d \in outstanding' \cap Ending : c = d
        BY <1>2, <2>1, <2>2 DEF Grounded, Single, Ending
    <3> QED
        BY <1>2, <2>1, <3>1, <3>2 DEF Single
  <2> QED
      BY <2>1, <2>3 DEF BusFree, Connection
<1> QED
    BY <1>5, <1>6, <1>7, <1>8, <1>10, <1>11, <1>13, <1>14, <1>15, <1>16, <1>17,
       NeverAgain
    DEF Chip, Trouble, Grounded, IrqQueues

\* What is between two calls of the processes with the chip and the threads.
LEMMA ProcessesKeep ==
    ASSUME NEW p \in Procs, Process(p) \/ \E i \in Uses[p] : Exec(p, i)
    PROVE  UNCHANGED <<intr, todo, inirq, conn, tgt, busrst, dsp, phythread, scratch0,
                       wakes>>
    BY DEF Process, Exec, ChipWait, GrabSem, WaitSem, Setup, Enqueue, CheckDone,
           WakeUp, Return

\* Reading the conditions loses some, but none of a bus reset.
LEMMA SortKeeps ==
    ASSUME Grounded, IrqSort
    PROVE  /\ outstanding = intr /\ outstanding' = todo' /\ intr' = {} /\ inirq'
           /\ outstanding' \subseteq outstanding
           /\ "RRST" \in outstanding <=> "RRST" \in outstanding'
           /\ \A c \in outstanding : c \in outstanding' \/ "RRST" \in outstanding
           /\ UNCHANGED <<pc, cid, tag, processid, cmdstatus, threadstate, scriptstart,
                          chiperror, wakes, phythread, dsp, scratch0, sigp, conn, tgt, busrst,
                          executed>>
<1> USE DEF IrqSort, toServe, outstanding
<1>1. \A c \in outstanding : c \in outstanding' \/ "RRST" \in outstanding
  <2> SUFFICES ASSUME NEW c \in intr, c \notin ScsiBits, NEW d \in intr, d \in ScsiBits
               PROVE  "RRST" \in intr
      OBVIOUS
  <2>1. c \notin {"RRST", "UDC"}
      BY DEF ScsiBits
  <2>2. d \in {"RRST", "UDC"}
      BY <2>1 DEF Grounded, Single
  <2> QED
      BY <2>1, <2>2 DEF Grounded, Single
<1> QED
    BY <1>1 DEF ScsiBits

\* siop_sge() is served last, and leaves nothing but the report of its own reset.
LEMMA GrossError ==
    ASSUME Grounded, siop_sge
    PROVE  /\ outstanding = {"SGE"} /\ todo' = {} /\ intr' \subseteq {"RRST"} /\ inirq /\ inirq'
           /\ conn' = NoTarget /\ tgt' = [t \in Targets |-> [st |-> "free", cmd |-> NoCmd]]
           /\ UNCHANGED <<pc, cid, tag, processid, cmdstatus, threadstate, scriptstart,
                          wakes, phythread, dsp, scratch0, sigp, executed>>
<1>1. Serve("SGE") /\ "SGE" \in todo /\ \A d \in todo : Rank("SGE") <= Rank(d)
    BY DEF siop_sge, Serve
<1>2. "RRST" \notin todo /\ "UDC" \notin todo
    BY <1>1 DEF Rank
<1>3. todo = {"SGE"}
    BY <1>1, <1>2, Serving
<1> QED
    BY <1>1, <1>3, Serving DEF siop_sge, Serve, WakeAlone

LEMMA GroundedStep ==
    ASSUME Grounded, [Next]_vars
    PROVE  BusFree' /\ Single' /\ Connection'
<1>1. ASSUME NEW p \in Procs, Process(p) \/ \E i \in Uses[p] : Exec(p, i)
      PROVE  BusFree' /\ Single' /\ Connection'
    BY <1>1, ProcessesKeep DEF Grounded, BusFree, Single, Connection, outstanding
<1>2. CASE Chip \/ Trouble
    BY <1>2, ChipGrounded
<1>3. CASE IrqSort
  <2>1. Connection'
    <3>1. CASE conn = NoTarget
        BY <1>3, <3>1, SortKeeps DEF Connection
    <3>2. CASE conn # NoTarget
      <4>1. "RRST" \notin outstanding
          BY <3>2 DEF Grounded, BusFree
      <4> QED
          BY <1>3, <4>1, SortKeeps DEF Grounded, Connection
    <3> QED
        BY <3>1, <3>2
  <2>2. BusFree' /\ Single'
      BY <1>3, SortKeeps DEF Grounded, BusFree, Single
  <2> QED
      BY <2>1, <2>2
<1>4. CASE IrqExit
    BY <1>4 DEF IrqExit, Grounded, BusFree, Single, Connection, outstanding
<1>5. CASE siop_sge
  <2>1. conn' = NoTarget /\ todo' = {} /\ intr' \subseteq {"RRST"}
      BY <1>5, GrossError
  <2> QED
      BY <2>1 DEF BusFree, Single, Connection, outstanding
<1>6. ASSUME NEW c, Serve(c), Outcome(c), BusAlone PROVE BusFree' /\ Single' /\ Connection'
    BY <1>6, ServeGrounded
<1>7. CASE seltoirq
    BY <1>7 DEF seltoirq, TimerSelect, TimerReset, TimerFree, TimerIdle, Timer, Grounded,
                IrqQueues
<1>8. CASE UNCHANGED vars
    BY <1>8 DEF vars, Grounded, BusFree, Single, Connection, outstanding
<1> QED
    BY <1>1, <1>2, <1>3, <1>4, <1>5, <1>6, <1>7, <1>8, IrqOutcome DEF Next

LEMMA AlwaysGrounded ==
    ASSUME ~AuxTimer
    PROVE  Spec => []Grounded
<1>1. Init => BusFree /\ Single /\ Connection
    BY DEF Init, BusFree, Single, Connection, outstanding
<1>2. TypeOK /\ IrqQueues /\ OneOwner /\ BusFree /\ Single /\ Connection /\ [Next]_vars
      => BusFree' /\ Single' /\ Connection'
    BY GroundedStep DEF Grounded
<1> QED
    BY <1>1, <1>2, TypeCorrect, IrqOnlyQueues, Ownership, PTL DEF Spec, Grounded

\* No interrupt routine restarts the SCRIPT for another thread under a connected
\* target of the physical thread: in the build without the auxiliary timer, under every
\* fault, those included that leave two threads physical.
THEOREM RestartsFree ==
    ASSUME ~AuxTimer
    PROVE  Spec => RestartOnBusFree
<1>1. Grounded /\ [Next]_vars
      => [conn # NoTarget /\ phythread = conn /\ conn' = conn => phythread' = phythread]_vars
  <2> SUFFICES ASSUME Grounded, Next, conn # NoTarget, phythread = conn
               PROVE  phythread' = phythread
      OBVIOUS
  <2>1. ASSUME NEW p \in Procs, Process(p) \/ \E i \in Uses[p] : Exec(p, i)
        PROVE  phythread' = phythread
      BY <2>1, ProcessesKeep
  <2>2. CASE Chip \/ Trouble
      BY <2>2 DEF Chip, Trouble, ChipOnly, WaitSigp, SelectWon, SelectDone,
          SelectTimeout, SendCommand, DataPhase, PhaseMismatch, CommandComplete,
          Disconnect, FreeIt, Reselected, Reconnected, Reselect, UnexpectedDisconnect, BusReset,
          BusError, ConnectedTrouble, Fault
  <2>3. CASE IrqSort \/ IrqExit \/ siop_sge
      BY <2>3 DEF IrqSort, IrqExit, siop_sge
  <2>4. ASSUME NEW c, Serve(c), Outcome(c) PROVE phythread' = phythread
      BY <2>4, ConnectedKept
  <2>5. CASE seltoirq
      BY <2>5 DEF seltoirq, TimerSelect, TimerReset, TimerFree, TimerIdle, Timer,
                  Grounded, IrqQueues
  <2> QED
      BY <2>1, <2>2, <2>3, <2>4, <2>5, IrqOutcome DEF Next
<1> QED
    BY <1>1, AlwaysGrounded, PTL DEF Spec, RestartOnBusFree

-----------------------------------------------------------------------------
(***************************************************************************)
(* Commands.  A target that has one has a thread in use, whose process     *)
(* waits: threads are finished, and given to other commands, only when     *)
(* their target has let its command go.  A target that drops off the bus   *)
(* and keeps its command breaks this, as the code stands.                  *)
(***************************************************************************)
CommandsKept == ~AuxTimer /\ "udc_resel" \notin Faults

Settled(t) == threadstate[t] \in {"EMPTY", "DONE"}
Away(t) == tgt[t].st \in {"disconnected", "reselecting"}
Hold(t) == tgt[t].st = "busy" \/ Away(t)

\* a thread that is in use is awaited by a process
Owned ==
    /\ phythread \in Targets => threadstate[phythread] = "PHYSICAL"
    /\ \A t \in Targets : ~Settled(t) =>
          \E p \in Procs : pc[p] \in {"check", "sleep"} /\ cid[p] = t

\* a target's command is that of its thread, which is in use
Carries(t) ==
    /\ Hold(t) => ~Settled(t) /\ threadstate[t] # "PENDING"
    /\ Hold(t) => tgt[t].cmd = command(processid[t])
    /\ Away(t) /\ phythread = t => "SC_IDISC" \in outstanding
    /\ tgt[t].st \in {"selected", "busy", "reselecting"} => conn = t
    /\ "RRST" \in outstanding => tgt[t].st = "free"

Carried == Owned /\ \A t \in Targets : Carries(t)

\* The thread of a process that is not waiting for it is settled.
LEMMA NotInUse ==
    ASSUME OneOwner, Owned, NEW p \in Procs, pc[p] \in Critical \ {"check", "sleep"},
           cid[p] \in Targets
    PROVE  Settled(cid[p])
    BY DEF OneOwner, Owned, Critical

\* A thread in use keeps its state and its command, whatever the processes do.
LEMMA UseKept ==
    ASSUME Grounded, Owned, NEW p \in Procs, Process(p) \/ \E i \in Uses[p] : Exec(p, i)
    PROVE  /\ Owned'
           /\ \A t \in Targets : ~Settled(t) => /\ threadstate'[t] = threadstate[t]
                                               /\ command(processid[t])' = command(processid[t])
           /\ \A t \in Targets : threadstate'[t] \in {threadstate[t], "PENDING"}
<1>1. /\ pc \in [Procs -> {"idle", "chipwait", "grabsem", "semwait"} \cup Critical]
      /\ cid \in [Procs -> Ids] /\ threadstate \in [Ids -> ThreadStates]
      /\ processid \in [Ids -> Procs \cup {NoProc}] /\ tag \in [Procs -> 0..(Tags - 1)]
      /\ phythread \in Ids
    BY DEF Grounded, TypeOK, CallersOK, ThreadsOK, SchedOK
<1>2. \A t \in Targets :
          \/ threadstate'[t] = threadstate[t]
          \/ /\ Enqueue(p) /\ cid[p] = t /\ pc'[p] = "check" /\ cid'[p] = t
             /\ threadstate'[t] = "PENDING"
    BY <1>1 DEF Process, Exec, ChipWait, GrabSem, WaitSem, Setup, Enqueue, CheckDone,
                WakeUp, Return, Ids
<1>3. \A t \in Targets : threadstate'[t] = threadstate[t] \/ Settled(t)
    BY <1>2, NotInUse DEF Enqueue, Critical, Grounded
<1>4. ASSUME NEW t \in Targets, threadstate'[t] = threadstate[t], ~Settled(t)
      PROVE  \E q \in Procs : pc'[q] \in {"check", "sleep"} /\ cid'[q] = t
  <2>1. PICK q \in Procs : pc[q] \in {"check", "sleep"} /\ cid[q] = t
      BY <1>4 DEF Owned
  <2>2. CASE q # p
      BY <1>1, <2>1, <2>2 DEF Process, Exec, ChipWait, GrabSem, WaitSem, Setup, Enqueue,
                              CheckDone, WakeUp, Return
  <2>3. CASE q = p
    <3>1. CheckDone(p) \/ WakeUp(p)
        BY <2>1, <2>3 DEF Process, Exec, ChipWait, GrabSem, WaitSem, Setup, Enqueue,
                          CheckDone, WakeUp, Return
    <3> QED
        BY <1>1, <1>4, <2>1, <2>3, <3>1 DEF CheckDone, WakeUp, Settled
  <2> QED
      BY <2>2, <2>3
<1>5. Owned'
    BY <1>2, <1>3, <1>4, ProcessesKeep DEF Owned, Settled
<1>6. ASSUME NEW t \in Targets, ~Settled(t)
      PROVE  command(processid[t])' = command(processid[t])
  <2>1. PICK q \in Procs : pc[q] \in {"check", "sleep"} /\ cid[q] = t
      BY <1>6 DEF Owned
  <2>2. processid[t] = q
      BY <2>1 DEF Grounded, OneOwner, Critical
  <2>3. tag'[q] = tag[q]
      BY <1>1, <2>1 DEF Process, Exec, ChipWait, GrabSem, WaitSem, Setup, Enqueue,
                        CheckDone, WakeUp, Return
  <2>4. processid'[t] = processid[t]
    <3>1. Setup(p) => cid[p] # t
        BY <1>6, NotInUse DEF Setup, Grounded, Critical
    <3> QED
        BY <1>1, <3>1 DEF Process, Exec, ChipWait, GrabSem, WaitSem, Setup, Enqueue,
                          CheckDone, WakeUp, Return, Ids
  <2> QED
      BY <2>2, <2>3, <2>4 DEF command
<1> QED
    BY <1>2, <1>3, <1>5, <1>6

\* What serving a condition does to the state of one thread.
LEMMA ServeThread ==
    ASSUME Grounded, Carried, NEW c, Serve(c), Outcome(c), NEW t \in Targets
    PROVE  /\ threadstate'[t] = "LOGICAL" =>
                  \/ threadstate[t] = "LOGICAL" /\ c # "RRST" /\ ~(c \in ReselBits /\ conn = t)
                  \/ c = "SC_IDISC" /\ phythread = t
                  \/ c = "SC_RESEL" /\ phythread = t /\ conn # t /\ ~ncr_ph_select
           /\ threadstate[t] = "LOGICAL" => \/ threadstate'[t] = "LOGICAL" \/ c = "RRST"
                                            \/ c \in ReselBits /\ conn = t
           /\ c = "SC_IDISC" /\ phythread = t => threadstate'[t] = "LOGICAL"
           /\ threadstate'[t] = "PENDING" =>
                  \/ threadstate[t] = "PENDING"
                  \/ c = "SC_RESEL" /\ phythread = t /\ conn # t
           /\ phythread' = t => /\ threadstate'[t] = "PHYSICAL"
                                /\ \/ threadstate[t] = "PENDING"
                                   \/ c \in ReselBits /\ conn = t
                                   \/ c \in Mending /\ phythread = t
           /\ threadstate'[t] = "EMPTY" => threadstate[t] = "EMPTY"
           /\ Settled(t) => Settled(t)'
           /\ threadstate'[t] = "DONE" <=>
                  \/ threadstate[t] = "DONE"
                  \/ c \in Ending /\ phythread = t
                  \/ c = "RRST" /\ threadstate[t] \in {"PHYSICAL", "LOGICAL"}
<1>1. /\ threadstate \in [Ids -> ThreadStates] /\ phythread \in Ids /\ t \in Ids
      /\ t # SelfId /\ SelfId \in Ids
    BY IdsAssumption DEF Grounded, TypeOK, ThreadsOK, SchedOK, Ids
<1>2. phythread = t => threadstate[t] = "PHYSICAL"
    BY DEF Carried, Owned
\* the thread that reschedule() picks was pending
<1>3. ASSUME NEW ts \in [Ids -> ThreadStates], Starts(ts)
      PROVE  /\ threadstate'[t] = IF phythread' = t THEN "PHYSICAL" ELSE ts[t]
             /\ phythread' = t => ts[t] = "PENDING"
    BY <1>1, <1>3, NextThread DEF Starts
<1>4. CASE c \in Ending
  <2> DEFINE ts == finished(phythread)
  <2>1. ts \in [Ids -> ThreadStates] /\ Starts(ts)
      BY <1>1, <1>4 DEF Outcome, Ending, Mending, finished, ThreadStates
  <2>2. ts[t] = IF phythread = t THEN "DONE" ELSE threadstate[t]
      BY <1>1 DEF finished
  <2>3. /\ threadstate'[t] = IF phythread' = t THEN "PHYSICAL" ELSE ts[t]
        /\ phythread' = t => ts[t] = "PENDING"
      BY <1>3, <2>1
  <2> HIDE DEF ts
  <2> QED
      BY <1>2, <1>4, <2>2, <2>3 DEF Ending, Settled, ReselBits
<1>5. CASE c = "SC_SIGP"
    BY <1>1, <1>2, <1>3, <1>5 DEF Outcome, Ending, Mending, Settled, ReselBits
<1>6. CASE c = "SC_IDISC"
  <2> DEFINE ts == [threadstate EXCEPT ![phythread] = "LOGICAL"]
  <2>1. ts \in [Ids -> ThreadStates] /\ Starts(ts)
      BY <1>1, <1>6 DEF Outcome, Ending, Mending, ThreadStates
  <2>2. ts[t] = IF phythread = t THEN "LOGICAL" ELSE threadstate[t]
      BY <1>1
  <2>3. /\ threadstate'[t] = IF phythread' = t THEN "PHYSICAL" ELSE ts[t]
        /\ phythread' = t => ts[t] = "PENDING"
      BY <1>3, <2>1
  <2> HIDE DEF ts
  <2> QED
      BY <1>2, <1>6, <2>2, <2>3 DEF Settled, Ending, ReselBits
<1>7. CASE c = "RRST"
  <2> DEFINE ts == [i \in Ids |-> IF i \in broken THEN "DONE" ELSE threadstate[i]]
  <2>1. ts \in [Ids -> ThreadStates] /\ Starts(ts)
      BY <1>1, <1>7 DEF Outcome, Ending, Mending, ThreadStates
  <2>2. ts[t] = IF threadstate[t] \in {"PHYSICAL", "LOGICAL"} THEN "DONE" ELSE threadstate[t]
      BY <1>1 DEF broken
  <2>3. /\ threadstate'[t] = IF phythread' = t THEN "PHYSICAL" ELSE ts[t]
        /\ phythread' = t => ts[t] = "PENDING"
      BY <1>3, <2>1
  <2> HIDE DEF ts
  <2> QED
      BY <1>2, <1>7, <2>2, <2>3 DEF Settled, Ending, ReselBits
\* the thread of a target that reselects is in use
<1>8. ASSUME c \in ReselBits
      PROVE  conn \in Targets /\ ~Settled(conn) /\ threadstate[conn] # "PENDING"
  <2>1. c \in outstanding /\ conn # NoTarget /\ conn \in Targets
      BY <1>8, Serving DEF Grounded, TypeOK, IrqOK, ReselBits, ScsiBits, DmaBits
  <2>2. tgt[conn].st = "busy" \/ phythread = conn
      BY <1>8, <2>1 DEF Grounded, Connection
  <2> QED
      BY <2>1, <2>2 DEF Carried, Carries, Owned, Hold, Settled
<1>9. CASE c = "SC_RESEL"
    BY <1>1, <1>2, <1>8, <1>9 DEF Outcome, Ending, Mending, Continues, Settled, ReselBits
<1>10. CASE c = "NOTMSGI"
    BY <1>1, <1>2, <1>8, <1>10 DEF Outcome, Ending, Mending, Continues, Settled, ReselBits
<1>11. CASE c \in Mending
  <2>1. CASE phythread = SelfId /\ Starts([threadstate EXCEPT ![SelfId] = "EMPTY"])
    <3> DEFINE ts == [threadstate EXCEPT ![SelfId] = "EMPTY"]
    <3>1. ts \in [Ids -> ThreadStates] /\ ts[t] = threadstate[t]
        BY <1>1 DEF ThreadStates
    <3> QED
        BY <1>1, <1>2, <1>3, <1>11, <2>1, <3>1 DEF Settled, Mending, Ending, ReselBits
  <2>2. CASE Continues(phythread, threadstate) \/ Frees
      BY <1>1, <1>2, <1>11, <2>2 DEF Continues, Frees, Settled, Mending, Ending, ReselBits
  <2> QED
      BY <1>11, <2>1, <2>2 DEF Outcome, Ending, Mending
<1> QED
    BY <1>4, <1>5, <1>6, <1>7, <1>9, <1>10, <1>11 DEF Outcome

LEMMA ServeCarried ==
    ASSUME Grounded, Carried, NEW c, Serve(c), Outcome(c), BusAlone
    PROVE  Carried'
<1>1. /\ c \in outstanding /\ outstanding = todo /\ outstanding' = todo \ {c}
      /\ UNCHANGED <<pc, cid, tag, processid, conn, tgt>>
    BY Serving DEF Serve, BusAlone, outstanding
<1>2. Owned'
    BY <1>1, ServeThread DEF Owned, Carried, Settled
<1>3. ASSUME NEW t \in Targets PROVE Carries(t)'
  <2>1. Carries(t)
      BY DEF Carried
  <2>2. c \in Ending \cup ReselBits \cup Mending => "SC_IDISC" \notin outstanding
      BY <1>1, Serving DEF Ending, ReselBits, Mending, ScsiBits, DmaBits
  <2>3. ASSUME Hold(t) PROVE ~Settled(t)' /\ threadstate'[t] # "PENDING"
    <3>1. ~Settled(t) /\ threadstate[t] # "PENDING" /\ c # "RRST"
        BY <1>1, <2>1, <2>3 DEF Carries, Hold, Away
    <3>2. ~(c \in Ending /\ phythread = t)
      <4>1. c \in Ending => conn = NoTarget
          BY <1>1 DEF Grounded, BusFree
      <4> QED
          BY <2>1, <2>2, <2>3, <4>1, Serving DEF Carries, Hold, Away
    <3>3. ~(c = "SC_RESEL" /\ phythread = t /\ conn # t)
        BY <2>1, <2>2, <2>3 DEF Carries, Hold, ReselBits
    <3> QED
        BY <3>1, <3>2, <3>3, ServeThread DEF Settled
  <2>4. ~(Away(t) /\ phythread' = t)
    <3>1. SUFFICES ASSUME Away(t), phythread' = t PROVE FALSE
        OBVIOUS
    <3>2. threadstate[t] # "PENDING" /\ conn # NoTarget => ReselBits \cap outstanding = {} \/ conn # t
        BY <3>1, Serving DEF Grounded, Connection, Away
    <3>3. ~(c \in Mending /\ phythread = t)
        BY <2>1, <2>2, <3>1 DEF Carries
    <3>4. ~(c \in ReselBits /\ conn = t)
        BY <1>1, <2>1, <3>1, <3>2, Serving DEF Carries, Hold
    <3> QED
        BY <2>1, <3>1, <3>3, <3>4, ServeThread DEF Carries, Hold
  <2> QED
      BY <1>1, <2>1, <2>3, <2>4 DEF Carries, Hold, Away, command
<1> QED
    BY <1>2, <1>3 DEF Carried

LEMMA ChipCarried ==
    ASSUME CommandsKept, Grounded, Carried, Chip \/ Trouble
    PROVE  Carried'
<1> USE DEF ChipOnly, Running, Connected, Latch, outstanding
<1>1. UNCHANGED <<pc, cid, tag, processid, threadstate, phythread, todo>>
    BY DEF Chip, Trouble, WaitSigp, SelectWon, SelectDone, SelectTimeout,
           SendCommand, DataPhase, PhaseMismatch, CommandComplete, Disconnect, FreeIt,
           Reselected, Reconnected, Reselect, UnexpectedDisconnect, BusReset, BusError,
           ConnectedTrouble, Fault
<1>2. Owned'
    BY <1>1 DEF Carried, Owned, Settled
<1>3. conn \in Targets \cup {NoTarget} /\ NoTarget \notin Targets /\ SelfId \notin Targets
      /\ tgt \in [Targets -> [st : TargetStates, cmd : Commands]]
    BY IdsAssumption DEF Grounded, TypeOK, BusOK, Ids
<1>4. phythread \in Targets => threadstate[phythread] = "PHYSICAL"
    BY DEF Carried, Owned
<1>5. \A t \in Targets : command(processid[t])' = command(processid[t])
    BY <1>1 DEF command
\* steps that leave the targets alone
<1>6. ASSUME UNCHANGED <<conn, tgt>>, outstanding = {}, "RRST" \notin outstanding' PROVE Carried'
    BY <1>1, <1>2, <1>5, <1>6 DEF Carried, Carries, Hold, Away, Settled
<1>7. CASE WaitSigp \/ SelectDone \/ SelectTimeout \/ DataPhase \/ PhaseMismatch \/ BusError
    BY <1>6, <1>7 DEF WaitSigp, SelectDone, SelectTimeout, DataPhase, PhaseMismatch,
                      BusError, Fault
<1>8. ASSUME NEW kind, NEW c \in {"SGE", "PAR", "PM", "UNKNPH", "BADMSG"},
             ConnectedTrouble(kind, c)
      PROVE  Carried'
    BY <1>6, <1>8 DEF ConnectedTrouble, Fault
\* the connected target leaves the bus without a command
<1>9. ASSUME conn # NoTarget, outstanding = {}, conn' = NoTarget,
             tgt' = [tgt EXCEPT ![conn] = [st |-> "free", cmd |-> NoCmd]],
             NEW c, intr' = {c}, c # "RRST"
      PROVE  Carried'
  <2>1. ASSUME NEW t \in Targets PROVE Carries(t)'
    <3>1. CASE t = conn
        BY <1>1, <1>3, <1>9, <3>1 DEF Carries, Hold, Away
    <3>2. CASE t # conn
        BY <1>1, <1>3, <1>5, <1>9, <3>2 DEF Carried, Carries, Hold, Away, Settled
    <3> QED
        BY <3>1, <3>2
  <2> QED
      BY <1>2, <2>1 DEF Carried
<1>10. CASE CommandComplete
    BY <1>9, <1>10 DEF CommandComplete
<1>11. CASE UnexpectedDisconnect
  <2>1. tgt' = [tgt EXCEPT ![conn] = [st |-> "free", cmd |-> NoCmd]]
      BY <1>11 DEF UnexpectedDisconnect, Fault, CommandsKept
  <2> QED
      BY <1>9, <1>11, <2>1 DEF UnexpectedDisconnect
<1>12. CASE FreeIt
  <2>1. CASE conn = NoTarget
      BY <1>6, <1>12, <2>1 DEF FreeIt
  <2>2. CASE conn # NoTarget
      BY <1>9, <1>12, <2>2 DEF FreeIt
  <2> QED
      BY <2>1, <2>2
<1>13. CASE BusReset
  <2>1. conn' = NoTarget /\ tgt' = [t \in Targets |-> [st |-> "free", cmd |-> NoCmd]]
      BY <1>13 DEF BusReset
  <2> QED
      BY <1>2, <2>1 DEF Carried, Carries, Hold, Away
\* the connected target takes a command, or changes its state with the one it has
<1>14. ASSUME NEW r \in Targets, outstanding = {}, conn = r \/ conn = NoTarget, conn' = r,
              \A t \in Targets : t # r => tgt'[t] = tgt[t], "RRST" \notin outstanding', Carries(r)'
       PROVE  Carried'
  <2>1. ASSUME NEW t \in Targets PROVE Carries(t)'
      BY <1>1, <1>3, <1>5, <1>14 DEF Carried, Carries, Hold, Away, Settled
  <2> QED
      BY <1>2, <2>1 DEF Carried
<1>15. CASE SelectWon
  <2>1. phythread \in Targets /\ conn = NoTarget /\ outstanding = {} /\ outstanding' = {}
        /\ conn' = phythread
        /\ tgt' = [tgt EXCEPT ![phythread] = [st |-> "selected", cmd |-> NoCmd]]
      BY <1>15, IdsAssumption DEF SelectWon
  <2>2. Carries(phythread)'
      BY <1>1, <1>3, <2>1 DEF Carries, Hold, Away
  <2>3. \A t \in Targets : t # phythread => tgt'[t] = tgt[t]
      BY <1>3, <2>1
  <2>4. "RRST" \notin outstanding'
      BY <2>1
  <2> HIDE DEF outstanding
  <2> QED
      BY <1>1, <1>14, <2>1, <2>2, <2>3, <2>4
<1>16. CASE SendCommand
  <2>1. phythread = conn /\ conn \in Targets /\ outstanding = {} /\ outstanding' = {}
        /\ conn' = conn
        /\ tgt' = [tgt EXCEPT ![conn] =
                       [st |-> "busy", cmd |-> command(processid[conn])]]
      BY <1>3, <1>16 DEF SendCommand, Grounded, Connection
  <2>2. Carries(conn)'
      BY <1>1, <1>3, <1>4, <1>5, <2>1 DEF Carries, Hold, Away, Settled
  <2> QED
      BY <1>3, <1>14, <2>1, <2>2
<1>17. ASSUME NEW t \in Targets, NEW s, tgt' = [tgt EXCEPT ![t].st = s]
       PROVE  /\ tgt'[t].st = s /\ tgt'[t].cmd = tgt[t].cmd
              /\ \A u \in Targets : u # t => tgt'[u] = tgt[u]
    BY <1>3, <1>17
<1>18. CASE Reselected
  <2>1. conn \in Targets /\ conn' = conn /\ outstanding = {} /\ tgt[conn].st = "reselecting"
        /\ "RRST" \notin outstanding'
      BY <1>3, <1>18 DEF Reselected
  <2>2. /\ tgt'[conn].st = "busy" /\ tgt'[conn].cmd = tgt[conn].cmd
        /\ \A u \in Targets : u # conn => tgt'[u] = tgt[u]
      BY <1>17, <1>18, <2>1 DEF Reselected
  <2>3. Carries(conn)'
      BY <1>1, <1>5, <2>1, <2>2 DEF Carried, Carries, Hold, Away, Settled
  <2> QED
      BY <1>14, <2>1, <2>2, <2>3
<1>19. ASSUME NEW r \in Targets, Reselect(r) PROVE Carried'
  <2>1. conn = NoTarget /\ conn' = r /\ outstanding = {} /\ outstanding' = {}
        /\ tgt[r].st = "disconnected"
      BY <1>19 DEF Reselect
  <2>2. /\ tgt'[r].st = "reselecting" /\ tgt'[r].cmd = tgt[r].cmd
        /\ \A u \in Targets : u # r => tgt'[u] = tgt[u]
      BY <1>17, <1>19 DEF Reselect
  <2>3. Carries(r)'
      BY <1>1, <1>5, <2>1, <2>2 DEF Carried, Carries, Hold, Away, Settled
  <2> QED
      BY <1>14, <2>1, <2>2, <2>3
<1>20. CASE Disconnect
  <2>1. phythread = conn /\ conn \in Targets /\ outstanding = {} /\ conn' = NoTarget
        /\ outstanding' = {"SC_IDISC"} /\ tgt[conn].st = "busy"
      BY <1>3, <1>20 DEF Disconnect, Grounded, Connection
  <2>2. /\ tgt'[conn].st = "disconnected" /\ tgt'[conn].cmd = tgt[conn].cmd
        /\ \A u \in Targets : u # conn => tgt'[u] = tgt[u]
      BY <1>17, <1>20, <2>1 DEF Disconnect
  <2>3. ASSUME NEW t \in Targets PROVE Carries(t)'
    <3>1. CASE t = conn
        BY <1>1, <1>5, <2>1, <2>2, <3>1 DEF Carried, Carries, Hold, Away, Settled
    <3>2. CASE t # conn
        BY <1>1, <1>3, <1>5, <2>1, <2>2, <3>2 DEF Carried, Carries, Hold, Away, Settled
    <3> QED
        BY <3>1, <3>2
  <2> QED
      BY <1>2, <2>3 DEF Carried
<1> QED
    BY <1>7, <1>8, <1>10, <1>11, <1>12, <1>13, <1>15, <1>16, <1>18, <1>19, <1>20,
       NeverAgain
    DEF Chip, Trouble, Grounded, IrqQueues

LEMMA CarriedStep ==
    ASSUME CommandsKept, Grounded, Carried, [Next]_vars
    PROVE  Carried'
<1>1. ASSUME NEW p \in Procs, Process(p) \/ \E i \in Uses[p] : Exec(p, i)
      PROVE  Carried'
  <2>1. UNCHANGED <<conn, tgt, phythread>> /\ outstanding' = outstanding
      BY <1>1, ProcessesKeep DEF outstanding
  <2>2. ASSUME NEW t \in Targets PROVE Carries(t)'
    <3>1. Carries(t)
        BY DEF Carried
    <3>2. ~Settled(t) => /\ threadstate'[t] = threadstate[t]
                         /\ command(processid[t])' = command(processid[t])
        BY <1>1, UseKept DEF Carried
    <3> QED
        BY <2>1, <3>1, <3>2 DEF Carries, Hold, Away, Settled
  <2> QED
      BY <1>1, <2>2, UseKept DEF Carried
<1>2. CASE Chip \/ Trouble
    BY <1>2, ChipCarried
<1>3. CASE IrqSort
  <2>1. ASSUME NEW t \in Targets PROVE Carries(t)'
    <3>1. Carries(t)
        BY DEF Carried
    <3> QED
        BY <1>3, <3>1, SortKeeps DEF Carries, Hold, Away, Settled, command
  <2> QED
      BY <1>3, <2>1, SortKeeps DEF Carried, Owned, Settled
<1>4. CASE IrqExit
    BY <1>4 DEF IrqExit, Carried, Owned, Carries, Hold, Settled, Away, command, outstanding
<1>5. CASE siop_sge
  <2>1. \A t \in Targets : Carries(t)'
      BY <1>5, GrossError DEF Carries, Hold, Away
  <2> QED
      BY <1>5, <2>1, GrossError DEF Carried, Owned, Settled
<1>6. CASE seltoirq
    BY <1>6 DEF seltoirq, TimerSelect, TimerReset, TimerFree, TimerIdle, Timer, Grounded,
                IrqQueues
<1>7. CASE UNCHANGED vars
    BY <1>7 DEF vars, Carried, Owned, Carries, Hold, Settled, Away, command, outstanding
<1> QED
    BY <1>1, <1>2, <1>3, <1>4, <1>5, <1>6, <1>7, ServeCarried, IrqOutcome DEF Next

LEMMA AlwaysCarried ==
    ASSUME CommandsKept
    PROVE  Spec => [](Grounded /\ Carried)
<1>1. Init => Carried
    BY IdsAssumption
    DEF Init, Carried, Owned, Carries, Hold, Settled, Away, outstanding, Ids
<1>2. Grounded /\ Carried /\ [Next]_vars => Carried'
    BY CarriedStep
<1>3. ~AuxTimer
    BY DEF CommandsKept
<1> QED
    BY <1>1, <1>2, <1>3, AlwaysGrounded, PTL DEF Spec

-----------------------------------------------------------------------------
(***************************************************************************)
(* The idle thread is never pending, and the SCRIPT never selects for it   *)
(* and frees no bus for it.  Both need that no command is for our own id:  *)
(* exec() does not refuse one, and its thread, the idle thread, then hides *)
(* the other pending threads from reschedule().                            *)
(***************************************************************************)
OwnIdUnused == \A p \in Procs : SelfId \notin Uses[p]

IdleThread ==
    /\ \A p \in Procs : pc[p] # "idle" => cid[p] # SelfId
    /\ threadstate[SelfId] # "PENDING"
    /\ dsp \in {"SELECT", "FREEIT"} => phythread # SelfId
    /\ "SC_RESEL" \in outstanding /\ ncr_ph_select => phythread # SelfId

LEMMA ServeIdle ==
    ASSUME Grounded, IdleThread, NEW c, Serve(c), Outcome(c), BusAlone
    PROVE  IdleThread'
<1>1. /\ threadstate \in [Ids -> ThreadStates] /\ phythread \in Ids /\ SelfId \in Ids
      /\ threadstate[SelfId] # "PENDING"
    BY DEF Grounded, TypeOK, ThreadsOK, SchedOK, IdleThread, Ids
<1>2. c \in outstanding /\ UNCHANGED <<pc, cid>>
    BY Serving DEF Serve
<1>3. "SC_RESEL" \notin outstanding'
  <2>1. "SC_RESEL" \in todo => c = "SC_RESEL"
      BY Serving DEF ScsiBits, DmaBits
  <2> QED
      BY <2>1, Serving DEF outstanding, BusAlone
<1>4. SUFFICES /\ threadstate'[SelfId] # "PENDING"
               /\ dsp' \in {"SELECT", "FREEIT"} => phythread' # SelfId
    BY <1>2, <1>3 DEF IdleThread
<1>5. ASSUME NEW ts \in [Ids -> ThreadStates], ts[SelfId] # "PENDING", Starts(ts)
      PROVE  /\ threadstate'[SelfId] # "PENDING"
             /\ dsp' \in {"SELECT", "FREEIT"} => phythread' # SelfId
    BY <1>1, <1>5, NextThread DEF Starts
<1>6. CASE c \in Ending
    BY <1>1, <1>5, <1>6 DEF Outcome, Ending, Mending, finished, ThreadStates
<1>7. CASE c = "SC_SIGP"
    BY <1>1, <1>5, <1>7 DEF Outcome, Ending, Mending
<1>8. CASE c = "SC_IDISC"
    BY <1>1, <1>5, <1>8 DEF Outcome, Ending, Mending, ThreadStates
<1>9. CASE c = "RRST"
  <2> DEFINE ts == [i \in Ids |-> IF i \in broken THEN "DONE" ELSE threadstate[i]]
  <2>1. ts \in [Ids -> ThreadStates] /\ ts[SelfId] # "PENDING"
      BY <1>1 DEF ThreadStates
  <2>2. Starts(ts)
      BY <1>9 DEF Outcome, Ending, Mending
  <2> QED
      BY <1>5, <2>1, <2>2
<1>10. CASE c \in ReselBits
  <2>1. conn \in Targets /\ conn # SelfId
      BY <1>2, <1>10, Serving DEF Grounded, TypeOK, IrqOK, ScsiBits, DmaBits, ReselBits
  <2>2. c = "SC_RESEL" /\ ncr_ph_select => phythread # SelfId
      BY <1>2 DEF IdleThread
  <2>3. \/ Continues(conn, threadstate)
        \/ c = "SC_RESEL" /\ Continues(conn, [threadstate EXCEPT ![phythread] =
                                 IF ncr_ph_select THEN "PENDING" ELSE "LOGICAL"])
      BY <1>10 DEF Outcome, Ending, Mending, ReselBits
  <2> QED
      BY <1>1, <2>1, <2>2, <2>3 DEF Continues
<1>11. CASE c \in Mending
  <2>1. CASE phythread = SelfId /\ Starts([threadstate EXCEPT ![SelfId] = "EMPTY"])
      BY <1>1, <1>5, <2>1 DEF ThreadStates
  <2>2. CASE Continues(phythread, threadstate) \/ Frees
      BY <1>1, <2>2 DEF Continues, Frees
  <2> QED
      BY <1>11, <2>1, <2>2 DEF Outcome, Ending, Mending
<1> QED
    BY <1>6, <1>7, <1>8, <1>9, <1>10, <1>11 DEF Outcome, ReselBits

LEMMA ChipIdle ==
    ASSUME Grounded, IdleThread, Chip \/ Trouble
    PROVE  IdleThread'
<1> USE DEF ChipOnly, Running, Connected, Latch, outstanding, ncr_ph_select
<1>1. UNCHANGED <<pc, cid, threadstate, phythread>>
    BY DEF Chip, Trouble, WaitSigp, SelectWon, SelectDone, SelectTimeout,
           SendCommand, DataPhase, PhaseMismatch, CommandComplete, Disconnect, FreeIt,
           Reselected, Reconnected, Reselect, UnexpectedDisconnect, BusReset, BusError,
           ConnectedTrouble, Fault
<1>2. dsp' \in {"SELECT", "FREEIT"} => dsp' = dsp
    BY DEF Chip, Trouble, WaitSigp, SelectWon, SelectDone, SelectTimeout,
           SendCommand, DataPhase, PhaseMismatch, CommandComplete, Disconnect, FreeIt,
           Reselected, Reconnected, Reselect, UnexpectedDisconnect, BusReset, BusError,
           ConnectedTrouble, Fault
<1>3. CASE Reselected
    BY <1>1, <1>2, <1>3 DEF Reselected, IdleThread
<1>4. CASE BusReset
    BY <1>1, <1>2, <1>4 DEF BusReset, Fault, IdleThread
<1>5. CASE ~Reselected /\ ~BusReset
  <2>1. "SC_RESEL" \notin outstanding'
      BY <1>5, NeverAgain DEF Grounded, IrqQueues, Chip, Trouble, WaitSigp, SelectWon, SelectDone, SelectTimeout,
         SendCommand, DataPhase, PhaseMismatch, CommandComplete, Disconnect, FreeIt,
         Reselect, UnexpectedDisconnect, BusError, ConnectedTrouble, Fault
  <2> QED
      BY <1>1, <1>2, <2>1 DEF IdleThread
<1> QED
    BY <1>3, <1>4, <1>5

LEMMA ProcessIdle ==
    ASSUME OwnIdUnused, TypeOK, IdleThread, NEW p \in Procs,
           Process(p) \/ \E i \in Uses[p] : Exec(p, i)
    PROVE  IdleThread'
<1>1. UNCHANGED <<dsp, phythread, scratch0>> /\ outstanding' = outstanding
    BY ProcessesKeep DEF outstanding
<1>2. pc \in [Procs -> {"idle", "chipwait", "grabsem", "semwait"} \cup Critical]
      /\ cid \in [Procs -> Ids] /\ threadstate \in [Ids -> ThreadStates]
    BY DEF TypeOK, CallersOK, ThreadsOK
<1>3. \A q \in Procs : pc'[q] # "idle" => cid'[q] # SelfId
  <2>1. ASSUME NEW i \in Uses[p], Exec(p, i)
        PROVE  \A q \in Procs : pc'[q] # "idle" => cid'[q] # SelfId
      BY <1>2, <2>1 DEF Exec, OwnIdUnused, IdleThread
  <2>2. CASE Process(p)
    <3>1. pc[p] # "idle" /\ cid' = cid /\ \A q \in Procs : q # p => pc'[q] = pc[q]
        BY <1>2, <2>2 DEF Process, ChipWait, GrabSem, WaitSem, Setup, Enqueue, CheckDone,
                          WakeUp, Return
    <3> QED
        BY <3>1 DEF IdleThread
  <2> QED
      BY <2>1, <2>2
<1>4. \/ UNCHANGED threadstate
      \/ pc[p] # "idle" /\ threadstate' = [threadstate EXCEPT ![cid[p]] = "PENDING"]
    BY DEF Process, Exec, ChipWait, GrabSem, WaitSem, Setup, Enqueue, CheckDone,
           WakeUp, Return
<1>5. threadstate'[SelfId] # "PENDING"
    BY <1>2, <1>4 DEF IdleThread, Ids
<1> QED
    BY <1>1, <1>3, <1>5 DEF IdleThread, ncr_ph_select

LEMMA IdleStep ==
    ASSUME OwnIdUnused, Grounded, IdleThread, [Next]_vars
    PROVE  IdleThread'
<1>1. CASE IrqSort
    BY <1>1, SortKeeps DEF IdleThread, ncr_ph_select, IrqSort
<1>2. CASE IrqExit
    BY <1>2 DEF IrqExit, IdleThread, ncr_ph_select, outstanding
<1>3. CASE siop_sge
  <2>1. "SC_RESEL" \notin outstanding'
      BY <1>3, GrossError DEF outstanding
  <2> QED
      BY <1>3, <2>1, GrossError DEF IdleThread
<1>4. CASE seltoirq
    BY <1>4 DEF seltoirq, TimerSelect, TimerReset, TimerFree, TimerIdle, Timer, Grounded,
                IrqQueues
<1>5. CASE UNCHANGED vars
    BY <1>5 DEF vars, IdleThread, ncr_ph_select, outstanding
<1>6. TypeOK
    BY DEF Grounded
<1> QED
    BY <1>1, <1>2, <1>3, <1>4, <1>5, <1>6, ProcessIdle, ChipIdle, ServeIdle, IrqOutcome
    DEF Next

LEMMA AlwaysIdle ==
    ASSUME ~AuxTimer, OwnIdUnused
    PROVE  Spec => []IdleThread
<1>1. Init => IdleThread
    BY DEF Init, IdleThread, outstanding, Ids
<1>2. Grounded /\ IdleThread /\ [Next]_vars => IdleThread'
    BY IdleStep
<1> QED
    BY <1>1, <1>2, AlwaysGrounded, PTL DEF Spec

-----------------------------------------------------------------------------
(***************************************************************************)
(* Requests for the chip.  PendingIsSeen needs to hold while irq() runs,   *)
(* too.  It rests on OnePhysical's account of the chip: a bus error at     *)
(* rest, or a missing message of a reselector, gives the chip to a thread  *)
(* that nobody asked for.                                                  *)
(***************************************************************************)
\* A reselecting target is served by the SCRIPT first, and what a connected target
\* does to the chip is served while it is connected.
Engaged ==
    /\ conn # NoTarget /\ tgt[conn].st = "reselecting"
       => outstanding = {} /\ dsp \in {"WAITFORRESELECT", "SELECT"}
    /\ outstanding \cap {"UNKNPH", "BF", "PAR", "BADMSG"} # {}
       => conn # NoTarget \/ "RRST" \in outstanding

Known == Follows /\ Grounded /\ Engaged

LEMMA EngagedStep ==
    ASSUME PlainFaults, Known, [Next]_vars
    PROVE  Engaged'
<1>1. ASSUME NEW p \in Procs, Process(p) \/ \E i \in Uses[p] : Exec(p, i)
      PROVE  Engaged'
    BY <1>1, ProcessesKeep DEF Known, Engaged, outstanding
<1>2. CASE Chip \/ Trouble
  <2> USE DEF ChipOnly, Running, Connected, Latch, outstanding, Engaged
  <2>1. conn \in Targets \cup {NoTarget} /\ NoTarget \notin Targets /\ DOMAIN tgt = Targets
        /\ todo' = todo
      BY <1>2, IdsAssumption
      DEF Known, Follows, TypeOK, BusOK, Ids, Chip, Trouble, WaitSigp, SelectWon, SelectDone,
          SelectTimeout, SendCommand, DataPhase, PhaseMismatch, CommandComplete, Disconnect,
          FreeIt, Reselected, Reconnected, Reselect, UnexpectedDisconnect, BusReset, BusError,
          ConnectedTrouble, Fault
  <2>2. CASE WaitSigp \/ SelectTimeout
      BY <2>1, <2>2 DEF WaitSigp, SelectTimeout, Known
  <2>3. ASSUME NEW t \in Targets, Reselect(t) PROVE Engaged'
      BY <2>1, <2>3 DEF Reselect
  <2>4. CASE Reselected
      BY <2>1, <2>4 DEF Reselected
  <2>5. CASE SelectWon
    <3>1. phythread \in Targets
        BY <2>5, IdsAssumption DEF SelectWon
    <3> QED
        BY <2>1, <2>5, <3>1 DEF SelectWon
  <2>6. CASE SelectDone \/ DataPhase \/ PhaseMismatch \/ SendCommand
      BY <2>1, <2>6 DEF SelectDone, DataPhase, PhaseMismatch, SendCommand, Known
  <2>7. CASE CommandComplete \/ Disconnect \/ UnexpectedDisconnect
      BY <2>1, <2>7 DEF CommandComplete, Disconnect, UnexpectedDisconnect
  <2>8. CASE FreeIt
      BY <2>1, <2>8 DEF FreeIt
  <2>9. CASE BusReset
      BY <2>1, <2>9 DEF BusReset
  <2>10. CASE BusError
      BY <2>1, <2>10 DEF BusError, Fault, PlainFaults
  <2>11. ASSUME NEW kind, NEW c \in {"SGE", "PAR", "PM", "UNKNPH", "BADMSG"},
                ConnectedTrouble(kind, c)
         PROVE  Engaged'
      BY <2>1, <2>11 DEF ConnectedTrouble, Fault
  <2> QED
      BY <1>2, <2>2, <2>3, <2>4, <2>5, <2>6, <2>7, <2>8, <2>9, <2>10, <2>11,
         NeverAgain
      DEF Chip, Trouble, Known, Grounded, IrqQueues
<1>3. CASE IrqSort
  <2>1. outstanding # {}
      BY <1>3 DEF IrqSort, outstanding
  <2> QED
      BY <1>3, <2>1, SortKeeps DEF Known, Engaged
<1>4. CASE IrqExit
    BY <1>4 DEF IrqExit, Known, Engaged, outstanding
<1>5. CASE siop_sge
    BY <1>5, GrossError DEF Known, Engaged, outstanding
<1>6. ASSUME NEW c, Serve(c), Outcome(c), BusAlone PROVE Engaged'
  <2>1. /\ c \in outstanding /\ outstanding = todo /\ outstanding' = todo \ {c}
        /\ UNCHANGED <<conn, tgt>>
      BY <1>6, Serving DEF Known, BusAlone, outstanding
  <2>2. c = "RRST" => todo \cap {"UNKNPH", "BF", "PAR", "BADMSG"} = {}
    <3>1. c = "RRST" => "PAR" \notin todo
        BY <1>6 DEF Serve, Rank
    <3> QED
        BY <1>6, <3>1, Serving DEF Known, ScsiBits, DmaBits
  <2> QED
      BY <2>1, <2>2 DEF Known, Engaged
<1>7. CASE seltoirq
    BY <1>7 DEF seltoirq, TimerSelect, TimerReset, TimerFree, TimerIdle, Timer, Known,
                Grounded, IrqQueues
<1>8. CASE UNCHANGED vars
    BY <1>8 DEF vars, Known, Engaged, outstanding
<1>9. Grounded
    BY DEF Known
<1> QED
    BY <1>1, <1>2, <1>3, <1>4, <1>5, <1>6, <1>7, <1>8, <1>9, IrqOutcome DEF Next

LEMMA AlwaysKnown ==
    ASSUME PlainFaults
    PROVE  Spec => []Known
<1>1. Init => Engaged
    BY DEF Init, Engaged, outstanding
<1>2. Follows /\ Grounded /\ Engaged /\ [Next]_vars => Engaged'
    BY EngagedStep DEF Known
<1>3. ~AuxTimer
    BY DEF PlainFaults
<1> QED
    BY <1>1, <1>2, <1>3, AlwaysFollows, AlwaysGrounded, PTL DEF Spec, Known

AnyPending == \E i \in Ids : threadstate[i] = "PENDING"

AtRest == dsp = "WAITFORRESELECT" /\ AnyPending
          => sigp \/ (conn # NoTarget /\ "SGE" \notin outstanding)

\* reschedule() starts a thread, or nobody waits for one.
LEMMA StartsRest ==
    ASSUME ChipFollows, NEW ts \in [Ids -> ThreadStates], ts[SelfId] # "PENDING", Starts(ts)
    PROVE  dsp' = "WAITFORRESELECT" => ~AnyPending'
<1>1. nextThread(ts) \in Ids /\ SelfId \in Ids
    BY NextThread DEF Ids
<1>2. CASE nextThread(ts) = SelfId
  <2>1. \A i \in Ids : ts[i] # "PENDING"
      BY <1>2, NextThread
  <2> QED
      BY <1>1, <1>2, <2>1 DEF Starts, AnyPending
<1>3. CASE nextThread(ts) # SelfId
  <2>1. nextThread(ts) \in Targets
      BY <1>1, <1>3 DEF Ids
  <2> QED
      BY <1>3, <2>1 DEF Starts, ChipFollows
<1> QED
    BY <1>2, <1>3

LEMMA ServeRest ==
    ASSUME Known, IdleThread, NEW c, Serve(c), Outcome(c), BusAlone
    PROVE  dsp' = "WAITFORRESELECT" => ~AnyPending'
<1>1. /\ threadstate \in [Ids -> ThreadStates] /\ phythread \in Ids /\ SelfId \in Ids
      /\ threadstate[SelfId] # "PENDING"
    BY DEF Known, Follows, TypeOK, ThreadsOK, SchedOK, IdleThread, Ids
<1>2. c \in outstanding /\ conn \in Targets \cup {NoTarget} /\ SelfId \notin Targets
      /\ NoTarget \notin Targets
    BY Serving DEF Known
<1>3. ASSUME NEW ts \in [Ids -> ThreadStates], ts[SelfId] # "PENDING", Starts(ts)
      PROVE  dsp' = "WAITFORRESELECT" => ~AnyPending'
    BY <1>3, StartsRest DEF Known, Follows
<1>4. CASE c \in Ending
    BY <1>1, <1>3, <1>4 DEF Outcome, Ending, Mending, finished, ThreadStates
<1>5. CASE c = "SC_SIGP"
    BY <1>1, <1>3, <1>5 DEF Outcome, Ending, Mending
<1>6. CASE c = "SC_IDISC"
    BY <1>1, <1>3, <1>6 DEF Outcome, Ending, Mending, ThreadStates
<1>7. CASE c = "RRST"
  <2> DEFINE ts == [i \in Ids |-> IF i \in broken THEN "DONE" ELSE threadstate[i]]
  <2>1. ts \in [Ids -> ThreadStates] /\ ts[SelfId] # "PENDING" /\ Starts(ts)
      BY <1>1, <1>7 DEF Outcome, Ending, Mending, ThreadStates
  <2> QED
      BY <1>3, <2>1
<1>8. CASE c \in ReselBits
  <2>1. conn \in Targets
      BY <1>8, Serving DEF Known, Grounded, TypeOK, IrqOK, ScsiBits, DmaBits, ReselBits
  <2> QED
      BY <1>2, <1>8, <2>1 DEF Outcome, Ending, Mending, Continues, ReselBits
<1>9. CASE c \in Mending
  <2>1. CASE phythread = SelfId /\ Starts([threadstate EXCEPT ![SelfId] = "EMPTY"])
      BY <1>1, <1>3, <2>1 DEF ThreadStates
  \* a thread goes on: that of the connected target
  <2>2. CASE /\ c \in {"PM", "BF", "BADMSG"} /\ (c = "PM" => phythread # SelfId)
             /\ Continues(phythread, threadstate)
    <3>1. CASE c = "PM"
        BY <2>2, <3>1 DEF Continues
    <3>2. CASE c \in {"BF", "BADMSG"}
      <4>1. outstanding = {c}
          BY <3>2, Serving DEF Known, DmaBits
      <4>2. conn # NoTarget /\ tgt[conn].st # "reselecting"
          BY <3>2, <4>1 DEF Known, Engaged
      <4>3. phythread = conn
          BY <3>2, <4>1, <4>2 DEF Known, Grounded, Connection, ReselBits
      <4> QED
          BY <1>2, <2>2, <4>2, <4>3 DEF Continues
    <3> QED
        BY <2>2, <3>1, <3>2
  <2>3. CASE Frees
      BY <2>3 DEF Frees
  <2> QED
      BY <1>9, <2>1, <2>2, <2>3 DEF Outcome, Ending, Mending
<1> QED
    BY <1>4, <1>5, <1>6, <1>7, <1>8, <1>9 DEF Outcome, ReselBits

LEMMA ChipRest ==
    ASSUME Known, AtRest, Chip \/ Trouble
    PROVE  AtRest'
<1> USE DEF ChipOnly, Running, Connected, Latch, outstanding
<1>1. AnyPending' <=> AnyPending
    BY DEF AnyPending, Chip, Trouble, WaitSigp, SelectWon, SelectDone, SelectTimeout,
           SendCommand, DataPhase, PhaseMismatch, CommandComplete, Disconnect, FreeIt,
           Reselected, Reconnected, Reselect, UnexpectedDisconnect, BusReset, BusError,
           ConnectedTrouble, Fault
<1>2. CASE WaitSigp \/ \E t \in Targets : Reselect(t)
    BY <1>1, <1>2, IdsAssumption DEF WaitSigp, Reselect, AtRest, Ids
<1>3. dsp' # "WAITFORRESELECT" => AtRest'
    BY DEF AtRest
<1>4. CASE ~WaitSigp /\ ~(\E t \in Targets : Reselect(t))
  <2>1. dsp' # "WAITFORRESELECT"
      BY <1>4 DEF Chip, Trouble, SelectWon, SelectDone, SelectTimeout,
         SendCommand, DataPhase, PhaseMismatch, CommandComplete, Disconnect, FreeIt,
         Reselected, Reconnected, UnexpectedDisconnect, BusReset, BusError, ConnectedTrouble, Known,
         Follows, Conditions
  <2> QED
      BY <1>3, <2>1
<1> QED
    BY <1>2, <1>4

LEMMA AtRestStep ==
    ASSUME Known, IdleThread, AtRest, [Next]_vars
    PROVE  AtRest'
<1> USE DEF AtRest, AnyPending
<1>1. ASSUME NEW p \in Procs, Process(p) \/ \E i \in Uses[p] : Exec(p, i)
      PROVE  AtRest'
  <2>1. UNCHANGED <<dsp, conn>> /\ outstanding' = outstanding
      BY <1>1, ProcessesKeep DEF outstanding
  <2>2. sigp' \/ UNCHANGED <<threadstate, sigp>>
      BY <1>1 DEF Process, Exec, ChipWait, GrabSem, WaitSem, Setup, Enqueue, ncr_kick,
                  CheckDone, WakeUp, Return
  <2> QED
      BY <2>1, <2>2
<1>2. CASE Chip \/ Trouble
    BY <1>2, ChipRest
<1>3. CASE IrqSort
    BY <1>3, SortKeeps DEF Known
<1>4. CASE IrqExit
    BY <1>4 DEF IrqExit, outstanding
<1>5. CASE siop_sge
    BY <1>5, GrossError DEF Known
<1>6. ASSUME NEW c, Serve(c), Outcome(c), BusAlone PROVE AtRest'
    BY <1>6, ServeRest
<1>7. CASE seltoirq
    BY <1>7 DEF seltoirq, TimerSelect, TimerReset, TimerFree, TimerIdle, Timer, Known,
                Grounded, IrqQueues
<1>8. CASE UNCHANGED vars
    BY <1>8 DEF vars, outstanding
<1>9. Grounded
    BY DEF Known
<1> QED
    BY <1>1, <1>2, <1>3, <1>4, <1>5, <1>6, <1>7, <1>8, <1>9, IrqOutcome DEF Next

LEMMA AlwaysAtRest ==
    ASSUME PlainFaults, OwnIdUnused
    PROVE  Spec => []AtRest
<1>1. Init => AtRest
    BY DEF Init, AtRest, AnyPending, Ids
<1>2. Known /\ IdleThread /\ AtRest /\ [Next]_vars => AtRest'
    BY AtRestStep
<1>3. ~AuxTimer
    BY DEF PlainFaults
<1> QED
    BY <1>1, <1>2, <1>3, AlwaysKnown, AlwaysIdle, PTL DEF Spec

\* No request for the chip is lost between enqueue(), the SCRIPT's wait and irq():
\* while the SCRIPT waits for a reselection and a thread is pending, SIGP is set or a
\* target is about to interrupt.  For the faults of Exclusion, and as long as nobody
\* addresses our own id.
THEOREM RequestsSeen ==
    ASSUME PlainFaults, OwnIdUnused
    PROVE  Spec => []PendingIsSeen
<1>1. AtRest => PendingIsSeen
    BY DEF AtRest, PendingIsSeen, AnyPending
<1> QED
    BY <1>1, AlwaysAtRest, PTL

-----------------------------------------------------------------------------
(***************************************************************************)
(* Who is disconnected.  The driver's LOGICAL and the target's state are   *)
(* changed by different parties, at different times: between Disconnect,   *)
(* Reselected or a bus reset and the service of its interrupt they differ, *)
(* and outstanding tells how.                                              *)
(***************************************************************************)
KeptFaults == PlainFaults /\ CommandsKept

\* what a target does, and what the driver knows of it
Tracked(t) ==
    /\ Away(t) => \/ threadstate[t] = "LOGICAL"
                  \/ "SC_IDISC" \in outstanding /\ phythread = t
    /\ threadstate[t] = "LOGICAL" => \/ Away(t) \/ busrst \/ "RRST" \in outstanding
                                     \/ "SC_RESEL" \in outstanding /\ conn = t

\* what the outstanding interrupts tell
Told ==
    /\ "SC_RESEL" \in outstanding /\ ~ncr_ph_select => phythread = SelfId
    /\ "SC_RESEL" \in outstanding =>
          "RRST" \in outstanding \/ (conn # NoTarget /\ threadstate[conn] = "LOGICAL")
    /\ "SC_IDISC" \in outstanding =>
          "RRST" \in outstanding \/ (phythread \in Targets /\ Away(phythread))

Agree == Told /\ \A t \in Targets : Tracked(t)

LEMMA ProcessAgree ==
    ASSUME Known, Carried, Agree, NEW p \in Procs,
           Process(p) \/ \E i \in Uses[p] : Exec(p, i)
    PROVE  Agree'
<1>1. UNCHANGED <<conn, tgt, busrst, phythread, scratch0>> /\ outstanding' = outstanding
    BY ProcessesKeep DEF outstanding
<1>2. \A t \in Targets : threadstate'[t] = "LOGICAL" <=> threadstate[t] = "LOGICAL"
    BY UseKept DEF Known, Carried, Settled
<1>3. conn # NoTarget => conn \in Targets
    BY DEF Known, Grounded, TypeOK, BusOK
<1>4. Told'
    BY <1>1, <1>2, <1>3 DEF Told, Agree, ncr_ph_select, Away
<1>5. ASSUME NEW t \in Targets PROVE Tracked(t)'
    BY <1>1, <1>2 DEF Agree, Tracked, Away
<1> QED
    BY <1>4, <1>5 DEF Agree

LEMMA ServeAgree ==
    ASSUME PlainFaults, Known, Carried, Agree, NEW c, Serve(c), Outcome(c), BusAlone
    PROVE  Agree'
<1>1. /\ c \in outstanding /\ outstanding = todo /\ outstanding' = todo \ {c}
      /\ UNCHANGED <<conn, tgt, busrst, scratch0>>
    BY Serving DEF Known, Serve, BusAlone, outstanding
<1>2. "SC_RESEL" \notin outstanding' /\ "SC_IDISC" \notin outstanding'
    BY <1>1, Serving DEF Known, ScsiBits, DmaBits
<1>3. c \in {"SC_RESEL", "SC_IDISC"} => "RRST" \notin outstanding
    BY <1>1, Serving DEF Known, ScsiBits, DmaBits
<1>4. c # "NOTMSGI"
    BY <1>1 DEF Known, Follows, Conditions
<1>5. Grounded
    BY DEF Known
<1>6. Told'
    BY <1>2 DEF Told
<1>7. ASSUME NEW t \in Targets PROVE Tracked(t)'
  <2>1. Tracked(t) /\ Carries(t)
      BY DEF Agree, Carried
  <2>2. Away(t) => threadstate'[t] = "LOGICAL"
    <3>1. SUFFICES ASSUME Away(t) PROVE threadstate'[t] = "LOGICAL"
        OBVIOUS
    <3>2. c # "RRST"
        BY <1>1, <2>1, <3>1 DEF Carries, Away
    <3>3. CASE threadstate[t] = "LOGICAL"
      <4>1. ~(c \in ReselBits /\ conn = t)
          BY <1>1, <3>1, IdsAssumption DEF Known, Grounded, Connection, Away, Ids, ReselBits
      <4> QED
          BY <1>5, <3>2, <3>3, <4>1, ServeThread
    <3>4. CASE "SC_IDISC" \in outstanding /\ phythread = t
      <4>1. c = "SC_IDISC"
          BY <1>1, <1>2, <3>4
      <4> QED
          BY <1>5, <3>4, <4>1, ServeThread
    <3> QED
        BY <2>1, <3>1, <3>3, <3>4 DEF Tracked
  <2>3. threadstate'[t] = "LOGICAL" => Away(t) \/ busrst \/ "RRST" \in outstanding'
    <3>1. SUFFICES ASSUME threadstate'[t] = "LOGICAL"
                   PROVE  Away(t) \/ busrst \/ "RRST" \in outstanding'
        OBVIOUS
    <3>2. CASE threadstate[t] = "LOGICAL" /\ c # "RRST" /\ ~(c \in ReselBits /\ conn = t)
      <4>1. ~("SC_RESEL" \in outstanding /\ conn = t)
          BY <1>1, <1>2, <3>2 DEF ReselBits
      <4> QED
          BY <1>1, <2>1, <3>2, <4>1 DEF Tracked
    <3>3. CASE c = "SC_IDISC" /\ phythread = t
        BY <1>1, <1>3, <3>3 DEF Agree, Told
    <3>4. ~(c = "SC_RESEL" /\ phythread = t /\ ~ncr_ph_select)
        BY <1>1, IdsAssumption DEF Agree, Told
    <3> QED
        BY <1>5, <3>1, <3>2, <3>3, <3>4, ServeThread
  <2> QED
      BY <1>1, <1>2, <2>2, <2>3 DEF Tracked, Away
<1> QED
    BY <1>6, <1>7 DEF Agree

LEMMA ChipAgree ==
    ASSUME KeptFaults, Known, Carried, Agree, Chip \/ Trouble
    PROVE  Agree'
<1> USE DEF ChipOnly, Running, Connected, Latch, outstanding
<1>1. UNCHANGED <<threadstate, phythread, todo, busrst>>
    BY DEF Chip, Trouble, WaitSigp, SelectWon, SelectDone, SelectTimeout,
           SendCommand, DataPhase, PhaseMismatch, CommandComplete, Disconnect, FreeIt,
           Reselected, Reconnected, Reselect, UnexpectedDisconnect, BusReset, BusError,
           ConnectedTrouble, Fault
<1>2. conn \in Targets \cup {NoTarget} /\ NoTarget \notin Targets /\ SelfId \notin Targets
      /\ tgt \in [Targets -> [st : TargetStates, cmd : Commands]]
    BY IdsAssumption DEF Known, Follows, TypeOK, BusOK, Ids
<1>3. phythread \in Targets => threadstate[phythread] = "PHYSICAL"
    BY DEF Carried, Owned
\* no step but these changes who is away
<1>4. ASSUME outstanding = {}, outstanding' \cap {"RRST", "SC_RESEL", "SC_IDISC"} = {},
             \A t \in Targets : Away(t)' <=> Away(t)
      PROVE  Agree'
  <2>1. Told'
      BY <1>4 DEF Told
  <2>2. ASSUME NEW t \in Targets PROVE Tracked(t)'
      BY <1>1, <1>4 DEF Agree, Tracked
  <2> QED
      BY <2>1, <2>2 DEF Agree
<1>5. CASE WaitSigp \/ SelectDone \/ SelectTimeout \/ DataPhase \/ PhaseMismatch \/ BusError
    BY <1>4, <1>5 DEF WaitSigp, SelectDone, SelectTimeout, DataPhase, PhaseMismatch,
                      BusError, Fault, Away
<1>6. ASSUME NEW kind, NEW c \in {"SGE", "PAR", "PM", "UNKNPH", "BADMSG"},
             ConnectedTrouble(kind, c)
      PROVE  Agree'
    BY <1>4, <1>6 DEF ConnectedTrouble, Fault, Away
\* one target changes its state, and neither state is away
<1>7. ASSUME outstanding = {}, outstanding' \cap {"RRST", "SC_RESEL", "SC_IDISC"} = {},
             NEW r \in Targets, NEW x, tgt' = [tgt EXCEPT ![r] = x], ~Away(r),
             x.st \in {"free", "selected", "busy"}
      PROVE  Agree'
    BY <1>2, <1>4, <1>7 DEF Away
<1>8. CASE CommandComplete
    BY <1>2, <1>7, <1>8 DEF CommandComplete, Away
<1>9. CASE UnexpectedDisconnect
  <2>1. Fault("udc") /\ tgt' = [tgt EXCEPT ![conn] = [st |-> "free", cmd |-> NoCmd]]
      BY <1>9 DEF UnexpectedDisconnect, Fault, KeptFaults, CommandsKept
  <2>2. conn \in Targets /\ ~Away(conn) /\ outstanding = {} /\ outstanding' = {"UDC"}
      BY <1>1, <1>2, <1>9 DEF UnexpectedDisconnect, Away
  <2> HIDE DEF outstanding
  <2> QED
      BY <1>7, <2>1, <2>2
<1>10. CASE FreeIt
  <2>1. conn # NoTarget
      BY <1>10 DEF FreeIt, Known, Follows, Conditions
  <2>2. ~Away(conn)
      BY <1>2, <1>10, <2>1 DEF FreeIt, Known, Grounded, Connection, Engaged, Away
  <2> QED
      BY <1>2, <1>7, <1>10, <2>1, <2>2 DEF FreeIt
<1>11. CASE SelectWon
  <2>1. phythread \in Targets
      BY <1>11, IdsAssumption DEF SelectWon
  <2>2. ~Away(phythread)
      BY <1>3, <1>11, <2>1 DEF SelectWon, Agree, Tracked
  <2> QED
      BY <1>7, <1>11, <2>1, <2>2 DEF SelectWon
<1>12. CASE SendCommand
    BY <1>2, <1>7, <1>12 DEF SendCommand, Away
<1>13. CASE BusReset
  <2>1. "RRST" \in outstanding' /\ conn' = NoTarget
        /\ tgt' = [t \in Targets |-> [st |-> "free", cmd |-> NoCmd]]
      BY <1>13 DEF BusReset
  <2>2. \A t \in Targets : Tracked(t)'
      BY <2>1 DEF Tracked, Away
  <2>3. Told'
    <3>1. "SC_RESEL" \in outstanding' => "SC_RESEL" \in outstanding
        BY <1>13 DEF BusReset, Fault
    <3> QED
        BY <1>1, <1>13, <2>1, <3>1 DEF Told, Agree, BusReset, Fault, ncr_ph_select
  <2> QED
      BY <2>2, <2>3 DEF Agree
\* a target keeps its command and changes its state
<1>14. ASSUME NEW t \in Targets, NEW s, tgt' = [tgt EXCEPT ![t].st = s]
       PROVE  /\ tgt'[t].st = s
              /\ \A u \in Targets : u # t => tgt'[u] = tgt[u]
    BY <1>2, <1>14
<1>15. CASE Disconnect
  <2>1. phythread = conn /\ conn \in Targets /\ outstanding = {} /\ conn' = NoTarget
        /\ outstanding' = {"SC_IDISC"}
      BY <1>2, <1>15 DEF Disconnect, Known, Grounded, Connection
  <2>2. /\ tgt'[conn].st = "disconnected"
        /\ \A u \in Targets : u # conn => tgt'[u] = tgt[u]
      BY <1>14, <1>15, <2>1 DEF Disconnect
  <2>3. Told'
      BY <1>1, <2>1, <2>2 DEF Told, Away
  <2>4. ASSUME NEW t \in Targets PROVE Tracked(t)'
    <3>1. CASE t = conn
        BY <1>1, <1>3, <2>1, <2>2, <3>1 DEF Agree, Tracked, Away
    <3>2. CASE t # conn
        BY <1>1, <1>2, <2>1, <2>2, <3>2 DEF Agree, Tracked, Away
    <3> QED
        BY <3>1, <3>2
  <2> QED
      BY <2>3, <2>4 DEF Agree
<1>16. CASE Reselected
  <2>1. conn \in Targets /\ conn' = conn /\ outstanding = {} /\ tgt[conn].st = "reselecting"
        /\ outstanding' = {"SC_RESEL"}
      BY <1>2, <1>16 DEF Reselected, KeptFaults, PlainFaults
  <2>2. /\ tgt'[conn].st = "busy"
        /\ \A u \in Targets : u # conn => tgt'[u] = tgt[u]
      BY <1>14, <1>16, <2>1 DEF Reselected
  <2>3. threadstate[conn] = "LOGICAL"
      BY <2>1 DEF Agree, Tracked, Away
  <2>4. scratch0' # "SELECT" => phythread = SelfId
      BY <1>16 DEF Reselected, Known, Follows, ChipFollows
  <2>5. Told'
      BY <1>1, <1>2, <2>1, <2>3, <2>4 DEF Told, ncr_ph_select
  <2>6. ASSUME NEW t \in Targets PROVE Tracked(t)'
    <3>1. CASE t = conn
        BY <1>1, <2>1, <2>2, <3>1 DEF Agree, Tracked, Away
    <3>2. CASE t # conn
        BY <1>1, <2>1, <2>2, <3>2 DEF Agree, Tracked, Away
    <3> QED
        BY <3>1, <3>2
  <2> QED
      BY <2>5, <2>6 DEF Agree
<1>17. ASSUME NEW r \in Targets, Reselect(r) PROVE Agree'
  <2>1. outstanding = {} /\ outstanding' = {} /\ Away(r)
      BY <1>17 DEF Reselect, Away
  <2>2. \A t \in Targets : Away(t)' <=> Away(t)
      BY <1>14, <1>17, <2>1 DEF Reselect, Away
  <2> QED
      BY <1>4, <2>1, <2>2
<1> QED
    BY <1>5, <1>6, <1>8, <1>9, <1>10, <1>11, <1>12, <1>13, <1>15, <1>16, <1>17,
       NeverAgain
    DEF Chip, Trouble, Known, Grounded, IrqQueues

LEMMA AgreeStep ==
    ASSUME KeptFaults, Known, Carried, Agree, [Next]_vars
    PROVE  Agree'
<1>1. CASE IrqSort
  <2>1. /\ outstanding' \subseteq outstanding
        /\ "RRST" \in outstanding <=> "RRST" \in outstanding'
        /\ \A c \in outstanding : c \in outstanding' \/ "RRST" \in outstanding
        /\ UNCHANGED <<threadstate, phythread, conn, tgt, busrst, scratch0>>
      BY <1>1, SortKeeps DEF Known
  <2>2. Told'
      BY <2>1 DEF Agree, Told, Away, ncr_ph_select
  <2>3. ASSUME NEW t \in Targets PROVE Tracked(t)'
    <3>1. Away(t) => "RRST" \notin outstanding
        BY DEF Carried, Carries, Away
    <3> QED
        BY <2>1, <3>1 DEF Agree, Tracked, Away
  <2> QED
      BY <2>2, <2>3 DEF Agree
<1>2. CASE IrqExit
    BY <1>2 DEF IrqExit, Agree, Told, Tracked, Away, outstanding, ncr_ph_select
<1>3. CASE siop_sge
  <2>1. /\ outstanding' \cap {"SC_RESEL", "SC_IDISC"} = {} /\ busrst' = TRUE
        /\ tgt' = [t \in Targets |-> [st |-> "free", cmd |-> NoCmd]]
      BY <1>3, GrossError DEF Known, outstanding, siop_sge
  <2> QED
      BY <2>1 DEF Agree, Told, Tracked, Away
<1>4. CASE seltoirq
    BY <1>4 DEF seltoirq, TimerSelect, TimerReset, TimerFree, TimerIdle, Timer, Known,
                Follows, IrqQueues
<1>5. CASE UNCHANGED vars
    BY <1>5 DEF vars, Agree, Told, Tracked, Away, outstanding, ncr_ph_select
<1>6. PlainFaults
    BY DEF KeptFaults
<1>7. Grounded
    BY DEF Known
<1> QED
    BY <1>1, <1>2, <1>3, <1>4, <1>5, <1>6, <1>7, ProcessAgree, ChipAgree, ServeAgree, IrqOutcome
    DEF Next

LEMMA AlwaysAgree ==
    ASSUME KeptFaults
    PROVE  Spec => []Agree
<1>1. Init => Agree
    BY IdsAssumption DEF Init, Agree, Told, Tracked, Away, outstanding, Ids
<1>2. Known /\ Grounded /\ Carried /\ Agree /\ [Next]_vars => Agree'
    BY AgreeStep
<1>3. PlainFaults /\ CommandsKept
    BY DEF KeptFaults
<1> QED
    BY <1>1, <1>2, <1>3, AlwaysKnown, AlwaysCarried, PTL DEF Spec

\* While no interrupt is outstanding, a thread is LOGICAL exactly when its target left
\* the bus with the command of the thread's owner: for every fault of Exclusion but a
\* target that drops off the bus with its command.
THEOREM Agreement ==
    ASSUME KeptFaults
    PROVE  Spec => []LogicalMeansDisconnected
<1>1. Known /\ Carried /\ Agree => LogicalMeansDisconnected
  <2> SUFFICES ASSUME Known, Carried, Agree, quiet, NEW t \in Targets
               PROVE  /\ threadstate[t] = "LOGICAL" <=> Away(t)
                      /\ threadstate[t] = "LOGICAL" => tgt[t].cmd = command(processid[t])
      BY DEF LogicalMeansDisconnected, Away
  <2>1. outstanding = {} /\ ~busrst
      BY DEF quiet, outstanding, Known, Follows, TypeOK, IrqOK
  <2>2. threadstate[t] = "LOGICAL" <=> Away(t)
      BY <2>1 DEF Agree, Tracked
  <2> QED
      BY <2>2 DEF Carried, Carries, Hold
<1>2. PlainFaults /\ CommandsKept
    BY DEF KeptFaults
<1> QED
    BY <1>1, <1>2, AlwaysKnown, AlwaysCarried, AlwaysAgree, PTL

-----------------------------------------------------------------------------
(***************************************************************************)
(* The queue of wake-ups.  While irq() runs no thread is enqueued, so that *)
(* a finished thread stays finished and is queued once.  The idle thread   *)
(* can be finished too, by an unexpected disconnect or a select timeout    *)
(* that comes after a bus reset; nothing is left to be finished then.      *)
(***************************************************************************)
spent == {t \in Targets : threadstate[t] = "DONE"}

Calm == \A t \in Targets : Settled(t) /\ ~Away(t)

Over == /\ phythread = SelfId /\ conn = NoTarget /\ dsp \in {"WAITFORRESELECT", "HALT"}
        /\ Calm
        /\ outstanding \cap (Ending \cup ReselBits \cup {"SC_IDISC"}) = {}

Queued ==
    /\ ~inirq => wakes = 0
    /\ \/ wakes <= Cardinality(spent)
       \/ inirq /\ Over /\ wakes = Cardinality(spent) + 1

Ends == outstanding \cap Ending # {} => \/ phythread \in Targets \/ "RRST" \in outstanding
                                        \/ inirq /\ Calm

Reported == Grounded /\ Carried /\ IdleThread

LEMMA TargetsFinite ==
    ASSUME NEW S, S \subseteq Targets
    PROVE  IsFiniteSet(S) /\ Cardinality(S) \in Nat
<1>1. S \subseteq 0..7
    BY IdsAssumption DEF Ids, NTHREADS
<1>2. IsFiniteSet(S)
    BY <1>1, FS_BoundedSetOfNaturals
<1> QED
    BY <1>2, FS_CardinalityType

\* reschedule() with nobody pending goes back to the idle thread.
LEMMA StartsIdle ==
    ASSUME NEW ts \in [Ids -> ThreadStates], \A i \in Ids : ts[i] # "PENDING", Starts(ts)
    PROVE  /\ phythread' = SelfId /\ dsp' = "WAITFORRESELECT"
           /\ \A t \in Targets : threadstate'[t] = ts[t]
<1>1. nextThread(ts) = SelfId
    BY NextThread
<1> QED
    BY <1>1, IdsAssumption DEF Starts, Ids

\* From the idle thread, with every other thread settled, nothing is started but by a
\* reselection.
LEMMA ServeCalm ==
    ASSUME Reported, NEW c, Serve(c), Outcome(c), phythread = SelfId, Calm,
           c \notin ReselBits \cup {"SC_IDISC"}
    PROVE  /\ phythread' = SelfId /\ dsp' = "WAITFORRESELECT"
           /\ \A t \in Targets : threadstate'[t] = threadstate[t]
<1>1. /\ threadstate \in [Ids -> ThreadStates] /\ SelfId \in Ids /\ SelfId \notin Targets
      /\ threadstate[SelfId] # "PENDING"
    BY IdsAssumption
    DEF Reported, Grounded, TypeOK, ThreadsOK, IdleThread, Ids
<1>2. \A t \in Targets : threadstate[t] \in {"EMPTY", "DONE"}
    BY DEF Calm, Settled
<1>3. \A i \in Ids : threadstate[i] # "PENDING"
    BY <1>1, <1>2 DEF Ids
<1>4. ASSUME NEW ts \in [Ids -> ThreadStates], Starts(ts), ts[SelfId] # "PENDING",
             \A t \in Targets : ts[t] = threadstate[t]
      PROVE  /\ phythread' = SelfId /\ dsp' = "WAITFORRESELECT"
             /\ \A t \in Targets : threadstate'[t] = threadstate[t]
  <2>1. \A i \in Ids : ts[i] # "PENDING"
      BY <1>2, <1>4 DEF Ids
  <2> QED
      BY <1>4, <2>1, StartsIdle
<1>5. CASE c \in Ending
  <2> DEFINE ts == finished(phythread)
  <2>1. ts \in [Ids -> ThreadStates] /\ ts[SelfId] # "PENDING"
        /\ \A t \in Targets : ts[t] = threadstate[t]
      BY <1>1 DEF finished, ThreadStates, Ids
  <2>2. Starts(ts)
      BY <1>5 DEF Outcome, Ending, Mending
  <2> QED
      BY <1>4, <2>1, <2>2
<1>6. CASE c = "SC_SIGP"
    BY <1>1, <1>4, <1>6 DEF Outcome, Ending, Mending
<1>7. CASE c = "RRST"
  <2> DEFINE ts == [i \in Ids |-> IF i \in broken THEN "DONE" ELSE threadstate[i]]
  <2>1. ts \in [Ids -> ThreadStates] /\ ts[SelfId] # "PENDING"
        /\ \A t \in Targets : ts[t] = threadstate[t]
      BY <1>1, <1>2 DEF broken, ThreadStates, Ids
  <2>2. Starts(ts)
      BY <1>7 DEF Outcome, Ending, Mending
  <2> QED
      BY <1>4, <2>1, <2>2
<1>8. CASE c \in Mending
  <2>1. CASE Starts([threadstate EXCEPT ![SelfId] = "EMPTY"])
    <3> DEFINE ts == [threadstate EXCEPT ![SelfId] = "EMPTY"]
    <3>1. ts \in [Ids -> ThreadStates] /\ ts[SelfId] # "PENDING"
          /\ \A t \in Targets : ts[t] = threadstate[t]
        BY <1>1 DEF ThreadStates, Ids
    <3> QED
        BY <1>4, <2>1, <3>1
  <2>2. CASE Continues(phythread, threadstate)
      BY <1>1, <2>2 DEF Continues, Ids
  <2> QED
      BY <1>8, <2>1, <2>2 DEF Outcome, Ending, Mending, Frees
<1> QED
    BY <1>5, <1>6, <1>7, <1>8 DEF Outcome, ReselBits

LEMMA ServeEnds ==
    ASSUME Reported, Ends, NEW c, Serve(c), Outcome(c), BusAlone
    PROVE  Ends'
<1>1. /\ c \in todo /\ outstanding = todo /\ outstanding' = todo \ {c} /\ inirq /\ inirq'
      /\ todo \subseteq ScsiBits \/ todo \subseteq DmaBits
      /\ UNCHANGED <<conn, tgt>>
    BY Serving DEF BusAlone, outstanding, Reported
<1>2. SUFFICES ASSUME NEW d \in Ending, d \in todo, d # c
               PROVE  \/ phythread' \in Targets \/ "RRST" \in outstanding' \/ Calm'
    BY <1>1 DEF Ends
<1>3. c = "RRST" \/ (c = "PAR" /\ d = "UDC")
  <2>1. c \notin Ending
      BY <1>1, <1>2 DEF Reported, Grounded, Single
  <2>2. c # "RRST" => d = "UDC"
      BY <1>2, <2>1, Serving DEF Reported, Ending
  <2>3. d = "UDC" => c \in {"PAR", "RRST"}
    <3>1. d = "UDC" => c \in ScsiBits /\ Rank(c) <= Rank("UDC")
        BY <1>1, <1>2 DEF Serve, ScsiBits, DmaBits
    <3> QED
        BY <2>1, <3>1 DEF Rank, ScsiBits, Ending
  <2> QED
      BY <2>2, <2>3
<1>4. CASE c = "RRST"
  <2> DEFINE ts == [i \in Ids |-> IF i \in broken THEN "DONE" ELSE threadstate[i]]
  <2>1. Starts(ts)
      BY <1>4 DEF Outcome, Ending, Mending
  <2>2. CASE nextThread(ts) \in Targets
      BY <2>1, <2>2 DEF Starts
  <2>3. CASE nextThread(ts) \notin Targets
    <3>1. threadstate \in [Ids -> ThreadStates] /\ threadstate[SelfId] # "PENDING"
          /\ SelfId \in Ids /\ SelfId \notin Targets
        BY IdsAssumption DEF Reported, Grounded, TypeOK, ThreadsOK, IdleThread, Ids
    <3>2. nextThread(ts) = SelfId /\ ts[SelfId] # "PENDING"
        BY <2>3, <3>1, NextThread DEF Ids, broken
    <3>3. \A t \in Targets : ts[t] # "PENDING"
        BY <3>2, NextThread DEF Ids
    <3>4. \A t \in Targets : Settled(t)'
        BY <2>1, <3>1, <3>2, <3>3 DEF Starts, Settled, broken, ThreadStates, Ids
    <3>5. \A t \in Targets : tgt[t].st = "free"
        BY <1>1, <1>4 DEF Reported, Carried, Carries
    <3> QED
        BY <1>1, <3>4, <3>5 DEF Calm, Away
  <2> QED
      BY <2>2, <2>3
<1>5. CASE c = "PAR" /\ d = "UDC"
  <2>1. CASE phythread \in Targets
      BY <1>5, <2>1, IdsAssumption DEF Outcome, Ending, Mending, Frees
  <2>2. CASE "RRST" \in outstanding
      BY <1>1, <1>5, <2>2
  <2>3. CASE phythread \notin Targets /\ Calm
    <3>1. phythread = SelfId
        BY <2>3 DEF Reported, Grounded, TypeOK, SchedOK, Ids
    <3> QED
        BY <1>1, <1>5, <2>3, <3>1, ServeCalm DEF Calm, Settled, Away, ReselBits
  <2> QED
      BY <1>1, <1>2, <2>1, <2>2, <2>3 DEF Ends
<1> QED
    BY <1>3, <1>4, <1>5

LEMMA ServeQueued ==
    ASSUME Reported, Ends, Queued, NEW c, Serve(c), Outcome(c), BusAlone
    PROVE  Queued'
<1>1. /\ c \in todo /\ outstanding = todo /\ outstanding' = todo \ {c} /\ c \in outstanding
      /\ inirq /\ inirq' /\ UNCHANGED <<conn, tgt>>
      /\ todo \subseteq ScsiBits \/ todo \subseteq DmaBits
    BY Serving DEF BusAlone, outstanding, Reported
<1>2. wakes \in Nat /\ Cardinality(spent) \in Nat /\ IsFiniteSet(spent)
    BY TargetsFinite DEF spent, Reported, Grounded, TypeOK, SchedOK
<1>3. outstanding' \cap (ReselBits \cup {"SC_IDISC"}) = {}
    BY <1>1, Serving DEF Reported, ReselBits, ScsiBits, DmaBits
<1>4. /\ c \in Ending => wakes' = wakes + 1
      /\ c = "RRST" => wakes' = wakes + Cardinality(broken)
      /\ c \notin Ending \cup {"RRST"} => wakes' = wakes
    BY DEF Outcome, Ending, Mending
<1>5. ASSUME NEW t \in Targets
      PROVE  threadstate'[t] = "DONE" <=>
                 \/ threadstate[t] = "DONE"
                 \/ c \in Ending /\ phythread = t
                 \/ c = "RRST" /\ threadstate[t] \in {"PHYSICAL", "LOGICAL"}
    BY ServeThread DEF Reported
\* when all is over, it stays so
<1>6. CASE Over
  <2>1. c \notin Ending \cup ReselBits \cup {"SC_IDISC"} /\ phythread = SelfId
      BY <1>1, <1>6 DEF Over
  <2>2. /\ phythread' = SelfId /\ dsp' = "WAITFORRESELECT"
        /\ \A t \in Targets : threadstate'[t] = threadstate[t]
      BY <1>6, <2>1, ServeCalm DEF Over
  <2>3. spent' = spent
      BY <2>2 DEF spent
  <2>4. Over'
      BY <1>1, <1>6, <2>2 DEF Over, Calm, Settled, Away
  <2>5. wakes' = wakes
    <3>1. broken = {}
        BY <1>6 DEF Over, Calm, Settled, broken
    <3> QED
        BY <1>2, <1>4, <2>1, <3>1, FS_EmptySet
  <2> QED
      BY <1>1, <1>2, <2>3, <2>4, <2>5 DEF Queued
<1>7. CASE ~Over /\ c \in Ending
  <2>1. wakes' = wakes + 1
      BY <1>4, <1>7
  <2>2. CASE phythread \in Targets
    <3>1. spent' = spent \cup {phythread}
        BY <1>5, <1>7, <2>2 DEF spent, Ending
    <3>2. phythread \notin spent
        BY <2>2 DEF spent, Reported, Carried, Owned
    <3>3. Cardinality(spent') = Cardinality(spent) + 1
        BY <1>2, <3>1, <3>2, FS_AddElement
    <3> QED
        BY <1>1, <1>2, <1>7, <2>1, <3>3 DEF Queued
  <2>3. CASE phythread \notin Targets
    <3>1. phythread = SelfId
        BY <2>3 DEF Reported, Grounded, TypeOK, SchedOK, Ids
    <3>2. "RRST" \notin todo
        BY <1>1, <1>7 DEF Serve, Rank, Ending, ScsiBits, DmaBits
    <3>3. Calm
        BY <1>1, <1>7, <2>3, <3>2 DEF Ends
    <3>4. /\ phythread' = SelfId /\ dsp' = "WAITFORRESELECT"
          /\ \A t \in Targets : threadstate'[t] = threadstate[t]
        BY <1>7, <3>1, <3>3, ServeCalm DEF Ending, ReselBits
    <3>5. spent' = spent
        BY <3>4 DEF spent
    <3>6. outstanding' \cap Ending = {}
        BY <1>1, <1>7 DEF Reported, Grounded, Single
    <3>7. conn = NoTarget
        BY <1>1, <1>7 DEF Reported, Grounded, BusFree
    <3>8. Over'
        BY <1>1, <1>3, <3>3, <3>4, <3>6, <3>7 DEF Over, Calm, Settled, Away
    <3> QED
        BY <1>1, <1>2, <1>7, <2>1, <3>5, <3>8 DEF Queued
  <2> QED
      BY <2>2, <2>3
<1>8. CASE ~Over /\ c = "RRST"
  <2>1. wakes' = wakes + Cardinality(broken)
      BY <1>4, <1>8
  <2>2. spent' = spent \cup broken /\ spent \cap broken = {}
      BY <1>5, <1>8 DEF spent, broken, Ending
  <2>3. IsFiniteSet(broken) /\ Cardinality(broken) \in Nat
      BY TargetsFinite DEF broken
  <2>4. Cardinality(spent') = Cardinality(spent) + Cardinality(broken)
    <3>1. Cardinality(spent \cup broken) =
              Cardinality(spent) + Cardinality(broken) - Cardinality(spent \cap broken)
        BY <1>2, <2>3, FS_Union
    <3>2. Cardinality(spent \cap broken) = 0
        BY <2>2, FS_EmptySet
    <3> QED
        BY <1>2, <2>2, <2>3, <3>1, <3>2
  <2> QED
      BY <1>1, <1>2, <1>8, <2>1, <2>3, <2>4 DEF Queued
<1>9. CASE ~Over /\ c \notin Ending /\ c # "RRST"
  <2>1. wakes' = wakes
      BY <1>4, <1>9
  <2>2. spent' = spent
      BY <1>5, <1>9 DEF spent
  <2> QED
      BY <1>1, <1>2, <1>9, <2>1, <2>2 DEF Queued
<1> QED
    BY <1>6, <1>7, <1>8, <1>9

LEMMA ChipQueued ==
    ASSUME Reported, Ends, Queued, Chip \/ Trouble
    PROVE  Ends' /\ Queued'
<1> USE DEF ChipOnly, Running, Connected, Latch, outstanding
<1>1. UNCHANGED <<threadstate, phythread, todo, inirq, wakes>> /\ spent' = spent
    BY DEF Chip, Trouble, WaitSigp, SelectWon, SelectDone, SelectTimeout,
           SendCommand, DataPhase, PhaseMismatch, CommandComplete, Disconnect, FreeIt,
           Reselected, Reconnected, Reselect, UnexpectedDisconnect, BusReset, BusError,
           ConnectedTrouble, Fault, spent
<1>2. conn \in Targets \cup {NoTarget} /\ NoTarget \notin Targets /\ SelfId \notin Targets
      /\ phythread \in Ids
    BY IdsAssumption DEF Reported, Grounded, TypeOK, BusOK, SchedOK, Ids
<1>3. CASE BusReset
  <2>1. /\ conn' = NoTarget /\ dsp' = "HALT" /\ "RRST" \in intr'
        /\ conn = NoTarget => intr' = intr \cup {"RRST"}
        /\ \A t \in Targets : tgt'[t].st = "free"
      BY <1>3 DEF BusReset
  <2>2. Ends'
      BY <2>1 DEF Ends
  <2>3. Over => Over'
      BY <1>1, <2>1 DEF Over, Calm, Settled, Away, Ending, ReselBits
  <2> QED
      BY <1>1, <2>2, <2>3 DEF Queued
<1>4. CASE ~BusReset
  <2>1. Running
      BY <1>4 DEF Chip, Trouble, WaitSigp, SelectWon, SelectDone, SelectTimeout,
         SendCommand, DataPhase, PhaseMismatch, CommandComplete, Disconnect, FreeIt,
         Reselected, Reconnected, Reselect, UnexpectedDisconnect, BusError, ConnectedTrouble, Fault
  <2>2. Connected({"selected", "busy"}) => phythread = conn
      BY DEF Reported, Grounded, Connection
  <2>3. dsp \in {"SELECT", "FREEIT"} => phythread \in Targets
      BY <1>2 DEF Reported, IdleThread, Ids
  <2>4. intr' \cap Ending # {} => phythread \in Targets
      BY <1>2, <1>4, <2>1, <2>2, <2>3
      DEF Ending, Chip, Trouble, WaitSigp, SelectWon, SelectDone, SelectTimeout,
         SendCommand, DataPhase, PhaseMismatch, CommandComplete, Disconnect, FreeIt,
         Reselected, Reconnected, Reselect, UnexpectedDisconnect, BusError, ConnectedTrouble
  <2>5. Ends'
      BY <1>1, <2>1, <2>4 DEF Ends
  <2>6. ASSUME Over PROVE Over'
    <3>1. dsp = "WAITFORRESELECT" /\ conn = NoTarget /\ \A t \in Targets : ~Away(t)
        BY <2>1, <2>6 DEF Over, Calm
    <3>2. CASE WaitSigp
        BY <1>1, <2>6, <3>1, <3>2 DEF WaitSigp, Over, Calm, Settled, Away, Ending, ReselBits
    <3>3. CASE BusError
        BY <1>1, <2>6, <3>1, <3>3
        DEF BusError, Fault, Over, Calm, Settled, Away, Ending, ReselBits
    <3>4. ~\E t \in Targets : Reselect(t)
        BY <3>1 DEF Reselect, Away
    <3> QED
        BY <1>4, <3>1, <3>2, <3>3, <3>4
        DEF Chip, Trouble, SelectWon, SelectDone, SelectTimeout, SendCommand, DataPhase,
            PhaseMismatch, CommandComplete, Disconnect, FreeIt, Reselected, Reconnected,
            UnexpectedDisconnect, ConnectedTrouble
  <2> QED
      BY <1>1, <2>5, <2>6 DEF Queued
<1> QED
    BY <1>3, <1>4

LEMMA QueuedStep ==
    ASSUME Reported, Ends, Queued, [Next]_vars
    PROVE  Ends' /\ Queued'
<1>1. ASSUME NEW p \in Procs, Process(p) \/ \E i \in Uses[p] : Exec(p, i)
      PROVE  Ends' /\ Queued'
  <2>1. ~inirq /\ ~inirq' /\ wakes' = wakes /\ outstanding' = outstanding
        /\ UNCHANGED <<intr, todo, phythread>>
      BY <1>1, ProcessesKeep
      DEF outstanding, Process, Exec, ChipWait, GrabSem, WaitSem, Setup, Enqueue,
          CheckDone, WakeUp, Return
  <2>2. Cardinality(spent') \in Nat
      BY TargetsFinite DEF spent
  <2> QED
      BY <2>1, <2>2 DEF Ends, Queued
<1>2. CASE Chip \/ Trouble
    BY <1>2, ChipQueued
<1>3. ASSUME NEW c, Serve(c), Outcome(c), BusAlone PROVE Ends' /\ Queued'
    BY <1>3, ServeEnds, ServeQueued
<1>4. CASE IrqSort
  <2>1. /\ UNCHANGED <<threadstate, phythread, tgt, conn, dsp, wakes>> /\ inirq'
        /\ outstanding' \subseteq outstanding
        /\ "RRST" \in outstanding => "RRST" \in outstanding'
      BY <1>4, SortKeeps DEF Reported
  <2>2. spent' = spent /\ (Calm => Calm')
      BY <2>1 DEF spent, Calm, Settled, Away
  <2>3. Over => Over'
      BY <2>1, <2>2 DEF Over
  <2>4. wakes <= Cardinality(spent) \/ (Over /\ wakes = Cardinality(spent) + 1)
      BY DEF Queued
  <2>5. Queued'
      BY <2>1, <2>2, <2>3, <2>4 DEF Queued
  <2>6. Ends'
      BY <2>1, <2>2 DEF Ends
  <2> QED
      BY <2>5, <2>6
<1>5. CASE IrqExit
  <2>1. wakes' = 0 /\ outstanding' = {} /\ spent' = spent
      BY <1>5 DEF IrqExit, outstanding, spent
  <2>2. Cardinality(spent) \in Nat
      BY TargetsFinite DEF spent
  <2> QED
      BY <2>1, <2>2 DEF Ends, Queued
<1>6. CASE siop_sge
  <2>1. /\ UNCHANGED <<threadstate, phythread, dsp, wakes>> /\ conn' = NoTarget
        /\ outstanding' \subseteq {"RRST"} /\ inirq'
        /\ \A t \in Targets : tgt'[t].st = "free"
      BY <1>6, GrossError DEF Reported, outstanding
  <2>2. Ends'
      BY <2>1 DEF Ends, Ending
  <2>3. spent' = spent /\ (Over => Over')
      BY <2>1 DEF spent, Over, Calm, Settled, Away, Ending, ReselBits
  <2>4. wakes <= Cardinality(spent) \/ (Over /\ wakes = Cardinality(spent) + 1)
      BY DEF Queued
  <2> QED
      BY <2>1, <2>2, <2>3, <2>4 DEF Queued
<1>7. CASE seltoirq
    BY <1>7 DEF seltoirq, TimerSelect, TimerReset, TimerFree, TimerIdle, Timer, Reported,
                Grounded, IrqQueues
<1>8. CASE UNCHANGED vars
    BY <1>8 DEF vars, Ends, Queued, outstanding, spent, Over, Calm, Settled, Away
<1>9. Grounded
    BY DEF Reported
<1> QED
    BY <1>1, <1>2, <1>3, <1>4, <1>5, <1>6, <1>7, <1>8, <1>9, IrqOutcome DEF Next

LEMMA AlwaysQueued ==
    ASSUME CommandsKept, OwnIdUnused
    PROVE  Spec => [](Reported /\ Ends /\ Queued)
<1>1. Init => Ends /\ Queued
  <2>1. ASSUME Init PROVE Ends /\ Queued
    <3>1. wakes = 0 /\ outstanding = {}
        BY <2>1 DEF Init, outstanding
    <3>2. Cardinality(spent) \in Nat
        BY TargetsFinite DEF spent
    <3> QED
        BY <3>1, <3>2 DEF Ends, Queued
  <2> QED
      BY <2>1
<1>2. Grounded /\ Carried /\ IdleThread /\ Ends /\ Queued /\ [Next]_vars => Ends' /\ Queued'
    BY QueuedStep DEF Reported
<1>3. ~AuxTimer
    BY DEF CommandsKept
<1> QED
    BY <1>1, <1>2, <1>3, AlwaysCarried, AlwaysIdle, PTL DEF Spec, Reported

\* wakequeue, with one entry per id, never overflows: a thread is queued once per irq(),
\* whatever is reported while it runs.  Under every fault but a target that drops off
\* the bus with its command, and as long as nobody addresses our own id.
THEOREM QueueFits ==
    ASSUME CommandsKept, OwnIdUnused
    PROVE  Spec => []WakeQueueFits
<1>1. Queued /\ TypeOK => WakeQueueFits
  <2>1. ASSUME Queued, TypeOK PROVE WakeQueueFits
    <3>1. IsFiniteSet(Targets) /\ Cardinality(Targets) \in Nat
        BY TargetsFinite
    <3>2. Cardinality(Ids) = Cardinality(Targets) + 1
        BY <3>1, IdsAssumption, FS_AddElement DEF Ids
    <3>3. spent \subseteq Targets /\ Cardinality(spent) \in Nat
        BY TargetsFinite DEF spent
    <3>4. Cardinality(spent) <= Cardinality(Targets)
        BY <3>1, <3>3, FS_Subset
    <3>5. wakes \in Nat /\ wakes <= Cardinality(spent) + 1
        BY <2>1, <3>3 DEF Queued, TypeOK, SchedOK
    <3> QED
        BY <3>1, <3>2, <3>3, <3>4, <3>5 DEF WakeQueueFits
  <2> QED
      BY <2>1
<1> QED
    BY <1>1, TypeCorrect, AlwaysQueued, PTL

-----------------------------------------------------------------------------
(***************************************************************************)
(* Nothing stands still.  The guards of the parties, spelt out: CallReturns*)
(* needs fairness, but that some party can go on as long as a call is under*)
(* way is an invariant.  It fails where the driver waits for a reset that  *)
(* nobody ends, or where a bus reset finds a condition latched and the     *)
(* thread just started is restarted without a target.                      *)
(***************************************************************************)
SteadyFaults == KeptFaults /\ Faults \cap {"rrst", "sge"} = {}

ChipMoves ==
    /\ Running
    /\ \/ dsp = "WAITFORRESELECT" /\ sigp
       \/ dsp \in {"SELECTED", "FREEIT"}
       \/ /\ dsp \in {"WAITFORRESELECT", "SELECT"} /\ conn # NoTarget
          /\ tgt[conn].st = "reselecting"
       \/ /\ dsp \in {"WAITFORRESELECT", "SELECT"} /\ conn = NoTarget /\ ~busrst
          /\ \E t \in Targets : tgt[t].st = "disconnected"
       \/ dsp = "SELECT" /\ conn = NoTarget
       \/ dsp = "WHICHPHASE" /\ conn # NoTarget /\ tgt[conn].st \in {"selected", "busy"}
       \/ dsp = "DATA" /\ conn # NoTarget /\ tgt[conn].st = "busy"

IrqMoves == inirq \/ outstanding # {}

ProcessMoves(p) ==
    /\ ~inirq
    /\ \/ pc[p] \in {"grabsem", "setup", "enqueue", "check", "result"}
       \/ pc[p] = "chipwait" /\ chipbusy = "CHIPFREE"
       \/ pc[p] = "semwait" /\ semFree(cid[p])
       \/ pc[p] = "sleep" /\ (sig[p] \/ p \in SystemProcs)

\* a thread that is to be started begins with its selection
Begins ==
    /\ \A t \in Targets : threadstate[t] = "PENDING" => scriptstart[t] = "SELECT"
    /\ \A p \in Procs : pc[p] = "enqueue" => scriptstart[cid[p]] = "SELECT"
    /\ phythread # SelfId /\ dsp = "SELECT" => scriptstart[phythread] = "SELECT"
    /\ phythread # SelfId /\ "SC_RESEL" \in outstanding /\ ncr_ph_select
       => scriptstart[phythread] = "SELECT"

\* the SCRIPT is where the bus lets it go on
Goes ==
    /\ outstanding \cap {"RRST", "SGE"} = {} /\ chipbusy = "CHIPFREE" /\ ~busrst
    /\ dsp # "null"
    /\ dsp = "HALT" => outstanding # {}
    /\ dsp = "DATA" => conn # NoTarget /\ tgt[conn].st = "busy"
    /\ dsp \in {"WHICHPHASE", "SELECTED"} \/ "PM" \in outstanding => conn # NoTarget
    /\ dsp \in {"WAITFORRESELECT", "SELECT"} /\ conn # NoTarget
       => tgt[conn].st = "reselecting"

Awaited == \A p \in Procs : pc[p] \in {"check", "sleep"} => threadstate[cid[p]] # "EMPTY"

Steady == Begins /\ Goes /\ Awaited

Settling == Known /\ Carried /\ IdleThread

\* irq() changes scriptstart for the physical thread only, and not when a selection is
\* put off.
LEMMA ScriptsKept ==
    ASSUME TypeOK, Irq, NEW c, Serve(c)
    PROVE  /\ \A i \in Ids : i # phythread => scriptstart'[i] = scriptstart[i]
           /\ c = "SC_RESEL" => scriptstart' = scriptstart
<1>1. scriptstart \in [Ids -> Entries] /\ phythread \in Ids
    BY DEF TypeOK, ThreadsOK, SchedOK
<1>2. \A d : Serve(d) => d = c
    BY DEF Serve
<1>3. CASE scripti_idisc \/ dma_buserror \/ siop_pm
    BY <1>1, <1>2, <1>3 DEF scripti_idisc, dma_buserror, siop_pm
<1>4. CASE ~(scripti_idisc \/ dma_buserror \/ siop_pm)
    BY <1>4 DEF Irq, IrqSort, IrqExit, Serve, scripti_done, scripti_sigp, scripti_resel,
       scripti_again, unknph, notmsgi, scripti_badmsg, siop_par, siop_rrst, resetThreads, siop_udc, siop_sge,
       siop_sto
<1> QED
    BY <1>3, <1>4

LEMMA ProcessSteady ==
    ASSUME Settling, Steady, NEW p \in Procs, Process(p) \/ \E i \in Uses[p] : Exec(p, i)
    PROVE  Steady'
<1>1. /\ UNCHANGED <<dsp, phythread, conn, tgt, busrst, scratch0>> /\ outstanding' = outstanding
    BY ProcessesKeep DEF outstanding
<1>2. /\ pc \in [Procs -> {"idle", "chipwait", "grabsem", "semwait"} \cup Critical]
      /\ cid \in [Procs -> Ids] /\ threadstate \in [Ids -> ThreadStates]
      /\ scriptstart \in [Ids -> Entries] /\ phythread \in Ids
    BY DEF Settling, Known, Grounded, TypeOK, CallersOK, ThreadsOK, SchedOK
<1>3. Goes'
  <2>1. chipbusy' = chipbusy
      BY DEF Process, Exec, ChipWait, GrabSem, WaitSem, Setup, Enqueue, CheckDone, WakeUp,
             Return
  <2> QED
      BY <1>1, <2>1 DEF Goes, Steady
\* Setup is the only step that changes scriptstart, and sets it to SELECT
<1>4. \A i \in Ids : scriptstart'[i] = scriptstart[i] \/ scriptstart'[i] = "SELECT"
    BY <1>2 DEF Process, Exec, ChipWait, GrabSem, WaitSem, Setup, Enqueue, CheckDone, WakeUp,
           Return
<1>5. ASSUME NEW q \in Procs, pc'[q] = "enqueue"
      PROVE  scriptstart'[cid'[q]] = "SELECT"
  <2>1. CASE q # p \/ ~Setup(p)
    <3>1. pc[q] = "enqueue" /\ cid'[q] = cid[q]
        BY <1>2, <1>5, <2>1 DEF Process, Exec, ChipWait, GrabSem, WaitSem, Setup, Enqueue,
           CheckDone, WakeUp, Return
    <3> QED
        BY <1>2, <1>4, <3>1 DEF Steady, Begins
  <2>2. CASE q = p /\ Setup(p)
      BY <1>2, <2>2 DEF Setup
  <2> QED
      BY <2>1, <2>2
<1>6. \A t \in Targets : threadstate'[t] = "PENDING" => scriptstart'[t] = "SELECT"
  <2>1. ASSUME Enqueue(p)
        PROVE  \A t \in Targets : threadstate'[t] = "PENDING" => scriptstart'[t] = "SELECT"
      BY <1>2, <2>1 DEF Enqueue, Steady, Begins, Ids
  <2>2. ASSUME ~Enqueue(p) PROVE threadstate' = threadstate
      BY <2>2 DEF Process, Exec, ChipWait, GrabSem, WaitSem, Setup, CheckDone, WakeUp,
         Return
  <2> QED
      BY <1>4, <2>1, <2>2 DEF Steady, Begins, Ids
<1>7. Begins'
    BY <1>1, <1>2, <1>4, <1>5, <1>6 DEF Begins, Steady, ncr_ph_select
<1>8. ASSUME NEW q \in Procs, pc'[q] \in {"check", "sleep"}
      PROVE  threadstate'[cid'[q]] # "EMPTY"
  <2>1. CASE q = p /\ Enqueue(p)
      BY <1>2, <2>1 DEF Enqueue
  <2>2. CASE ~(q = p /\ Enqueue(p))
    <3>1. pc[q] \in {"check", "sleep"} /\ cid'[q] = cid[q]
        BY <1>2, <1>8, <2>2 DEF Process, Exec, ChipWait, GrabSem, WaitSem, Setup, Enqueue,
           CheckDone, WakeUp, Return
    <3>2. \A i \in Ids : threadstate'[i] = threadstate[i] \/ threadstate'[i] = "PENDING"
        BY <1>2 DEF Process, Exec, ChipWait, GrabSem, WaitSem, Setup, Enqueue, CheckDone,
           WakeUp, Return
    <3> QED
        BY <1>2, <3>1, <3>2 DEF Steady, Awaited
  <2> QED
      BY <2>1, <2>2
<1> QED
    BY <1>3, <1>7, <1>8 DEF Steady, Awaited

LEMMA ChipSteady ==
    ASSUME SteadyFaults, Settling, Steady, Chip \/ Trouble
    PROVE  Steady'
<1> USE DEF ChipOnly, Running, Connected, Latch, outstanding
<1>1. UNCHANGED <<pc, cid, threadstate, scriptstart, phythread, todo, chipbusy, busrst>>
    BY DEF Chip, Trouble, WaitSigp, SelectWon, SelectDone, SelectTimeout,
           SendCommand, DataPhase, PhaseMismatch, CommandComplete, Disconnect, FreeIt,
           Reselected, Reconnected, Reselect, UnexpectedDisconnect, BusReset, BusError,
           ConnectedTrouble, Fault
<1>2. ~BusReset
    BY DEF SteadyFaults, BusReset, Fault
<1>3. intr = {} /\ todo = {}
    BY <1>2 DEF Chip, Trouble, WaitSigp, SelectWon, SelectDone, SelectTimeout,
           SendCommand, DataPhase, PhaseMismatch, CommandComplete, Disconnect, FreeIt,
           Reselected, Reconnected, Reselect, UnexpectedDisconnect, BusError, ConnectedTrouble
<1>4. Awaited'
    BY <1>1 DEF Steady, Awaited
<1>5. Begins'
  <2>1. dsp' = "SELECT" => dsp = "SELECT"
      BY <1>2 DEF Chip, Trouble, WaitSigp, SelectWon, SelectDone, SelectTimeout,
           SendCommand, DataPhase, PhaseMismatch, CommandComplete, Disconnect, FreeIt,
           Reselected, Reconnected, Reselect, UnexpectedDisconnect, BusError,
           ConnectedTrouble, Fault
  <2>2. "SC_RESEL" \in outstanding' /\ scratch0' = "SELECT" => dsp = "SELECT"
    <3>1. CASE Reselected
        BY <3>1 DEF Reselected
    <3>2. CASE ~Reselected
        BY <1>1, <1>2, <1>3, <3>2
        DEF Chip, Trouble, WaitSigp, SelectWon, SelectDone, SelectTimeout,
            SendCommand, DataPhase, PhaseMismatch, CommandComplete, Disconnect, FreeIt,
            Reconnected, Reselect, UnexpectedDisconnect, BusError, ConnectedTrouble
    <3> QED
        BY <3>1, <3>2
  <2> QED
      BY <1>1, <2>1, <2>2 DEF Steady, Begins, ncr_ph_select
<1>6. Goes'
  <2>1. /\ conn \in Targets \cup {NoTarget} /\ NoTarget \notin Targets
        /\ tgt \in [Targets -> [st : TargetStates, cmd : Commands]] /\ phythread \in Ids
      BY IdsAssumption DEF Settling, Known, Grounded, TypeOK, BusOK, SchedOK, Ids
  <2>2. Goes
      BY DEF Steady
  <2> USE DEF Goes
  <2>3. CASE WaitSigp \/ SelectTimeout \/ SelectDone
      BY <1>1, <1>3, <2>1, <2>2, <2>3 DEF WaitSigp, SelectTimeout, SelectDone
  <2>4. CASE DataPhase \/ PhaseMismatch \/ SendCommand
      BY <1>1, <1>3, <2>1, <2>2, <2>4 DEF DataPhase, PhaseMismatch, SendCommand
  <2>5. CASE CommandComplete \/ Disconnect \/ UnexpectedDisconnect
      BY <1>1, <1>3, <2>1, <2>2, <2>5 DEF CommandComplete, Disconnect, UnexpectedDisconnect
  <2>6. CASE FreeIt
      BY <1>1, <1>3, <2>1, <2>2, <2>6 DEF FreeIt
  <2>7. CASE Reselected
      BY <1>1, <1>3, <2>1, <2>2, <2>7 DEF Reselected
  <2>8. ASSUME NEW t \in Targets, Reselect(t) PROVE Goes'
      BY <1>1, <1>3, <2>1, <2>2, <2>8 DEF Reselect
  <2>9. CASE SelectWon
    <3>1. phythread \in Targets
        BY <2>9, IdsAssumption DEF SelectWon
    <3> QED
        BY <1>1, <1>3, <2>1, <2>2, <2>9, <3>1 DEF SelectWon
  <2>10. CASE BusError
      BY <1>1, <1>3, <2>1, <2>2, <2>10 DEF BusError, Fault
  <2>11. ASSUME NEW kind, NEW c \in {"SGE", "PAR", "PM", "UNKNPH", "BADMSG"},
                ConnectedTrouble(kind, c), c = "SGE" => kind = "sge"
         PROVE  Goes'
    <3>1. c # "SGE"
        BY <2>11 DEF ConnectedTrouble, Fault, SteadyFaults
    <3> QED
        BY <1>1, <1>3, <2>1, <2>2, <2>11, <3>1 DEF ConnectedTrouble, Fault
  <2> QED
      BY <1>2, <2>3, <2>4, <2>5, <2>6, <2>7, <2>8, <2>9, <2>10, <2>11,
         NeverAgain
      DEF Chip, Trouble, Settling, Known, Grounded, IrqQueues
<1> QED
    BY <1>4, <1>5, <1>6 DEF Steady

\* What comes with a connected target is served while its thread is physical.
LEMMA MendingConnected ==
    ASSUME Settling, Steady, NEW c \in Mending, Serve(c)
    PROVE  conn \in Targets /\ phythread = conn
<1>1. /\ c \in outstanding /\ conn \in Targets \cup {NoTarget} /\ "RRST" \notin outstanding
      /\ ReselBits \cap outstanding = {}
    BY Serving DEF Settling, Known, Steady, Goes, Mending, ReselBits, ScsiBits, DmaBits
<1>2. conn # NoTarget
    BY <1>1 DEF Settling, Known, Engaged, Steady, Goes, Mending
<1>3. tgt[conn].st # "reselecting"
    BY <1>1, <1>2 DEF Settling, Known, Engaged
<1> QED
    BY <1>1, <1>2, <1>3 DEF Settling, Known, Grounded, Connection

LEMMA ServeSteady ==
    ASSUME SteadyFaults, Settling, Steady, Irq, NEW c, Serve(c), Outcome(c), BusAlone
    PROVE  Steady'
<1>1. /\ c \in outstanding /\ outstanding = todo /\ outstanding' = todo \ {c}
      /\ UNCHANGED <<pc, cid, conn, tgt, busrst, chipbusy, scratch0>>
    BY Serving DEF Settling, Known, Serve, BusAlone, outstanding
<1>2. Grounded /\ Carried /\ TypeOK
    BY DEF Settling, Known, Grounded
<1>3. /\ conn \in Targets \cup {NoTarget} /\ phythread \in Ids /\ SelfId \in Ids
      /\ NoTarget \notin Targets /\ SelfId \notin Targets /\ Ids = Targets \cup {SelfId}
      /\ threadstate \in [Ids -> ThreadStates]
    BY <1>2, Serving DEF TypeOK, ThreadsOK, Ids
<1>4. phythread \in Targets => threadstate[phythread] = "PHYSICAL"
    BY DEF Settling, Carried, Owned
<1>5. "RRST" \notin outstanding /\ c \notin {"RRST", "NOTMSGI"}
    BY <1>1 DEF Steady, Goes, Settling, Known, Follows, Conditions
<1>6. "SC_RESEL" \notin outstanding'
  <2>1. "SC_RESEL" \in todo => c = "SC_RESEL"
      BY <1>2, Serving DEF ScsiBits, DmaBits
  <2> QED
      BY <1>1, <2>1
\* a thread that comes to be pending is one whose selection is put off
<1>7. ASSUME NEW t \in Targets, threadstate'[t] = "PENDING"
      PROVE  scriptstart'[t] = "SELECT"
  <2>1. CASE threadstate[t] = "PENDING"
      BY <1>2, <1>3, <1>4, <2>1, ScriptsKept DEF Steady, Begins
  <2>2. CASE c = "SC_RESEL" /\ phythread = t /\ conn # t
    <3>1. ncr_ph_select
        BY <1>3, <1>7, <2>2 DEF Outcome, Ending, Mending, Continues
    <3> QED
        BY <1>1, <1>2, <1>3, <2>2, <3>1, ScriptsKept DEF Steady, Begins
  <2> QED
      BY <1>2, <1>7, <2>1, <2>2, ServeThread
\* how the SCRIPT is started
<1>8. ASSUME NEW ts \in [Ids -> ThreadStates], ts[SelfId] # "PENDING", Starts(ts),
             \A t \in Targets : ts[t] = "PENDING" => threadstate[t] = "PENDING"
      PROVE  \/ dsp' = "WAITFORRESELECT" /\ phythread' = SelfId
             \/ /\ dsp' = "SELECT" /\ phythread' \in Targets
                /\ threadstate[phythread'] = "PENDING"
  <2>1. CASE phythread' = SelfId
      BY <1>8, <2>1 DEF Starts
  <2>2. CASE phythread' # SelfId
    <3>1. phythread' \in Targets /\ ts[phythread'] = "PENDING"
        BY <1>3, <1>8, <2>2, NextThread DEF Starts
    <3>2. threadstate[phythread'] = "PENDING"
        BY <1>8, <3>1
    <3> QED
        BY <1>8, <2>2, <3>1, <3>2 DEF Starts, Steady, Begins
  <2> QED
      BY <2>1, <2>2
<1>9. threadstate[SelfId] # "PENDING"
    BY DEF Settling, IdleThread
<1>10. \/ /\ conn = NoTarget
          /\ \/ dsp' = "WAITFORRESELECT" /\ phythread' = SelfId
             \/ /\ dsp' = "SELECT" /\ phythread' \in Targets
                /\ threadstate[phythread'] = "PENDING"
       \/ conn \in Targets /\ dsp' = "WHICHPHASE" /\ phythread' = conn
       \/ dsp' = "FREEIT"
  <2>1. c \in Ending \cup {"SC_SIGP", "SC_IDISC"} => conn = NoTarget
      BY <1>1, <1>2 DEF Grounded, BusFree
  <2>2. CASE c \in Ending
    <3>1. finished(phythread) \in [Ids -> ThreadStates]
        BY <1>3 DEF finished, ThreadStates
    <3>2. \A i \in Ids : finished(phythread)[i] = "PENDING" => threadstate[i] = "PENDING"
        BY <1>3 DEF finished
    <3>3. Starts(finished(phythread))
        BY <2>2 DEF Outcome, Ending, Mending
    <3> QED
        BY <1>3, <1>8, <1>9, <2>1, <2>2, <3>1, <3>2, <3>3
  <2>3. CASE c = "SC_SIGP"
      BY <1>3, <1>8, <1>9, <2>1, <2>3 DEF Outcome, Ending, Mending
  <2>4. CASE c = "SC_IDISC"
    <3> DEFINE ts == [threadstate EXCEPT ![phythread] = "LOGICAL"]
    <3>1. ts \in [Ids -> ThreadStates] /\ Starts(ts)
        BY <1>3, <2>4 DEF Outcome, Ending, Mending, ThreadStates
    <3>2. \A i \in Ids : ts[i] = "PENDING" => threadstate[i] = "PENDING"
        BY <1>3
    <3> QED
        BY <1>3, <1>8, <1>9, <2>1, <2>4, <3>1, <3>2
  <2>5. CASE c = "SC_RESEL"
    <3>1. conn \in Targets
        BY <1>1, <1>2, <2>5, Serving DEF TypeOK, IrqOK, ScsiBits, DmaBits, ReselBits
    <3> QED
        BY <1>3, <2>5, <3>1 DEF Outcome, Ending, Mending, Continues
  <2>6. CASE c \in Mending
    <3>1. conn \in Targets /\ phythread = conn
        BY <2>6, MendingConnected
    <3> QED
        BY <1>3, <2>6, <3>1 DEF Outcome, Ending, Mending, Continues, Frees
  <2> QED
      BY <1>5, <2>2, <2>3, <2>4, <2>5, <2>6 DEF Outcome
<1>11. Begins'
  <2>1. \A p \in Procs : pc'[p] = "enqueue" => scriptstart'[cid'[p]] = "SELECT"
    <3> SUFFICES ASSUME NEW p \in Procs, pc[p] = "enqueue"
                 PROVE  scriptstart'[cid[p]] = "SELECT"
        BY <1>1
    <3>1. cid[p] \in Targets
        BY <1>2, <1>3 DEF Settling, IdleThread, TypeOK, CallersOK
    <3>2. cid[p] # phythread
        BY <1>2, <1>4, <3>1, NotInUse DEF Grounded, Carried, Settled, Critical
    <3> QED
        BY <1>2, <1>3, <3>1, <3>2, ScriptsKept DEF Steady, Begins
  <2>2. dsp' = "SELECT" => scriptstart'[phythread'] = "SELECT"
    <3> SUFFICES ASSUME dsp' = "SELECT" PROVE scriptstart'[phythread'] = "SELECT"
        OBVIOUS
    <3>1. PICK t \in Targets : t = phythread' /\ threadstate[t] = "PENDING"
        BY <1>10
    <3>2. scriptstart'[t] = scriptstart[t]
        BY <1>2, <1>3, <1>4, <3>1, ScriptsKept
    <3> QED
        BY <3>1, <3>2 DEF Steady, Begins
  <2> QED
      BY <1>6, <1>7, <2>1, <2>2 DEF Begins
<1>12. Goes'
  <2>1. outstanding' \cap {"RRST", "SGE"} = {} /\ chipbusy' = "CHIPFREE" /\ ~busrst'
      BY <1>1 DEF Steady, Goes
  <2>2. "PM" \in outstanding' => conn' # NoTarget
      BY <1>1 DEF Steady, Goes
  <2> QED
      BY <1>1, <1>3, <1>10, <2>1, <2>2 DEF Goes
<1>13. Awaited'
  <2> SUFFICES ASSUME NEW p \in Procs, pc[p] \in {"check", "sleep"}
               PROVE  threadstate'[cid[p]] # "EMPTY"
      BY <1>1 DEF Awaited
  <2>1. cid[p] \in Targets
      BY <1>2, <1>3 DEF Settling, IdleThread, TypeOK, CallersOK
  <2> QED
      BY <1>2, <2>1, ServeThread DEF Steady, Awaited
<1> QED
    BY <1>11, <1>12, <1>13 DEF Steady

LEMMA SteadyStep ==
    ASSUME SteadyFaults, Settling, Steady, [Next]_vars
    PROVE  Steady'
<1>1. Grounded /\ TypeOK
    BY DEF Settling, Known, Grounded
<1>2. CASE IrqSort
  <2>1. chipbusy' = chipbusy /\ intr # {}
      BY <1>2 DEF IrqSort
  <2>2. outstanding # {} /\ outstanding' # {}
      BY <1>1, <1>2, <2>1, SortKeeps DEF outstanding, Steady, Goes
  <2> QED
      BY <1>1, <1>2, <2>1, <2>2, SortKeeps DEF Steady, Begins, Goes, Awaited, ncr_ph_select
<1>3. CASE IrqExit
    BY <1>3 DEF IrqExit, Steady, Begins, Goes, Awaited, ncr_ph_select, outstanding
<1>4. CASE siop_sge
  <2>1. "SGE" \in outstanding
      BY <1>4 DEF siop_sge, Serve, outstanding
  <2> QED
      BY <2>1 DEF Steady, Goes
<1>5. CASE seltoirq
    BY <1>1, <1>5 DEF seltoirq, TimerSelect, TimerReset, TimerFree, TimerIdle, Timer, Grounded,
                IrqQueues
<1>6. CASE UNCHANGED vars
    BY <1>6 DEF vars, Steady, Begins, Goes, Awaited, ncr_ph_select, outstanding
<1>7. CASE Irq
    BY <1>1, <1>2, <1>3, <1>4, <1>7, IrqOutcome, ServeSteady
<1> QED
    BY <1>5, <1>6, <1>7, ProcessSteady, ChipSteady DEF Next

\* A thread in use has the chip, or an interrupt on its way, or a target that can reselect.
LEMMA ThreadMoves ==
    ASSUME Settling, Steady, Agree, AtRest, outstanding = {},
           NEW t \in Targets, ~Settled(t)
    PROVE  ChipMoves
<1>1. /\ conn \in Targets \cup {NoTarget} /\ NoTarget \notin Targets
      /\ dsp \in Entries \cup {"HALT", "SELECTED", "DATA", "FREEIT"}
      /\ threadstate[t] \in ThreadStates
    BY IdsAssumption DEF Settling, Known, Grounded, TypeOK, BusOK, ThreadsOK, Ids
<1>2. Running /\ Goes
    BY DEF Running, outstanding, Steady, Goes
<1>3. dsp = "WHICHPHASE" => tgt[conn].st \in {"selected", "busy"}
    BY <1>1, <1>2 DEF Goes, Settling, Known, Grounded, Connection, Engaged, ReselBits
<1>4. CASE dsp = "WAITFORRESELECT" /\ conn = NoTarget
  <2>1. phythread = SelfId /\ OnePhysical
      BY <1>4 DEF Settling, Known, Follows, ChipFollows
  <2>2. threadstate[t] # "PHYSICAL"
      BY <2>1, IdsAssumption DEF OnePhysical
  <2>3. CASE threadstate[t] = "PENDING"
    <3>1. sigp
        BY <1>4, <2>3 DEF AtRest, AnyPending, Ids
    <3> QED
        BY <1>2, <1>4, <3>1 DEF ChipMoves
  <2>4. CASE threadstate[t] = "LOGICAL"
    <3>1. Away(t)
        BY <1>2, <2>4 DEF Agree, Tracked, Goes
    <3>2. tgt[t].st = "disconnected"
        BY <1>1, <1>4, <3>1 DEF Away, Settling, Carried, Carries
    <3> QED
        BY <1>2, <1>4, <3>2 DEF ChipMoves, Goes
  <2> QED
      BY <1>1, <2>2, <2>3, <2>4 DEF Settled, ThreadStates
<1>5. CASE ~(dsp = "WAITFORRESELECT" /\ conn = NoTarget)
    BY <1>1, <1>2, <1>3, <1>5 DEF ChipMoves, Goes, Entries
<1> QED
    BY <1>4, <1>5

\* As long as a call is under way some party can go on without any trouble's help: a
\* process, the chip with its target, or irq().  So what wedges the driver is only a bus
\* reset, a gross error, a target that drops off with its command, a bus error at rest or
\* a missing message: each other fault, in any number and order, leaves it running.
THEOREM NeverStuck ==
    ASSUME SteadyFaults, OwnIdUnused
    PROVE  Spec => []((\E p \in Procs : pc[p] # "idle")
                      => IrqMoves \/ ChipMoves \/ \E p \in Procs : ProcessMoves(p))
<1> DEFINE Someone == (\E p \in Procs : pc[p] # "idle")
                      => IrqMoves \/ ChipMoves \/ \E p \in Procs : ProcessMoves(p)
<1>1. Init => Steady
    BY IdsAssumption DEF Init, Steady, Begins, Goes, Awaited, outstanding, Ids
<1>2. Settling /\ Steady /\ [Next]_vars => Steady'
    BY SteadyStep
<1>3. Settling /\ Steady /\ Agree /\ AtRest /\ NoLostWakeup => Someone
  <2> SUFFICES ASSUME Settling, Steady, Agree, AtRest, NoLostWakeup, ~IrqMoves,
                      NEW p \in Procs, pc[p] # "idle"
               PROVE  ChipMoves \/ \E q \in Procs : ProcessMoves(q)
      OBVIOUS
  <2>1. ~inirq /\ outstanding = {} /\ chipbusy = "CHIPFREE"
      BY DEF IrqMoves, Steady, Goes
  <2>2. /\ pc \in [Procs -> {"idle", "chipwait", "grabsem", "semwait"} \cup Critical]
        /\ cid \in [Procs -> Ids] /\ thread_sem \in [Ids -> 0..1]
      BY DEF Settling, Known, Grounded, TypeOK, CallersOK, ThreadsOK
  \* the owner of a thread can go on, or its thread can
  <2>3. ASSUME NEW q \in Procs, pc[q] \in Critical
        PROVE  ChipMoves \/ ProcessMoves(q)
    <3>1. CASE pc[q] # "sleep"
        BY <2>1, <2>3, <3>1 DEF ProcessMoves, Critical
    <3>2. CASE pc[q] = "sleep"
      <4>1. cid[q] \in Targets /\ threadstate[cid[q]] # "EMPTY"
          BY <2>2, <3>2 DEF Settling, IdleThread, Steady, Awaited, Ids
      <4>2. CASE threadstate[cid[q]] = "DONE"
          BY <2>1, <3>2, <4>2 DEF NoLostWakeup, ProcessMoves
      <4>3. CASE threadstate[cid[q]] # "DONE"
          BY <2>1, <4>1, <4>3, ThreadMoves DEF Settled
      <4> QED
          BY <4>2, <4>3
    <3> QED
        BY <3>1, <3>2
  \* who waits for a semaphore waits for such an owner
  <2>4. CASE pc[p] = "semwait" /\ ~semFree(cid[p])
    <3>1. thread_sem[cid[p]] = 1
        BY <2>2, <2>4 DEF semFree
    <3>2. PICK q \in Procs : pc[q] \in Critical
        BY <2>2, <3>1 DEF Settling, Known, Grounded, OneOwner
    <3> QED
        BY <2>3, <3>2
  <2>5. CASE pc[p] \in {"chipwait", "grabsem"} \/ (pc[p] = "semwait" /\ semFree(cid[p]))
      BY <2>1, <2>5 DEF ProcessMoves
  <2> QED
      BY <2>2, <2>3, <2>4, <2>5
<1>4. Known /\ Carried /\ IdleThread => Settling
    BY DEF Settling
<1>5. ~AuxTimer /\ PlainFaults /\ CommandsKept /\ KeptFaults
    BY DEF SteadyFaults, KeptFaults, CommandsKept
<1> HIDE DEF Someone
<1>6. Spec => []Someone
    BY <1>1, <1>2, <1>3, <1>4, <1>5, AlwaysKnown, AlwaysCarried, AlwaysIdle, AlwaysAgree,
       AlwaysAtRest, WakeSent, PTL DEF Spec
<1> QED
    BY <1>6 DEF Someone
=============================================================================
