--------------------------- MODULE NcrSiopProofs ---------------------------
(***************************************************************************)
(* Theorems about NcrSiop for every set of processes and ids, every kind   *)
(* and number of faults and both builds.                                   *)
(***************************************************************************)
EXTENDS NcrSiop, FiniteSetTheorems, TLAPS

-----------------------------------------------------------------------------
(***************************************************************************)
(* Lemmas about the operators of the driver.                               *)
(***************************************************************************)
\* A non-empty set of SCSI ids has a highest one.
LEMMA HighestId ==
    ASSUME NEW S, S \subseteq 0..(NTHREADS - 1), S # {}
    PROVE  \E i \in S : \A j \in S : j <= i
<1> SUFFICES ASSUME \A i \in S : \E j \in S : j > i
             PROVE  FALSE
    BY DEF NTHREADS
<1>1. 7 \notin S
    BY DEF NTHREADS
<1>2. 6 \notin S /\ 5 \notin S
    BY <1>1 DEF NTHREADS
<1>3. 4 \notin S /\ 3 \notin S
    BY <1>1, <1>2 DEF NTHREADS
<1>4. 2 \notin S /\ 1 \notin S
    BY <1>1, <1>2, <1>3 DEF NTHREADS
<1>5. 0 \notin S
    BY <1>1, <1>2, <1>3, <1>4 DEF NTHREADS
<1>6. PICK i : i \in S
    OBVIOUS
<1>7. i \in 0..7
    BY <1>6 DEF NTHREADS
<1> QED
    BY <1>1, <1>2, <1>3, <1>4, <1>5, <1>6, <1>7

\* reschedule() finds a pending thread if there is one, else the idle thread.
LEMMA NextThread ==
    ASSUME NEW ts
    PROVE  /\ nextThread(ts) \in Ids
           /\ \/ ts[nextThread(ts)] = "PENDING"
              \/ nextThread(ts) = SelfId /\ \A i \in Ids : ts[i] # "PENDING"
<1> DEFINE pending == {i \in Ids : ts[i] = "PENDING"}
           others  == pending \ {lastthread}
<1>1. CASE others # {}
  <2>1. \E i \in others : \A j \in others : j <= i
      BY <1>1, IdsAssumption, HighestId
  <2>2. nextThread(ts) = CHOOSE i \in others : \A j \in others : j <= i
      BY <1>1 DEF nextThread
  <2> QED
      BY <2>1, <2>2
<1>2. CASE others = {} /\ pending # {}
    BY <1>2 DEF nextThread
<1>3. CASE pending = {}
    BY <1>3 DEF nextThread, Ids
<1> QED
    BY <1>1, <1>2, <1>3

\* rethread() leaves the scheduler, the timer and the chip well typed.
LEMMA RethreadType ==
    ASSUME NEW i \in Ids, NEW entry \in Entries, NEW ts \in [Ids -> ThreadStates],
           NEW sip \in BOOLEAN, NEW tmr \in Timers,
           rethread(i, entry, ts, sip, tmr)
    PROVE  /\ phythread' \in Ids
           /\ threadstate' \in [Ids -> ThreadStates]
           /\ sipflag' \in BOOLEAN
           /\ timer' \in Timers
           /\ dsp' \in Entries
    BY DEF rethread, start_sto, ThreadStates, Timers, Entries

\* So does reschedule().
LEMMA RescheduleType ==
    ASSUME scriptstart \in [Ids -> Entries], lastthread \in Ids \cup {0},
           NEW ts \in [Ids -> ThreadStates], NEW sip \in BOOLEAN, NEW tmr \in Timers,
           reschedule(ts, sip, tmr)
    PROVE  /\ phythread' \in Ids
           /\ threadstate' \in [Ids -> ThreadStates]
           /\ sipflag' \in BOOLEAN
           /\ timer' \in Timers
           /\ dsp' \in Entries
           /\ lastthread' \in Ids \cup {0}
<1> DEFINE next == nextThread(ts)
<1>1. next \in Ids
    BY NextThread
<1>2. rethread(next, scriptstart[next], ts, sip, tmr)
    BY DEF reschedule
<1>3. lastthread' \in Ids \cup {0}
    BY <1>1 DEF reschedule
<1> QED
    BY <1>1, <1>2, <1>3, RethreadType

\* One irq() queues a natural number of wake-ups, for processes or for nobody.
LEMMA QueueType ==
    ASSUME wakes \in Nat, wakequeue \subseteq Procs \cup {NoProc},
           NEW n \in Nat, NEW pids, pids \subseteq Procs \cup {NoProc},
           queueWakes(n, pids)
    PROVE  wakes' \in Nat /\ wakequeue' \subseteq Procs \cup {NoProc}
    BY DEF queueWakes

-----------------------------------------------------------------------------
(***************************************************************************)
(* Type correctness, one lemma per party.                                  *)
(***************************************************************************)
USE DEF procVars, semVars, cmdVars, threadVars, wakeVars, schedVars, busVars, irqVars

LEMMA InitType == Init => TypeOK
<1> SUFFICES ASSUME Init PROVE TypeOK
    OBVIOUS
<1>1. CallersOK
    BY CommandAssumption DEF Init, CallersOK, Ids, Critical
<1>2. ThreadsOK
    BY CommandAssumption DEF Init, ThreadsOK, ThreadStates, Entries, ChipErrors
<1>3. SchedOK
    BY DEF Init, SchedOK, Ids, Timers
<1>4. BusOK
  <2>1. NoCmd \in Commands
      BY CommandAssumption DEF NoCmd, Commands
  <2>2. [st |-> "free", cmd |-> NoCmd] \in [st : TargetStates, cmd : Commands]
      BY <2>1 DEF TargetStates
  <2>3. tgt = [t \in Targets |-> [st |-> "free", cmd |-> NoCmd]]
      BY DEF Init
  <2>4. tgt \in [Targets -> [st : TargetStates, cmd : Commands]]
      BY <2>2, <2>3
  <2>5. dsp \in Entries /\ scratch0 \in Phases /\ sigp \in BOOLEAN /\ busrst \in BOOLEAN
      BY DEF Init, Entries, Phases
  <2>6. conn = NoTarget /\ nfaults \in 0..MaxFaults
      BY BuildAssumption DEF Init
  <2> QED
      BY <2>4, <2>5, <2>6 DEF BusOK
<1>5. IrqOK
    BY DEF Init, IrqOK
<1> QED
    BY <1>1, <1>2, <1>3, <1>4, <1>5 DEF TypeOK

\* A process in exec().
LEMMA ExecType ==
    ASSUME TypeOK, NEW p \in Procs, NEW i \in Uses[p], Exec(p, i)
    PROVE  TypeOK'
<1> USE DEF Exec, TypeOK
<1>1. CallersOK'
  <2>1. (tag[p] + 1) % Tags \in 0..(Tags - 1)
      BY CommandAssumption DEF CallersOK
  <2>2. i \in Ids
      BY ProcsAssumption
  <2> QED
      BY <2>1, <2>2 DEF CallersOK, Critical
<1>2. ThreadsOK' /\ SchedOK' /\ BusOK' /\ IrqOK'
    BY DEF ThreadsOK, SchedOK, BusOK, IrqOK
<1> QED
    BY <1>1, <1>2

LEMMA ProcessType ==
    ASSUME TypeOK, NEW p \in Procs, Process(p)
    PROVE  TypeOK'
<1> USE DEF TypeOK, CallersOK, ThreadsOK, SchedOK, BusOK, IrqOK, Critical
<1>1. CASE ChipWait(p)
    BY <1>1 DEF ChipWait
<1>2. CASE GrabSem(p)
  <2>1. waiters' \in [Ids -> Int]
      BY <1>2 DEF GrabSem
  <2>2. thread_sem' \in [Ids -> 0..1]
      BY <1>2 DEF GrabSem
  <2>3. CallersOK'
      BY <1>2 DEF GrabSem
  <2>4. ThreadsOK'
      BY <1>2, <2>1, <2>2 DEF GrabSem
  <2>5. SchedOK' /\ BusOK' /\ IrqOK'
      BY <1>2 DEF GrabSem
  <2> QED
      BY <2>3, <2>4, <2>5
<1>3. CASE WaitSem(p)
  <2>1. waiters' \in [Ids -> Int]
      BY <1>3 DEF WaitSem
  <2>2. CallersOK'
      BY <1>3 DEF WaitSem
  <2>3. ThreadsOK'
      BY <1>3, <2>1 DEF WaitSem
  <2>4. SchedOK' /\ BusOK' /\ IrqOK'
      BY <1>3 DEF WaitSem
  <2> QED
      BY <2>2, <2>3, <2>4
<1>4. CASE Setup(p)
    BY CommandAssumption, <1>4 DEF Setup, Entries, ChipErrors
<1>5. CASE Enqueue(p)
    BY <1>5 DEF Enqueue, ncr_kick, ThreadStates
<1>6. CASE CheckDone(p)
    BY <1>6 DEF CheckDone
<1>7. CASE WakeUp(p)
    BY <1>7 DEF WakeUp
<1>8. CASE Return(p)
    BY <1>8 DEF Return, command
<1> QED
    BY <1>1, <1>2, <1>3, <1>4, <1>5, <1>6, <1>7, <1>8 DEF Process

\* The chip and the targets, well-behaved or not.
LEMMA ChipType ==
    ASSUME TypeOK, Chip
    PROVE  TypeOK'
<1> USE DEF TypeOK, CallersOK, ThreadsOK, SchedOK, BusOK, IrqOK, ChipOnly, Running,
            Connected, Latch, Phases, Entries, TargetStates, ScsiBits, DmaBits, ReselBits
<1>1. NoCmd \in Commands /\ \A p \in Procs \cup {NoProc} : command(p) \in Commands
    BY CommandAssumption DEF NoCmd, Commands, command
<1>2. CASE WaitSigp
  <2>1. CallersOK' /\ ThreadsOK' /\ SchedOK'
      BY <1>2 DEF WaitSigp
  <2>2. BusOK'
      BY <1>2 DEF WaitSigp
  <2>3. IrqOK'
      BY <1>2 DEF WaitSigp
  <2> QED
      BY <2>1, <2>2, <2>3
<1>3. CASE SelectWon
    BY IdsAssumption, <1>1, <1>3 DEF SelectWon
<1>4. CASE SelectDone
    BY <1>1, <1>4 DEF SelectDone
<1>5. CASE SelectTimeout
    BY <1>1, <1>5 DEF SelectTimeout
<1>6. CASE SendCommand
    BY <1>1, <1>6 DEF SendCommand
<1>7. CASE DataPhase
    BY <1>1, <1>7 DEF DataPhase
<1>8. CASE PhaseMismatch
    BY <1>1, <1>8 DEF PhaseMismatch
<1>9. CASE CommandComplete
    BY <1>1, <1>9 DEF CommandComplete
<1>10. CASE Disconnect
    BY <1>1, <1>10 DEF Disconnect
<1>11. CASE FreeIt
    BY <1>1, <1>11 DEF FreeIt
<1>12. CASE Reselected
  <2>1. CallersOK' /\ ThreadsOK' /\ SchedOK'
      BY <1>12 DEF Reselected
  <2>2. BusOK'
    <3>1. conn \in Targets
        BY <1>12 DEF Reselected
    <3>2. tgt' \in [Targets -> [st : TargetStates, cmd : Commands]]
        BY <1>12, <3>1 DEF Reselected
    <3> QED
        BY BuildAssumption, <1>12, <3>2 DEF Reselected
  <2>3. IrqOK'
      BY <1>12 DEF Reselected
  <2> QED
      BY <2>1, <2>2, <2>3
<1>13. ASSUME NEW t \in Targets, Reselect(t) PROVE TypeOK'
    BY <1>13 DEF Reselect
<1>14. CASE Reconnected
  <2>1. CallersOK' /\ ThreadsOK' /\ SchedOK'
      BY <1>14 DEF Reconnected
  <2>2. BusOK'
      BY <1>14 DEF Reconnected
  <2>3. IrqOK'
    <3>1. \E c \in {"SC_AGAIN", "PM"} : intr' = {c}
        BY <1>14 DEF Reconnected
    <3>2. AuxTimer /\ todo = {} /\ todo' = {} /\ inirq' = inirq /\ inirq \in BOOLEAN
        BY <1>14 DEF Reconnected
    <3>3. intr' \cap ReselBits = {}
        BY <3>1
    <3> QED
        BY <3>1, <3>2, <3>3
  <2> QED
      BY <2>1, <2>2, <2>3
<1> QED
    BY <1>2, <1>3, <1>4, <1>5, <1>6, <1>7, <1>8, <1>9, <1>10, <1>11, <1>12, <1>13, <1>14
    DEF Chip

LEMMA TroubleType ==
    ASSUME TypeOK, Trouble
    PROVE  TypeOK'
<1> USE DEF TypeOK, CallersOK, ThreadsOK, SchedOK, BusOK, IrqOK, ChipOnly, Running,
            Connected, Latch, Fault, Entries, TargetStates, ScsiBits, DmaBits, ReselBits
<1>1. NoCmd \in Commands
    BY CommandAssumption DEF NoCmd, Commands
<1>2. \A kind : Fault(kind) => nfaults' \in 0..MaxFaults
    BY BuildAssumption
<1>3. CASE UnexpectedDisconnect
    BY <1>1, <1>2, <1>3 DEF UnexpectedDisconnect
<1>4. CASE BusReset
  <2>1. CallersOK' /\ ThreadsOK' /\ SchedOK'
      BY <1>4 DEF BusReset
  <2>2. BusOK'
      BY <1>1, <1>2, <1>4 DEF BusReset
  <2>3. IrqOK'
    <3>1. todo = {} /\ todo' = {} /\ inirq' = inirq
        BY <1>4 DEF BusReset
    <3>2. PICK more \in {{}, {"UDC"}} : intr' = intr \cup {"RRST"} \cup more
        BY <1>4 DEF BusReset
    <3>3. intr' \subseteq ScsiBits \cup DmaBits /\ intr' \cap ScsiBits # {}
        BY <3>2
    <3>4. "SC_AGAIN" \in intr' => AuxTimer
        BY <3>2
    <3> QED
        BY <3>1, <3>3, <3>4
  <2> QED
      BY <2>1, <2>2, <2>3
<1>5. CASE BusError
    BY <1>2, <1>5 DEF BusError
<1>6. ASSUME NEW kind, NEW c \in {"SGE", "PAR", "PM", "UNKNPH", "BADMSG"},
             ConnectedTrouble(kind, c)
      PROVE  TypeOK'
    BY <1>2, <1>6 DEF ConnectedTrouble
<1> QED
    BY <1>3, <1>4, <1>5, <1>6 DEF Trouble

-----------------------------------------------------------------------------
\* The interrupt service.  What serving a condition leaves to its routine:
RoutineOK == /\ chiperror' \in [Ids -> ChipErrors] /\ scriptstart' \in [Ids -> Entries]
           /\ threadstate' \in [Ids -> ThreadStates]
           /\ wakes' \in Nat /\ wakequeue' \subseteq Procs \cup {NoProc}
           /\ phythread' \in Ids /\ sipflag' \in BOOLEAN /\ timer' \in Timers
           /\ lastthread' \in Ids \cup {0}
           /\ dsp' \in Entries \cup {"HALT", "SELECTED", "DATA", "FREEIT"}

LEMMA ServeType ==
    ASSUME TypeOK, NEW c, Serve(c), RoutineOK, BusAlone
    PROVE  TypeOK'
<1> USE DEF Serve, RoutineOK, BusAlone
<1>1. CallersOK' /\ ThreadsOK' /\ SchedOK'
    BY DEF TypeOK, CallersOK, ThreadsOK, SchedOK
<1>2. BusOK'
    BY DEF TypeOK, BusOK
<1>3. IrqOK'
    BY DEF TypeOK, IrqOK, ScsiBits, DmaBits, ReselBits
<1> QED
    BY <1>1, <1>2, <1>3 DEF TypeOK

LEMMA FreeType ==
    ASSUME TypeOK, NEW i \in Ids, scsi_free(i)
    PROVE  /\ phythread' \in Ids /\ sipflag' \in BOOLEAN /\ timer' \in Timers
           /\ threadstate' \in [Ids -> ThreadStates]
           /\ lastthread' \in Ids \cup {0}
           /\ dsp' \in Entries \cup {"FREEIT"}
<1> DEFINE ts == [threadstate EXCEPT ![i] = "EMPTY"]
<1>1. ts \in [Ids -> ThreadStates]
    BY DEF TypeOK, ThreadsOK, ThreadStates
<1>2. CASE i = SelfId
    BY <1>1, <1>2, RescheduleType DEF scsi_free, TypeOK, ThreadsOK, SchedOK
<1>3. CASE i # SelfId
    BY <1>3 DEF scsi_free, TypeOK, ThreadsOK, SchedOK
<1> QED
    BY <1>2, <1>3

\* The thread of each id whose target is broken is finished; the answer is kept.
LEMMA ResetType ==
    ASSUME TypeOK, NEW tmr \in Timers, resetThreads(tmr)
    PROVE  RoutineOK
<1> DEFINE ts == [i \in Ids |-> IF i \in broken THEN "DONE" ELSE threadstate[i]]
<1>1. Cardinality(broken) \in Nat
  <2>1. broken \subseteq 0..7
      BY IdsAssumption DEF broken, Ids, NTHREADS
  <2>2. IsFiniteSet(broken)
      BY <2>1, FS_BoundedSetOfNaturals
  <2> QED
      BY <2>2, FS_CardinalityType
<1>2. {processid[i] : i \in broken} \subseteq Procs \cup {NoProc}
    BY DEF broken, TypeOK, ThreadsOK, Ids
<1>3. wakes' \in Nat /\ wakequeue' \subseteq Procs \cup {NoProc}
    BY <1>1, <1>2, QueueType DEF resetThreads, TypeOK, SchedOK
<1>4. ts \in [Ids -> ThreadStates]
    BY DEF TypeOK, ThreadsOK, ThreadStates
<1>5. reschedule(ts, sipflag, tmr)
    BY DEF resetThreads
<1>6. chiperror' \in [Ids -> ChipErrors] /\ scriptstart' \in [Ids -> Entries]
    BY DEF resetThreads, TypeOK, ThreadsOK, ChipErrors
<1> QED
    BY <1>3, <1>4, <1>5, <1>6, RescheduleType DEF RoutineOK, TypeOK, ThreadsOK, SchedOK

LEMMA IrqType ==
    ASSUME TypeOK, Irq
    PROVE  TypeOK'
<1>1. phythread \in Ids /\ sipflag \in BOOLEAN /\ timer \in Timers
    BY DEF TypeOK, SchedOK
<1>2. "off" \in Timers /\ "WHICHPHASE" \in Entries
    BY DEF Timers, Entries
<1>3. threadstate \in [Ids -> ThreadStates] /\ scriptstart \in [Ids -> Entries]
      /\ chiperror \in [Ids -> ChipErrors]
    BY DEF TypeOK, ThreadsOK
<1>4. \A i \in Ids, e \in ChipErrors : SetError(i, e) => chiperror' \in [Ids -> ChipErrors]
    BY <1>3 DEF SetError
<1>5. {"BUSY", "E_UNIT", "E_HARDWARE"} \subseteq ChipErrors
    BY DEF ChipErrors
<1>6. WakeAlone => wakes' \in Nat /\ wakequeue' \subseteq Procs \cup {NoProc}
    BY DEF WakeAlone, TypeOK, SchedOK
<1>7. queueWakes(1, {processid[phythread]})
      => wakes' \in Nat /\ wakequeue' \subseteq Procs \cup {NoProc}
  <2>1. {processid[phythread]} \subseteq Procs \cup {NoProc}
      BY <1>1 DEF TypeOK, ThreadsOK
  <2> QED
      BY <2>1, QueueType DEF TypeOK, SchedOK
<1>8. finished(phythread) \in [Ids -> ThreadStates]
    BY <1>3 DEF finished, ThreadStates
<1>9. lastthread \in Ids \cup {0}
    BY DEF TypeOK, SchedOK
<1>10. \A c \in ReselBits : Serve(c) => reselector \in Ids
    BY DEF Serve, TypeOK, IrqOK, ScsiBits, DmaBits, ReselBits, reselector, Ids
<1>11. CASE IrqSort
  <2>1. IrqOK'
    <3>1. inirq' = TRUE /\ intr' = {} /\ conn' = conn /\ todo = {}
        BY <1>11 DEF IrqSort, toServe, busVars
    <3>2. CASE intr \cap ScsiBits = {}
      <4>1. todo' = intr /\ todo' \subseteq DmaBits
          BY <1>11, <3>2 DEF IrqSort, toServe, TypeOK, IrqOK
      <4>2. intr \cup todo = intr /\ intr' \cup todo' = intr
          BY <3>1, <4>1
      <4>3. intr \cap ReselBits # {} => conn \in Targets
          BY <3>2, <4>2 DEF TypeOK, IrqOK
      <4>4. (intr' \cup todo') \cap ReselBits # {} => conn' \in Targets
          BY <3>1, <4>2, <4>3
      <4>5. inirq' \in BOOLEAN /\ intr' \subseteq ScsiBits \cup DmaBits
          BY <3>1
      <4>6. "SC_AGAIN" \in intr' \cup todo' => AuxTimer
          BY <4>2 DEF TypeOK, IrqOK
      <4> QED
          BY <3>1, <4>1, <4>4, <4>5, <4>6 DEF IrqOK
    <3>3. CASE intr \cap ScsiBits # {}
      <4>1. todo' = intr \cap ScsiBits
          BY <1>11, <3>3 DEF IrqSort, toServe
      <4>2. (intr' \cup todo') \cap ScsiBits # {} /\ todo' \subseteq ScsiBits
          BY <3>1, <3>3, <4>1
      <4>3. "SC_AGAIN" \notin intr' \cup todo'
          BY <3>1, <4>1 DEF ScsiBits
      <4> QED
          BY <3>1, <4>2, <4>3 DEF IrqOK
    <3> QED
        BY <3>2, <3>3
  <2> QED
      BY <1>11, <2>1 DEF IrqSort, toServe, TypeOK, CallersOK, ThreadsOK, SchedOK, BusOK
<1>12. CASE IrqExit
  <2>1. sig' \in [Procs -> BOOLEAN]
      BY <1>12 DEF IrqExit, TypeOK, CallersOK
  <2>2. CallersOK' /\ ThreadsOK' /\ BusOK'
      BY <1>12, <2>1 DEF IrqExit, TypeOK, CallersOK, ThreadsOK, BusOK
  <2>3. SchedOK'
      BY <1>12 DEF IrqExit, TypeOK, SchedOK
  <2>4. IrqOK'
      BY <1>12 DEF IrqExit, TypeOK, IrqOK
  <2> QED
      BY <2>2, <2>3, <2>4 DEF TypeOK
<1>13. CASE scripti_done
  <2>1. RoutineOK
      BY <1>13, <1>1, <1>2, <1>3, <1>7, <1>8, <1>9, RescheduleType DEF scripti_done, RoutineOK
  <2> QED
      BY <1>13, <2>1, ServeType DEF scripti_done
<1>14. CASE scripti_sigp
  <2>1. RoutineOK
      BY <1>14, <1>1, <1>3, <1>6, <1>9, RescheduleType DEF scripti_sigp, RoutineOK
  <2> QED
      BY <1>14, <2>1, ServeType DEF scripti_sigp
<1>15. CASE scripti_resel
  <2> DEFINE ts == [threadstate EXCEPT ![phythread] =
                       IF ncr_ph_select THEN "PENDING" ELSE "LOGICAL"]
  <2>1. ts \in [Ids -> ThreadStates]
      BY <1>3 DEF ThreadStates
  <2>2. reselector \in Ids
      BY <1>15, <1>10 DEF scripti_resel, ReselBits
  <2>3. RoutineOK
      BY <1>15, <1>1, <1>2, <1>3, <1>6, <1>9, <2>1, <2>2, RethreadType
      DEF scripti_resel, RoutineOK
  <2> QED
      BY <1>15, <2>3, ServeType DEF scripti_resel
<1>16. CASE scripti_idisc
  <2> DEFINE ts == [threadstate EXCEPT ![phythread] = "LOGICAL"]
  <2>1. ts \in [Ids -> ThreadStates]
      BY <1>3 DEF ThreadStates
  <2>2. reschedule(ts, sipflag, timer)
      BY <1>16 DEF scripti_idisc
  <2>3. scriptstart' \in [Ids -> Entries]
      BY <1>16, <1>2, <1>3 DEF scripti_idisc
  <2>4. RoutineOK
      BY <1>16, <1>1, <1>3, <1>6, <1>9, <2>1, <2>2, <2>3, RescheduleType
      DEF scripti_idisc, RoutineOK
  <2> QED
      BY <1>16, <2>4, ServeType DEF scripti_idisc
<1>17. CASE unknph
  <2>1. RoutineOK
      BY <1>17, <1>1, <1>3, <1>4, <1>5, <1>6, FreeType DEF unknph, RoutineOK
  <2> QED
      BY <1>17, <2>1, ServeType DEF unknph
<1>18. CASE notmsgi
  <2>1. reselector \in Ids
      BY <1>18, <1>10 DEF notmsgi, ReselBits
  <2>2. RoutineOK
      BY <1>18, <1>1, <1>2, <1>3, <1>6, <1>9, <2>1, RethreadType DEF notmsgi, RoutineOK
  <2> QED
      BY <1>18, <2>2, ServeType DEF notmsgi
<1>19. CASE scripti_badmsg
  <2>1. RoutineOK
      BY <1>19, <1>1, <1>2, <1>3, <1>4, <1>5, <1>6, <1>9, RethreadType DEF scripti_badmsg, RoutineOK
  <2> QED
      BY <1>19, <2>1, ServeType DEF scripti_badmsg
<1>20. CASE dma_buserror
  <2>1. scriptstart' \in [Ids -> Entries]
      BY <1>20, <1>2, <1>3 DEF dma_buserror
  <2>2. RoutineOK
      BY <1>20, <1>1, <1>2, <1>3, <1>4, <1>5, <1>6, <1>9, <2>1, RethreadType, FreeType
      DEF dma_buserror, RoutineOK
  <2> QED
      BY <1>20, <2>2, ServeType DEF dma_buserror
<1>21. CASE siop_par
  <2>1. RoutineOK
      BY <1>21, <1>1, <1>2, <1>3, <1>4, <1>5, <1>6, <1>9, RethreadType, FreeType DEF siop_par, RoutineOK
  <2> QED
      BY <1>21, <2>1, ServeType DEF siop_par
<1>22. CASE siop_rrst
  <2>1. RoutineOK
      BY <1>22, <1>1, ResetType DEF siop_rrst, RoutineOK
  <2> QED
      BY <1>22, <2>1, ServeType DEF siop_rrst
<1>23. CASE siop_udc
  <2>1. RoutineOK
      BY <1>23, <1>1, <1>3, <1>4, <1>5, <1>7, <1>8, <1>9, RescheduleType DEF siop_udc, RoutineOK
  <2> QED
      BY <1>23, <2>1, ServeType DEF siop_udc
<1>24. CASE siop_sto
  <2>1. RoutineOK
      BY <1>24, <1>1, <1>2, <1>3, <1>4, <1>5, <1>7, <1>8, <1>9, RescheduleType DEF siop_sto, RoutineOK
  <2> QED
      BY <1>24, <2>1, ServeType DEF siop_sto
<1>25. CASE siop_pm
  <2>1. scriptstart' \in [Ids -> Entries]
      BY <1>25, <1>2, <1>3 DEF siop_pm
  <2>2. RoutineOK
      BY <1>25, <1>1, <1>2, <1>3, <1>6, <1>9, <2>1, RethreadType, FreeType
      DEF siop_pm, RoutineOK
  <2> QED
      BY <1>25, <2>2, ServeType DEF siop_pm
<1>25a. CASE scripti_again
  <2> DEFINE ts == [threadstate EXCEPT ![phythread] =
                       IF ncr_ph_select THEN "PENDING" ELSE "LOGICAL"]
             sip == sipflag /\ ~ncr_ph_select
             tmr == IF ncr_ph_select THEN "off" ELSE timer
  <2>1. ts \in [Ids -> ThreadStates]
      BY <1>3 DEF ThreadStates
  <2>2. sip \in BOOLEAN /\ tmr \in Timers
      BY <1>1, <1>2
  <2>3. /\ chiperror' \in [Ids -> ChipErrors] /\ scriptstart' \in [Ids -> Entries]
        /\ wakes' \in Nat /\ wakequeue' \subseteq Procs \cup {NoProc}
      BY <1>25a, <1>3, <1>6 DEF scripti_again
  <2>4. PICK i \in Ids :
           \/ reschedule(ts, sip, tmr)
           \/ rethread(i, "WHICHPHASE", ts, sip, tmr) /\ UNCHANGED lastthread
           \/ rethread(i, "WHICHPHASE", threadstate, sipflag, timer) /\ UNCHANGED lastthread
      BY <1>25a DEF scripti_again
  <2> HIDE DEF ts, sip, tmr
  <2>5. ASSUME reschedule(ts, sip, tmr) PROVE RoutineOK
      BY <1>3, <1>9, <2>1, <2>2, <2>3, <2>5, RescheduleType DEF RoutineOK
  <2>6. ASSUME rethread(i, "WHICHPHASE", ts, sip, tmr), UNCHANGED lastthread PROVE RoutineOK
      BY <1>2, <1>9, <2>1, <2>2, <2>3, <2>6, RethreadType DEF RoutineOK
  <2>7. ASSUME rethread(i, "WHICHPHASE", threadstate, sipflag, timer), UNCHANGED lastthread
        PROVE  RoutineOK
      BY <1>1, <1>2, <1>3, <1>9, <2>3, <2>7, RethreadType DEF RoutineOK
  <2>8. RoutineOK
      BY <2>4, <2>5, <2>6, <2>7
  <2> QED
      BY <1>25a, <2>8, ServeType DEF scripti_again
<1>26. CASE siop_sge
  <2>1. todo \subseteq ScsiBits /\ intr \subseteq {"RRST"}
      BY <1>26 DEF siop_sge, Serve, TypeOK, IrqOK, ScsiBits, DmaBits
  <2>2. IrqOK'
      BY <1>26, <2>1 DEF siop_sge, Serve, TypeOK, IrqOK, ScsiBits, DmaBits, ReselBits
  <2>3. BusOK'
    <3>1. NoCmd \in Commands
        BY CommandAssumption DEF NoCmd, Commands
    <3> QED
        BY <1>26, <3>1 DEF siop_sge, Serve, TypeOK, BusOK, TargetStates
  <2>4. SchedOK'
      BY <1>26, <1>6 DEF siop_sge, Serve, TypeOK, SchedOK, Timers
  <2>5. CallersOK' /\ ThreadsOK'
      BY <1>26, <1>1, <1>4, <1>5 DEF siop_sge, Serve, TypeOK, CallersOK, ThreadsOK
  <2> QED
      BY <2>2, <2>3, <2>4, <2>5 DEF TypeOK
<1> QED
    BY <1>11, <1>12, <1>13, <1>14, <1>15, <1>16, <1>17, <1>18, <1>19, <1>20, <1>21, <1>22, <1>23, <1>24, <1>25,
       <1>25a, <1>26 DEF Irq

\* Without the auxiliary timer the chip is never started with a target connected.
LEMMA NeverAgain ==
    ASSUME ~AuxTimer, TypeOK
    PROVE  ~Reconnected /\ ~scripti_again
    BY DEF Reconnected, scripti_again, Serve, TypeOK, IrqOK

\* The service of the auxiliary timer.
LEMMA TimerType ==
    ASSUME TypeOK, seltoirq
    PROVE  TypeOK'
<1> DEFINE Others == /\ CallersOK' /\ ThreadsOK' /\ SchedOK'
                     /\ dsp' \in Entries \cup {"HALT", "SELECTED", "DATA", "FREEIT"}
<1>1. ASSUME Others, Timer, NEW rst \in BOOLEAN, chipreset(rst) PROVE TypeOK'
  <2>1. NoCmd \in Commands
      BY CommandAssumption DEF NoCmd, Commands
  <2>2. BusOK'
    <3>1. CASE reset
        BY <1>1, <2>1, <3>1 DEF Timer, reset, TypeOK, BusOK, TargetStates
    <3>2. CASE refused(rst)
        BY <1>1, <3>2 DEF Timer, refused, TypeOK, BusOK
    <3> QED
        BY <1>1, <3>1, <3>2 DEF chipreset
  <2>3. IrqOK'
    <3>1. todo' = todo /\ inirq' = inirq /\ todo = {} /\ inirq \in BOOLEAN
        BY <1>1 DEF Timer, TypeOK, IrqOK
    <3>2. intr' \subseteq intr /\ intr' \cap DmaBits = {}
        BY <1>1 DEF chipreset, reset, refused
    <3> QED
        BY <3>1, <3>2 DEF TypeOK, IrqOK, DmaBits, ReselBits
  <2> QED
      BY <1>1, <2>2, <2>3 DEF TypeOK
<1>2. ASSUME Others, Timer, UNCHANGED <<sigp, intr, busrst, conn, tgt>> PROVE TypeOK'
    BY <1>2 DEF Timer, TypeOK, BusOK, IrqOK
<1>3. phythread \in Ids /\ sipflag \in BOOLEAN /\ lastthread \in Ids \cup {0}
      /\ threadstate \in [Ids -> ThreadStates] /\ scriptstart \in [Ids -> Entries]
      /\ chiperror \in [Ids -> ChipErrors] /\ sig \in [Procs -> BOOLEAN]
      /\ "off" \in Timers /\ "long" \in Timers
    BY DEF TypeOK, CallersOK, ThreadsOK, SchedOK, Timers
<1>4. CASE TimerSelect
  <2>1. finished(phythread) \in [Ids -> ThreadStates]
      BY <1>3 DEF finished, ThreadStates
  <2>2. reschedule(finished(phythread), sipflag, "off")
      BY <1>4 DEF TimerSelect
  <2>3. chiperror' \in [Ids -> ChipErrors]
      BY <1>3, <1>4 DEF TimerSelect, SetError, ChipErrors
  <2>4. sig' \in [Procs -> BOOLEAN]
      BY <1>3, <1>4 DEF TimerSelect
  <2>5. CallersOK'
      BY <1>4, <2>4 DEF TimerSelect, Timer, TypeOK, CallersOK
  <2>6. phythread' \in Ids /\ threadstate' \in [Ids -> ThreadStates] /\ sipflag' \in BOOLEAN
        /\ timer' \in Timers /\ dsp' \in Entries /\ lastthread' \in Ids \cup {0}
      BY <1>3, <2>1, <2>2, RescheduleType
  <2>7. Others
      BY <1>4, <2>3, <2>5, <2>6 DEF TimerSelect, Timer, TypeOK, ThreadsOK, SchedOK
  <2>8. Timer /\ chipreset(busrst) /\ busrst \in BOOLEAN
      BY <1>4 DEF TimerSelect, TypeOK, BusOK
  <2> QED
      BY <1>1, <2>7, <2>8
<1>5. CASE TimerReset
  <2>1. RoutineOK
      BY <1>3, <1>5, ResetType DEF TimerReset
  <2>2. Others
      BY <1>5, <2>1 DEF TimerReset, Timer, RoutineOK, TypeOK, CallersOK, ThreadsOK, SchedOK
  <2>3. Timer /\ chipreset(FALSE)
      BY <1>5 DEF TimerReset
  <2> QED
      BY <1>1, <2>2, <2>3
<1>6. CASE TimerFree
  <2>1. reschedule(threadstate, sipflag, "off")
      BY <1>6 DEF TimerFree
  <2>2. Others
      BY <1>3, <1>6, <2>1, RescheduleType
      DEF TimerFree, Timer, TypeOK, CallersOK, ThreadsOK, SchedOK
  <2> QED
      BY <1>2, <1>6, <2>2 DEF TimerFree
<1>7. CASE TimerIdle
  <2>1. Others
      BY <1>3, <1>7 DEF TimerIdle, Timer, TypeOK, CallersOK, ThreadsOK, SchedOK, BusOK
  <2> QED
      BY <1>2, <1>7, <2>1 DEF TimerIdle
<1> QED
    BY <1>4, <1>5, <1>6, <1>7 DEF seltoirq

\* Every variable keeps a value of its type, whatever the callers, the chip, the
\* targets and the interrupt services do: the id that is read at a reselection is
\* that of a target, and reschedule() always finds a thread to start.
THEOREM TypeCorrect == Spec => []TypeOK
<1>1. TypeOK /\ [Next]_vars => TypeOK'
  <2> SUFFICES ASSUME TypeOK, [Next]_vars
               PROVE  TypeOK'
      OBVIOUS
  <2>1. CASE UNCHANGED vars
      BY <2>1 DEF vars, TypeOK, CallersOK, ThreadsOK, SchedOK, BusOK, IrqOK
  <2> QED
      BY <2>1, ProcessType, ExecType, ChipType, TroubleType, IrqType, TimerType DEF Next
<1> QED
    BY <1>1, InitType, PTL DEF Spec

-----------------------------------------------------------------------------
(***************************************************************************)
(* The owner of a thread.                                                  *)
(***************************************************************************)
\* Nothing but grabsem(), exec() and enqueue() touches what OneOwner is about.
LEMMA OwnerUnchanged ==
    ASSUME OneOwner, UNCHANGED <<pc, cid, thread_sem, processid>>
    PROVE  OneOwner'
    BY DEF OneOwner

\* A thread belongs to one process at a time: grabsem() lets in one process per id,
\* which keeps the thread, and the wake-ups that it queues, until exec() ends.
THEOREM Ownership == Spec => []OneOwner
<1>1. Init => OneOwner
    BY DEF Init, OneOwner, Critical
<1>2. TypeOK /\ OneOwner /\ [Next]_vars => OneOwner'
  <2> SUFFICES ASSUME TypeOK, OneOwner, [Next]_vars
               PROVE  OneOwner'
      OBVIOUS
  <2>1. pc \in [Procs -> {"idle", "chipwait", "grabsem", "semwait"} \cup Critical]
        /\ cid \in [Procs -> Ids] /\ thread_sem \in [Ids -> 0..1]
        /\ processid \in [Ids -> Procs \cup {NoProc}]
      BY DEF TypeOK, CallersOK, ThreadsOK
  <2>2. ASSUME NEW p \in Procs, NEW i \in Uses[p], Exec(p, i) PROVE OneOwner'
      BY <2>1, <2>2, ProcsAssumption DEF Exec, OneOwner, Critical
  <2>3. ASSUME NEW p \in Procs, ChipWait(p) PROVE OneOwner'
      BY <2>1, <2>3 DEF ChipWait, OneOwner, Critical
  <2>4. ASSUME NEW p \in Procs, GrabSem(p) PROVE OneOwner'
      BY <2>1, <2>4 DEF GrabSem, semFree, OneOwner, Critical
  <2>5. ASSUME NEW p \in Procs, WaitSem(p) PROVE OneOwner'
      BY <2>1, <2>5 DEF WaitSem, OneOwner, Critical
  <2>6. ASSUME NEW p \in Procs, Setup(p) PROVE OneOwner'
      BY <2>1, <2>6 DEF Setup, OneOwner, Critical
  <2>7. ASSUME NEW p \in Procs, Enqueue(p) PROVE OneOwner'
      BY <2>1, <2>7 DEF Enqueue, OneOwner, Critical
  <2>8. ASSUME NEW p \in Procs, CheckDone(p) PROVE OneOwner'
      BY <2>1, <2>8 DEF CheckDone, OneOwner, Critical
  <2>9. ASSUME NEW p \in Procs, WakeUp(p) PROVE OneOwner'
      BY <2>1, <2>9 DEF WakeUp, OneOwner, Critical
  <2>10. ASSUME NEW p \in Procs, Return(p) PROVE OneOwner'
      BY <2>1, <2>10 DEF Return, OneOwner, Critical
  <2>11. CASE Chip \/ Trouble
      BY <2>11, OwnerUnchanged
      DEF Chip, Trouble, ChipOnly, WaitSigp, SelectWon, SelectDone, SelectTimeout,
          SendCommand, DataPhase, PhaseMismatch, CommandComplete, Disconnect, FreeIt,
          Reselected, Reconnected, Reselect, UnexpectedDisconnect, BusReset, BusError,
          ConnectedTrouble, Fault
  <2>12. CASE Irq
      BY <2>12, OwnerUnchanged
      DEF Irq, Serve, IrqSort, IrqExit, scripti_done, scripti_sigp, scripti_resel,
          scripti_again, scripti_idisc, unknph, notmsgi, scripti_badmsg, dma_buserror, siop_par,
          siop_rrst, siop_udc, siop_sge, siop_sto, siop_pm
  <2>13. CASE seltoirq
      BY <2>13, OwnerUnchanged
      DEF seltoirq, Timer, TimerSelect, TimerReset, TimerFree, TimerIdle
  <2>14. CASE UNCHANGED vars
      BY <2>14, OwnerUnchanged DEF vars
  <2> QED
      BY <2>2, <2>3, <2>4, <2>5, <2>6, <2>7, <2>8, <2>9, <2>10, <2>11, <2>12, <2>13, <2>14
      DEF Next, Process
<1> QED
    BY <1>1, <1>2, TypeCorrect, PTL DEF Spec
-----------------------------------------------------------------------------
(***************************************************************************)
(* Wake-ups.                                                               *)
(***************************************************************************)
\* A thread that is finished after reschedule() was finished by its caller.
LEMMA DoneByCaller ==
    ASSUME NEW ts \in [Ids -> ThreadStates], NEW sip, NEW tmr, NEW i \in Ids,
           reschedule(ts, sip, tmr), threadstate'[i] = "DONE"
    PROVE  ts[i] = "DONE"
<1>1. nextThread(ts) \in Ids
    BY NextThread
<1> QED
    BY <1>1 DEF reschedule, rethread

\* If the step finishes the thread, its owner has a signal or is in the queue.
Answered(i) == threadstate'[i] = "DONE" /\ threadstate[i] # "DONE" /\ processid[i] \in Procs
               => processid[i] \in wakequeue' \/ sig'[processid[i]]

\* What every step keeps that does not take a caller from enqueue() to its sleep.
LEMMA WakeStep ==
    ASSUME TypeOK, OneOwner, WakeIsKept,
           pc' = pc, cid' = cid, wakequeue \subseteq wakequeue',
           \A p \in Procs : sig[p] => sig'[p],
           \A i \in Ids : Answered(i)
    PROVE  WakeIsKept'
<1> SUFFICES ASSUME NEW p \in Procs \ SystemProcs,
                    pc'[p] = "sleep", threadstate'[cid'[p]] = "DONE"
             PROVE  sig'[p] \/ p \in wakequeue'
    BY DEF WakeIsKept
<1>1. cid[p] \in Ids /\ pc[p] = "sleep"
    BY DEF TypeOK, CallersOK
<1>2. processid[cid[p]] = p
    BY <1>1 DEF OneOwner, Critical
<1>3. CASE threadstate[cid[p]] = "DONE"
    BY <1>1, <1>3 DEF WakeIsKept
<1>4. CASE threadstate[cid[p]] # "DONE"
    BY <1>1, <1>2, <1>4 DEF Answered
<1> QED
    BY <1>3, <1>4

\* scsi_free() and rethread() finish no thread.
LEMMA NoneFinished ==
    ASSUME TypeOK, NEW i, NEW tmr, NEW sip, NEW entry,
           \/ scsi_free(i)
           \/ rethread(i, entry, threadstate, sip, tmr)
           \/ reschedule(threadstate, sip, tmr)
           \/ threadstate' = threadstate
    PROVE  \A j \in Ids : Answered(j)
<1> SUFFICES ASSUME NEW j \in Ids, threadstate'[j] = "DONE"
             PROVE  threadstate[j] = "DONE"
    BY DEF Answered
<1> DEFINE ts == [threadstate EXCEPT ![i] = "EMPTY"]
<1>1. threadstate \in [Ids -> ThreadStates] /\ ts \in [Ids -> ThreadStates]
    BY DEF TypeOK, ThreadsOK, ThreadStates
<1>2. CASE scsi_free(i) /\ i = SelfId
    BY <1>1, <1>2, DoneByCaller DEF scsi_free
<1>3. CASE scsi_free(i) /\ i # SelfId
    BY <1>3 DEF scsi_free
<1>4. CASE rethread(i, entry, threadstate, sip, tmr)
    BY <1>1, <1>4 DEF rethread
<1>5. CASE reschedule(threadstate, sip, tmr)
    BY <1>1, <1>5, DoneByCaller
<1> QED
    BY <1>2, <1>3, <1>4, <1>5

\* The one thread that is finished is the one whose owner is told.
LEMMA OneFinished ==
    ASSUME TypeOK, NEW sip, NEW tmr,
           reschedule(finished(phythread), sip, tmr),
           processid[phythread] \in Procs
           => processid[phythread] \in wakequeue' \/ sig'[processid[phythread]]
    PROVE  \A j \in Ids : Answered(j)
<1>1. finished(phythread) \in [Ids -> ThreadStates] /\ phythread \in Ids
    BY DEF finished, TypeOK, ThreadsOK, SchedOK, ThreadStates
<1> SUFFICES ASSUME NEW j \in Ids, threadstate'[j] = "DONE", threadstate[j] # "DONE"
             PROVE  j = phythread
    BY DEF Answered
<1>3. finished(phythread)[j] = "DONE"
    BY <1>1, DoneByCaller
<1> QED
    BY <1>1, <1>3 DEF finished, TypeOK, ThreadsOK
\* After a bus reset every broken thread's owner is in the queue.
LEMMA BrokenFinished ==
    ASSUME TypeOK, NEW tmr, resetThreads(tmr)
    PROVE  wakequeue \subseteq wakequeue' /\ \A j \in Ids : Answered(j)
<1> DEFINE ts == [i \in Ids |-> IF i \in broken THEN "DONE" ELSE threadstate[i]]
<1>1. ts \in [Ids -> ThreadStates]
    BY DEF TypeOK, ThreadsOK, ThreadStates
<1>2. wakequeue' = wakequeue \cup {processid[i] : i \in broken}
    BY DEF resetThreads, queueWakes
<1>3. ASSUME NEW j \in Ids, threadstate'[j] = "DONE", threadstate[j] # "DONE"
      PROVE  j \in broken
  <2>1. reschedule(ts, sipflag, tmr)
      BY DEF resetThreads
  <2>2. ts[j] = "DONE"
      BY <1>1, <1>3, <2>1, DoneByCaller
  <2> QED
      BY <1>3, <2>2
<1> QED
    BY <1>2, <1>3 DEF Answered

\* scripti_resel() and scripti_idisc() finish no thread either.
LEMMA PutBack ==
    ASSUME TypeOK, NEW st \in {"PENDING", "LOGICAL"}, NEW i, NEW tmr, NEW sip, NEW entry,
           \/ rethread(i, entry, [threadstate EXCEPT ![phythread] = st], sip, tmr)
           \/ reschedule([threadstate EXCEPT ![phythread] = st], sip, tmr)
    PROVE  \A j \in Ids : Answered(j)
<1> DEFINE ts == [threadstate EXCEPT ![phythread] = st]
<1>1. ts \in [Ids -> ThreadStates]
    BY DEF TypeOK, ThreadsOK, ThreadStates
<1> SUFFICES ASSUME NEW j \in Ids, threadstate'[j] = "DONE"
             PROVE  threadstate[j] = "DONE"
    BY DEF Answered
<1>2. ts[j] = "DONE"
  <2>1. CASE rethread(i, entry, ts, sip, tmr)
      BY <1>1, <2>1 DEF rethread
  <2>2. CASE reschedule(ts, sip, tmr)
      BY <1>1, <2>2, DoneByCaller
  <2> QED
      BY <2>1, <2>2
<1> QED
    BY <1>2 DEF TypeOK, ThreadsOK

\* No wake-up is ever forgotten, in any build and under any fault: a user process
\* that sleeps in enqueue() for a finished thread has a signal pending, or is in
\* the queue that the next irq() sends.
THEOREM WakeKept == Spec => []WakeIsKept
<1>1. Init => WakeIsKept
    BY DEF Init, WakeIsKept
<1>2. TypeOK /\ OneOwner /\ WakeIsKept /\ [Next]_vars => WakeIsKept'
  <2> SUFFICES ASSUME TypeOK, OneOwner, WakeIsKept, [Next]_vars
               PROVE  WakeIsKept'
      OBVIOUS
  <2>1. pc \in [Procs -> {"idle", "chipwait", "grabsem", "semwait"} \cup Critical]
        /\ cid \in [Procs -> Ids] /\ sig \in [Procs -> BOOLEAN]
        /\ threadstate \in [Ids -> ThreadStates] /\ phythread \in Ids
      BY DEF TypeOK, CallersOK, ThreadsOK, SchedOK
  <2>2. ASSUME NEW p \in Procs, NEW i \in Uses[p], Exec(p, i) PROVE WakeIsKept'
      BY <2>1, <2>2, ProcsAssumption DEF Exec, WakeIsKept
  <2>3. ASSUME NEW p \in Procs, Process(p) PROVE WakeIsKept'
    <3>1. CASE Enqueue(p)
      <4>1. \A q \in Procs : pc'[q] = "sleep" => q # p /\ pc[q] = "sleep"
          BY <2>1, <3>1 DEF Enqueue
      <4>2. \A q \in Procs : pc'[q] = "sleep" => threadstate'[cid'[q]] = threadstate[cid[q]]
          BY <2>1, <3>1, <4>1 DEF Enqueue, OneOwner, Critical
      <4> QED
          BY <3>1, <4>1, <4>2 DEF Enqueue, WakeIsKept
    <3>2. CASE CheckDone(p)
        BY <2>1, <3>2 DEF CheckDone, WakeIsKept
    <3>3. CASE WakeUp(p)
        BY <2>1, <3>3 DEF WakeUp, WakeIsKept
    <3>4. CASE ChipWait(p) \/ GrabSem(p) \/ WaitSem(p) \/ Setup(p) \/ Return(p)
        BY <2>1, <3>4 DEF ChipWait, GrabSem, WaitSem, Setup, Return, WakeIsKept
    <3> QED
        BY <2>3, <3>1, <3>2, <3>3, <3>4 DEF Process
  <2>4. CASE Chip \/ Trouble
      BY <2>4
      DEF Chip, Trouble, ChipOnly, WakeIsKept, WaitSigp, SelectWon, SelectDone,
          SelectTimeout, SendCommand, DataPhase, PhaseMismatch, CommandComplete,
          Disconnect, FreeIt, Reselected, Reconnected, Reselect, UnexpectedDisconnect, BusReset,
          BusError, ConnectedTrouble, Fault
  <2>5. CASE IrqSort
      BY <2>5 DEF IrqSort, WakeIsKept
  <2>6. CASE IrqExit
      BY <2>1, <2>6 DEF IrqExit, toWake, WakeIsKept
  <2>7. ASSUME NEW c, Serve(c),
               wakequeue \subseteq wakequeue', \A i \in Ids : Answered(i)
        PROVE  WakeIsKept'
      BY <2>7, WakeStep DEF Serve
  <2>8. CASE scripti_done \/ siop_udc \/ siop_sto
      BY <2>1, <2>7, <2>8, OneFinished
      DEF scripti_done, siop_udc, siop_sto, queueWakes
  <2>9. CASE siop_rrst
      BY <2>7, <2>9, BrokenFinished DEF siop_rrst
  <2>10. CASE scripti_resel \/ scripti_idisc
      BY <2>7, <2>10, PutBack DEF scripti_resel, scripti_idisc, WakeAlone
  <2>11. CASE unknph \/ siop_par \/ siop_pm \/ dma_buserror
    <3>1. \/ scsi_free(phythread)
          \/ rethread(phythread, "WHICHPHASE", threadstate, sipflag, timer)
        BY <2>11 DEF unknph, siop_par, siop_pm, dma_buserror
    <3>2. wakequeue' = wakequeue /\ \E c : Serve(c)
        BY <2>11 DEF unknph, siop_par, siop_pm, dma_buserror, WakeAlone
    <3> QED
        BY <2>7, <3>1, <3>2, NoneFinished
  <2>11a. CASE scripti_sigp \/ siop_sge
      BY <2>7, <2>11a, NoneFinished DEF scripti_sigp, siop_sge, WakeAlone
  <2>11b. CASE notmsgi \/ scripti_badmsg
      BY <2>7, <2>11b, NoneFinished DEF notmsgi, scripti_badmsg, WakeAlone
  <2>11c. CASE scripti_again
    <3> DEFINE st == IF ncr_ph_select THEN "PENDING" ELSE "LOGICAL"
    <3>1. \E i, sip, tmr :
             \/ rethread(i, "WHICHPHASE", [threadstate EXCEPT ![phythread] = st], sip, tmr)
             \/ reschedule([threadstate EXCEPT ![phythread] = st], sip, tmr)
             \/ rethread(i, "WHICHPHASE", threadstate, sip, tmr)
        BY <2>11c DEF scripti_again
    <3>2. st \in {"PENDING", "LOGICAL"}
        OBVIOUS
    <3> HIDE DEF st
    <3>3. \A i \in Ids : Answered(i)
        BY <3>1, <3>2, PutBack, NoneFinished
    <3> QED
        BY <2>7, <2>11c, <3>3 DEF scripti_again, WakeAlone
  <2>12. CASE TimerSelect
      BY <2>1, <2>12, OneFinished, WakeStep DEF TimerSelect, Timer
  <2>13. CASE TimerReset
      BY <2>13, BrokenFinished, WakeStep DEF TimerReset, Timer
  <2>14. CASE TimerFree \/ TimerIdle
      BY <2>1, <2>14, NoneFinished, WakeStep DEF TimerFree, TimerIdle, Timer
  <2>15. CASE UNCHANGED vars
      BY <2>15 DEF vars, WakeIsKept
  <2> QED
      BY <2>2, <2>3, <2>4, <2>5, <2>6, <2>8, <2>9, <2>10, <2>11, <2>11a, <2>11b, <2>11c,
         <2>12, <2>13, <2>14, <2>15
      DEF Next, Irq, seltoirq
<1> QED
    BY <1>1, <1>2, TypeCorrect, Ownership, PTL DEF Spec
-----------------------------------------------------------------------------
(***************************************************************************)
(* The build without the auxiliary timer.                                  *)
(***************************************************************************)
\* Nothing starts the timer, and wake-ups are queued only while irq() runs.
IrqQueues == ~AuxTimer /\ timer = "off" /\ (~inirq => wakequeue = {})

LEMMA RescheduleTimer ==
    ASSUME ~AuxTimer, timer = "off",
           \/ \E i, entry, ts, sip : rethread(i, entry, ts, sip, timer)
           \/ \E i, entry, ts, sip : rethread(i, entry, ts, sip, "off")
           \/ \E ts, sip : reschedule(ts, sip, timer)
           \/ \E ts, sip : reschedule(ts, sip, "off")
           \/ \E i : scsi_free(i)
    PROVE  timer' = "off"
    BY DEF rethread, start_sto, reschedule, scsi_free

LEMMA IrqOnlyQueues ==
    ASSUME ~AuxTimer
    PROVE  Spec => []IrqQueues
<1>1. Init => IrqQueues
    BY DEF Init, IrqQueues
<1>2. TypeOK /\ IrqQueues /\ [Next]_vars => IrqQueues'
  <2> SUFFICES ASSUME TypeOK, IrqQueues, [Next]_vars
               PROVE  IrqQueues'
      OBVIOUS
  <2> USE DEF IrqQueues
  <2>1. ASSUME NEW p \in Procs, Process(p) \/ \E i \in Uses[p] : Exec(p, i)
        PROVE  IrqQueues'
      BY <2>1
      DEF Process, Exec, ChipWait, GrabSem, WaitSem, Setup, Enqueue, CheckDone,
          WakeUp, Return
  <2>2. CASE Chip \/ Trouble
      BY <2>2
      DEF Chip, Trouble, ChipOnly, WaitSigp, SelectWon, SelectDone, SelectTimeout,
          SendCommand, DataPhase, PhaseMismatch, CommandComplete, Disconnect, FreeIt,
          Reselected, Reconnected, Reselect, UnexpectedDisconnect, BusReset, BusError,
          ConnectedTrouble, Fault
  <2>3. CASE IrqSort \/ IrqExit
      BY <2>3 DEF IrqSort, IrqExit
  <2>4. ASSUME NEW c, Serve(c), timer' = "off" PROVE IrqQueues'
      BY <2>4 DEF Serve, TypeOK, IrqOK
  <2>5. CASE scripti_done \/ scripti_sigp \/ scripti_resel \/ scripti_idisc \/ siop_udc
             \/ siop_sto
      BY <2>4, <2>5, RescheduleTimer
      DEF scripti_done, scripti_sigp, scripti_resel, scripti_idisc, siop_udc, siop_sto
  <2>6. CASE unknph \/ notmsgi \/ scripti_badmsg \/ dma_buserror \/ siop_par \/ siop_pm
      BY <2>4, <2>6, RescheduleTimer
      DEF unknph, notmsgi, scripti_badmsg, dma_buserror, siop_par, siop_pm
  <2>7. CASE siop_rrst \/ siop_sge
      BY <2>4, <2>7, RescheduleTimer DEF siop_rrst, siop_sge, resetThreads
  <2>8. CASE seltoirq
      BY <2>8 DEF seltoirq, TimerSelect, TimerReset, TimerFree, TimerIdle, Timer
  <2>9. CASE UNCHANGED vars
      BY <2>9 DEF vars
  <2> QED
      BY <2>1, <2>2, <2>3, <2>5, <2>6, <2>7, <2>8, <2>9, NeverAgain DEF Next, Irq
<1> QED
    BY <1>1, <1>2, TypeCorrect, PTL DEF Spec

\* In the build without the auxiliary timer, whose interrupts all end in irq()'s own
\* notification, no wake-up is left behind: a user process that sleeps for a
\* finished thread has its signal, or irq() is still about to send it.
THEOREM WakeSent ==
    ASSUME ~AuxTimer
    PROVE  Spec => []NoLostWakeup
<1>1. WakeIsKept /\ IrqQueues => NoLostWakeup
    BY DEF WakeIsKept, IrqQueues, NoLostWakeup
<1> QED
    BY <1>1, WakeKept, IrqOnlyQueues, PTL
-----------------------------------------------------------------------------
(***************************************************************************)
(* One physical thread.  OnePhysical is not inductive: scripti_sigp()      *)
(* starts a thread without a look at the current one, so the chip must     *)
(* report SIGP only while it works for the idle thread.  That again needs  *)
(* the SCRIPT to leave FREEIT by an interrupt, never by falling through to *)
(* WAITFORRESELECT, hence a target to be connected when FREEIT starts.     *)
(***************************************************************************)
ChipFollows ==
    /\ OnePhysical
    /\ \A i \in Targets : scriptstart[i] # "WAITFORRESELECT"
    /\ dsp = "WAITFORRESELECT" => phythread = SelfId

outstanding == intr \cup todo

Conditions ==
    /\ \A c, d \in outstanding \ {"RRST", "UDC"} : c = d
    /\ "NOTMSGI" \notin outstanding
    /\ "SC_SIGP" \in outstanding => phythread = SelfId
    /\ "SGE" \in outstanding => dsp # "FREEIT"
    /\ dsp = "FREEIT" \/ outstanding \cap {"UNKNPH", "BF", "PAR"} # {}
       => conn # NoTarget \/ "RRST" \in outstanding

PlainFaults == ~AuxTimer /\ Faults \cap {"notmsgi", "berr_free"} = {}

\* rethread() and reschedule() start at most one thread, and the SCRIPT waits for
\* reselection only when they start none.
LEMMA Rethreaded ==
    ASSUME TypeOK, ChipFollows, NEW i \in Ids, NEW entry \in Entries,
           NEW ts \in [Ids -> ThreadStates], NEW sip, NEW tmr,
           \A t \in Targets : ts[t] = "PHYSICAL" => t = i,
           i \in Targets => entry # "WAITFORRESELECT",
           rethread(i, entry, ts, sip, tmr)
    PROVE  /\ OnePhysical' /\ dsp' \in Entries
           /\ dsp' = "WAITFORRESELECT" => phythread' = SelfId
<1>1. OnePhysical'
    BY DEF rethread, OnePhysical, Ids
<1> QED
    BY <1>1 DEF rethread, Ids, Entries

LEMMA Rescheduled ==
    ASSUME TypeOK, ChipFollows, NEW ts \in [Ids -> ThreadStates], NEW sip, NEW tmr,
           \A t \in Targets : ts[t] # "PHYSICAL",
           reschedule(ts, sip, tmr)
    PROVE  /\ OnePhysical' /\ dsp' \in Entries
           /\ dsp' = "WAITFORRESELECT" => phythread' = SelfId
<1> DEFINE next == nextThread(ts)
<1>1. next \in Ids
    BY NextThread
<1>2. scriptstart[next] \in Entries
    BY <1>1 DEF TypeOK, ThreadsOK
<1>3. rethread(next, scriptstart[next], ts, sip, tmr)
    BY DEF reschedule
<1>4. next \in Targets => scriptstart[next] # "WAITFORRESELECT"
    BY DEF ChipFollows
<1> QED
    BY <1>1, <1>2, <1>3, <1>4, Rethreaded

\* Serving a condition leaves the others as they are.
LEMMA ServeConditions ==
    ASSUME TypeOK, Conditions, NEW c, Serve(c), UNCHANGED <<intr, conn>>,
           dsp' \in Entries \/ (dsp' = "FREEIT" /\ c \in {"UNKNPH", "BF", "PAR"})
    PROVE  Conditions'
<1>1. c \in todo /\ todo' = todo \ {c} /\ outstanding' \subseteq outstanding
    BY DEF Serve, outstanding
<1>2. intr = {} \/ (intr = {"RRST"} /\ todo \subseteq ScsiBits)
    BY <1>1 DEF TypeOK, IrqOK
<1>3. "SC_SIGP" \notin outstanding'
    BY <1>1, <1>2 DEF TypeOK, IrqOK, Conditions, outstanding, ScsiBits, DmaBits
<1>4. dsp' = "FREEIT" => "SGE" \notin outstanding'
    BY <1>1, <1>2 DEF TypeOK, IrqOK, Conditions, outstanding, ScsiBits, DmaBits, Entries
<1>5. outstanding' \cap {"UNKNPH", "BF", "PAR"} # {} => conn # NoTarget \/ "RRST" \in outstanding'
  <2>1. CASE c = "RRST"
    <3>1. "PAR" \notin todo
        BY <2>1 DEF Serve, Rank
    <3> QED
        BY <2>1, <3>1, <1>1, <1>2
        DEF TypeOK, IrqOK, outstanding, ScsiBits, DmaBits
  <2>2. CASE c # "RRST"
      BY <2>2, <1>1 DEF Conditions, outstanding
  <2> QED
      BY <2>1, <2>2
<1>6. dsp' = "FREEIT" => conn # NoTarget \/ "RRST" \in outstanding'
    BY <1>1 DEF Conditions, outstanding, Entries
<1> QED
    BY <1>1, <1>3, <1>4, <1>5, <1>6 DEF Conditions
LEMMA ChipConditions ==
    ASSUME TypeOK, ChipFollows, Conditions, PlainFaults, Chip \/ Trouble
    PROVE  ChipFollows' /\ Conditions'
<1> USE DEF ChipOnly, Running, Connected, Latch, outstanding
<1>1. UNCHANGED <<threadstate, scriptstart, phythread, todo>>
    BY DEF Chip, Trouble, WaitSigp, SelectWon, SelectDone, SelectTimeout,
           SendCommand, DataPhase, PhaseMismatch, CommandComplete, Disconnect, FreeIt,
           Reselected, Reconnected, Reselect, UnexpectedDisconnect, BusReset, BusError,
           ConnectedTrouble, Fault
\* what the SCRIPT's steps do to it
<1>2. ASSUME intr = {}, todo = {}, NEW c \in ScsiBits \cup DmaBits,
             intr' = intr \cup {c}, dsp' = "HALT", c # "NOTMSGI",
             c = "SC_SIGP" => dsp = "WAITFORRESELECT",
             c \in {"UNKNPH", "BF", "PAR"} => conn' # NoTarget
      PROVE  ChipFollows' /\ Conditions'
    BY <1>1, <1>2 DEF ChipFollows, Conditions, OnePhysical
<1>3. ASSUME intr' = intr, intr = {}, todo = {}, dsp' # "WAITFORRESELECT",
             dsp' # "FREEIT"
      PROVE  ChipFollows' /\ Conditions'
    BY <1>1, <1>3 DEF ChipFollows, Conditions, OnePhysical
<1>4. CASE WaitSigp
  <2>1. CASE conn = NoTarget
      BY <1>2, <1>4, <2>1 DEF WaitSigp, DmaBits
  <2>2. CASE conn # NoTarget
      BY <1>1, <1>4, <2>2 DEF WaitSigp, ChipFollows, Conditions, OnePhysical
  <2> QED
      BY <2>1, <2>2
<1>5. ASSUME NEW t \in Targets, Reselect(t) PROVE ChipFollows' /\ Conditions'
    BY <1>1, <1>5 DEF Reselect, ChipFollows, Conditions, OnePhysical
<1>6. CASE Reselected
    BY <1>2, <1>6 DEF Reselected, PlainFaults, DmaBits
<1>7. CASE SelectWon \/ SelectDone \/ DataPhase
    BY <1>3, <1>7 DEF SelectWon, SelectDone, DataPhase
<1>7a. CASE SendCommand
    BY <1>3, <1>7a DEF SendCommand
<1>8. CASE SelectTimeout
    BY <1>2, <1>8 DEF SelectTimeout, ScsiBits
<1>9. CASE PhaseMismatch
    BY <1>2, <1>9 DEF PhaseMismatch, ScsiBits
<1>10. CASE CommandComplete \/ Disconnect
    BY <1>2, <1>10 DEF CommandComplete, Disconnect, DmaBits
<1>11. CASE FreeIt
    BY <1>2, <1>11 DEF FreeIt, DmaBits, Conditions
<1>12. CASE UnexpectedDisconnect
    BY <1>2, <1>12 DEF UnexpectedDisconnect, ScsiBits
<1>13. CASE BusError
    BY <1>2, <1>13 DEF BusError, Fault, PlainFaults, DmaBits
<1>14. ASSUME NEW kind, NEW c \in {"SGE", "PAR", "PM", "UNKNPH", "BADMSG"},
              ConnectedTrouble(kind, c)
       PROVE  ChipFollows' /\ Conditions'
    BY <1>2, <1>14 DEF ConnectedTrouble, ScsiBits, DmaBits
<1>15. CASE BusReset
    BY <1>1, <1>15 DEF BusReset, ChipFollows, Conditions, OnePhysical
<1> QED
    BY <1>4, <1>5, <1>6, <1>7, <1>7a, <1>8, <1>9, <1>10, <1>11, <1>12, <1>13, <1>14, <1>15,
       NeverAgain
    DEF Chip, Trouble, PlainFaults

LEMMA IrqConditions ==
    ASSUME TypeOK, ChipFollows, Conditions, PlainFaults, Irq
    PROVE  ChipFollows' /\ Conditions'
<1>1. threadstate \in [Ids -> ThreadStates] /\ scriptstart \in [Ids -> Entries]
      /\ phythread \in Ids
    BY DEF TypeOK, ThreadsOK, SchedOK
<1>2. \A t \in Targets : threadstate[t] = "PHYSICAL" => t = phythread
    BY DEF ChipFollows, OnePhysical
<1>3. CASE IrqSort
  <2>1. outstanding' \subseteq outstanding /\ ("RRST" \in outstanding => "RRST" \in outstanding')
      BY <1>3 DEF IrqSort, toServe, outstanding, ScsiBits
  <2>2. UNCHANGED <<threadstate, scriptstart, phythread, dsp, conn>>
      BY <1>3 DEF IrqSort
  <2> QED
      BY <2>1, <2>2 DEF ChipFollows, Conditions, OnePhysical
<1>4. CASE IrqExit
    BY <1>4 DEF IrqExit, ChipFollows, Conditions, OnePhysical, outstanding
\* a routine that starts a thread
<1>5. ASSUME NEW c, Serve(c), UNCHANGED <<intr, conn>>, OnePhysical', dsp' \in Entries,
             dsp' = "WAITFORRESELECT" => phythread' = SelfId,
             \A i \in Targets : scriptstart'[i] # "WAITFORRESELECT"
      PROVE  ChipFollows' /\ Conditions'
    BY <1>5, ServeConditions DEF ChipFollows
\* a routine that frees the bus, or reschedules from the idle thread
<1>6. ASSUME NEW c, Serve(c), UNCHANGED <<intr, conn, scriptstart>>, scsi_free(phythread),
             phythread # SelfId => c \in {"UNKNPH", "BF", "PAR"}
      PROVE  ChipFollows' /\ Conditions'
  <2>1. CASE phythread = SelfId
    <3> DEFINE ts == [threadstate EXCEPT ![phythread] = "EMPTY"]
    <3>1. reschedule(ts, sipflag, timer)
        BY <1>6, <2>1 DEF scsi_free
    <3>2. ts \in [Ids -> ThreadStates] /\ \A t \in Targets : ts[t] # "PHYSICAL"
        BY <1>1, <1>2 DEF ThreadStates, Ids
    <3> QED
        BY <1>5, <1>6, <3>1, <3>2, Rescheduled DEF ChipFollows
  <2>2. CASE phythread # SelfId
      BY <1>6, <2>2, ServeConditions DEF scsi_free, ChipFollows, OnePhysical
  <2> QED
      BY <2>1, <2>2
\* a routine that continues the physical thread
<1>7. ASSUME NEW c, Serve(c), UNCHANGED <<intr, conn>>,
             rethread(phythread, "WHICHPHASE", threadstate, sipflag, timer),
             \A i \in Targets : scriptstart'[i] # "WAITFORRESELECT"
      PROVE  ChipFollows' /\ Conditions'
    BY <1>1, <1>2, <1>5, <1>7, Rethreaded DEF Entries
\* a routine that takes the bus from the physical thread and reschedules
<1>8. ASSUME NEW c, Serve(c), UNCHANGED <<intr, conn>>, NEW st \in ThreadStates,
             st # "PHYSICAL", NEW sip, NEW tmr,
             reschedule([threadstate EXCEPT ![phythread] = st], sip, tmr),
             \A i \in Targets : scriptstart'[i] # "WAITFORRESELECT"
      PROVE  ChipFollows' /\ Conditions'
  <2> DEFINE ts == [threadstate EXCEPT ![phythread] = st]
  <2>1. ts \in [Ids -> ThreadStates] /\ \A t \in Targets : ts[t] # "PHYSICAL"
      BY <1>1, <1>2, <1>8 DEF Ids
  <2> QED
      BY <1>5, <1>8, <2>1, Rescheduled
<1>9. CASE scripti_done \/ siop_udc \/ siop_sto
    BY <1>8, <1>9
    DEF scripti_done, siop_udc, siop_sto, finished, BusAlone, ThreadStates, ChipFollows
<1>10. CASE scripti_sigp
  <2>1. phythread = SelfId
      BY <1>10 DEF scripti_sigp, Serve, Conditions, outstanding
  <2>2. \A t \in Targets : threadstate[t] # "PHYSICAL"
      BY <1>2, <2>1, IdsAssumption
  <2> QED
      BY <1>1, <1>5, <1>10, <2>2, Rescheduled DEF scripti_sigp, BusAlone, ChipFollows
<1>11. CASE scripti_idisc
  <2>1. \A i \in Targets : scriptstart'[i] # "WAITFORRESELECT"
      BY <1>1, <1>11 DEF scripti_idisc, ChipFollows, Ids
  <2> QED
      BY <1>8, <1>11, <2>1 DEF scripti_idisc, BusAlone, ThreadStates
<1>12. CASE scripti_resel
  <2> DEFINE ts == [threadstate EXCEPT ![phythread] =
                        IF ncr_ph_select THEN "PENDING" ELSE "LOGICAL"]
  <2>1. ts \in [Ids -> ThreadStates] /\ \A t \in Targets : ts[t] # "PHYSICAL"
      BY <1>1, <1>2 DEF ThreadStates, Ids
  <2>2. conn \in Targets /\ conn \in Ids
      BY <1>12 DEF scripti_resel, Serve, TypeOK, IrqOK, ScsiBits, DmaBits, ReselBits, Ids
  <2>3. \E sip, tmr : rethread(conn, "WHICHPHASE", ts, sip, tmr)
      BY <1>12 DEF scripti_resel, reselector
  <2>4. OnePhysical' /\ dsp' \in Entries /\ (dsp' = "WAITFORRESELECT" => phythread' = SelfId)
      <3>1. PICK sip, tmr : rethread(conn, "WHICHPHASE", ts, sip, tmr)
          BY <2>3
      <3>2. "WHICHPHASE" \in Entries /\ "WHICHPHASE" # "WAITFORRESELECT"
          BY DEF Entries
      <3>3. \A t \in Targets : ts[t] = "PHYSICAL" => t = conn
          BY <2>1
      <3>4. ChipFollows /\ ts \in [Ids -> ThreadStates] /\ conn \in Ids
          BY <1>1, <2>1, <2>2
      <3> QED
          BY <3>1, <3>2, <3>3, <3>4, Rethreaded
  <2> QED
      BY <1>5, <1>12, <2>4 DEF scripti_resel, BusAlone, ChipFollows
<1>13. CASE notmsgi
    BY <1>13 DEF notmsgi, Serve, Conditions, outstanding
<1>14. CASE unknph \/ siop_par
    BY <1>6, <1>14 DEF unknph, siop_par, ncr_ph_mess, BusAlone
<1>15. CASE scripti_badmsg
    BY <1>7, <1>15 DEF scripti_badmsg, BusAlone, ChipFollows
<1>16. CASE dma_buserror
  <2>1. CASE scratch0 = "DATA"
    <3>1. \A i \in Targets : scriptstart'[i] # "WAITFORRESELECT"
        BY <1>1, <1>16, <2>1 DEF dma_buserror, ChipFollows, Ids
    <3> QED
        BY <1>7, <1>16, <2>1, <3>1 DEF dma_buserror, BusAlone
  <2>2. CASE scratch0 # "DATA"
      BY <1>6, <1>16, <2>2 DEF dma_buserror, BusAlone
  <2> QED
      BY <2>1, <2>2
<1>17. CASE siop_pm
  <2>1. CASE phythread = SelfId
      BY <1>6, <1>17, <2>1 DEF siop_pm, BusAlone
  <2>2. CASE phythread # SelfId
    <3>1. \A i \in Targets : scriptstart'[i] # "WAITFORRESELECT"
        BY <1>1, <1>17, <2>2 DEF siop_pm, ChipFollows, Ids
    <3> QED
        BY <1>7, <1>17, <2>2, <3>1 DEF siop_pm, BusAlone
  <2> QED
      BY <2>1, <2>2
<1>18. CASE siop_rrst
  <2> DEFINE ts == [i \in Ids |-> IF i \in broken THEN "DONE" ELSE threadstate[i]]
  <2>1. ts \in [Ids -> ThreadStates] /\ \A t \in Targets : ts[t] # "PHYSICAL"
      BY <1>1 DEF ThreadStates, Ids, broken
  <2>2. reschedule(ts, sipflag, timer) /\ scriptstart' = scriptstart
      BY <1>18 DEF siop_rrst, resetThreads
  <2> QED
      BY <1>5, <1>18, <2>1, <2>2, Rescheduled DEF siop_rrst, BusAlone, ChipFollows
<1>19. CASE siop_sge
  <2>1. outstanding' \subseteq outstanding \cup {"RRST"} /\ "SGE" \in todo
        /\ dsp' = dsp /\ phythread' = phythread
      BY <1>19 DEF siop_sge, Serve, outstanding
  <2>2. dsp # "FREEIT" /\ outstanding \cap {"UNKNPH", "BF", "PAR"} = {}
      BY <2>1 DEF Conditions, outstanding
  <2> QED
      BY <1>19, <2>1, <2>2 DEF siop_sge, ChipFollows, Conditions, OnePhysical
<1> QED
    BY <1>3, <1>4, <1>9, <1>10, <1>11, <1>12, <1>13, <1>14, <1>15, <1>16, <1>17, <1>18, <1>19,
       NeverAgain
    DEF Irq, PlainFaults

LEMMA ChipFollowsInit == Init => ChipFollows /\ Conditions
    BY IdsAssumption DEF Init, ChipFollows, Conditions, OnePhysical, outstanding, Ids

LEMMA ChipFollowsStep ==
    ASSUME PlainFaults, TypeOK, IrqQueues, ChipFollows, Conditions, [Next]_vars
    PROVE  ChipFollows' /\ Conditions'
<1>1. ASSUME NEW p \in Procs, Process(p) \/ \E i \in Uses[p] : Exec(p, i)
      PROVE  ChipFollows' /\ Conditions'
  <2>1. UNCHANGED <<intr, todo, conn, dsp, phythread>>
      BY <1>1 DEF Process, Exec, ChipWait, GrabSem, WaitSem, Setup, Enqueue,
                  CheckDone, WakeUp, Return
  <2>2. OnePhysical'
      BY <1>1 DEF Process, Exec, ChipWait, GrabSem, WaitSem, Setup, Enqueue, TypeOK,
                  ThreadsOK, CheckDone, WakeUp, Return, ChipFollows, OnePhysical, Ids
  <2>3. \A i \in Targets : scriptstart'[i] # "WAITFORRESELECT"
      BY <1>1 DEF Process, Exec, ChipWait, GrabSem, WaitSem, Setup, Enqueue, TypeOK,
                  ThreadsOK, CheckDone, WakeUp, Return, ChipFollows, Ids
  <2> QED
      BY <2>1, <2>2, <2>3 DEF ChipFollows, Conditions, outstanding
<1>2. CASE Chip \/ Trouble
    BY <1>2, ChipConditions
<1>3. CASE Irq
    BY <1>3, IrqConditions
<1>4. CASE seltoirq
    BY <1>4 DEF seltoirq, TimerSelect, TimerReset, TimerFree, TimerIdle, Timer, IrqQueues
<1>5. CASE UNCHANGED vars
    BY <1>5 DEF vars, ChipFollows, Conditions, OnePhysical, outstanding
<1> QED
    BY <1>1, <1>2, <1>3, <1>4, <1>5 DEF Next

\* What holds of the chip and the threads, with the types.
Follows == TypeOK /\ IrqQueues /\ ChipFollows /\ Conditions

LEMMA AlwaysFollows ==
    ASSUME PlainFaults
    PROVE  Spec => []Follows
<1>1. Init => ChipFollows /\ Conditions
    BY ChipFollowsInit
<1>2. TypeOK /\ IrqQueues /\ ChipFollows /\ Conditions /\ [Next]_vars
      => ChipFollows' /\ Conditions'
    BY ChipFollowsStep
<1>3. ~AuxTimer
    BY DEF PlainFaults
<1> QED
    BY <1>1, <1>2, <1>3, TypeCorrect, IrqOnlyQueues, PTL DEF Spec, Follows

\* At most the thread that phythread names is physical, in the build without the
\* auxiliary timer and under every fault but a bus error at rest and a missing
\* message at reselection: those two break it, as the code stands.
THEOREM Exclusion ==
    ASSUME PlainFaults
    PROVE  Spec => []OnePhysical
<1>1. Follows => OnePhysical
    BY DEF Follows, ChipFollows
<1> QED
    BY <1>1, AlwaysFollows, PTL
=============================================================================
