------------------------ MODULE NcrSiopServiceProofs ------------------------
(***************************************************************************)
(* That NcrSiop implements ScsiCommands, in the build without the auxiliary*)
(* timer, and what callers of exec() have from that.  It rests on what     *)
(* NcrSiopBusProofs says of threads, commands and the queue of wake-ups.   *)
(***************************************************************************)
EXTENDS NcrSiopBusProofs, NcrSiopService

USE DEF procVars, semVars, cmdVars, threadVars, wakeVars, schedVars, busVars, irqVars

-----------------------------------------------------------------------------
(***************************************************************************)
(* The service of ScsiCommands.  A thread is finished with an error, or    *)
(* after its target has carried the command out: the SCRIPT reports it     *)
(* done only then, or at the end of FREEIT, which starts with an error.    *)
(***************************************************************************)
Answers ==
    /\ \A p \in Procs : pc[p] = "result" => threadstate[cid[p]] = "DONE"
    /\ \A p \in Procs : command(p) \in executed =>
          /\ pc[p] \in {"check", "sleep", "result"}
          /\ \/ threadstate[cid[p]] = "DONE"
             \/ phythread = cid[p] /\ outstanding \cap {"SC_DONE", "RRST"} # {}
    /\ "SC_DONE" \in outstanding => \/ "RRST" \in outstanding
                                    \/ chiperror[phythread] # "none"
                                    \/ command(processid[phythread]) \in executed
    /\ dsp = "FREEIT" => chiperror[phythread] # "none"

\* What a routine of irq() leaves in chiperror.
Tells(c) ==
    /\ \A i \in Ids : chiperror'[i] = "none" => chiperror[i] = "none"
    /\ \A i \in Ids : i # phythread /\ ~(c = "RRST" /\ i \in broken)
                      => chiperror'[i] = chiperror[i]
    /\ c \in {"UDC", "STO", "UNKNPH", "BF", "PAR"} => chiperror'[phythread] # "none"
    /\ c = "RRST" => \A i \in broken : chiperror'[i] # "none"

LEMMA IrqTells ==
    ASSUME TypeOK, Irq, NEW c, Serve(c)
    PROVE  Tells(c)
<1>1. chiperror \in [Ids -> ChipErrors] /\ phythread \in Ids
    BY DEF TypeOK, ThreadsOK, SchedOK
<1>2. \A d : Serve(d) => d = c
    BY DEF Serve
<1>3. ~IrqSort /\ ~IrqExit
    BY DEF IrqSort, IrqExit, Serve
<1>4. ASSUME NEW d \in {"BUSY", "E_UNIT", "E_HARDWARE"}, SetError(phythread, d), c # "RRST"
      PROVE  Tells(c)
    BY <1>1, <1>4 DEF SetError, Tells
<1>5. ASSUME chiperror' = chiperror, c \notin {"RRST", "UDC", "STO", "UNKNPH", "BF", "PAR"}
      PROVE  Tells(c)
    BY <1>5 DEF Tells
<1>6. CASE scripti_done \/ scripti_sigp \/ scripti_resel \/ scripti_again \/ scripti_idisc
          \/ notmsgi \/ siop_pm
    BY <1>2, <1>5, <1>6
    DEF scripti_done, scripti_sigp, scripti_resel, scripti_again, scripti_idisc, notmsgi,
        siop_pm
<1>7. CASE unknph \/ scripti_badmsg \/ dma_buserror \/ siop_par
    BY <1>2, <1>4, <1>7 DEF unknph, scripti_badmsg, dma_buserror, siop_par
<1>8. CASE siop_udc \/ siop_sto \/ siop_sge
    BY <1>2, <1>4, <1>8 DEF siop_udc, siop_sto, siop_sge
<1>9. CASE siop_rrst
  <2>1. c = "RRST"
      BY <1>2, <1>9 DEF siop_rrst
  <2> QED
      BY <1>1, <1>9, <2>1 DEF siop_rrst, resetThreads, Tells, broken, Ids
<1> QED
    BY <1>3, <1>6, <1>7, <1>8, <1>9 DEF Irq

Sound == Reported /\ Ends /\ Answers

\* Facts on which the cases rest.
LEMMA CallTypes ==
    ASSUME Sound
    PROVE  /\ pc \in [Procs -> {"idle", "chipwait", "grabsem", "semwait"} \cup Critical]
           /\ cid \in [Procs -> Ids] /\ tag \in [Procs -> 0..(Tags - 1)]
           /\ threadstate \in [Ids -> ThreadStates] /\ chiperror \in [Ids -> ChipErrors]
           /\ cmdstatus \in [Ids -> Statuses] /\ processid \in [Ids -> Procs \cup {NoProc}]
           /\ phythread \in Ids /\ SelfId \in Ids /\ SelfId \notin Targets
           /\ \A p \in Procs : pc[p] # "idle" => cid[p] \in Targets
    BY IdsAssumption
    DEF Sound, Reported, IdleThread, Grounded, TypeOK, CallersOK, ThreadsOK,
        SchedOK, Ids

\* The process whose thread is physical waits for it.
LEMMA Owner ==
    ASSUME Sound, phythread \in Targets
    PROVE  /\ processid[phythread] \in Procs
           /\ pc[processid[phythread]] \in {"check", "sleep"}
           /\ cid[processid[phythread]] = phythread
           /\ threadstate[phythread] = "PHYSICAL"
<1>1. threadstate[phythread] = "PHYSICAL"
    BY DEF Sound, Reported, Carried, Owned
<1>2. PICK p \in Procs : pc[p] \in {"check", "sleep"} /\ cid[p] = phythread
    BY <1>1 DEF Sound, Reported, Carried, Owned, Settled
<1>3. processid[phythread] = p
    BY <1>2 DEF Sound, Reported, Grounded, OneOwner, Critical
<1> QED
    BY <1>1, <1>2, <1>3

LEMMA ProcessAnswers ==
    ASSUME Sound, OwnIdUnused, NEW p \in Procs,
           Process(p) \/ \E i \in Uses[p] : Exec(p, i)
    PROVE  Answers'
<1>1. UNCHANGED <<dsp, phythread>> /\ outstanding' = outstanding /\ ~inirq
    BY ProcessesKeep DEF outstanding, Process, Exec, ChipWait, GrabSem, WaitSem, Setup,
       Enqueue, CheckDone, WakeUp, Return
<1>2. \A q \in Procs : q # p => pc'[q] = pc[q] /\ cid'[q] = cid[q] /\ tag'[q] = tag[q]
    BY CallTypes DEF Process, Exec, ChipWait, GrabSem, WaitSem, Setup, Enqueue, CheckDone,
       WakeUp, Return
<1>3. ASSUME NEW q \in Procs, q # p, pc[q] \in Critical
      PROVE  threadstate'[cid[q]] = threadstate[cid[q]]
    BY <1>3, CallTypes
    DEF Process, Exec, ChipWait, GrabSem, WaitSem, Setup, Enqueue, CheckDone, WakeUp, Return,
        Sound, Reported, Grounded, OneOwner, Critical
<1>4. \A q \in Procs : q # p => (command(q) \in executed <=> (command(q) \in executed)')
    BY <1>2, ProcsAssumption
    DEF command, Process, Exec, ChipWait, GrabSem, WaitSem, Setup, Enqueue, CheckDone,
        WakeUp, Return
<1>5. \A q \in Procs : pc'[q] = "result" => threadstate'[cid'[q]] = "DONE"
  <2>1. ASSUME NEW q \in Procs, q # p, pc'[q] = "result"
        PROVE  threadstate'[cid'[q]] = "DONE"
      BY <1>2, <1>3, <2>1 DEF Sound, Answers, Critical
  <2>2. pc'[p] = "result" => threadstate'[cid'[p]] = "DONE"
      BY CallTypes DEF Process, Exec, ChipWait, GrabSem, WaitSem, Setup, Enqueue, CheckDone,
         WakeUp, Return
  <2> QED
      BY <2>1, <2>2
<1>6. ASSUME NEW q \in Procs, (command(q) \in executed)'
      PROVE  /\ pc'[q] \in {"check", "sleep", "result"}
             /\ \/ threadstate'[cid'[q]] = "DONE"
                \/ phythread' = cid'[q] /\ outstanding' \cap {"SC_DONE", "RRST"} # {}
  <2>1. CASE q # p
      BY <1>1, <1>2, <1>3, <1>4, <1>6, <2>1 DEF Sound, Answers, Critical
  <2>2. CASE q = p
    <3>1. ASSUME NEW i \in Uses[p], Exec(p, i) PROVE FALSE
        BY <1>6, <2>2, <3>1, CallTypes, ProcsAssumption DEF Exec, command
    <3>2. CASE Return(p)
        BY <1>6, <2>2, <3>2 DEF Return, command
    <3>3. CASE CheckDone(p) \/ WakeUp(p)
        BY <1>1, <1>6, <2>2, <3>3, CallTypes DEF CheckDone, WakeUp, command, Sound, Answers
    <3>4. CASE ChipWait(p) \/ GrabSem(p) \/ WaitSem(p) \/ Setup(p) \/ Enqueue(p)
        BY <1>6, <2>2, <3>4
        DEF ChipWait, GrabSem, WaitSem, Setup, Enqueue, command, Sound, Answers
    <3> QED
        BY <3>1, <3>2, <3>3, <3>4 DEF Process
  <2> QED
      BY <2>1, <2>2
\* the error and the command of the physical thread
<1>7. chiperror'[phythread] = chiperror[phythread]
  <2>1. ~(Setup(p) /\ cid[p] = phythread)
      BY CallTypes, Owner DEF Setup, Sound, Reported, Grounded, OneOwner, Critical
  <2> QED
      BY <2>1, CallTypes DEF Process, Exec, ChipWait, GrabSem, WaitSem, Setup, Enqueue,
         CheckDone, WakeUp, Return
<1>8. phythread \in Targets /\ command(processid[phythread]) \in executed
      => (command(processid[phythread]) \in executed)'
  <2>1. SUFFICES ASSUME phythread \in Targets, command(processid[phythread]) \in executed
                 PROVE  (command(processid[phythread]) \in executed)'
      OBVIOUS
  <2>2. PICK o \in Procs : /\ processid[phythread] = o /\ pc[o] \in {"check", "sleep"}
                           /\ cid[o] = phythread
      BY <2>1, Owner
  <2>3. processid'[phythread] = o
      BY <2>2, CallTypes DEF Process, Exec, ChipWait, GrabSem, WaitSem, Setup, Enqueue,
         CheckDone, WakeUp, Return, Sound, Reported, Grounded, OneOwner, Critical
  <2>4. (command(o) \in executed)'
    <3>1. CASE o # p
        BY <1>4, <2>1, <2>2, <3>1
    <3>2. CASE o = p
      <4>1. CheckDone(p) \/ WakeUp(p)
          BY <2>2, <3>2 DEF Process, Exec, ChipWait, GrabSem, WaitSem, Setup, Enqueue,
             CheckDone, WakeUp, Return
      <4> QED
          BY <2>1, <2>2, <3>2, <4>1 DEF CheckDone, WakeUp, command
    <3> QED
        BY <3>1, <3>2
  <2> QED
      BY <1>1, <2>3, <2>4
<1>9. "SC_DONE" \in outstanding => phythread \in Targets \/ "RRST" \in outstanding
    BY <1>1 DEF Sound, Ends, Ending
<1> QED
    BY <1>1, <1>5, <1>6, <1>7, <1>8, <1>9 DEF Answers, Sound

LEMMA ChipAnswers ==
    ASSUME Sound, Chip \/ Trouble
    PROVE  Answers'
<1> USE DEF ChipOnly, Running, Connected, Latch, outstanding
<1>1. UNCHANGED <<pc, cid, tag, processid, threadstate, phythread, todo, chiperror>>
    BY DEF Chip, Trouble, WaitSigp, SelectWon, SelectDone, SelectTimeout,
           SendCommand, DataPhase, PhaseMismatch, CommandComplete, Disconnect, FreeIt,
           Reselected, Reconnected, Reselect, UnexpectedDisconnect, BusReset, BusError,
           ConnectedTrouble, Fault
<1>2. \A p \in Procs \cup {NoProc} : command(p)' = command(p)
    BY <1>1 DEF command
<1>3. CASE CommandComplete
  <2>1. /\ conn # NoTarget /\ tgt[conn].st = "busy" /\ outstanding = {} /\ outstanding' = {"SC_DONE"}
        /\ executed' = executed \cup {tgt[conn].cmd} /\ dsp' = "HALT"
      BY <1>3 DEF CommandComplete
  <2>2. phythread = conn /\ conn \in Targets
      BY <2>1 DEF Sound, Reported, Grounded, Connection, Follows, TypeOK, BusOK
  <2>3. tgt[conn].cmd = command(processid[phythread])
      BY <2>1, <2>2 DEF Sound, Reported, Carried, Carries, Hold
  <2> DEFINE o == processid[phythread]
  <2>4. o \in Procs /\ pc[o] \in {"check", "sleep"} /\ cid[o] = phythread
      BY <2>2, Owner
  <2>5. \A p \in Procs : command(p) = command(o) => p = o
      BY <2>4, ProcsAssumption DEF command
  <2>6. ASSUME NEW p \in Procs, command(p) \in executed'
        PROVE  /\ pc[p] \in {"check", "sleep", "result"}
               /\ \/ threadstate[cid[p]] = "DONE"
                  \/ phythread = cid[p] /\ outstanding' \cap {"SC_DONE", "RRST"} # {}
    <3>1. command(p) \in executed \/ p = o
        BY <2>1, <2>3, <2>5, <2>6
    <3> QED
        BY <2>1, <2>4, <3>1 DEF Sound, Answers
  <2> QED
      BY <1>1, <1>2, <2>1, <2>3, <2>4, <2>6 DEF Sound, Answers
<1>4. CASE BusReset
    BY <1>1, <1>2, <1>4 DEF BusReset, Fault, Sound, Answers
<1>5. ASSUME executed' = executed, outstanding = {}, "SC_DONE" \in outstanding' => dsp = "FREEIT",
             dsp' = "FREEIT" => dsp = "FREEIT"
      PROVE  Answers'
    BY <1>1, <1>2, <1>5 DEF Sound, Answers
<1>6. CASE ~CommandComplete /\ ~BusReset
  <2>1. executed' = executed /\ outstanding = {}
      BY <1>6 DEF Chip, Trouble, WaitSigp, SelectWon, SelectDone, SelectTimeout,
         SendCommand, DataPhase, PhaseMismatch, Disconnect, FreeIt,
         Reselected, Reconnected, Reselect, UnexpectedDisconnect, BusError, ConnectedTrouble, Fault
  <2>2. "SC_DONE" \in outstanding' => dsp = "FREEIT"
      BY <1>1, <1>6, <2>1 DEF Chip, Trouble, WaitSigp, SelectWon, SelectDone, SelectTimeout,
         SendCommand, DataPhase, PhaseMismatch, Disconnect, FreeIt,
         Reselected, Reconnected, Reselect, UnexpectedDisconnect, BusError, ConnectedTrouble
  <2>3. dsp' = "FREEIT" => dsp = "FREEIT"
      BY <1>6 DEF Chip, Trouble, WaitSigp, SelectWon, SelectDone, SelectTimeout,
         SendCommand, DataPhase, PhaseMismatch, Disconnect, FreeIt,
         Reselected, Reconnected, Reselect, UnexpectedDisconnect, BusError, ConnectedTrouble
  <2> QED
      BY <1>5, <2>1, <2>2, <2>3
<1> QED
    BY <1>3, <1>4, <1>6

LEMMA ServeAnswers ==
    ASSUME Sound, NEW c, Serve(c), Outcome(c), BusAlone, Tells(c)
    PROVE  Answers'
<1>1. /\ c \in todo /\ outstanding = todo /\ outstanding' = todo \ {c} /\ c \in outstanding
      /\ todo \subseteq ScsiBits \/ todo \subseteq DmaBits
      /\ UNCHANGED <<pc, cid, tag, processid, executed>>
    BY Serving DEF Serve, BusAlone, Sound, Reported, outstanding
<1>2. "SC_DONE" \notin outstanding'
    BY <1>1, Serving DEF Sound, Reported, ScsiBits, DmaBits
<1>3. ASSUME NEW t \in Targets, threadstate[t] = "DONE" PROVE threadstate'[t] = "DONE"
    BY <1>3, ServeThread DEF Sound, Reported
\* a command that was carried out and whose thread is not done is done now, or waits
\* for a bus reset to be served
<1>4. ASSUME NEW t \in Targets, phythread = t, outstanding \cap {"SC_DONE", "RRST"} # {}
      PROVE  threadstate'[t] = "DONE" \/ (phythread' = t /\ "RRST" \in outstanding')
  <2>1. threadstate[t] = "PHYSICAL"
      BY <1>4 DEF Sound, Reported, Carried, Owned
  <2>2. CASE "SC_DONE" \in outstanding
    <3>1. c = "SC_DONE"
        BY <1>1, <1>2, <2>2
    <3> QED
        BY <1>4, <3>1, ServeThread DEF Sound, Reported, Ending
  <2>3. CASE c = "RRST"
      BY <2>1, <2>3, ServeThread DEF Sound, Reported
  <2>4. CASE "RRST" \in outstanding /\ c # "RRST"
    <3>1. c = "PAR"
      <4>1. c \in ScsiBits /\ Rank(c) <= Rank("RRST")
          BY <1>1, <2>4 DEF Serve, ScsiBits, DmaBits
      <4> QED
          BY <2>4, <4>1 DEF Rank, ScsiBits
    <3>2. Frees
        BY <1>4, <3>1, IdsAssumption DEF Outcome, Ending, Mending
    <3> QED
        BY <1>1, <1>4, <2>4, <3>1, <3>2 DEF Frees
  <2> QED
      BY <1>4, <2>2, <2>3, <2>4
<1>5. \A p \in Procs : pc'[p] = "result" => threadstate'[cid'[p]] = "DONE"
    BY <1>1, <1>3, CallTypes DEF Sound, Answers
<1>6. ASSUME NEW p \in Procs, (command(p) \in executed)'
      PROVE  /\ pc'[p] \in {"check", "sleep", "result"}
             /\ \/ threadstate'[cid'[p]] = "DONE"
                \/ phythread' = cid'[p] /\ outstanding' \cap {"SC_DONE", "RRST"} # {}
  <2>1. command(p) \in executed
      BY <1>1, <1>6 DEF command
  <2>2. cid[p] \in Targets
      BY <2>1, CallTypes DEF Sound, Answers
  <2> QED
      BY <1>1, <1>3, <1>4, <2>1, <2>2 DEF Sound, Answers
<1>7. dsp' = "FREEIT" => chiperror'[phythread'] # "none"
  <2>1. SUFFICES ASSUME dsp' = "FREEIT" PROVE chiperror'[phythread'] # "none"
      OBVIOUS
  <2>2. \A t \in Ids : scriptstart[t] # "FREEIT"
      BY DEF Sound, Reported, Grounded, TypeOK, ThreadsOK, Entries
  <2>3. \A ts : nextThread(ts) \in Ids
      BY NextThread
  <2>4. c \in {"UNKNPH", "BF", "PAR"} /\ Frees
      BY <2>1, <2>2, <2>3 DEF Outcome, Starts, Continues
  <2> QED
      BY <2>4 DEF Frees, Tells
<1> QED
    BY <1>2, <1>5, <1>6, <1>7 DEF Answers

LEMMA AnswersStep ==
    ASSUME OwnIdUnused, Sound, [Next]_vars
    PROVE  Answers'
\* a SC_DONE that is lost is that of a command the bus reset ends
<1>1. CASE IrqSort
    BY <1>1, SortKeeps DEF Sound, Reported, Answers, command
<1>2. CASE IrqExit
    BY <1>2 DEF IrqExit, Sound, Answers, command, outstanding
<1>3. CASE siop_sge
  <2>1. /\ UNCHANGED <<pc, cid, tag, processid, threadstate, phythread, dsp, executed>>
        /\ outstanding = {"SGE"} /\ "SC_DONE" \notin outstanding'
      BY <1>3, GrossError DEF Sound, Reported, outstanding
  <2>2. chiperror'[phythread] # "none"
      BY <1>3, CallTypes DEF siop_sge, SetError
  <2> QED
      BY <2>1, <2>2 DEF Sound, Answers, command
<1>4. CASE seltoirq
    BY <1>4 DEF seltoirq, TimerSelect, TimerReset, TimerFree, TimerIdle, Timer, Sound,
                Reported, Grounded, IrqQueues
<1>5. CASE UNCHANGED vars
    BY <1>5 DEF vars, Sound, Answers, command, outstanding
<1>6. CASE Irq
  <2>1. TypeOK /\ Grounded
      BY DEF Sound, Reported, Grounded
  <2> QED
      BY <1>1, <1>2, <1>3, <1>6, <2>1, IrqOutcome, IrqTells, ServeAnswers
<1> QED
    BY <1>4, <1>5, <1>6, ProcessAnswers, ChipAnswers DEF Next

LEMMA AlwaysSound ==
    ASSUME CommandsKept, OwnIdUnused
    PROVE  Spec => []Sound
<1>1. Init => Answers
    BY DEF Init, Answers, outstanding
<1>2. Reported /\ Ends /\ Answers /\ [Next]_vars => Answers'
    BY AnswersStep DEF Sound
<1> QED
    BY <1>1, <1>2, AlwaysQueued, PTL DEF Spec, Sound

-----------------------------------------------------------------------------
(***************************************************************************)
(* The step mapping.                                                       *)
(***************************************************************************)
Waits == {"chipwait", "grabsem", "semwait"}

LEMMA StateMeans ==
    ASSUME NEW p \in Procs, pc[p] \in {"idle"} \cup Waits \cup Critical
    PROVE  /\ pc[p] = "idle" => callState(p) = "idle"
           /\ pc[p] \in Waits => callState(p) = "waiting"
           /\ answered(p) => callState(p) = "answered"
           /\ pc[p] \in Critical /\ ~answered(p) => callState(p) = "active"
           /\ pc[p] \in {"idle", "setup", "enqueue"} \cup Waits => ~answered(p)
    BY DEF callState, answered, Critical, Waits

LEMMA CallStates ==
    ASSUME Sound, Sound'
    PROVE  \A p \in Procs : /\ pc[p] \in {"idle"} \cup Waits \cup Critical
                            /\ pc'[p] \in {"idle"} \cup Waits \cup Critical
    BY DEF Sound, Reported, Grounded, TypeOK, CallersOK, Waits

LEMMA StateMeansNext ==
    ASSUME NEW p \in Procs, pc'[p] \in {"idle"} \cup Waits \cup Critical
    PROVE  /\ pc'[p] = "idle" => callState(p)' = "idle"
           /\ pc'[p] \in Waits => callState(p)' = "waiting"
           /\ answered(p)' => callState(p)' = "answered"
           /\ pc'[p] \in Critical /\ ~answered(p)' => callState(p)' = "active"
           /\ pc'[p] \in {"idle", "setup", "enqueue"} \cup Waits => ~answered(p)'
    BY DEF callState, answered, Critical, Waits

\* What exec() is told of a call that no step is about.
Same(p) ==
    /\ callState(p)' = callState(p)
    /\ answered(p)' <=> answered(p)
    /\ answered(p) => Result(cid[p])' = Result(cid[p])
    /\ (command(p) \in executed)' <=> command(p) \in executed

LEMMA Stutters ==
    ASSUME \A p \in Procs : Same(p), cid' = cid
    PROVE  UNCHANGED Service!vars
    BY DEF Same, Service!vars

LEMMA MapExec ==
    ASSUME Sound, Sound', NEW p \in Procs, NEW i \in Uses[p], Exec(p, i)
    PROVE  Service!Call(p, i)
<1>1. i \in Ids
    BY ProcsAssumption
<1>2. callState(p) = "idle" /\ callState(p)' = "waiting" /\ ~answered(p) /\ ~answered(p)'
    BY CallTypes, CallStates, StateMeans, StateMeansNext DEF Exec, Waits
<1>3. cid' = [cid EXCEPT ![p] = i]
    BY DEF Exec
<1>4. ~(command(p) \in executed) /\ ~(command(p) \in executed)'
    BY CallTypes, ProcsAssumption DEF Exec, command, Sound, Answers
<1>5. ASSUME NEW q \in Procs, q # p PROVE Same(q)
    BY <1>5, CallTypes, ProcsAssumption
    DEF Exec, Same, callState, answered, Result, command
<1> QED
    BY <1>2, <1>3, <1>4, <1>5 DEF Same, Service!Call

\* The calls of the other processes are left alone.
LEMMA OthersSame ==
    ASSUME Sound, NEW p \in Procs, Process(p), NEW q \in Procs, q # p
    PROVE  Same(q)
<1>1. pc'[q] = pc[q] /\ cid'[q] = cid[q] /\ tag'[q] = tag[q]
    BY CallTypes DEF Process, ChipWait, GrabSem, WaitSem, Setup, Enqueue, CheckDone,
       WakeUp, Return
<1>2. (command(q) \in executed)' <=> command(q) \in executed
    BY <1>1, ProcsAssumption DEF command, Process, ChipWait, GrabSem, WaitSem, Setup,
       Enqueue, CheckDone, WakeUp, Return
<1>3. ASSUME pc[q] \in Critical
      PROVE  /\ threadstate'[cid[q]] = threadstate[cid[q]]
             /\ chiperror'[cid[q]] = chiperror[cid[q]]
             /\ cmdstatus'[cid[q]] = cmdstatus[cid[q]]
    BY <1>3, CallTypes
    DEF Process, ChipWait, GrabSem, WaitSem, Setup, Enqueue, CheckDone, WakeUp, Return,
        Sound, Reported, Grounded, OneOwner, Critical
<1> QED
    BY <1>1, <1>2, <1>3 DEF Same, callState, answered, Result, Critical

LEMMA MapProcess ==
    ASSUME Sound, Sound', NEW p \in Procs, Process(p)
    PROVE  UNCHANGED Service!vars \/ Service!Activate(p) \/ Service!Return(p)
<1>1. \A q \in Procs : q # p => Same(q)
    BY OthersSame
<1>2. cid' = cid
    BY DEF Process, ChipWait, GrabSem, WaitSem, Setup, Enqueue, CheckDone, WakeUp, Return
<1>3. CASE ChipWait(p) \/ WaitSem(p)
  <2>1. /\ callState(p) = "waiting" /\ callState(p)' = "waiting"
        /\ ~answered(p) /\ ~answered(p)'
      BY <1>3, CallTypes, CallStates, StateMeans, StateMeansNext DEF ChipWait, WaitSem, Waits
  <2>2. Same(p)
      BY <1>3, <2>1 DEF Same, ChipWait, WaitSem, command
  <2> QED
      BY <1>1, <1>2, <2>2, Stutters
<1>4. CASE Setup(p) \/ Enqueue(p)
  <2>1. /\ pc[p] \in {"setup", "enqueue"}
        /\ pc'[p] = "enqueue" \/ (pc'[p] = "check" /\ threadstate'[cid'[p]] = "PENDING")
      BY <1>4, CallTypes DEF Setup, Enqueue
  <2>2. ~answered(p) /\ ~answered(p)'
      BY <2>1 DEF answered
  <2>3. callState(p) = "active" /\ callState(p)' = "active"
      BY <2>1, <2>2, CallStates, StateMeans, StateMeansNext DEF Critical
  <2>4. Same(p)
      BY <1>4, <2>2, <2>3 DEF Same, Setup, Enqueue, command
  <2> QED
      BY <1>1, <1>2, <2>4, Stutters
<1>5. CASE CheckDone(p) \/ WakeUp(p)
  <2>1. /\ pc[p] \in {"check", "sleep"} /\ pc'[p] \in {"check", "sleep", "result"}
        /\ UNCHANGED <<tag, threadstate, chiperror, cmdstatus, executed>>
      BY <1>5, CallTypes DEF CheckDone, WakeUp
  <2>2. answered(p)' <=> answered(p)
      BY <1>2, <2>1 DEF answered
  <2>3. callState(p)' = callState(p)
      BY <2>1, <2>2, CallStates, StateMeans, StateMeansNext DEF Critical
  <2>4. Same(p)
      BY <1>2, <2>1, <2>2, <2>3 DEF Same, command, Result
  <2> QED
      BY <1>1, <1>2, <2>4, Stutters
<1>6. CASE GrabSem(p)
  <2>1. /\ callState(p) = "waiting" /\ callState(p)' = "active"
        /\ ~answered(p) /\ ~answered(p)'
      BY <1>6, CallTypes, CallStates, StateMeans, StateMeansNext DEF GrabSem, Waits, Critical
  <2>2. ASSUME NEW q \in Procs, callState(q) \in {"active", "answered"}, cid[q] = cid[p]
        PROVE  FALSE
    <3>1. pc[q] \in Critical
        BY <2>2, CallStates, StateMeans
    <3>2. thread_sem[cid[p]] = 1
        BY <2>2, <3>1, CallTypes DEF Sound, Reported, Grounded, OneOwner
    <3> QED
        BY <1>6, <3>2 DEF GrabSem, semFree
  <2>3. (command(p) \in executed)' <=> command(p) \in executed
      BY <1>6 DEF GrabSem, command
  <2> QED
      BY <1>1, <1>2, <2>1, <2>2, <2>3 DEF Service!Activate, Service!Occupied, Same
<1>7. CASE Return(p)
  <2>1. /\ callState(p) = "answered" /\ callState(p)' = "idle" /\ ~answered(p)'
    <3>1. answered(p) /\ pc'[p] = "idle"
        BY <1>7, CallTypes DEF Return, Sound, Answers, answered
    <3> QED
        BY <3>1, CallStates, StateMeans, StateMeansNext
  <2>2. ~(command(p) \in executed)'
      BY <1>7 DEF Return, command
  <2> QED
      BY <1>1, <1>2, <2>1, <2>2 DEF Service!Return, Same
<1> QED
    BY <1>3, <1>4, <1>5, <1>6, <1>7 DEF Process

LEMMA MapChip ==
    ASSUME Sound, Sound', Chip \/ Trouble
    PROVE  UNCHANGED Service!vars \/ \E p \in Procs : Service!CarryOut(p)
<1> USE DEF ChipOnly, Running, Connected, Latch, outstanding
<1>1. UNCHANGED <<pc, cid, tag, processid, threadstate, phythread, chiperror>>
    BY DEF Chip, Trouble, WaitSigp, SelectWon, SelectDone, SelectTimeout,
           SendCommand, DataPhase, PhaseMismatch, CommandComplete, Disconnect, FreeIt,
           Reselected, Reconnected, Reselect, UnexpectedDisconnect, BusReset, BusError,
           ConnectedTrouble, Fault
<1>2. \A p \in Procs : /\ callState(p)' = callState(p) /\ (answered(p)' <=> answered(p))
                       /\ command(p)' = command(p)
    BY <1>1 DEF callState, answered, command
<1>3. CASE CommandComplete
  <2>1. /\ conn # NoTarget /\ tgt[conn].st = "busy" /\ outstanding = {}
        /\ executed' = executed \cup {tgt[conn].cmd}
        /\ \A i \in Ids : i # phythread => cmdstatus'[i] = cmdstatus[i]
      BY <1>3, CallTypes DEF CommandComplete
  <2>2. phythread = conn /\ conn \in Targets
      BY <2>1 DEF Sound, Reported, Grounded, Connection, Follows, TypeOK, BusOK
  <2>3. tgt[conn].cmd = command(processid[phythread])
      BY <2>1, <2>2 DEF Sound, Reported, Carried, Carries, Hold
  <2>4. PICK o \in Procs : /\ o = processid[phythread] /\ pc[o] \in {"check", "sleep"}
                           /\ cid[o] = phythread /\ threadstate[phythread] = "PHYSICAL"
      BY <2>2, Owner
  <2>5. \A p \in Procs : command(p) = command(o) => p = o
      BY <2>4, ProcsAssumption DEF command
  <2>6. ~answered(o)
      BY <2>4 DEF answered
  <2>7. callState(o) = "active"
      BY <2>4, <2>6, CallStates, StateMeans DEF Critical
  <2>8. ~(command(o) \in executed)
      BY <2>1, <2>4 DEF Sound, Answers
  <2>9. {p \in Procs : command(p) \in executed}'
        = {p \in Procs : command(p) \in executed} \cup {o}
      BY <1>2, <2>1, <2>3, <2>4, <2>5
  <2>10. \A p \in Procs : answered(p) => Result(cid[p])' = Result(cid[p])
    <3>1. \A p \in Procs : answered(p) => cid[p] # phythread
        BY <2>4 DEF answered
    <3> QED
        BY <1>1, <2>1, <3>1, CallTypes DEF Result
  <2>11. Service!CarryOut(o)
      BY <1>1, <1>2, <2>7, <2>8, <2>9, <2>10 DEF Service!CarryOut
  <2> QED
      BY <2>11
<1>4. CASE ~CommandComplete
  <2>1. executed' = executed /\ cmdstatus' = cmdstatus
      BY <1>4 DEF Chip, Trouble, WaitSigp, SelectWon, SelectDone, SelectTimeout,
         SendCommand, DataPhase, PhaseMismatch, Disconnect, FreeIt,
         Reselected, Reconnected, Reselect, UnexpectedDisconnect, BusReset, BusError,
         ConnectedTrouble, Fault
  <2>2. \A p \in Procs : Same(p)
      BY <1>1, <1>2, <2>1 DEF Same, Result
  <2> QED
      BY <1>1, <2>2, Stutters
<1> QED
    BY <1>3, <1>4

\* A thread that stays done keeps its result, and one that is finished has an error or
\* the status of a command that was carried out.
LEMMA ServeResults ==
    ASSUME Sound, Sound', NEW c, Serve(c), Outcome(c), BusAlone, Tells(c),
           NEW p \in Procs, pc[p] \in {"check", "sleep", "result"},
           NEW t \in Targets, t = cid[p]
    PROVE  /\ answered(p) => answered(p)' /\ Result(cid[p])' = Result(cid[p])
           /\ ~answered(p) /\ answered(p)' =>
                 Result(cid[p])' \in (ChipErrors \ {"none"})
                                    \cup (IF command(p) \in executed THEN Statuses ELSE {})
<1>1. /\ c \in todo /\ outstanding = todo /\ intr = {}
      /\ todo \subseteq ScsiBits \/ todo \subseteq DmaBits
      /\ UNCHANGED <<pc, cid, tag, processid, cmdstatus, executed>>
    BY Serving DEF Serve, Sound, Reported
<1>2. t \in Ids
    BY DEF Ids
<1>3. phythread = t => threadstate[t] = "PHYSICAL"
    BY <1>2 DEF Sound, Reported, Carried, Owned
<1>4. threadstate'[t] = "DONE" <=> \/ threadstate[t] = "DONE"
                                   \/ c \in Ending /\ phythread = t
                                   \/ c = "RRST" /\ threadstate[t] \in {"PHYSICAL", "LOGICAL"}
    BY ServeThread DEF Sound, Reported
<1>5. ASSUME answered(p) PROVE answered(p)' /\ Result(cid[p])' = Result(cid[p])
  <2>1. threadstate[t] = "DONE" /\ phythread # t /\ t \notin broken
      BY <1>3, <1>5 DEF answered, broken
  <2>2. chiperror'[t] = chiperror[t]
      BY <1>2, <2>1 DEF Tells
  <2>3. threadstate'[t] = "DONE" /\ cmdstatus'[t] = cmdstatus[t]
      BY <1>1, <1>4, <2>1
  <2>4. pc'[p] = pc[p] /\ cid'[p] = t
      BY <1>1
  <2>5. answered(p)'
      BY <2>3, <2>4 DEF answered
  <2>6. Result(cid[p])' = Result(cid[p])
      BY <2>2, <2>3, <2>4 DEF Result
  <2> QED
      BY <2>5, <2>6
<1>6. ASSUME ~answered(p), answered(p)'
      PROVE  Result(cid[p])' \in (ChipErrors \ {"none"})
                                 \cup (IF command(p) \in executed THEN Statuses ELSE {})
  <2>1. \/ c \in Ending /\ phythread = t
        \/ c = "RRST" /\ t \in broken
      BY <1>1, <1>2, <1>4, <1>6 DEF answered, broken
  <2>2. chiperror' \in [Ids -> ChipErrors] /\ cmdstatus[t] \in Statuses
      BY <1>2, CallTypes DEF Sound, Reported, Grounded, TypeOK, ThreadsOK
  <2>3. chiperror'[t] # "none" \/ command(p) \in executed
    <3>1. CASE c \in {"UDC", "STO", "RRST"}
        BY <2>1, <3>1 DEF Tells, Ending
    <3>2. CASE c = "SC_DONE"
      <4>1. phythread = t /\ "RRST" \notin outstanding
          BY <1>1, <2>1, <3>2 DEF ScsiBits, DmaBits
      <4>2. chiperror[t] # "none" \/ command(processid[t]) \in executed
          BY <1>1, <3>2, <4>1 DEF Sound, Answers
      <4>3. processid[t] = p
          BY DEF Sound, Reported, Grounded, OneOwner, Critical
      <4> QED
          BY <1>2, <4>2, <4>3 DEF Tells
    <3> QED
        BY <2>1, <3>1, <3>2 DEF Ending
  <2> QED
      BY <1>1, <1>2, <2>2, <2>3 DEF Result
<1> QED
    BY <1>5, <1>6

LEMMA MapServe ==
    ASSUME Sound, Sound', NEW c, Serve(c), Outcome(c), BusAlone, Tells(c)
    PROVE  UNCHANGED Service!vars \/ \E S \in SUBSET Procs : Service!AnswerAll(S)
<1> DEFINE S == {p \in Procs : ~answered(p) /\ answered(p)'}
<1>1. UNCHANGED <<pc, cid, tag, executed>>
    BY DEF Serve
<1>2. \A p \in Procs : answered(p) => answered(p)' /\ Result(cid[p])' = Result(cid[p])
    BY ServeResults, CallTypes DEF answered
<1>3. \A p \in Procs : command(p)' = command(p)
    BY <1>1 DEF command
<1>4. ASSUME NEW p \in Procs, p \notin S PROVE Same(p)
  <2>1. answered(p)' <=> answered(p)
      BY <1>2, <1>4
  <2>2. callState(p)' = callState(p)
      BY <1>1, <2>1 DEF callState
  <2> QED
      BY <1>1, <1>2, <1>3, <2>1, <2>2 DEF Same
<1>5. CASE S = {}
    BY <1>1, <1>4, <1>5, Stutters
<1>6. CASE S # {}
  <2>1. ASSUME NEW p \in S
        PROVE  /\ callState(p) = "active" /\ callState(p)' = "answered"
               /\ Result(cid[p])' \in (ChipErrors \ {"none"})
                                      \cup (IF command(p) \in executed THEN Statuses ELSE {})
    <3>1. p \in Procs /\ ~answered(p) /\ answered(p)'
        BY <2>1
    <3>2. pc[p] \in {"check", "sleep", "result"}
        BY <1>1, <3>1 DEF answered
    <3> QED
        BY <3>1, <3>2, CallTypes, CallStates, StateMeans, StateMeansNext, ServeResults
        DEF Critical
  <2> DEFINE st == [p \in Procs |-> callState(p)]
             done == {p \in Procs : command(p) \in executed}
             ans == [p \in Procs |-> IF answered(p) THEN Result(cid[p]) ELSE "none"]
  <2>2. st' = [p \in Procs |-> IF p \in S THEN "answered" ELSE st[p]]
      BY <1>4, <2>1 DEF Same
  <2>3. \A p \in Procs : ~answered(p) /\ p \notin S => ~answered(p)'
      OBVIOUS
  <2>4. ans' = [p \in Procs |-> IF p \in S THEN ans'[p] ELSE ans[p]]
      BY <1>4, <2>3 DEF Same
  <2>5. done' = done
      BY <1>1, <1>3
  <2>6. \A p \in S : /\ st[p] = "active"
                     /\ ans'[p] \in (ChipErrors \ {"none"})
                                    \cup (IF p \in done THEN Statuses ELSE {})
      BY <2>1
  <2>7. Service!AnswerAll(S)
      BY <1>1, <1>6, <2>2, <2>4, <2>5, <2>6 DEF Service!AnswerAll
  <2> QED
      BY <2>7
<1> QED
    BY <1>5, <1>6

LEMMA MapIrq ==
    ASSUME Sound, Sound', Irq
    PROVE  UNCHANGED Service!vars \/ \E S \in SUBSET Procs : Service!AnswerAll(S)
<1>1. CASE IrqSort \/ IrqExit \/ siop_sge
  <2>1. /\ UNCHANGED <<pc, cid, tag, threadstate, cmdstatus, executed>>
        /\ \A i \in Ids : i # phythread => chiperror'[i] = chiperror[i]
      BY <1>1, CallTypes DEF IrqSort, IrqExit, siop_sge, Serve, SetError
  <2>2. ASSUME NEW p \in Procs, answered(p) PROVE Result(cid[p])' = Result(cid[p])
    <3>1. cid[p] \in Targets /\ threadstate[cid[p]] = "DONE"
        BY <2>2, CallTypes DEF answered
    <3>2. cid[p] # phythread
        BY <3>1 DEF Sound, Reported, Carried, Owned
    <3> QED
        BY <2>1, <3>2, CallTypes DEF Result
  <2>3. \A p \in Procs : Same(p)
      BY <2>1, <2>2 DEF Same, callState, answered, command
  <2> QED
      BY <2>1, <2>3, Stutters
<1>2. TypeOK /\ Grounded
    BY DEF Sound, Reported, Grounded
<1> QED
    BY <1>1, <1>2, IrqOutcome, IrqTells, MapServe

LEMMA StepMaps ==
    ASSUME OwnIdUnused, Sound, Sound', [Next]_vars
    PROVE  [Service!Next]_(Service!vars)
<1>1. ASSUME NEW p \in Procs, NEW i \in Uses[p], Exec(p, i) PROVE Service!Next
  <2>1. i \in Ids
      BY ProcsAssumption
  <2> QED
      BY <1>1, <2>1, MapExec DEF Service!Next
<1>2. ASSUME NEW p \in Procs, Process(p) PROVE [Service!Next]_(Service!vars)
    BY <1>2, MapProcess DEF Service!Next
<1>3. CASE Chip \/ Trouble
    BY <1>3, MapChip DEF Service!Next
<1>4. CASE Irq
    BY <1>4, MapIrq DEF Service!Next
<1>5. CASE seltoirq
    BY <1>5 DEF seltoirq, TimerSelect, TimerReset, TimerFree, TimerIdle, Timer, Sound,
                Reported, Grounded, IrqQueues
<1>6. CASE UNCHANGED vars
    BY <1>6 DEF vars, Service!vars, callState, answered, command, Result
<1> QED
    BY <1>1, <1>2, <1>3, <1>4, <1>5, <1>6 DEF Next

\* The driver, the SCRIPT and the interrupt service provide the service of ScsiCommands:
\* each call is answered once, and with a device's status only if its command was carried
\* out.  Under every fault but a target that drops off the bus with its command, and as
\* long as nobody addresses our own id.
THEOREM Implements ==
    ASSUME CommandsKept, OwnIdUnused
    PROVE  Spec => ServiceSpec
<1>1. Init => Service!Init
  <2>1. ASSUME Init PROVE Service!Init
    <3>1. \A p \in Procs : callState(p) = "idle" /\ ~answered(p)
        BY <2>1 DEF Init, callState, answered
    <3>2. cid \in [Procs -> Ids] /\ executed = {}
        BY <2>1 DEF Init, Ids
    <3> QED
        BY <3>1, <3>2 DEF Service!Init
  <2> QED
      BY <2>1
<1>2. Sound /\ Sound' /\ [Next]_vars => [Service!Next]_(Service!vars)
    BY StepMaps
<1> QED
    BY <1>1, <1>2, AlwaysSound, PTL DEF Spec, ServiceSpec, Service!Spec

-----------------------------------------------------------------------------
(***************************************************************************)
(* What the service means for a caller.  exec() looks at chiperror and     *)
(* then at cmdstatus while interrupts come in.                             *)
(***************************************************************************)
Earned == \A p \in Procs :
              answered(p) => chiperror[cid[p]] # "none" \/ command(p) \in executed

LEMMA ProcessEarned ==
    ASSUME Sound, Earned, NEW p \in Procs, Process(p) \/ \E i \in Uses[p] : Exec(p, i)
    PROVE  Earned'
<1>1. ASSUME NEW q \in Procs, q # p, answered(q)'
      PROVE  chiperror'[cid'[q]] # "none" \/ (command(q) \in executed)'
  <2>1. pc'[q] = pc[q] /\ cid'[q] = cid[q] /\ tag'[q] = tag[q]
      BY <1>1, CallTypes DEF Process, Exec, ChipWait, GrabSem, WaitSem, Setup, Enqueue,
         CheckDone, WakeUp, Return
  <2>2. pc[q] \in Critical
      BY <1>1, <2>1 DEF answered, Critical
  <2>3. /\ threadstate'[cid[q]] = threadstate[cid[q]]
        /\ chiperror'[cid[q]] = chiperror[cid[q]]
      BY <1>1, <2>2, CallTypes
      DEF Process, Exec, ChipWait, GrabSem, WaitSem, Setup, Enqueue, CheckDone, WakeUp,
          Return, Sound, Reported, Grounded, OneOwner, Critical
  <2>4. (command(q) \in executed)' <=> command(q) \in executed
      BY <1>1, <2>1, ProcsAssumption DEF command, Process, Exec, ChipWait, GrabSem, WaitSem,
         Setup, Enqueue, CheckDone, WakeUp, Return
  <2>5. answered(q)
      BY <1>1, <2>1, <2>3 DEF answered
  <2> QED
      BY <2>1, <2>3, <2>4, <2>5 DEF Earned
<1>2. ASSUME answered(p)' PROVE chiperror'[cid'[p]] # "none" \/ (command(p) \in executed)'
  <2>1. pc'[p] \in {"check", "sleep", "result"} /\ threadstate'[cid'[p]] = "DONE"
      BY <1>2 DEF answered
  <2>2. CheckDone(p) \/ WakeUp(p)
      BY <2>1, CallTypes DEF Process, Exec, ChipWait, GrabSem, WaitSem, Setup, Enqueue, Return
  <2>3. /\ pc[p] \in {"check", "sleep"}
        /\ UNCHANGED <<cid, tag, threadstate, chiperror, executed>>
      BY <2>2 DEF CheckDone, WakeUp
  <2>4. answered(p) /\ command(p)' = command(p)
      BY <2>1, <2>3 DEF answered, command
  <2> QED
      BY <2>3, <2>4 DEF Earned
<1> QED
    BY <1>1, <1>2 DEF Earned

LEMMA EarnedStep ==
    ASSUME Sound, Earned, [Next]_vars
    PROVE  Earned'
<1>1. CASE Chip \/ Trouble
  <2>1. /\ UNCHANGED <<pc, cid, tag, threadstate, chiperror>>
        /\ executed \subseteq executed'
      BY <1>1
      DEF ChipOnly, Chip, Trouble, WaitSigp, SelectWon, SelectDone, SelectTimeout,
          SendCommand, DataPhase, PhaseMismatch, CommandComplete, Disconnect, FreeIt,
          Reselected, Reconnected, Reselect, UnexpectedDisconnect, BusReset, BusError,
          ConnectedTrouble, Fault
  <2> QED
      BY <2>1 DEF Earned, answered, command
<1>2. CASE IrqSort \/ IrqExit
    BY <1>2 DEF IrqSort, IrqExit, Earned, answered, command
<1>3. CASE siop_sge
  <2>1. /\ UNCHANGED <<pc, cid, tag, threadstate, executed>>
        /\ \A i \in Ids : chiperror[i] # "none" => chiperror'[i] # "none"
      BY <1>3, CallTypes DEF siop_sge, Serve, SetError
  <2> QED
      BY <2>1, CallTypes DEF Earned, answered, command
<1>4. ASSUME NEW c, Serve(c), Outcome(c), BusAlone, Tells(c)
      PROVE  Earned'
  <2> SUFFICES ASSUME NEW p \in Procs, answered(p)'
               PROVE  chiperror'[cid'[p]] # "none" \/ (command(p) \in executed)'
      BY DEF Earned
  <2>1. UNCHANGED <<pc, cid, tag, processid, executed>>
      BY <1>4 DEF Serve
  <2>2. pc[p] \in {"check", "sleep", "result"}
      BY <2>1 DEF answered
  <2>3. PICK t \in Targets : t = cid[p]
      BY <2>2, CallTypes
  <2>4. CASE answered(p)
      BY <1>4, <2>1, <2>4, CallTypes DEF Earned, Tells, command
  <2>5. CASE ~answered(p)
    <3>1. threadstate[t] # "DONE" /\ threadstate'[t] = "DONE"
        BY <2>1, <2>2, <2>3, <2>5 DEF answered
    <3>2. \/ c \in Ending /\ phythread = t
          \/ c = "RRST" /\ t \in broken
        BY <1>4, <3>1, ServeThread DEF Sound, Reported, broken
    <3>3. CASE c \in {"UDC", "STO", "RRST"}
        BY <1>4, <2>1, <2>3, <3>2, <3>3 DEF Tells, Ending
    <3>4. CASE c = "SC_DONE"
      <4>1. phythread = t /\ "SC_DONE" \in outstanding /\ "RRST" \notin outstanding
          BY <1>4, <3>2, <3>4, Serving DEF Sound, Reported, ScsiBits, DmaBits
      <4>2. processid[t] = p
          BY <2>2, <2>3 DEF Sound, Reported, Grounded, OneOwner, Critical
      <4>3. chiperror[t] # "none" \/ command(p) \in executed
          BY <4>1, <4>2 DEF Sound, Answers
      <4>4. t \in Ids
          BY DEF Ids
      <4> QED
          BY <1>4, <2>1, <2>3, <4>3, <4>4 DEF Tells, command
    <3> QED
        BY <3>2, <3>3, <3>4 DEF Ending
  <2> QED
      BY <2>4, <2>5
<1>5. CASE Irq
  <2>1. TypeOK /\ Grounded
      BY DEF Sound, Reported, Grounded
  <2> QED
      BY <1>2, <1>3, <1>4, <1>5, <2>1, IrqOutcome, IrqTells
<1>6. CASE seltoirq
    BY <1>6 DEF seltoirq, TimerSelect, TimerReset, TimerFree, TimerIdle, Timer, Sound,
                Reported, Grounded, IrqQueues
<1>7. CASE UNCHANGED vars
    BY <1>7 DEF vars, Earned, answered, command
<1> QED
    BY <1>1, <1>5, <1>6, <1>7, ProcessEarned DEF Next

\* exec() returns without an error of the driver only if the target has carried the
\* command out, whatever threads, resets and errors came in between: no caller takes the
\* GOOD that exec() put into cmdstatus before the command was sent for an answer.  For
\* the faults of Implements.
THEOREM NoFalseGood ==
    ASSUME CommandsKept, OwnIdUnused
    PROVE  Spec => [](\A p \in Procs : pc[p] = "result" /\ chiperror[cid[p]] = "none"
                                       => command(p) \in executed)
<1>1. Init => Earned
    BY DEF Init, Earned, answered
<1>2. Sound /\ Earned /\ [Next]_vars => Earned'
    BY EarnedStep
<1>3. Sound /\ Earned => \A p \in Procs : pc[p] = "result" /\ chiperror[cid[p]] = "none"
                                          => command(p) \in executed
    BY DEF Sound, Answers, Earned, answered
<1> QED
    BY <1>1, <1>2, <1>3, AlwaysSound, PTL DEF Spec

\* Once its thread is done a call keeps its result until exec() returns: no late
\* condition, reselection or reset changes chiperror or cmdstatus between the loop in
\* enqueue() that finds the thread done and exec()'s reading of them.
THEOREM ResultStays ==
    ASSUME CommandsKept, OwnIdUnused
    PROVE  Spec => [][\A p \in Procs :
                        answered(p) => \/ pc'[p] = "idle"
                                       \/ answered(p)' /\ Result(cid[p])' = Result(cid[p])]_vars
<1>1. ASSUME Sound, Sound', Next, NEW p \in Procs, answered(p), pc'[p] # "idle"
      PROVE  answered(p)' /\ Result(cid[p])' = Result(cid[p])
  <2>1. callState(p) = "answered" /\ callState(p)' # "idle"
      BY <1>1, CallStates, StateMeans, StateMeansNext
  <2>2. [Service!Next]_(Service!vars)
      BY <1>1, StepMaps
  <2> DEFINE st == [q \in Procs |-> callState(q)]
             ans == [q \in Procs |-> IF answered(q) THEN Result(cid[q]) ELSE "none"]
  <2>3. st[p] = "answered" /\ st'[p] # "idle"
      BY <2>1
  <2>4. st'[p] = "answered" /\ ans'[p] = ans[p]
      BY <2>2, <2>3 DEF Service!Next, Service!vars, Service!Call, Service!Activate,
         Service!CarryOut, Service!AnswerAll, Service!Return
  <2>5. callState(p)' = "answered"
      BY <2>4
  <2>6. answered(p)'
      BY <1>1, <2>5, CallStates, StateMeansNext DEF Critical, Waits
  <2>7. ans[p] = Result(cid[p]) /\ ans'[p] = Result(cid[p])'
      BY <1>1, <2>6
  <2> QED
      BY <2>4, <2>6, <2>7
<1>2. Sound /\ Sound' /\ [Next]_vars
      => [\A p \in Procs : answered(p) => \/ pc'[p] = "idle"
                                          \/ answered(p)' /\ Result(cid[p])' = Result(cid[p])]_vars
    BY <1>1
<1> QED
    BY <1>2, AlwaysSound, PTL DEF Spec
=============================================================================
