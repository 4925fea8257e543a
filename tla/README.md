# A verification of the OS-9/68K SDK v1.2 drivers

TLA+ modules, TLC runs and TLAPS proofs for the driver code of this SDK. Paths are
relative to `src/`. Five parts are modelled, each one in which several parties work on
the same few words of memory and a test reaches few of the orders in which they can:

* the low-level driver for the NCR 53C710 SCSI processor (`SRC/IO/SCSI/NCRSIOP`);
* the ARP cache of SPENET (`SRC/DPIO/SPF/DRVR/SPENET`);
* the driver of the Am7990 LANCE (`SRC/DPIO/SPF/DRVR/SPLANCE`);
* the network boot by BOOTP and TFTP (`OS9/SRC/ROM/CBOOT/INETBOOT`);
* the touchpad driver of the MC68328ADS (`OS9/SRC/IO/SCF/DRVR/MC328ADS/TOUCHPAD`).

Four of them have an abstract specification that says what their users may rely on
(`ScsiCommands`, `AddressResolution`, `TransmitQueue`, `PacketStream`), a run and a proof
that the detailed module implements it.

## 1. Inventory

Most of the tree is headers, binaries and documents. The parts with C source and
behaviour of their own:

| Component | State it keeps | Operations | Works with |
|---|---|---|---|
| **NCR 53C710 driver** (`exec.c`, `misc.c`, `irq.c`, `irqsup.c`, `hw53c710.c`) | one `logical_thread` per SCSI id (state, entry point, error, owner, semaphore); `lstat`: `phythread`, `lastthread`, `chipbusy`, `wakequeue`, `sipflag` | `exec()`, `grabsem()`, `enqueue()`; `irq()` with a routine per condition; `reschedule()`, `rethread()` | processes above it, SCRIPT and chip below |
| **SCRIPT** (`v53c710.ss`) | program counter, SCRATCH registers, SIGP, latched conditions | wait for reselection, select, one block per bus phase, FREEIT | reads the physical thread's command, writes its status and `sipflag` |
| **Board code** (`OS9/SRC/IO/SCSI/SCSI53C710/dev167.c` and siblings) | one timer with three uses | `start_sto()`, `stop_sto()`, `seltoirq()` | optional (`-dAUX_TIMER`); restarts the driver |
| **Negotiation** (part of `irq.c`, `hw53c710.c`) | transfer agreement per thread | `scripti_msgi()`, `scripti_reject()`, `check_synchmsg()`, `set_msg()` | the target |
| **53C8xx variant** (`hw53c8xx.c`) | as the 53C710 | same, other registers | |
| **ARP cache** (`arp.c`, entry points in `entry.c`) | list of entries, pointer to the one used last, packets held per entry, `busy_flag` and `busy_count`, own addresses | `arptick()`, request and reply handling, `arpresolve()`, `arp_delete()`, `arp_change()` | cyclic timer, receive path, senders, management calls; tells SPIP by routing messages |
| **SPENET framing** (`ethernet.c`, `entry.c`) | open paths, delivery lists | open, close, up, down | ARP, LAN drivers |
| **SPLANCE** (`isr.c`, `entry.c`, `init.c`) | two rings of descriptors shared with the chip, head and tail, a queue behind the transmit ring | `dr_downdata()`, `load_tmd()`, `isr()` with `recv_irq()` and `xmit_irq()`, `dr_setstat()` | senders above, chip DMA below |
| **SP82596, SPQUICC** | lists, rings | send, interrupt service, reset | chip DMA |
| **Network boot** (`inetboot.c`, `lbootp.c`, `ltftp.c`, `larp.c`) | round, request, repetition, expected block, session, memory for the file | BOOTP exchange, ARP, TFTP transfer, another round | servers on the net, through a boot driver that counts time-outs |
| **Touchpad** (`irqs.c`, `read.c`, `stat.c`, `term.c`) | one packet and what is unread of it, who sleeps, who is to be signalled, `pointer_down_flag` | pen interrupt, one-shot alarm, `read()`, SS_SSig, SS_Relea, `term()` | programs through SCF, kernel alarms and signals |
| **Older SCSI host adapters** (33C93, 53C94, 5380, SCSI327) | command and disconnect queue | `exec()`, interrupt service | |

Outside the list: SCSI disk and tape drivers (sequential callers of `exec()`), ROM
configuration services, the power manager, graphics drivers (pixel operations), MAUI
processes, PPP utilities (the PPP protocol layers themselves are binaries), examples,
templates, assembler drivers for single boards. `PROJECT.json` names them all with
the reason.

What is hard in these parts:

* SCSI: four parties (processes, chip, interrupt service, timer service); a chip that
  halts on every condition and may latch several; targets that leave the bus with a
  command and come back at any time; bus resets; a sleep between test and wake-up.
* ARP: a flag used as a lock that only puts ticks off, a cached pointer into a list, a
  second table (SPIP's routes) kept in step by messages, and packets that belong to an
  entry until it is resolved, expires or is deleted.
* LANCE: ring indices and one bit per descriptor shared with a chip that goes on while
  its interrupt is served; an interrupt flag that is cleared after the last look.
* Boot: datagrams that are late, repeated, reordered or lost; sessions and files of
  earlier rounds; two protocols that must agree on a size.
* Touchpad: a chain of one-shot alarms with many exits, a packet read in pieces, sleep
  and signal against the alarm, termination while both interrupt and alarm go on.

What makes each correct, in short:

* SCSI: a thread has one owner; every call is answered once, with a status only its own
  command produced; no wake-up and no request to the chip is lost; the driver and the
  devices agree on who is disconnected; the bus is not given away while a target is on it;
  every call ends when devices answer.
* ARP: the pointer names a listed, complete entry; a held packet is sent once or freed
  once, among the newest; no entry outlives its time; SPIP knows what the table knows.
* LANCE: head and tail agree with the descriptors; packets leave in order, once, and are
  freed once; no frame is passed up twice; nothing accepted is left behind.
* Boot: what is started is the whole of one version of the file; a boot ends if the net falls
  quiet now and then; losses below the number of repetitions do no harm.
* Touchpad: the pen is watched by exactly one of interrupt and alarm; programs get the packets
  whole and in a sensible order, and what breaks that is known; nobody sleeps or waits for a
  signal beside a packet; a lifted pen is reported.

## 2. What is modelled

| Module | Role |
|---|---|
| `ScsiCommands` | abstract: what a low-level SCSI driver promises to callers of `exec()` |
| `NcrSiop` | driver, SCRIPT, bus and targets, interrupt service, timer service |
| `NcrSiopService`, `NcrSiopComments`, `MC_NcrSiop` | refinement mapping; two comments that do not hold; instances |
| `NcrSiopProofs`, `NcrSiopBusProofs`, `NcrSiopServiceProofs` | theorems about types, owners, wake-ups and scheduling; about what the driver knows of the bus and that it never stands still; about the mapping and results |
| `AddressResolution` | abstract: what the ARP cache promises to those who send packets |
| `SpenetArp` | cache, timer, held packets, requests and replies, management calls |
| `SpenetArpService`, `SpenetArpProofs`, `SpenetArpServiceProofs`, `MC_SpenetArp` | mapping; theorems; theorem about the mapping; instances |
| `TransmitQueue` | abstract: what a LAN driver promises to the layer above it |
| `LanceRing` | both rings, the queue, the interrupt service and the chip |
| `LanceService`, `LanceProofs`, `MC_LanceRing` | mapping; theorems; instance |
| `BootTftp` | boot loop, BOOTP, ARP wait, TFTP; servers and network as environment |
| `BootTftpProofs`, `MC_BootTftp` | theorems; instances |
| `PacketStream` | abstract: what a program that reads the touchpad may rely on |
| `Touchpad` | interrupt, alarm, packets, `read()`, signals, `term()`; the pen as environment |
| `TouchpadService`, `TouchpadProofs`, `MC_Touchpad` | mapping; theorems; instance |

Variables have the names of the fields they stand for wherever there is one, actions those
of the function or of the branch of it. A definition marked "mutant" is a slip that its
neighbour could have had: no action uses it, and `PROJECT.json` names the property that
notices it.

### NcrSiop

Variables of the chip and the bus: `dsp` (which part of the SCRIPT runs; `HALT` after a
condition), `scratch0` (the phase the SCRIPT saves there), `sigp`, `intr` (conditions
latched and unread), `conn` and `tgt` (which target is connected; what each device does and
for which command). `todo` is the part of `irq()` still to be done: the conditions read and
not served. `executed` and `nfaults` are history.

*Processes.* `Exec`, `ChipWait`, `GrabSem`/`WaitSem`, `Setup`, `Enqueue`, `CheckDone`,
`WakeUp`, `Return` cut `exec()` where another party can step in: each sleep, the
semaphore test (interrupts masked), `enqueue()`'s masked part, the test of
`threadstate` and the sleep after it. Processes 0 and 1 (`SystemProcs`) get no signal
and poll. A signal sent early ends the next sleep at once, as F$Sleep does with a
pending signal.

*SCRIPT and bus.* One action per block of `v53c710.ss` that ends in a memory write or an
interrupt. `SelectWon` and `SelectDone` are two, as the target answers before the SCRIPT clears
`sipflag`, and the select timer may fire in between. It clears it only if the target goes on with
the phase expected; a target that goes on with another one leaves it set (v53c710.ss:250 and 274,
the second disjunct of `SelectDone`). A reselection may beat a selection (`Reselect` in `SELECT`).
`Reconnected` is the SCRIPT started while a target is on the bus, which only the timer's service
does: the chip reports a reselection once more, and `scripti_again` takes whatever id `lcrc` was
left with; every id is allowed here. `Disconnect` keeps the command in `tgt[t].cmd`, which is how
properties tell a command that goes on from one that was given up.

*Trouble.* `Faults` names the kinds that may happen, `MaxFaults` their number:
unexpected disconnect with or without the command (`udc`, `udc_resel`), gross error,
bus reset, parity error, bus error with and without a connected target (`berr`,
`berr_free`), phase change in a non-data phase (`pm`), unknown phase, bad message, missing
message after reselection (`notmsgi`). `BusReset` may come on top of a latched condition;
only then are several served together.

*Interrupt service.* `IrqSort` reads and clears what is latched (DMA conditions are lost
when a SCSI condition is there), one action per service routine serves the conditions
in the order of `ncr_irq_sort()`, `IrqExit` sends the wake-ups. Every routine includes
its calls: `reschedule()`, `rethread()` and `scsi_free()` are operators that set the
scheduler, the timer and `dsp`.

*Timer.* With `AuxTimer` the service `seltoirq()` decides by `sipflag` and `chipbusy`, not by what
the timer was started for, as the code does: `TimerSelect`, `TimerReset`, `TimerFree`,
`TimerIdle`. It resets the chip by `ncr_reset()`, which gives up before the soft reset if `dstat`
has a condition or the FIFO is not empty (hw53c710.c:567-572), and nobody looks at the result
(dev167.c:399, 418). `chipreset` has both outcomes: `reset`, and `refused`, after which
connection, SIGP and SCSI conditions are still there and the driver goes on as if they were not.
It may be refused when a DMA condition is latched, which is lost by being read, or a target is
connected.

*Abstractions.* Data, pointers, command bytes and message contents are not modelled; a command is
`<<process, tag>>`, an answer a class (`ChipErrors`, a SCSI status). `Tags = 1` says that no
command outlives its call in that run. Ticks are not counted: a timed wait ends at any time.
Interrupt services exclude each other and the processes (one processor, one level), not the chip;
conditions read together are served before the restarted SCRIPT goes on. `istat` and the status
registers are read in one step: the window between the two reads (`hw53c710.c:964`), in which a
bus reset would be lost, is not modelled; nor is the loop that looks for the other id in `lcrc`
(`hw53c710.c:1132`) and does not end when there is none. At most eight ids: `NTHREADS` of the
53C710 build; the 53C8xx build has sixteen.

### SpenetArp

A call is one step: it runs to its end before another call of the same driver begins. Only the
timer is different: it may come anywhere in a call. `arptick()` tests `busy_flag`, and `BusyTick`
is the tick that comes while a call walks the list. But the flag is on during the walk only: a
tick that comes after it may free the entry the call has in hand (arp.c:625-643 then 702-720,
entry.c:696-721). `TickInCall` is this tick. It sets `astray`, and leaves the pointer where the
call may put it, at freed memory; from there on the program is undefined and the model claims
nothing (`Undefined`). So `CacheLive` is claimed up to the first such tick, and the other
properties hold in the state it leaves, too. A tick in a call that frees another entry, or none,
is as good as a tick before or after it.

`listed` is the list, `arpent_cache` the pointer, `hold[c]` the packets of entry `c`, `routes`
what the routing messages have told SPIP, `fate` and `to` what became of each packet.
`DownCached`, `DownKnown`, `DownHold`, `DownNew` are the branches of `dr_downdata()` and
`arpresolve()`; `RequestFromKnown`, `RequestForUs` and `process_arp_reply` the cases of
`process_arp()`; `Remove` is `arp_entry_remove()`.

*Abstractions.* One interface. The order of the list is left out: no two entries have the same
address, so it decides nothing. A next hop of 0.0.0.0 is not asked for. The message to SPIP always
finds memory. Published entries (ATF_PUBL) only decide who is answered on the wire. Asking for an
address is left out, `at_asked` with it: `send_arp_request()` may send nothing (no mbuf, no
address of our own: arp.c:454-471), its result is not looked at, `at_asked` is set all the same
and only decides about the next request; and who answers, or asks us, does so whether or not we
have asked. So nothing here says that a held packet has been asked for. `add_enet()`, which puts
the header before a held packet, always succeeds, so that a reply sends all that is held. A reply
also changes a permanent entry, as the code does. *Bounds:* `MaxBusy` ticks are put off in a row,
`MaxCalls` management calls are made, `NPackets` packets sent. *Assumption:*
`KillC + MaxBusy < 255`, since `at_timer` is one byte and a longer lifetime would never be reached
(`TimerAssumption`).

### LanceRing

The chip may step between any two steps of the processor. A step of the processor reads or
writes one descriptor or register that the chip uses; what it does with interrupts masked and
without touching these is one step with its neighbour. `xflag` and `rflag` are the bits of a
descriptor, `mdp` the one `load_tmd()` has filled and not yet given to the chip, `pc` where the
processor is, `le_status` what the service read of `csr0`. `present` and `window` are history.

*Abstractions.* The build without `LCLMEM`, where descriptors point into mbufs. Addresses,
lengths and multicast lists are left out. `dr_term()` and errors that stop the chip are not
modelled. *Bound:* while `xmit_irq()` is between its last look at the ring and the clearing of
TINT, the chip finishes at most `MaxWindow` descriptors, fewer than the ring has
(`WindowAssumption`). A frame takes 51 microseconds or more, the code in question a few
instructions per packet loaded, so the bound is what the hardware gives; section 4 says what
happens without it.

### BootTftp

`try` counts rounds of `inetboot()`, `try_count` requests of `bootp()`, `tries` repetitions of
`tftp()`, `timeout` what is left of a time-out. A block is a pair of version and number, the file
a sequence of blocks, `buf` what is in memory. `net` is the set of datagrams under way; a datagram
taken from it stays there with `Dup`, so that all repetitions, delays and reorderings are
behaviours. `Prompt` says that time passes only while nothing is under way: then a time-out means
a loss. A bad BOOTP record counts with the losses. Block numbers are signed 16-bit in the header
the makefile uses (`SRC/DEFS/ISP/INET/tftp.h:59`) and compared with an `int`: `th_block` is
negative from `Edge` = 2^15 on, and block 32768 is taken for a repetition. `overrun` says that
data were written behind the memory held: nothing bounds the `memcpy()` of ltftp.c:240-242 by the
blocks allocated. ARP: an ICMP message ends the wait without an address (`ArpEnd("wrong")`); a
reply that comes later still puts it right (`ArpLate`), whoever waits. `TftpIcmp` is what
`icmp_check()` takes for a destination unreachable: it does not look at the protocol, so UDP
datagrams from ports 768 to 1023 are meant, too.

*External:* the servers (a session and a port for each request; a block is sent again when its
predecessor's acknowledgement comes again), the versions of the file, the network.
*Abstractions.* What is in datagrams but for numbers, ports and kinds; headers and checksums
(`lip.c`); what `inetboot()` keeps for the IP driver; what lies behind the memory held.
`arp_resolve()` is one wait with the ICMP message that can end it. *Bounds:* sessions, losses,
versions.

### Touchpad

A step is what no other party can interrupt: `real_isr()`, `alarm_h()`, a section between two
calls of `mask_irq()`. `alarm` is the one-shot alarm, `penirq` and `spen` the interrupt unmasked
and pending, `stage` how far `term()` has come. `asked` (who was promised a signal) and `got`
(the last byte read) are history. What `alarm_h()` makes of its samples is a touch, a pen that is
up, or neither: `AlarmDown`, `AlarmMove`, `AlarmStill`, `AlarmUp`, `AlarmSpurious`,
`AlarmBounce`; `AlarmWait` is its quick exit.

*Abstractions.* `alarm_h()` goes on only with `bytes_avail` at 0 and nothing runs until it ends,
so its three tests for an overrun, and the one in `read()`, never hold and are left out. SCF's
gate (`v_busy`: one process in `read()`) is external. A SIGWAKE for a process that has left
`read()` (its `v_wake` is stale) is ignored. A pen put down again while the alarm stands down may
be too early for the interrupt: both outcomes are allowed. Coordinates are places farther apart
than TOLERANCE. *Kinds of instance:* `SendFails`, `AlarmFails`. SS_SSig may come at any time, also
in the middle of a packet.

## 3. Runs

Numbers are distinct states of the configurations as they stand.

| Run | Instance | Shows |
|---|---|---|
| `core` | 2 processes (one polls) on a shared device and one of its own, one trouble the chip does not get over; 651,493 | `OneOwner`, `NoLostWakeup`, `ServiceSpec` |
| `faults` | 2 processes on devices of their own, one present and one absent, two troubles of seven kinds; 1,278,350 | `TypeOK`, `OnePhysical`, `LogicalMeansDisconnected`, `WakeQueueFits`, `RestartOnBusFree`, `ServiceSpec` |
| `live` | 2 processes that poll, on devices of their own, fair; 40,399 | `PendingIsSeen`, `CallReturns` |
| `aux` | auxiliary timer, 2 processes on one device, one gross error, resets that are refused; 2,733,899 (up to symmetry) | `WakeIsKept` |
| `arp` | 2 addresses, one possibly our own, 2 cells, 3 packets, 2 held, 1 call, ticks in the middle of calls; 121,216 (up to symmetry) | `TypeOK`, `TableSound`, `CacheLive`, `HeldSound`, `NotOutlived`, `RoutesAgree`, `ResolutionSpec` |
| `lance` | rings of 2, 4 packets, 3 frames; 706,736 | `TypeOK`, `RingAgrees`, `NoOvertaking`, `ChipReadsLive`, `PassedOnce`, `ScanTakesAll`, `InOrder`, `Leaves` |
| `tftp` | 2 rounds, 2 sessions, 2 versions, the second longer than block numbers count (`Edge` = 3), every datagram any number of times, refusals, ICMP, no memory; 656,029 | `TypeOK`, `OneFile`, `Whole`, `AheadIsStale`, `Ends` |
| `loss` | 2 rounds, 3 losses, 4 tries, an empty last block; 3,275 | `Succeeds` |
| `touch` | 2 programs, 2 places, packets of 4 bytes, signals that fail, SS_SSig at any time; 58,446 | `TypeOK`, `PenWatched`, `NobodyForgotten`, `WholePackets`, `LiftReported` |
| `v_stale_reselect`, `v_select_abort`, `v_arp_held` | the smallest instances that show it | section 4 |

What the properties would catch:

* SCSI: `OneOwner` (the semaphore of `grabsem()`), `NoLostWakeup` and `WakeIsKept` (test and
  sleep in `enqueue()`, `wakequeue`), `PendingIsSeen` (SIGP cleared by the SCRIPT's read),
  `OnePhysical`, `LogicalMeansDisconnected` (reselection during selection, resets),
  `WakeQueueFits` (one entry per id and no check), `RestartOnBusFree` (a thread is not replaced
  while its target is on the bus), `ServiceSpec` (refinement of `ScsiCommands`: each call
  answered once, with cause), `CallReturns`.
* ARP: `CacheLive` (a removal that forgets the pointer; not the tick in the middle of a call,
  which does break it), `HeldSound` (packets of a full queue, of an entry removed), `NotOutlived`
  (ticks put off and then not counted), `RoutesAgree` (a path that changes an entry and tells
  nobody), `TableSound` (a second entry for an address), `ResolutionSpec` (refinement).
* LANCE: `RingAgrees` (full and empty told by one test), `NoOvertaking` (the queue and the ring),
  `ChipReadsLive` (memory freed too early), `PassedOnce` (no memory for a new buffer),
  `ScanTakesAll` (one round of the ring, wherever it begins), `InOrder` (refinement), `Leaves`
  (an interrupt cleared unseen is never the last one that matters).
* Boot: `OneFile` (blocks of other sessions, repeated or late), `Whole` (size and file of
  different versions, an empty last block, a file past the edge of the block number, data behind
  the memory though the file is the same), `AheadIsStale` (the error message that stops a sender
  never stops the right one), `Ends` (what comes starts a time-out again), `Succeeds`.
* Touchpad: `PenWatched`, `NobodyForgotten`, `WholePackets` (refinement), `LiftReported`.

Why the bounds suffice. *SCSI:* an id's thread interacts with others only through
`phythread`, `lastthread` and `wakequeue`; with two targets and the idle thread all
relations (running, pending, disconnected, reselecting, finished) occur at once, and two
processes on one device put a waiter at the semaphore while the owner is in each place of
`exec()`. Two troubles give each error path an error on the way. *ARP:* an action touches one
entry, or all that expire; two entries and an address of our own make every pair, a queue
of two is full after two packets. *LANCE:* with two descriptors a ring is empty, partly used, full
and wrapped, and two more packets wait behind it. *Boot:* two rounds and two sessions make one
stale, two versions one replaced. *Touchpad:* two programs are enough for one to sleep, or to be
promised a signal, while the other comes in. Where section 5 has a theorem, the bounds do not
matter.

Deadlock is checked but for the runs that really stop: `core`, after a gross error without the
timer or a bus error at rest; `faults`, after a bus reset together with a phase mismatch, where
the thread just started by `siop_rrst()` is restarted at WHICHPHASE without ever having been
selected; `aux`, as the timer's service queues wake-ups that nobody sends (section 4); `tftp` and
`loss`, when the boot has ended.

### Fairness

* `live`: every process runs again and again (strong, since an interrupt service disables it now
  and then); interrupt service, timer service and chip each go on when they can (weak); per
  target, a selection tried again and again succeeds (our id has the highest arbitration
  priority), a disconnected device reselects and a command is completed after finitely many
  disconnects. None between processes at a semaphore: `grabsem()` polls and gives none, so the
  instance gives each process an id of its own. Fairness between ids is the driver's
  (`lastthread`) and is what the run tests. Both processes poll, as the system processes do; that
  one that sleeps is woken is `NoLostWakeup`.
* `lance`: the processor goes on, a pending interrupt is taken, the chip transmits (all weak).
  None for senders, for reception or for I/O being enabled.
* `tftp`: none in the specification. The receiver charges a time-out only while it polls and no
  frame is ready (`recv.c:43-65` of BOOT82596, 34-43 of BOOTQUICC), and `arp_resolve()` has no
  limit: what comes without pause, or an ARP request that is never answered, may keep a boot going
  for ever. So `Ends` says it: `QuietAgain`, time-outs run down and are acted upon, implies that
  the boot ends or stays in `arp`. None for server or network: the boot ends without them.
* `loss` (`PromptSpec`): also client, server and network do their work, but for what is lost, and
  ARP is answered. Nothing is on the net there that was not asked for, so it does fall quiet.
* `touch`: the alarm goes off (weak); a pen that is up while the alarm samples is seen so sooner or
  later, as samples that bounce do not go on for ever (strong); a process in `read()` runs, and
  somebody reads what there is (weak). None for the pen.

## 4. Disagreements

Three have a run that shows the behaviour:

| Run | Text | Code |
|---|---|---|
| `v_stale_reselect` | irq.c:641 the target given up will be aborted at reselection | `scripti_resel()` resumes its thread whatever its state |
| `v_select_abort` | dev167.c:361 the SCRIPT clears the select flag, "thus preventing the abortion of connections that succeed" | the SCRIPT leaves it set when the target's first phase is not the one expected (v53c710.ss:250, 274): a device that answers and works is reported E_UNIT when the timer elapses |
| `v_arp_held` | arp.c:689 a packet is held and sent "once the address is finally resolved" | a request of the other station, or `arp_change()`, resolves the address and leaves the packets for the next reply or the timer |

Seen while modelling, not given a run. SCSI:

* irq.c:529 says that a parity error in a message phase is reported to the target;
  `ncr_ph_mess()` (hw53c710.c:1399) looks for the phase in a register where the SCRIPT never
  puts it.
* irq.c:709 says that the timer completes the reset; the default build has no timer, and
  `chipbusy` stays set.
* dev167.c:417 says that the chip is restarted after five seconds; `siop_rrst()` reschedules
  at once and a pending thread takes the timer over.
* irq.c:364 says that the process is woken with an error; with no target connected FREEIT
  just waits for a reselection.
* irq.c:580 says that pending threads proceed as if nothing had happened; a condition latched
  together with a reset is served for the thread just started.
* irq.c:861 says to notify all that have completed; `seltoirq()` queues wake-ups and sends none.
* irqsup.c:59 says the lowest id is chosen; the code takes the highest other than the last one
  served.
* With the auxiliary timer, `notmsgi` leaves the select timer running, so that it ends
  the reselected thread with E_UNIT; after a gross error, `NoLostWakeup` does not hold
  (only `WakeIsKept` does), nor does `RestartOnBusFree`.
* With the auxiliary timer, a reset that `ncr_reset()` refuses leaves the connection and SIGP as
  they were: a reselection latched at that moment is lost, a thread that is finished may be
  resumed and finished again, and after a gross error during a selection the bus reset line may
  stay held. `ServiceSpec` does not hold then and is not claimed of that build.
* A command for the adapter's own id passes the check in exec.c:136 and never returns.
* `grabsem()` documents E_HARDWARE (misc.c:57) and never returns it.
* The driver stands still, with calls waiting, in these cases: TLC reaches each when what
  `NeverStuck` (section 5) states is checked with the fault. A bus reset finds a phase mismatch
  latched; a message is missing at a reselection in the middle of a selection, and the thread
  displaced stays physical; a target drops off with its command, and its late reselection
  leaves `scriptstart` of a later command at WHICHPHASE; a bus error comes while the bus is
  free; a gross error comes in the build without the timer. With a target that drops off,
  `WakeQueueFits` is violated too.

ARP:

* Each packet sent by an entry restarts its timer, also when the entry was completed by a request
  and still holds packets (`v_arp_held`). So as long as other packets go to the same host, those
  held stay, for ever if the traffic does; no property says otherwise.
* `busy_flag` is on only while the list is walked. A tick between look-up and use (arp.c:625-643
  and 702-720 going down; the same after the walk in `process_arp()`, in a deletion, a change, and
  between `arptnew()` and the use of the new entry), or between the test of `arpent_cache` and its
  use (entry.c:696-721), may free the entry, which is then read and written, and stored in
  `arpent_cache` (entry.c:719). In the model this is `TickInCall`: without `~astray` TLC finds
  `CacheLive` violated.
* `send_arp_request()` may send nothing, for want of an mbuf or of an address of our own
  (arp.c:454-471); arp.c:709 and 748 do not look, and the entry counts as asked for in that
  second.

LANCE:

* `xmit_irq()` clears TINT (isr.c:344) after its last look at the ring. With `MaxWindow` equal to
  the size of the ring TLC finds all interrupts cleared unseen and the queue stuck until another
  packet comes. Real frames are too long for it.
* `recv_irq()` clears RINT (isr.c:524) at the end of its scan: a frame that arrived in a
  descriptor already passed waits for the next frame.
* `v_recv_head` is written back as it was read (isr.c:523), so once the ring has wrapped newer frames may
  be passed up before older ones. Nothing in the driver promises order.

Boot:

* Stopping a stale sender overwrites the length of what a time-out repeats (ltftp.c:252): a read
  request repeated afterwards is cut to the length of the error message (`tlen`, `RrqFits`).
* `arp_resolve()` (larp.c:148-155) waits without a limit.
* The receive loops charge a time-out only while no frame is ready: traffic without pause keeps a
  boot waiting.
* Block 32768 reads as -32768 (tftp.h:59) and is answered as a repetition: a file of so many
  blocks is never loaded, whatever BOOTP says of its size.
* The `memcpy()` of ltftp.c:240-242 is not bounded by the memory allocated: when the file is
  replaced by a longer one between BOOTP and TFTP, data are written behind it; the count is
  compared at the end.
* `icmp_check()` (lip.c:219-234, called at ltftp.c:184 before the port is looked at) does not test
  the protocol: a UDP datagram from a source port between 768 and 1023 ends the transfer.
* `ethernet_in.c` tests the frame type in a variable that is not set on every path.

Touchpad:

* SS_SSig in the middle of a packet drops the rest of it (`bytes_avail = 0`, stat.c:179) and
  leaves `pktbuf_index`, so that the packets after it are read from that place on, and around.
  `PacketStream` says so (`Tear`): packets are whole only as long as nobody does this.
* An alarm that goes off between the first step of `term()` and the last unmasks the interrupt
  that term.c:44 turned off; it stays on with no service routine.
* `install_one_shot()` does not look at the result (irqs.c:187 says so): if no alarm can be set the pen
  is dead until the driver is attached again. `PenWatched` claims the watch only without this.
* GET_POINT (stat.c:197) sets the flag before the position with nothing masked; a touch in between
  calibrates with the old position.

## 5. Theorems

For every value of the constants that the named assumptions of each module allow, beyond what
TLC's instances can say.

**`NcrSiopProofs`** (every set of processes and ids below `NTHREADS`, every `Faults` and
`MaxFaults`):

| Theorem | States | Argument |
|---|---|---|
| `TypeCorrect` | `Spec => []TypeOK` | one lemma per party; `IrqOK` is the strengthening (below) |
| `Ownership` | `Spec => []OneOwner` | inductive with `TypeOK`; only `exec()`'s actions touch it |
| `WakeKept` | `Spec => []WakeIsKept` | every routine that finishes a thread queues or signals its `processid`, which by `OneOwner` is the sleeper |
| `WakeSent` | no auxiliary timer: `Spec => []NoLostWakeup` | `IrqQueues`: the queue is empty outside `irq()`; with `WakeKept` |
| `Exclusion` | `PlainFaults`: `Spec => []OnePhysical` | `ChipFollows` and `Conditions` (below) |

**`NcrSiopBusProofs`** (the same; no auxiliary timer):

| Theorem | States | Argument |
|---|---|---|
| `RestartsFree` | every fault: `Spec => RestartOnBusFree` | `Connection`: a connected target is that of the physical thread or its reselection is still to be served; who finishes or displaces a thread finds the bus free |
| `RequestsSeen` | `PlainFaults`, `OwnIdUnused`: `[]PendingIsSeen` | `AtRest`: the property while `irq()` runs, too, with `IdleThread`: an idle thread that is never pending or selected for |
| `Agreement` | `KeptFaults`: `[]LogicalMeansDisconnected` | `Agree`: `Tracked` says for each target how driver and device may differ, by what is outstanding; `Told`, what an outstanding condition implies |
| `QueueFits` | `CommandsKept`, `OwnIdUnused`: `[]WakeQueueFits` | `Queued`: entries in use are at most the finished threads, plus one when the idle thread was finished after a reset (`Over`: then nothing is left to finish) |
| `NeverStuck` | `SteadyFaults`, `OwnIdUnused`: while a call is under way, a process, chip and target, or `irq()` can go on | `Steady`: a thread to be started begins with its selection (`Begins`), the SCRIPT is where the bus lets it go on (`Goes`), a thread waited for is in use (`Awaited`); with `Agree`, `AtRest` and `NoLostWakeup` each wait has somebody who ends it |

**`NcrSiopServiceProofs`** (the same; `CommandsKept`, `OwnIdUnused`):

| Theorem | States | Argument |
|---|---|---|
| `Implements` | `Spec => ServiceSpec` | `Answers`: a thread reported done has an error or its command was carried out; a step of `irq()` answers the calls whose threads it finishes, the rest stutters |
| `NoFalseGood` | a call that ends without an error of the driver was carried out: the GOOD that `exec()` writes beforehand is never taken for an answer | `Earned`, inductive with `Answers` |
| `ResultStays` | a call that is answered keeps its result until `exec()` returns | from the refinement: `ScsiCommands` answers a call once |

*The assumptions.* All but those of `NcrSiopProofs` are for the build without the auxiliary
timer, whose interrupts are served while another is. Then each layer of the invariant excludes the
faults that break it and no others:

* `Grounded` (types, `IrqQueues`, `OneOwner`, `Connection`, at most one SCSI condition and
  resets): every fault.
* `Carried` (a target's command is that of its thread, and somebody waits for it), `Queued`,
  `Answers`: `CommandsKept`, every fault but a target that drops off the bus with its command
  (`udc_resel`), whose thread is finished although the device goes on (`v_stale_reselect`).
* `ChipFollows`, `Engaged`, `AtRest`: `PlainFaults`, no bus error while the bus is free
  (`berr_free`) and no missing message at reselection (`notmsgi`); each breaks `OnePhysical`.
  `KeptFaults`, for `Agree`, is both.
* `Steady`: `SteadyFaults`, that is `KeptFaults` without bus resets and gross errors, after which
  the driver may indeed stand still (section 4).

`OwnIdUnused`: nobody addresses the adapter's own id. `exec()` does not refuse it, and a pending
idle thread hides the others from `reschedule()`. All other faults may come in any number and
order.

*Why `IrqOK`.* `scripti_resel()` and `find_lth()` index the threads with the id of the
reselecting target. That this is an id, not "no target", needs: a reselection condition is
outstanding only while its target is connected, or with a bus reset that hides it. That in
turn needs SCSI and DMA conditions never to be served together, and nothing but a bus
reset to be latched while conditions are served.

*Why `ChipFollows` and `Conditions`.* `scripti_sigp()` starts a thread without putting the
current one back. So SIGP may be reported only while the idle thread is current. The
SCRIPT reports it in WAITFORRESELECT, which it reaches by `rethread()` of the idle thread,
but also by falling through at the end of FREEIT. The invariant says that it does not fall
through: FREEIT starts with a target connected, or with a bus reset still to be served, which
finishes the thread. The two excluded faults and the timer violate exactly this, and TLC
finds `OnePhysical` violated with each of them.

*Why `Agree`.* `LogicalMeansDisconnected` is about quiet moments only. Between a disconnect,
a reselection or a reset and the service of its interrupt the two sides differ, and a reset
may come in between and discard the condition that would have told. The invariant says for
each difference which condition is still outstanding, and that a reset that hides one is
itself still to be served.

**`SpenetArpProofs`, `SpenetArpServiceProofs`** (any addresses, cells, packets, lifetimes below
the byte):

| Theorem | States | Argument |
|---|---|---|
| `TypeCorrect` | `[]TypeOK` | the timer stays a byte by `AgedByte`, from `TimerAssumption` |
| `TableIsSound`, `CacheIsLive` | `[]TableSound`; `[]CacheLive`, until a tick frees the entry in hand | inductive together: the pointer is live only because only complete entries are cached and none loses its address |
| `InTime` | `[]NotOutlived` | `Counted`: the timer and the ticks put off cover the ticks idled |
| `RoutesTold` | `[]RoutesAgree` | `Told`: the same without choice of an entry; each removal or completion tells |
| `Held` | `[]HeldSound` | `Came`: packets come in the order of their numbers, so what is appended is newest; queues that shrink or empty stay `Increasing` |
| `Implements` | `ResolutionSpec`, the same tick allowed for | `MapBefore` and `MapAfter` turn the mapping's choice of an entry into that entry |
| `OneFate` | what was sent or freed is neither sent nor freed again (action property) | proved of `AddressResolution` and carried over by the step lemma of `Implements` |
| `SentToSomeone` | a packet has a hardware address if and only if it is sent | the same; `WaitersHeld`: who waits is held |

**`LanceProofs`** (rings of every size, one descriptor included):

| Theorem | States | Argument |
|---|---|---|
| `TypeCorrect`, `HeadAndTail` | `[]TypeOK`, `[]RingAgrees` | `RingMeans`: descriptors in use are the span from tail to head; `Grows` and `Shrinks` at its ends |
| `InTurn` | `[]NoOvertaking` | with `RingAgrees` |
| `NotFreedEarly` | `[]ChipReadsLive` | `Loaded`, `Queued`: packets in ring and queue all differ, and the chip's are not freed |
| `NotPassedTwice` | `[]PassedOnce` | `Framed`: a frame is in one descriptor |
| `ScanIsWhole` | `[]ScanTakesAll` | `ToTake`: what was there at the start lies ahead of the scan, wherever it began and wherever the chip goes on |
| `Implements` | `InOrder` | `Stretch`: what the chip owns is one stretch that ends at the head; `LineHolds`: its packets, then the queue, are a sequence; each step joins, moves or leaves |
| `NothingMislaid` | each packet accepted is where the driver or the chip finds it (`Placed`) | `Findable`, with `Turns`, how far each packet has come |
| `LeavesInTurn` | when a packet has left, those before it have left | `Turns` with `LineHolds` |
| `NeverStuck` | while a packet accepted has not left, the processor is at work, TINT is set, or the chip owns the descriptor it looks at next | `Noticed`: what the chip has finished and nobody has seen is covered by TINT or by the window of `xmit_irq()`, and `MaxWindow < TCount` leaves one behind it |

**`BootTftpProofs`** (any versions, sessions, limits, losses and edge; files of every size, those
past the edge of the signed block number included):

| Theorem | States | Argument |
|---|---|---|
| `TypeCorrect` | `[]TypeOK` | with `Received` |
| `Consistent` | `[]OneFile` | `Served`: every block under way is one its session has sent; `Received`: as many blocks in memory as were expected |
| `Complete` | `[]Whole` | `LastFits`: what is in memory when the last block comes is the file; `Numbered`: neither side counts past the edge, where the client takes no block; `Sized`: while the file is not replaced the memory is as large as the file; `Ended`: what the end leaves |
| `NeverStopped` | `[]AheadIsStale` | `Ahead`: a session gets ahead of the expected block only after an acknowledgement of that block, which only another round can have sent |
| `OnlyForward` | rounds, phases, requests, blocks, repetitions and time-outs advance in lexicographic order, whatever comes from the net | `StepOnward`, one case per action; with `TypeCorrect` and `WithinFile` it is why a boot ends |
| `WithinFile` | the block expected is one of some version | `Received`, `LastFits` |
| `MemoryHeld` | memory is held from BOOTP's answer to the end of the round, and after a success | inductive with the rest |

**`TouchpadProofs`** (any programs and places, both sizes of a packet, every kind of failure):

| Theorem | States | Argument |
|---|---|---|
| `TypeCorrect` | `[]TypeOK` | `NextIndex`: the index goes round in the packet |
| `Watched` | `[]PenWatched` | inductive with `TypeOK` |
| `LiftIsWatched` | while a lift is not reported the alarm is set, unless it cannot be | `Reported`: the interrupt is on only when the lift has been reported; with `PenWatched` |
| `Promised` | `[]NobodyForgotten` | needs `OneInside`: who is in `read()` is the one `v_busy` names, whom a sleep then records |
| `Implements` | `WholePackets` | `Aligned`: the index is where the unread bytes of the packet begin, counted from where packets are read from since the last SS_SSig in the middle of one; and the place compared with is the one reported |

Only model-checked: all liveness (`CallReturns`, `Leaves`, `Ends`, `Succeeds`, `LiftReported`), as
fairness and ENABLED are out of the prover's reach. What can be proved of these are their safety
cores: `NeverStuck` of both drivers for `CallReturns` and `Leaves` (guards are spelt out where
ENABLED would stand), `OnlyForward` for `Ends`, `LiftIsWatched` for `LiftReported`. In each, the
run adds that the party that can go on does, and gets there.

## 6. Not modelled, and why

* SCSI: synchronous negotiation, message reject and extended messages (a protocol of their own);
  the DMA watchdog and illegal SCRIPT instructions (irq.c:438 and irq.c:474: neither should occur;
  both take `dma_buserror()`'s path); attach and detach (they run alone, their result is `Init`); the
  53C8xx variant (same logic, other registers); statistics and logging.
* SPENET: delivery lists, open and close; published entries; several interfaces.
* SPLANCE: `dr_term()`, memory errors that stop the chip, the build with local memory, multicast
  lists. The lists of the 82596 and the ring of the QUICC are of the same kind.
* Boot: bytes of datagrams, IP and UDP headers and checksums, menus, other boot methods, chip set-up.
* Touchpad: calibration (SS_DCmd), conversion of coordinates, `getstat()` (changes nothing), the
  build with a cyclic alarm.
* The rest of the tree, as `PROJECT.json` says for each component: pixel operations, examples,
  templates, headers, assembler drivers of single boards, sequential tools. Most of its lines hold
  no state that two parties share.

## 7. What is left

1. `I596Ring`: the command and receive lists of the 82596 against the abstract `TransmitQueue`,
   with its reset.
2. `NcrSync`: negotiation between one thread and a target, with reject and reset; an
   abstract agreement that both ends refine.
3. `SpenetPaths`: delivery lists of SPENET while paths open and close under traffic.
4. Calibration of the touchpad, as arithmetic over bounded coordinates.
5. What the build with the auxiliary timer does promise besides `WakeIsKept`: with refused resets
   and aborted connections neither `ServiceSpec` nor `Exclusion` nor `IrqQueues` holds there.
6. `NeverStuck` after bus resets: what it needs besides `SteadyFaults` is that no condition is
   latched together with the reset.
