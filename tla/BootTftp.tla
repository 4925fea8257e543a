------------------------------ MODULE BootTftp ------------------------------
(***************************************************************************)
(* The network boot (OS9/SRC/ROM/CBOOT/INETBOOT): a BOOTP exchange says    *)
(* where the boot file is and how many blocks it has, TFTP fetches it, and *)
(* inetboot() does both again after a failure.  The network delays and     *)
(* reorders datagrams; it loses and duplicates them as the constants say.  *)
(* The server is external: it opens a session (a port of its own) for      *)
(* every request it gets, waits for each acknowledgement and sends a block *)
(* again when an acknowledgement comes again.                              *)
(*                                                                         *)
(* A block is a pair of the file's version and its number.  A version has  *)
(* Full blocks of 512 bytes and then a shorter last one, empty when the    *)
(* size is a multiple of 512.                                              *)
(*                                                                         *)
(* A definition marked "mutant" is a slip that its neighbour could have    *)
(* had: no action uses it, and some property below would notice it.        *)
(***************************************************************************)
EXTENDS Naturals, Sequences, FiniteSets

CONSTANTS
  NVersions,    \* versions of the boot file, the server's in turn
  Full,         \* full blocks of each version
  Empty,        \* versions whose last block is empty
  OldServer,    \* the server counts an empty last block (TRUE or FALSE)
  RrqFits,      \* a request is not longer than an error message
  TryCount,     \* TRYCOUNT of inetboot() (3)
  BootTries,    \* TRYCNT of bootp() (6)
  TftpTries,    \* TRYCNT of tftp() (8)
  Ticks,        \* ticks of a time-out
  Edge,         \* block numbers are signed 16 bits: from here on they read as negative (2^15)
  NSessions,    \* bound: sessions the server opens
  MaxLoss,      \* bound: datagrams lost or spoilt
  Dup,          \* datagrams are duplicated
  Prompt,       \* time passes only while nothing is under way
  Faults        \* subset of {"refuse", "memory", "icmp"}; "icmp" is what reads as ICMP, too

Versions == 1 .. NVersions
Sessions == 1 .. NSessions

ASSUME FilesAssumption ==
  /\ NVersions \in Nat \ {0}
  /\ Full \in [Versions -> Nat] /\ Empty \subseteq Versions /\ OldServer \in BOOLEAN
ASSUME BoundsAssumption ==
  /\ TryCount \in Nat \ {0} /\ BootTries \in Nat \ {0} /\ TftpTries \in Nat \ {0}
  /\ Ticks \in Nat /\ Edge \in Nat \ {0} /\ MaxLoss \in Nat
  /\ RrqFits \in BOOLEAN /\ Dup \in BOOLEAN /\ Prompt \in BOOLEAN
  /\ NSessions \in Nat

VARIABLES
  pc,        \* "bootp", "arp", "tftp", "done"
  try,       \* rounds of inetboot()
  try_count, \* requests of bootp(); it also decides the xid
  timeout,   \* what is left of the time-out
  in_bootsize, \* blocks the BOOTP answer says
  bootram,   \* memory for the file is held
  arp_dest,  \* hardware address of the server: "none", "right", "wrong"
  tries, expected_block, connected_to, buf,   \* of tftp()
  tlen,      \* length kept for the next repetition: "out", "err"
  result,    \* of inetboot()
  net,       \* datagrams under way
  version,   \* the server's version of the file
  session,   \* per session: "free", "open" or "closed"
  sver, sblock,   \* the version it sends, the last block it sent
  lost,      \* history: datagrams lost, and answers without a boot file
  aborted,   \* history: sessions connected to in earlier rounds
  overrun    \* history: data have been written behind the memory held for the file

tftpVars == <<tries, expected_block, connected_to, buf, tlen>>
server == <<version, session, sver, sblock>>
vars == <<pc, try, try_count, timeout, in_bootsize, bootram, arp_dest, tftpVars, result, net,
          server, lost, aborted, overrun>>

NoSession == 0
last(v) == Full[v] + 1
blocksOf(v) == IF v \in Empty /\ ~OldServer THEN Full[v] ELSE Full[v] + 1
file(v) == [b \in 1 .. last(v) |-> <<v, b>>]

bootreq(x) == [type |-> "bootreq", xid |-> x]
bootrep(x, n, ok) == [type |-> "bootrep", xid |-> x, blocks |-> n, ok |-> ok]
rrq == [type |-> "rrq"]
data(s, v, b) == [type |-> "data", port |-> s, ver |-> v, block |-> b]
ack(s, b) == [type |-> "ack", port |-> s, block |-> b]
nak(s) == [type |-> "nak", port |-> s]
error(s) == [type |-> "error", port |-> s]

Init ==
  /\ pc = "bootp" /\ try = 1 /\ try_count = 1 /\ timeout = Ticks
  /\ in_bootsize = 0 /\ bootram = FALSE /\ arp_dest = "none"
  /\ tries = 1 /\ expected_block = 1 /\ connected_to = NoSession /\ buf = <<>> /\ tlen = "out"
  /\ result = "none"
  /\ net = {bootreq(1)}
  /\ version = 1
  /\ session = [s \in Sessions |-> "free"]
  /\ sver = [s \in Sessions |-> 1] /\ sblock = [s \in Sessions |-> 0]
  /\ lost = 0 /\ aborted = {} /\ overrun = FALSE

\* a datagram taken from the network leaves it unless it is duplicated
rest(m) == IF Dup THEN net ELSE net \ {m}
\* what is sent to a wrong hardware address reaches nobody
toServer(m) == IF arp_dest = "wrong" THEN {} ELSE {m}

\* bootp() sends its k-th request; xid is doubled each time
request(k, left) ==
  /\ try_count' = k
  /\ net' = left \cup {bootreq(k)}
  /\ timeout' = Ticks

(***************************************************************************)
(* inetboot(): another round, or the end.                                  *)
(***************************************************************************)
nextTry(left) ==
  /\ bootram' = FALSE
  /\ IF try < TryCount
       THEN /\ try' = try + 1 /\ pc' = "bootp"
            /\ request(1, left)
            /\ UNCHANGED result
       ELSE /\ pc' = "done" /\ result' = "failed"
            /\ net' = left
            /\ UNCHANGED <<try, try_count, timeout>>

nextRequestLate(left) ==                            \* mutant: one request too many
  IF try_count <= BootTries
    THEN /\ request(try_count + 1, left)
         /\ UNCHANGED <<pc, try, bootram, result>>
    ELSE nextTry(left)

\* bootp(): another request, or NULL
nextRequest(left) ==
  IF try_count < BootTries
    THEN /\ request(try_count + 1, left)
         /\ UNCHANGED <<pc, try, bootram, result>>
    ELSE nextTry(left)

BootpTimeout ==
  /\ pc = "bootp" /\ timeout = 0
  /\ nextRequest(net)
  /\ UNCHANGED <<in_bootsize, arp_dest, tftpVars, server, lost, aborted, overrun>>

\* tftp() begins: the request leaves when the server's hardware address is known
startTftp(left) ==
  /\ bootram' = TRUE
  /\ expected_block' = 1 /\ connected_to' = NoSession /\ buf' = <<>> /\ tlen' = "out"
  /\ tries' = 1 /\ timeout' = Ticks
  /\ aborted' = (aborted \cup {connected_to}) \ {NoSession}
  /\ IF arp_dest = "none"
       THEN pc' = "arp" /\ net' = left
       ELSE pc' = "tftp" /\ net' = left \cup toServer(rrq)

\* the record names a file and says its size, and that is not zero
usable(m) == m.ok /\ m.blocks # 0

BootpReply(m) ==
  /\ pc = "bootp" /\ m \in net /\ m.type = "bootrep" /\ m.xid = try_count /\ usable(m)
  /\ in_bootsize' = m.blocks
  /\ startTftp(rest(m))
  /\ UNCHANGED <<try, try_count, arp_dest, result, server, lost, overrun>>

\* no memory for so many blocks
BootpNoMemory(m) ==
  /\ "memory" \in Faults
  /\ pc = "bootp" /\ m \in net /\ m.type = "bootrep" /\ m.xid = try_count /\ usable(m)
  /\ in_bootsize' = m.blocks
  /\ nextTry(rest(m))
  /\ UNCHANGED <<arp_dest, tftpVars, server, lost, aborted, overrun>>

\* no file name, no size, or size zero: wait, then ask again
BootpBadRecord(m) ==
  /\ pc = "bootp" /\ m \in net /\ m.type = "bootrep" /\ m.xid = try_count /\ ~usable(m)
  /\ nextRequest(rest(m))
  /\ UNCHANGED <<in_bootsize, arp_dest, tftpVars, server, lost, aborted, overrun>>

\* another port, another request's xid
BootpStray(m) ==
  /\ pc = "bootp" /\ m \in net /\ m.type \in {"bootrep", "data", "error"}
  /\ m.type = "bootrep" => m.xid # try_count
  /\ net' = rest(m)
  /\ UNCHANGED <<pc, try, try_count, timeout, in_bootsize, bootram, arp_dest, tftpVars, result,
                 server, lost, aborted, overrun>>

(***************************************************************************)
(* arp_resolve(): waits as long as it takes; what comes meanwhile is       *)
(* dropped.  An ICMP message ends the wait without an address, and what is *)
(* sent goes astray until the ARP reply comes after all.                   *)
(***************************************************************************)
ArpEnd(e) ==
  /\ pc = "arp"
  /\ arp_dest' = e
  /\ e = "wrong" => "icmp" \in Faults
  /\ pc' = "tftp"
  /\ net' = IF e = "right" THEN net \cup {rrq} ELSE net
  /\ UNCHANGED <<try, try_count, timeout, in_bootsize, bootram, tftpVars, result, server, lost,
                 aborted, overrun>>

\* arp_input() looks at every frame, whoever waits for whatever
ArpLate ==
  /\ pc \in {"bootp", "tftp"} /\ arp_dest = "wrong"
  /\ arp_dest' = "right"
  /\ UNCHANGED <<pc, try, try_count, timeout, in_bootsize, bootram, tftpVars, result, net,
                 server, lost, aborted, overrun>>

ArpDrop(m) ==
  /\ pc = "arp" /\ m \in net /\ m.type \in {"bootrep", "data", "error"}
  /\ net' = rest(m)
  /\ UNCHANGED <<pc, try, try_count, timeout, in_bootsize, bootram, arp_dest, tftpVars, result,
                 server, lost, aborted, overrun>>

(***************************************************************************)
(* tftp()                                                                  *)
(***************************************************************************)
againNext ==                                        \* mutant: the next block is acknowledged
  IF connected_to = NoSession THEN toServer(rrq) ELSE toServer(ack(connected_to, expected_block))

\* the request, or the last acknowledgement; a request cut to the length of an error
\* message is of no use
again ==
  IF connected_to = NoSession
    THEN IF tlen = "out" \/ RrqFits THEN toServer(rrq) ELSE {}
    ELSE toServer(ack(connected_to, expected_block - 1))

TftpTimeout ==
  /\ pc = "tftp" /\ timeout = 0
  /\ IF tries + 1 > TftpTries
       THEN nextTry(net) /\ UNCHANGED <<tries, expected_block, connected_to, buf, tlen>>
       ELSE /\ tries' = tries + 1 /\ timeout' = Ticks
            /\ net' = net \cup again
            /\ UNCHANGED <<pc, try, try_count, bootram, result, expected_block, connected_to, buf,
                           tlen>>
  /\ UNCHANGED <<in_bootsize, arp_dest, server, lost, aborted, overrun>>

countedUpTo(v) ==                                   \* mutant: a shorter file is not noticed
  IF expected_block < in_bootsize THEN in_bootsize ELSE expected_block

\* blocks counted at the end: an empty last one may be one too many
counted(v) == IF v \in Empty /\ expected_block = in_bootsize + 1 THEN expected_block - 1
                                                                 ELSE expected_block

\* The block has data and there is no memory left for them: nothing bounds memcpy() by the
\* number of blocks, which is compared at the end.  What lies behind is not modelled.
behind(m) == m.block > in_bootsize /\ (m.ver \in Empty => m.block < last(m.ver))

\* block m.block has come from the server we are connected to, or connect to
accept(m) ==
  LET next == rest(m) \cup toServer(ack(m.port, m.block)) IN
  /\ buf' = Append(buf, <<m.ver, m.block>>)
  /\ overrun' = (overrun \/ behind(m))
  /\ connected_to' = m.port
  /\ tlen' = "out" /\ tries' = 0
  /\ IF m.block < last(m.ver)
       THEN /\ expected_block' = expected_block + 1
            /\ timeout' = Ticks /\ net' = next
            /\ UNCHANGED <<pc, try, try_count, bootram, result>>
       ELSE /\ UNCHANGED expected_block
            /\ IF counted(m.ver) = in_bootsize
                 THEN /\ pc' = "done" /\ result' = "booted" /\ net' = next
                      /\ UNCHANGED <<try, try_count, timeout, bootram>>
                 ELSE nextTry(next)

\* the block number as the client reads it, a short compared with an int
th_block(m) == ((m.block + Edge) % (2 * Edge)) - Edge
fromServer(m) == connected_to \in {NoSession, m.port}

TftpBlockAny(m) ==                                  \* mutant: who sends is not looked at
  /\ pc = "tftp" /\ m \in net /\ m.type = "data"
  /\ th_block(m) = expected_block
  /\ accept(m)
  /\ UNCHANGED <<in_bootsize, arp_dest, server, lost, aborted>>

TftpBlock(m) ==
  /\ pc = "tftp" /\ m \in net /\ m.type = "data" /\ fromServer(m)
  /\ th_block(m) = expected_block
  /\ accept(m)
  /\ UNCHANGED <<in_bootsize, arp_dest, server, lost, aborted>>

\* an old session, another session or a block ahead is told to stop
TftpNak(m) ==
  /\ pc = "tftp" /\ m \in net
  /\ \/ m.type = "data" /\ ~fromServer(m)
     \/ m.type = "data" /\ connected_to = NoSession /\ th_block(m) # 1
     \/ m.type = "data" /\ connected_to = m.port /\ th_block(m) > expected_block
     \/ m.type = "error" /\ ~fromServer(m)
  /\ tlen' = "err"
  /\ net' = rest(m) \cup toServer(nak(m.port))
  /\ UNCHANGED <<pc, try, try_count, timeout, in_bootsize, bootram, arp_dest, tries,
                 expected_block, connected_to, buf, result, server, lost, aborted, overrun>>

TftpDupRestart(m) ==                                \* mutant: the time-out starts again
  /\ pc = "tftp" /\ m \in net /\ m.type = "data" /\ connected_to = m.port
  /\ th_block(m) < expected_block
  /\ net' = rest(m) \cup again
  /\ timeout' = Ticks
  /\ UNCHANGED <<pc, try, try_count, in_bootsize, bootram, arp_dest, tftpVars, result, server,
                 lost, aborted, overrun>>

\* a block again: the acknowledgement again; the time-out goes on
TftpDup(m) ==
  /\ pc = "tftp" /\ m \in net /\ m.type = "data" /\ connected_to = m.port
  /\ th_block(m) < expected_block
  /\ net' = rest(m) \cup again
  /\ UNCHANGED <<pc, try, try_count, timeout, in_bootsize, bootram, arp_dest, tftpVars, result,
                 server, lost, aborted, overrun>>

TftpError(m) ==
  /\ pc = "tftp" /\ m \in net /\ m.type = "error" /\ fromServer(m)
  /\ nextTry(rest(m))
  /\ UNCHANGED <<in_bootsize, arp_dest, tftpVars, server, lost, aborted, overrun>>

\* Somebody is told that a destination is unreachable; or a UDP datagram comes from a port
\* between 768 and 1023: icmp_check() looks at the first byte and not at the protocol, and
\* runs before the ports are looked at.
TftpIcmp ==
  /\ "icmp" \in Faults /\ pc = "tftp"
  /\ nextTry(net)
  /\ UNCHANGED <<in_bootsize, arp_dest, tftpVars, server, lost, aborted, overrun>>

TftpStray(m) ==
  /\ pc = "tftp" /\ m \in net /\ m.type = "bootrep"
  /\ net' = rest(m)
  /\ UNCHANGED <<pc, try, try_count, timeout, in_bootsize, bootram, arp_dest, tftpVars, result,
                 server, lost, aborted, overrun>>

(***************************************************************************)
(* The server and the network.                                             *)
(***************************************************************************)
client == <<pc, try, try_count, timeout, in_bootsize, bootram, arp_dest, tftpVars, result,
            aborted, overrun>>

SrvBootp(m, ok) ==
  /\ m \in net /\ m.type = "bootreq"
  /\ IF ok THEN UNCHANGED lost ELSE lost < MaxLoss /\ lost' = lost + 1
  /\ net' = rest(m) \cup {bootrep(m.xid, blocksOf(version), ok)}
  /\ UNCHANGED <<client, server>>

newSession == {s \in Sessions : session[s] = "free" /\ \A r \in Sessions : r < s => session[r] # "free"}

SrvOpen(m, s) ==
  /\ m \in net /\ m.type = "rrq" /\ s \in newSession
  /\ session' = [session EXCEPT ![s] = "open"]
  /\ sver' = [sver EXCEPT ![s] = version]
  /\ sblock' = [sblock EXCEPT ![s] = 1]
  /\ net' = rest(m) \cup {data(s, version, 1)}
  /\ UNCHANGED <<client, version, lost>>

SrvRefuse(m, s) ==
  /\ "refuse" \in Faults
  /\ m \in net /\ m.type = "rrq" /\ s \in newSession
  /\ session' = [session EXCEPT ![s] = "closed"]
  /\ net' = rest(m) \cup {error(s)}
  /\ UNCHANGED <<client, version, sver, sblock, lost>>

SrvAck(m) ==
  /\ m \in net /\ m.type = "ack" /\ session[m.port] = "open"
  /\ IF m.block = sblock[m.port]
       THEN IF m.block = last(sver[m.port])
              THEN /\ session' = [session EXCEPT ![m.port] = "closed"]
                   /\ net' = rest(m)
                   /\ UNCHANGED sblock
              ELSE /\ sblock' = [sblock EXCEPT ![m.port] = @ + 1]
                   /\ net' = rest(m) \cup {data(m.port, sver[m.port], sblock[m.port] + 1)}
                   /\ UNCHANGED session
       ELSE /\ net' = rest(m) \cup IF m.block + 1 = sblock[m.port]
                                     THEN {data(m.port, sver[m.port], sblock[m.port])} ELSE {}
            /\ UNCHANGED <<session, sblock>>
  /\ UNCHANGED <<client, version, sver, lost>>

SrvNak(m) ==
  /\ m \in net /\ m.type = "nak"
  /\ session' = [session EXCEPT ![m.port] = "closed"]
  /\ net' = rest(m)
  /\ UNCHANGED <<client, version, sver, sblock, lost>>

\* what nobody listens to any more
Vanish(m) ==
  /\ m \in net
  /\ \/ m.type = "rrq" /\ newSession = {}
     \/ m.type = "ack" /\ session[m.port] # "open"
     \/ pc = "done" /\ m.type \in {"bootrep", "data", "error"}
  /\ ~Dup
  /\ net' = net \ {m}
  /\ UNCHANGED <<client, server, lost>>

Replace ==
  /\ version + 1 \in Versions
  /\ version' = version + 1
  /\ UNCHANGED <<client, session, sver, sblock, net, lost>>

Lose(m) ==
  /\ m \in net /\ lost < MaxLoss
  /\ lost' = lost + 1 /\ net' = net \ {m}
  /\ UNCHANGED <<client, server>>

Tick ==
  /\ pc \in {"bootp", "tftp"} /\ timeout > 0
  /\ Prompt => net = {}
  /\ timeout' = timeout - 1
  /\ UNCHANGED <<pc, try, try_count, in_bootsize, bootram, arp_dest, tftpVars, result, net,
                 server, lost, aborted, overrun>>

Bootp == \E m \in net : BootpReply(m) \/ BootpNoMemory(m) \/ BootpBadRecord(m) \/ BootpStray(m)
Arp == (\E e \in {"right", "wrong"} : ArpEnd(e)) \/ ArpLate \/ (\E m \in net : ArpDrop(m))
Tftp == \/ \E m \in net : TftpBlock(m) \/ TftpNak(m) \/ TftpDup(m) \/ TftpError(m) \/ TftpStray(m)
        \/ TftpIcmp
Server ==
  \E m \in net :
    \/ \E ok \in BOOLEAN : SrvBootp(m, ok)
    \/ \E s \in Sessions : SrvOpen(m, s) \/ SrvRefuse(m, s)
    \/ SrvAck(m) \/ SrvNak(m)
Network == \E m \in net : Lose(m) \/ Vanish(m)
Timeouts == BootpTimeout \/ TftpTimeout

Next == Bootp \/ Arp \/ Tftp \/ Timeouts \/ Tick \/ Server \/ Replace \/ Network
Spec == Init /\ [][Next]_vars

\* The receiver charges a time-out only while it polls and no frame is ready, and notices
\* its end only then: what follows is so if the net falls quiet again and again.
QuietAgain == WF_vars(Tick) /\ WF_vars(Timeouts)

\* A server and a network that do their work, but for what is lost: nothing comes that was
\* not asked for, so the net falls quiet, and ARP is answered in the end.
PromptSpec ==
  /\ Spec /\ QuietAgain
  /\ WF_vars(ArpEnd("right"))
  /\ WF_vars(Bootp) /\ WF_vars(Tftp) /\ WF_vars(Server)
  /\ WF_vars(\E m \in net : Vanish(m))

(***************************************************************************)
(* Properties                                                              *)
(***************************************************************************)
Messages ==
  [type : {"bootreq"}, xid : 1 .. BootTries]
  \cup [type : {"bootrep"}, xid : 1 .. BootTries, blocks : Nat, ok : BOOLEAN]
  \cup [type : {"rrq"}]
  \cup [type : {"data"}, port : Sessions, ver : Versions, block : Nat \ {0}]
  \cup [type : {"ack"}, port : Sessions, block : Nat \ {0}]
  \cup [type : {"nak", "error"}, port : Sessions]

\* Types of all variables; the counters of rounds, requests and repetitions stay within
\* their limits (inetboot, bootp, tftp).
TypeOK ==
  /\ pc \in {"bootp", "arp", "tftp", "done"}
  /\ try \in 1 .. TryCount /\ try_count \in 1 .. BootTries /\ timeout \in 0 .. Ticks
  /\ in_bootsize \in Nat /\ bootram \in BOOLEAN /\ arp_dest \in {"none", "right", "wrong"}
  /\ tries \in 0 .. TftpTries /\ expected_block \in Nat \ {0}
  /\ connected_to \in Sessions \cup {NoSession}
  /\ buf \in Seq(Versions \X (Nat \ {0})) /\ tlen \in {"out", "err"}
  /\ result \in {"none", "booted", "failed"}
  /\ net \subseteq Messages
  /\ version \in Versions /\ session \in [Sessions -> {"free", "open", "closed"}]
  /\ sver \in [Sessions -> Versions] /\ sblock \in [Sessions -> Nat]
  /\ lost \in 0 .. MaxLoss /\ aborted \subseteq Sessions /\ overrun \in BOOLEAN

\* What is in memory is the beginning of one version of the file, block after block, from
\* the one session connected to: repeated, late and foreign blocks leave no trace (tftp).
OneFile ==
  \A i \in 1 .. Len(buf) : connected_to # NoSession /\ buf[i] = <<sver[connected_to], i>>

\* A boot succeeds only with the whole of one version and the number of blocks that BOOTP
\* said, give or take the empty last one, all of them below the edge of the signed block
\* number; a failed one holds no memory.  Data are written behind the memory held only if the
\* server's file has been replaced since the boot began (inetboot, tftp).
Whole ==
  /\ result = "booted" =>
       \E v \in Versions :
         /\ buf = file(v) /\ bootram
         /\ in_bootsize = last(v) \/ (v \in Empty /\ in_bootsize = Full[v])
         /\ last(v) < Edge
  /\ result = "failed" => ~bootram
  /\ overrun => version > 1

\* A block ahead of the one expected is from a session used in an earlier round, as the
\* comment in tftp() says, so the answer never stops the transfer at work.
AheadIsStale ==
  pc = "tftp" =>
    \A m \in net : m.type = "data" /\ m.port = connected_to /\ m.block > expected_block
                   => connected_to \in aborted

\* If the net falls quiet again and again, however late, repeated and strange the answers
\* between, the boot comes to an end or waits for an ARP reply for ever: nothing that comes
\* starts a time-out again but the block that is next (tftp, bootp, inetboot, arp_resolve).
Ends == QuietAgain => <>(pc = "done") \/ <>[](pc = "arp")

\* With a server that answers and fewer losses (or answers without a boot file) than
\* repetitions the boot succeeds.
Succeeds == <>(result = "booted")
=============================================================================
