--------------------------- MODULE BootTftpProofs ---------------------------
(***************************************************************************)
(* Theorems about BootTftp for every number of versions, file size,        *)
(* session, round, repetition and loss, and every kind of fault.           *)
(***************************************************************************)
EXTENDS BootTftp, TLAPS

-----------------------------------------------------------------------------
(***************************************************************************)
(* Datagrams.                                                              *)
(***************************************************************************)
USE DEF bootreq, bootrep, rrq, data, ack, nak, error

\* A version has a last block, and its size is a number.
LEMMA LastBlock ==
  ASSUME NEW v \in Versions
  PROVE  /\ last(v) \in Nat \ {0} /\ Full[v] \in Nat
         /\ blocksOf(v) \in Nat
  BY FilesAssumption DEF last, blocksOf

\* The kinds of datagram, with their fields.
LEMMA Forms ==
  ASSUME NEW m \in Messages
  PROVE  /\ m.type \in {"bootreq", "bootrep", "rrq", "data", "ack", "nak", "error"}
         /\ m.type = "bootreq" => m.xid \in 1 .. BootTries
         /\ m.type = "bootrep" => m.xid \in 1 .. BootTries /\ m.blocks \in Nat
         /\ m.type \in {"data", "ack", "nak", "error"} => m.port \in Sessions
         /\ m.type = "data" => m.ver \in Versions /\ m.block \in Nat \ {0}
         /\ m.type = "ack" => m.block \in Nat \ {0}
  BY DEF Messages

\* What is sent is a datagram.
LEMMA Made ==
  /\ \A x \in 1 .. BootTries : bootreq(x) \in Messages
  /\ \A x \in 1 .. BootTries, n \in Nat, ok \in BOOLEAN : bootrep(x, n, ok) \in Messages
  /\ rrq \in Messages
  /\ \A s \in Sessions, v \in Versions, b \in Nat \ {0} : data(s, v, b) \in Messages
  /\ \A s \in Sessions, b \in Nat \ {0} : ack(s, b) \in Messages
  /\ \A s \in Sessions : nak(s) \in Messages /\ error(s) \in Messages
  BY DEF Messages

-----------------------------------------------------------------------------
(***************************************************************************)
(* The inductive invariant.                                                *)
(***************************************************************************)
\* A server sends within its file, to sessions it has opened.
Served ==
  /\ \A s \in Sessions : session[s] = "open" => sblock[s] \in 1 .. last(sver[s])
  /\ \A m \in net : m.type = "data" =>
       /\ session[m.port] # "free"
       /\ m.ver = sver[m.port] /\ m.block <= last(m.ver)

\* What the client has of the file, and where it is in its rounds.
Received ==
  /\ connected_to # NoSession => session[connected_to] # "free"
  /\ pc \in {"arp", "tftp"} => Len(buf) = expected_block - 1 /\ bootram
  /\ pc = "arp" => connected_to = NoSession
  /\ pc \in {"arp", "tftp"} /\ connected_to = NoSession => expected_block = 1
  /\ pc = "tftp" /\ connected_to # NoSession => expected_block \in 2 .. last(sver[connected_to])
  /\ pc = "done" <=> result # "none"

\* Client and server count blocks up to the edge, where the client takes none.
Numbered ==
  /\ expected_block <= Edge
  /\ \A s \in Sessions : sblock[s] <= Edge
  /\ \A m \in net : /\ m.type = "data" => m.block <= Edge
                    /\ m.type = "ack" => m.block < Edge

\* As long as the file is not replaced the memory held is as large as the file.
Sized ==
  version = 1 =>
    /\ \A s \in Sessions : sver[s] = 1
    /\ \A m \in net : m.type = "bootrep" => m.blocks = blocksOf(1)
    /\ pc \in {"arp", "tftp"} => in_bootsize = blocksOf(1)
    /\ ~overrun

\* What the end of the boot leaves, the memory behind that held aside.
Ended ==
  /\ result = "booted" =>
       \E v \in Versions :
         /\ buf = file(v) /\ bootram
         /\ in_bootsize = last(v) \/ (v \in Empty /\ in_bootsize = Full[v])
         /\ last(v) < Edge
  /\ result = "failed" => ~bootram

\* Sessions of this round are no further than the client.
InStep(s) == s \notin aborted /\ (s = connected_to => pc = "tftp")
reached(s) == IF s = connected_to THEN expected_block ELSE 1
Ahead ==
  \A s \in Sessions : InStep(s) =>
    /\ sblock[s] <= reached(s)
    /\ \A m \in net : /\ m.type = "data" /\ m.port = s => m.block <= reached(s)
                      /\ m.type = "ack" /\ m.port = s => m.block < reached(s)


-----------------------------------------------------------------------------
(***************************************************************************)
(* Type correctness.                                                       *)
(***************************************************************************)
\* A datagram leaves nothing behind that was not there, and sends nothing else.
LEMMA Small ==
  ASSUME NEW m
  PROVE  rest(m) \subseteq net /\ toServer(m) \subseteq {m}
  BY DEF rest, toServer

\* What is sent again is the request or the last acknowledgement.
LEMMA Again ==
  ASSUME TypeOK, Received, pc = "tftp", NEW m \in again
  PROVE  /\ m \in Messages
         /\ \/ connected_to = NoSession /\ m = rrq
            \/ /\ connected_to \in Sessions /\ expected_block \in Nat \ {0, 1}
               /\ m = ack(connected_to, expected_block - 1)
<1>1. CASE connected_to = NoSession
  <2>1. m = rrq
    BY <1>1 DEF again, toServer
  <2> QED
    BY <1>1, <2>1, Made
<1>2. CASE connected_to # NoSession
  <2>1. m = ack(connected_to, expected_block - 1)
    BY <1>2 DEF again, toServer
  <2>2. connected_to \in Sessions /\ sver[connected_to] \in Versions
    BY <1>2 DEF TypeOK
  <2>3. expected_block \in 2 .. last(sver[connected_to])
    BY <1>2 DEF Received
  <2>4. expected_block \in Nat \ {0, 1} /\ expected_block - 1 \in Nat \ {0}
    BY <2>2, <2>3, LastBlock
  <2> QED
    BY <2>1, <2>2, <2>4, Made
<1> QED
  BY <1>1, <1>2

\* The variables that a round's end changes.
RoundType ==
  /\ pc \in {"bootp", "arp", "tftp", "done"}
  /\ try \in 1 .. TryCount /\ try_count \in 1 .. BootTries /\ timeout \in 0 .. Ticks
  /\ bootram \in BOOLEAN /\ result \in {"none", "booted", "failed"}
  /\ net \subseteq Messages

\* inetboot() begins another round or ends within its limits.
LEMMA NextTryType ==
  ASSUME TypeOK, NEW left \in SUBSET Messages, nextTry(left)
  PROVE  RoundType'
<1>1. 1 \in 1 .. BootTries /\ Ticks \in 0 .. Ticks /\ TryCount \in Nat
  BY BoundsAssumption
<1>2. CASE try < TryCount
  <2>1. try' \in 1 .. TryCount
    BY <1>1, <1>2 DEF TypeOK, nextTry
  <2>2. bootreq(1) \in Messages
    BY <1>1, Made
  <2> QED
    BY <1>1, <1>2, <2>1, <2>2 DEF TypeOK, RoundType, nextTry, request
<1>3. CASE ~(try < TryCount)
  BY <1>3 DEF TypeOK, RoundType, nextTry
<1> QED
  BY <1>2, <1>3

\* bootp() asks again or gives up within its limits.
LEMMA NextRequestType ==
  ASSUME TypeOK, NEW left \in SUBSET Messages, nextRequest(left)
  PROVE  RoundType'
<1>1. CASE try_count < BootTries
  <2>1. try_count + 1 \in 1 .. BootTries /\ Ticks \in 0 .. Ticks
    BY <1>1, BoundsAssumption DEF TypeOK
  <2>2. bootreq(try_count + 1) \in Messages
    BY <2>1, Made
  <2> QED
    BY <1>1, <2>1, <2>2 DEF TypeOK, RoundType, nextRequest, request
<1>2. CASE ~(try_count < BootTries)
  BY <1>2, NextTryType DEF nextRequest
<1> QED
  BY <1>1, <1>2

USE DEF tftpVars, server, client

\* Every step keeps the types.
LEMMA TypeStep == TypeOK /\ Received /\ [Next]_vars => TypeOK'
<1> SUFFICES ASSUME TypeOK, Received, [Next]_vars PROVE TypeOK'
  OBVIOUS
<1> USE Small
<1>0. /\ net \in SUBSET Messages
      /\ \A m \in net : rest(m) \in SUBSET Messages
      /\ Ticks \in 0 .. Ticks
  BY BoundsAssumption DEF TypeOK
<1>1. ASSUME BootpTimeout PROVE TypeOK'
  <2>1. RoundType'
    BY <1>0, <1>1, NextRequestType DEF BootpTimeout
  <2> QED
    BY <1>1, <2>1 DEF BootpTimeout, TypeOK, RoundType
<1>2. ASSUME NEW m \in net, BootpReply(m) PROVE TypeOK'
  <2>1. net' \subseteq Messages
    BY <1>0, <1>2, Made DEF BootpReply, startTftp
  <2>2. in_bootsize' \in Nat
    BY <1>2, Forms DEF BootpReply, TypeOK
  <2>3. buf' = << >> /\ buf' \in Seq(Versions \X (Nat \ {0}))
    BY <1>2 DEF BootpReply, startTftp
  <2>4. tries' \in 0 .. TftpTries
    BY <1>2, BoundsAssumption DEF BootpReply, startTftp
  <2> QED
    BY <1>0, <1>2, <2>1, <2>2, <2>3, <2>4 DEF BootpReply, startTftp, TypeOK, NoSession
<1>3. ASSUME NEW m \in net, BootpNoMemory(m) PROVE TypeOK'
  <2>1. RoundType' /\ in_bootsize' \in Nat
    BY <1>0, <1>3, NextTryType, Forms DEF BootpNoMemory, TypeOK
  <2> QED
    BY <1>3, <2>1 DEF BootpNoMemory, TypeOK, RoundType
<1>4. ASSUME NEW m \in net, BootpBadRecord(m) PROVE TypeOK'
  <2>1. RoundType'
    BY <1>0, <1>4, NextRequestType DEF BootpBadRecord
  <2> QED
    BY <1>4, <2>1 DEF BootpBadRecord, TypeOK, RoundType
<1>5. ASSUME NEW m \in net, BootpStray(m) \/ ArpDrop(m) \/ TftpStray(m) PROVE TypeOK'
  <2>1. net' \subseteq Messages
    BY <1>0, <1>5 DEF BootpStray, ArpDrop, TftpStray
  <2>2. UNCHANGED <<pc, try, try_count, timeout, in_bootsize, bootram, arp_dest, tftpVars, result,
                    server, lost, aborted, overrun>>
    BY <1>5 DEF BootpStray, ArpDrop, TftpStray
  <2> QED
    BY <2>1, <2>2 DEF TypeOK, tftpVars, server
<1>6. ASSUME ArpLate \/ \E e \in {"right", "wrong"} : ArpEnd(e) PROVE TypeOK'
  BY <1>0, <1>6, Made DEF ArpEnd, ArpLate, TypeOK
<1>7. ASSUME NEW m \in net, TftpBlock(m) PROVE TypeOK'
  <2>1. m.port \in Sessions /\ m.ver \in Versions /\ m.block \in Nat \ {0}
    BY <1>0, <1>7, Forms DEF TftpBlock
  <2>2. rest(m) \cup toServer(ack(m.port, m.block)) \in SUBSET Messages
    BY <1>0, <2>1, Made
  <2>3. RoundType'
    <3>1. CASE m.block < last(m.ver) \/ counted(m.ver) = in_bootsize
      BY <1>0, <1>7, <2>2, <3>1 DEF TftpBlock, accept, TypeOK, RoundType
    <3>2. CASE ~(m.block < last(m.ver) \/ counted(m.ver) = in_bootsize)
      BY <1>7, <2>2, <3>2, NextTryType DEF TftpBlock, accept
    <3> QED
      BY <3>1, <3>2
  <2>4. <<m.ver, m.block>> \in Versions \X (Nat \ {0})
    BY <2>1
  <2>5. buf' \in Seq(Versions \X (Nat \ {0}))
    BY <1>7, <2>4 DEF TftpBlock, accept, TypeOK
  <2>6. 0 \in 0 .. TftpTries
    BY BoundsAssumption
  <2>7. expected_block' \in Nat \ {0} /\ tries' \in 0 .. TftpTries /\ tlen' \in {"out", "err"}
    BY <1>7, <2>6 DEF TftpBlock, accept, TypeOK
  <2>8. connected_to' \in Sessions \cup {NoSession} /\ overrun' \in BOOLEAN
    <3>1. overrun' = (overrun \/ behind(m)) /\ connected_to' = m.port
      BY <1>7 DEF TftpBlock, accept
    <3>2. overrun' \in BOOLEAN
      BY Zenon, <3>1
    <3> QED
      BY <2>1, <3>1, <3>2
  <2>9. UNCHANGED <<in_bootsize, arp_dest, server, lost, aborted>>
    BY <1>7 DEF TftpBlock
  <2> QED
    BY <2>3, <2>5, <2>7, <2>8, <2>9 DEF TypeOK, RoundType
<1>8. ASSUME NEW m \in net, TftpNak(m) PROVE TypeOK'
  <2>1. m.type \in {"data", "error"}
    BY <1>8 DEF TftpNak
  <2>2. nak(m.port) \in Messages
    BY <1>0, <2>1, Forms, Made
  <2> QED
    BY <1>0, <1>8, <2>2 DEF TftpNak, TypeOK
<1>9. ASSUME NEW m \in net, TftpDup(m) PROVE TypeOK'
  <2>1. again \subseteq Messages
    BY <1>9, Again DEF TftpDup
  <2> QED
    BY <1>0, <1>9, <2>1 DEF TftpDup, TypeOK
<1>10. ASSUME NEW m \in net, TftpError(m) PROVE TypeOK'
  <2>1. RoundType'
    BY <1>0, <1>10, NextTryType DEF TftpError
  <2> QED
    BY <1>10, <2>1 DEF TftpError, TypeOK, RoundType
<1>11. ASSUME TftpIcmp PROVE TypeOK'
  <2>1. RoundType'
    BY <1>0, <1>11, NextTryType DEF TftpIcmp
  <2> QED
    BY <1>11, <2>1 DEF TftpIcmp, TypeOK, RoundType
<1>12. ASSUME TftpTimeout PROVE TypeOK'
  <2>1. CASE tries + 1 > TftpTries
    <3>1. RoundType'
      BY <1>0, <1>12, <2>1, NextTryType DEF TftpTimeout
    <3> QED
      BY <1>12, <2>1, <3>1 DEF TftpTimeout, TypeOK, RoundType
  <2>2. CASE ~(tries + 1 > TftpTries)
    <3>1. again \subseteq Messages
      BY <1>12, Again DEF TftpTimeout
    <3>2. tries' \in 0 .. TftpTries
      BY <1>12, <2>2, BoundsAssumption DEF TftpTimeout, TypeOK
    <3> QED
      BY <1>0, <1>12, <2>2, <3>1, <3>2 DEF TftpTimeout, TypeOK
  <2> QED
    BY <2>1, <2>2
<1>13. ASSUME NEW m \in net, NEW ok \in BOOLEAN, SrvBootp(m, ok) PROVE TypeOK'
  <2>1. bootrep(m.xid, blocksOf(version), ok) \in Messages
    <3>1. m.xid \in 1 .. BootTries /\ blocksOf(version) \in Nat
      BY <1>0, <1>13, Forms, LastBlock DEF SrvBootp, TypeOK
    <3> QED
      BY <3>1, Made
  <2>2. lost' \in 0 .. MaxLoss
    BY SMTT(30), <1>13, BoundsAssumption DEF SrvBootp, TypeOK
  <2> QED
    BY <1>0, <1>13, <2>1, <2>2 DEF SrvBootp, TypeOK
<1>14. ASSUME NEW m \in net, NEW s \in Sessions, SrvOpen(m, s) PROVE TypeOK'
  <2>1. data(s, version, 1) \in Messages
    <3>1. version \in Versions /\ 1 \in Nat \ {0}
      BY DEF TypeOK
    <3> QED
      BY <3>1, Made
  <2> QED
    BY <1>0, <1>14, <2>1 DEF SrvOpen, TypeOK
<1>15. ASSUME NEW m \in net, NEW s \in Sessions, SrvRefuse(m, s) PROVE TypeOK'
  <2>1. error(s) \in Messages
    BY Made
  <2> QED
    BY <1>0, <1>15, <2>1 DEF SrvRefuse, TypeOK
<1>16. ASSUME NEW m \in net, SrvAck(m) PROVE TypeOK'
  <2>1. m.port \in Sessions /\ m.block \in Nat \ {0}
    BY <1>0, <1>16, Forms DEF SrvAck
  <2>2. sblock[m.port] \in Nat /\ sver[m.port] \in Versions
    BY <2>1 DEF TypeOK
  <2>3. data(m.port, sver[m.port], sblock[m.port] + 1) \in Messages
    BY <2>1, <2>2, Made
  <2>4. m.block + 1 = sblock[m.port] => data(m.port, sver[m.port], sblock[m.port]) \in Messages
    BY <2>1, <2>2, Made
  <2>5. net' \subseteq Messages
    BY <1>0, <1>16, <2>3, <2>4 DEF SrvAck
  <2>6. session' \in [Sessions -> {"free", "open", "closed"}] /\ sblock' \in [Sessions -> Nat]
    <3>1. session' = session \/ session' = [session EXCEPT ![m.port] = "closed"]
      BY <1>16 DEF SrvAck
    <3>2. sblock' = sblock \/ sblock' = [sblock EXCEPT ![m.port] = @ + 1]
      BY <1>16 DEF SrvAck
    <3>3. session' \in [Sessions -> {"free", "open", "closed"}]
      <4>1. session \in [Sessions -> {"free", "open", "closed"}]
        BY DEF TypeOK
      <4> QED
        BY <3>1, <4>1
    <3>4. sblock' \in [Sessions -> Nat]
      <4>1. sblock \in [Sessions -> Nat] /\ sblock[m.port] + 1 \in Nat
        BY <2>2 DEF TypeOK
      <4> QED
        BY <3>2, <4>1
    <3> QED
      BY <3>3, <3>4
  <2> QED
    BY <1>16, <2>5, <2>6 DEF SrvAck, TypeOK
<1>17. ASSUME NEW m \in net, SrvNak(m) PROVE TypeOK'
  BY <1>0, <1>17 DEF SrvNak, TypeOK
<1>18. ASSUME NEW m \in net, Vanish(m) PROVE TypeOK'
  BY <1>18 DEF Vanish, TypeOK
<1>19. ASSUME NEW m \in net, Lose(m) PROVE TypeOK'
  <2>1. lost' \in 0 .. MaxLoss
    BY <1>19, BoundsAssumption DEF Lose, TypeOK
  <2> QED
    BY <1>19, <2>1 DEF Lose, TypeOK
<1>20. ASSUME Replace PROVE TypeOK'
  BY <1>20 DEF Replace, TypeOK
<1>21. ASSUME Tick PROVE TypeOK'
  <2>1. timeout' \in 0 .. Ticks
    BY <1>21, BoundsAssumption DEF Tick, TypeOK
  <2> QED
    BY <1>21, <2>1 DEF Tick, TypeOK
<1>22. CASE UNCHANGED vars
  BY <1>22 DEF vars, TypeOK
<1> QED
  BY <1>1, <1>2, <1>3, <1>4, <1>5, <1>6, <1>7, <1>8, <1>9, <1>10, <1>11, <1>12, <1>13, <1>14,
     <1>15, <1>16, <1>17, <1>18, <1>19, <1>20, <1>21, <1>22
  DEF Next, Bootp, Arp, Tftp, Server, Network, Timeouts

-----------------------------------------------------------------------------
(***************************************************************************)
(* The steps by what they do to the transfer.                              *)
(***************************************************************************)
\* No block or acknowledgement is sent; at most a round ends.
Quiet ==
  /\ \A m \in net' : m.type \in {"data", "ack"} => m \in net
  /\ \A m \in net' : m.type = "bootrep" => m \in net \/ m.blocks = blocksOf(version)
  /\ version' \in {version, version + 1}
  /\ UNCHANGED <<session, sver, sblock, connected_to, expected_block, buf, aborted, overrun>>
  /\ \/ UNCHANGED <<pc, bootram, result, in_bootsize>>
     \/ pc = "arp" /\ pc' = "tftp" /\ UNCHANGED <<bootram, result, in_bootsize>>
     \/ pc # "done" /\ pc' = "bootp" /\ result' = result
     \/ pc # "done" /\ pc' = "done" /\ result' = "failed" /\ bootram' = FALSE

\* tftp() sends something again.
Repeat ==
  /\ pc = "tftp" /\ net' \subseteq net \cup again
  /\ UNCHANGED <<session, sver, sblock, connected_to, expected_block, buf, aborted, pc, bootram,
                 result, in_bootsize, version, overrun>>

\* The end of a round sends nothing to a session.
LEMMA RoundEnds ==
  ASSUME NEW left, nextTry(left), pc # "done", left \subseteq net,
         UNCHANGED <<version, session, sver, sblock, connected_to, expected_block, buf, aborted,
                     overrun>>
  PROVE  Quiet
<1>1. CASE try < TryCount
  BY <1>1 DEF nextTry, request, Quiet
<1>2. CASE ~(try < TryCount)
  BY <1>2 DEF nextTry, Quiet
<1> QED
  BY <1>1, <1>2

\* Neither does another BOOTP request.
LEMMA Asks ==
  ASSUME NEW left, nextRequest(left), pc = "bootp", left \subseteq net,
         UNCHANGED <<version, session, sver, sblock, connected_to, expected_block, buf, aborted,
                     overrun>>
  PROVE  Quiet
<1>1. CASE try_count < BootTries
  BY <1>1 DEF nextRequest, request, Quiet
<1>2. CASE ~(try_count < BootTries)
  BY <1>2, RoundEnds DEF nextRequest
<1> QED
  BY <1>1, <1>2

\* Every step is quiet, a repetition, or one of six that matter to the transfer.
LEMMA Steps ==
  ASSUME TypeOK, [Next]_vars
  PROVE  \/ Quiet \/ Repeat
         \/ \E m \in net : BootpReply(m) \/ TftpBlock(m) \/ SrvAck(m) \/ SrvNak(m)
         \/ \E m \in net, s \in Sessions : SrvOpen(m, s) \/ SrvRefuse(m, s)
<1> USE Small
<1>1. ASSUME BootpTimeout PROVE Quiet
  BY <1>1, Asks DEF BootpTimeout
<1>3. ASSUME NEW m \in net, BootpNoMemory(m) PROVE Quiet
  BY <1>3, RoundEnds DEF BootpNoMemory
<1>4. ASSUME NEW m \in net, BootpBadRecord(m) PROVE Quiet
  BY <1>4, Asks DEF BootpBadRecord
<1>5. ASSUME NEW m \in net, BootpStray(m) \/ ArpDrop(m) \/ TftpStray(m) PROVE Quiet
  BY <1>5 DEF BootpStray, ArpDrop, TftpStray, Quiet
<1>6. ASSUME ArpLate \/ \E e \in {"right", "wrong"} : ArpEnd(e) PROVE Quiet
  BY <1>6 DEF ArpEnd, ArpLate, Quiet
<1>8. ASSUME NEW m \in net, TftpNak(m) PROVE Quiet
  BY <1>8 DEF TftpNak, Quiet
<1>9. ASSUME NEW m \in net, TftpDup(m) PROVE Repeat
  BY <1>9 DEF TftpDup, Repeat
<1>10. ASSUME NEW m \in net, TftpError(m) PROVE Quiet
  BY <1>10, RoundEnds DEF TftpError
<1>11. ASSUME TftpIcmp PROVE Quiet
  BY <1>11, RoundEnds DEF TftpIcmp
<1>12. ASSUME TftpTimeout PROVE Quiet \/ Repeat
  <2>1. CASE tries + 1 > TftpTries
    BY <1>12, <2>1, RoundEnds DEF TftpTimeout
  <2>2. CASE ~(tries + 1 > TftpTries)
    BY <1>12, <2>2 DEF TftpTimeout, Repeat
  <2> QED
    BY <2>1, <2>2
<1>13. ASSUME NEW m \in net, NEW ok \in BOOLEAN, SrvBootp(m, ok) PROVE Quiet
  BY <1>13 DEF SrvBootp, Quiet
<1>18. ASSUME NEW m \in net, Vanish(m) \/ Lose(m) PROVE Quiet
  BY <1>18 DEF Vanish, Lose, Quiet
<1>20. ASSUME Replace \/ Tick PROVE Quiet
  BY <1>20 DEF Replace, Tick, Quiet
<1>22. CASE UNCHANGED vars
  BY <1>22 DEF vars, Quiet
<1> QED
  BY <1>1, <1>3, <1>4, <1>5, <1>6, <1>8, <1>9, <1>10, <1>11, <1>12, <1>13, <1>18, <1>20, <1>22
  DEF Next, Bootp, Arp, Tftp, Server, Network, Timeouts

-----------------------------------------------------------------------------
(***************************************************************************)
(* One file, all of it.                                                    *)
(***************************************************************************)
\* A block number reads as what it is up to the edge; the edge itself reads as negative.
LEMMA Reads ==
  ASSUME NEW m, m.block \in Nat \ {0}, m.block <= Edge
  PROVE  /\ m.block < Edge => th_block(m) = m.block
         /\ m.block = Edge => th_block(m) < 0
<1>1. Edge \in Nat \ {0}
  BY BoundsAssumption
<1>2. CASE m.block < Edge
  <2>1. (m.block + Edge) % (2 * Edge) = m.block + Edge
    BY <1>1, <1>2
  <2> QED
    BY <1>1, <1>2, <2>1 DEF th_block
<1>3. CASE m.block = Edge
  <2>1. (m.block + Edge) % (2 * Edge) = 0
    BY <1>1, <1>3
  <2> QED
    BY <1>1, <1>3, <2>1 DEF th_block
<1> QED
  BY <1>1, <1>2, <1>3

\* A block that fits is the next one of the session connected to.
LEMMA Fits ==
  ASSUME TypeOK, Served, Numbered, OneFile, Received, NEW m \in net, TftpBlock(m)
  PROVE  /\ m.port \in Sessions /\ m.port # NoSession
         /\ session[m.port] # "free"
         /\ m.ver = sver[m.port] /\ m.ver \in Versions
         /\ m.block = expected_block /\ m.block \in 1 .. last(m.ver) /\ m.block < Edge
         /\ Len(buf) = expected_block - 1 /\ bootram
         /\ buf' = Append(buf, <<m.ver, m.block>>) /\ connected_to' = m.port
         /\ \A i \in 1 .. Len(buf') : buf'[i] = <<sver[m.port], i>>
         /\ Len(buf') = expected_block
<1>1. m \in Messages /\ m.type = "data" /\ pc = "tftp"
  BY DEF TypeOK, TftpBlock
<1>2. m.port \in Sessions /\ m.port # NoSession /\ m.ver \in Versions /\ m.block \in Nat \ {0}
  BY <1>1, Forms DEF NoSession, Sessions
<1>3. session[m.port] # "free" /\ m.ver = sver[m.port] /\ m.block <= last(m.ver)
  BY <1>1 DEF Served
<1>4. m.block <= Edge /\ Edge \in Nat \ {0} /\ expected_block \in Nat \ {0}
  BY <1>1, BoundsAssumption DEF Numbered, TypeOK
<1>5. m.block = expected_block /\ m.block < Edge
  <2>1. th_block(m) = expected_block
    BY DEF TftpBlock
  <2> QED
    BY <1>2, <1>4, <2>1, Reads
<1>6. buf' = Append(buf, <<m.ver, m.block>>) /\ connected_to' = m.port
  BY DEF TftpBlock, accept
<1>7. Len(buf) = expected_block - 1 /\ bootram /\ buf \in Seq(Versions \X (Nat \ {0}))
  BY <1>1 DEF Received, TypeOK
<1>8. \A i \in 1 .. Len(buf) : buf[i] = <<sver[m.port], i>>
  BY DEF OneFile, TftpBlock, fromServer
<1>9. Len(buf') = expected_block
  BY <1>2, <1>5, <1>6, <1>7
<1>10. \A i \in 1 .. Len(buf') : buf'[i] = <<sver[m.port], i>>
  <2> TAKE i \in 1 .. Len(buf')
  <2>1. CASE i \in 1 .. Len(buf)
    BY <1>6, <1>7, <1>8, <2>1
  <2>2. CASE i = Len(buf')
    BY <1>2, <1>3, <1>5, <1>6, <1>7, <1>9, <2>2
  <2> QED
    BY <1>2, <1>5, <1>7, <1>9, <2>1, <2>2
<1> QED
  BY <1>2, <1>3, <1>5, <1>6, <1>7, <1>9, <1>10, LastBlock

Safe == TypeOK /\ Served /\ Numbered /\ Sized /\ OneFile /\ Received /\ Ended

\* Sessions stay within their files.
LEMMA ServedStep ==
  ASSUME TypeOK, Served, Received, [Next]_vars, TypeOK'
  PROVE  Served'
<1> USE Small
<1>0. \A m \in net : m \in Messages
  BY DEF TypeOK
<1>1. CASE Quiet
  BY <1>1 DEF Quiet, Served
<1>2. CASE Repeat
  <2>1. \A m \in net' : m.type = "data" => m \in net
    <3> SUFFICES ASSUME NEW m \in again, pc = "tftp" PROVE m.type # "data"
      BY <1>2 DEF Repeat
    <3> QED
      BY Again
  <2> QED
    BY <1>2, <2>1 DEF Repeat, Served
<1>3. ASSUME NEW m \in net, BootpReply(m) PROVE Served'
  BY <1>3 DEF BootpReply, startTftp, Served
<1>4. ASSUME NEW m \in net, TftpBlock(m) PROVE Served'
  <2>1. \A k \in net' : k.type = "data" => k \in net
    BY <1>4 DEF TftpBlock, accept, nextTry, request
  <2> QED
    BY <1>4, <2>1 DEF TftpBlock, Served
<1>5. ASSUME NEW m \in net, SrvAck(m) PROVE Served'
  <2> DEFINE s == m.port
  <2>1. s \in Sessions /\ session[s] = "open" /\ m.block \in Nat \ {0}
    BY <1>0, <1>5, Forms DEF SrvAck
  <2>2. sblock[s] \in 1 .. last(sver[s]) /\ sver[s] \in Versions /\ last(sver[s]) \in Nat
    BY <2>1, LastBlock DEF Served, TypeOK
  <2>3. CASE m.block = sblock[s] /\ m.block = last(sver[s])
    <3>1. /\ session' = [session EXCEPT ![s] = "closed"]
          /\ net' \subseteq net /\ UNCHANGED <<sblock, sver>>
      BY <1>5, <2>3 DEF SrvAck
    <3>2. \A r \in Sessions : session'[r] = "open" => session[r] = "open"
      BY <3>1 DEF TypeOK
    <3>3. \A r \in Sessions : session'[r] = "free" => session[r] = "free"
      BY <3>1 DEF TypeOK
    <3>4. \A k \in net : k.type = "data" => k.port \in Sessions
      BY <1>0, Forms
    <3> QED
      BY <3>1, <3>2, <3>3, <3>4 DEF Served
  <2>4. CASE m.block = sblock[s] /\ m.block # last(sver[s])
    <3>1. /\ sblock' = [sblock EXCEPT ![s] = @ + 1]
          /\ net' \subseteq net \cup {data(s, sver[s], sblock[s] + 1)} /\ UNCHANGED <<session, sver>>
      BY <1>5, <2>4 DEF SrvAck
    <3>2. sblock[s] + 1 \in 1 .. last(sver[s])
      BY <2>2, <2>4
    <3>3. \A r \in Sessions : session[r] = "open" => sblock'[r] \in 1 .. last(sver[r])
      BY SMTT(30), <3>1, <3>2 DEF Served, TypeOK
    <3> QED
      BY <2>1, <3>1, <3>2, <3>3 DEF Served
  <2>5. CASE m.block # sblock[s]
    <3>1. /\ net' \subseteq net \cup {data(s, sver[s], sblock[s])}
          /\ UNCHANGED <<session, sver, sblock>>
      BY <1>5, <2>5 DEF SrvAck
    <3> QED
      BY <2>1, <2>2, <3>1 DEF Served
  <2> QED
    BY <2>3, <2>4, <2>5
<1>6. ASSUME NEW m \in net, SrvNak(m) PROVE Served'
  <2>1. /\ session' = [session EXCEPT ![m.port] = "closed"]
        /\ net' \subseteq net /\ UNCHANGED <<sblock, sver>>
    BY <1>6 DEF SrvNak
  <2>2. \A r \in Sessions : /\ session'[r] = "open" => session[r] = "open"
                            /\ session'[r] = "free" => session[r] = "free"
    BY <2>1 DEF TypeOK
  <2>3. \A k \in net : k.type = "data" => k.port \in Sessions
    BY <1>0, Forms
  <2> QED
    BY <2>1, <2>2, <2>3 DEF Served
<1>7. ASSUME NEW m \in net, NEW s \in Sessions, SrvOpen(m, s) PROVE Served'
  <2>1. /\ session' = [session EXCEPT ![s] = "open"] /\ session[s] = "free"
        /\ sver' = [sver EXCEPT ![s] = version] /\ sblock' = [sblock EXCEPT ![s] = 1]
        /\ net' \subseteq net \cup {data(s, version, 1)}
    BY <1>7 DEF SrvOpen, newSession
  <2>2. version \in Versions /\ 1 \in 1 .. last(version)
    <3>1. version \in Versions
      BY DEF TypeOK
    <3>2. last(version) \in Nat \ {0}
      BY <3>1, LastBlock
    <3> QED
      BY <3>1, <3>2
  <2>3. \A r \in Sessions : session'[r] = "open" => sblock'[r] \in 1 .. last(sver'[r])
    BY <2>1, <2>2 DEF Served, TypeOK
  <2>4. \A k \in net : k.type = "data" => k.port \in Sessions /\ k.port # s
    BY <1>0, <2>1, Forms DEF Served
  <2>5. \A k \in net' : k.type = "data" =>
          session'[k.port] # "free" /\ k.ver = sver'[k.port] /\ k.block <= last(k.ver)
    <3> TAKE k \in net'
    <3>1. CASE k \in net
      BY <2>1, <2>4, <3>1 DEF Served, TypeOK
    <3>2. CASE k = data(s, version, 1)
      BY <2>1, <2>2, <3>2, LastBlock DEF TypeOK
    <3> QED
      BY <2>1, <3>1, <3>2
  <2> QED
    BY <2>3, <2>5 DEF Served
<1>8. ASSUME NEW m \in net, NEW s \in Sessions, SrvRefuse(m, s) PROVE Served'
  <2>1. /\ session' = [session EXCEPT ![s] = "closed"] /\ session[s] = "free"
        /\ UNCHANGED <<sver, sblock>>
        /\ net' \subseteq net \cup {error(s)}
    BY <1>8 DEF SrvRefuse, newSession
  <2>2. \A r \in Sessions : /\ session'[r] = "open" => session[r] = "open"
                            /\ session'[r] = "free" => session[r] = "free"
    BY <2>1 DEF TypeOK
  <2>3. \A k \in net : k.type = "data" => k.port \in Sessions
    BY <1>0, Forms
  <2>4. \A k \in net' : k.type = "data" => k \in net
    BY <2>1
  <2> QED
    BY <2>1, <2>2, <2>3, <2>4 DEF Served
<1> QED
  BY <1>1, <1>2, <1>3, <1>4, <1>5, <1>6, <1>7, <1>8, Steps

\* Block numbers stay below the edge.
LEMMA NumberedStep ==
  ASSUME TypeOK, Served, Numbered, OneFile, Received, [Next]_vars, TypeOK'
  PROVE  Numbered'
<1> USE Small
<1>0. /\ \A m \in net : m \in Messages
      /\ Edge \in Nat \ {0}
  BY BoundsAssumption DEF TypeOK
<1>1. CASE Quiet
  BY <1>1 DEF Quiet, Numbered
<1>2. CASE Repeat
  <2>1. ASSUME NEW m \in again
        PROVE  m.type # "data" /\ (m.type = "ack" => m.block < Edge)
    <3>1. \/ m = rrq
          \/ m = ack(connected_to, expected_block - 1)
      BY <1>2, <2>1, Again DEF Repeat
    <3>2. expected_block - 1 < Edge
      BY <1>0 DEF Numbered, TypeOK
    <3> QED
      BY <3>1, <3>2
  <2> QED
    BY <1>2, <2>1 DEF Repeat, Numbered
<1>3. ASSUME NEW m \in net, BootpReply(m) PROVE Numbered'
  BY <1>0, <1>3 DEF BootpReply, startTftp, Numbered
<1>4. ASSUME NEW m \in net, TftpBlock(m) PROVE Numbered'
  <2>1. m.block = expected_block /\ m.block \in Nat /\ m.block < Edge
    <3>1. m.block = expected_block /\ m.block < Edge
      BY <1>4, Fits
    <3>2. expected_block \in Nat
      BY DEF TypeOK
    <3> QED
      BY <3>1, <3>2
  <2>2. /\ UNCHANGED sblock
        /\ expected_block' \in {expected_block, expected_block + 1}
        /\ \A k \in net' : k.type \in {"data", "ack"} => k \in net \/ k = ack(m.port, m.block)
    BY <1>4 DEF TftpBlock, accept, nextTry, request
  <2>3. expected_block' <= Edge
    BY <1>0, <2>1, <2>2
  <2> QED
    BY <2>1, <2>2, <2>3 DEF Numbered
<1>5. ASSUME NEW m \in net, SrvAck(m) PROVE Numbered'
  <2>1. m.type = "ack" /\ m.port \in Sessions /\ m.block \in Nat /\ m.block < Edge
    BY <1>0, <1>5, Forms DEF SrvAck, Numbered
  <2>2. sblock[m.port] <= Edge
    BY <2>1 DEF Numbered
  <2>3. CASE m.block = sblock[m.port] /\ m.block # last(sver[m.port])
    <3>1. /\ sblock' = [sblock EXCEPT ![m.port] = @ + 1] /\ UNCHANGED expected_block
          /\ net' \subseteq net \cup {data(m.port, sver[m.port], sblock[m.port] + 1)}
      BY <1>5, <2>3 DEF SrvAck
    <3>2. sblock[m.port] + 1 <= Edge
      BY <1>0, <2>1, <2>3
    <3>3. \A s \in Sessions : sblock'[s] <= Edge
      BY SMTT(30), <3>1, <3>2 DEF Numbered, TypeOK
    <3> QED
      BY <3>1, <3>2, <3>3 DEF Numbered
  <2>4. CASE ~(m.block = sblock[m.port] /\ m.block # last(sver[m.port]))
    <3>1. /\ UNCHANGED <<sblock, expected_block>>
          /\ net' \subseteq net \cup {data(m.port, sver[m.port], sblock[m.port])}
      BY <1>5, <2>4 DEF SrvAck
    <3> QED
      BY <2>2, <3>1 DEF Numbered
  <2> QED
    BY <2>3, <2>4
<1>6. ASSUME NEW m \in net, SrvNak(m) PROVE Numbered'
  BY <1>6 DEF SrvNak, Numbered
<1>7. ASSUME NEW m \in net, NEW s \in Sessions, SrvOpen(m, s) PROVE Numbered'
  <2>1. /\ sblock' = [sblock EXCEPT ![s] = 1] /\ UNCHANGED expected_block
        /\ net' \subseteq net \cup {data(s, version, 1)}
    BY <1>7 DEF SrvOpen
  <2>2. \A r \in Sessions : sblock'[r] <= Edge
    BY SMTT(30), <1>0, <2>1 DEF Numbered, TypeOK
  <2> QED
    BY <1>0, <2>1, <2>2 DEF Numbered
<1>8. ASSUME NEW m \in net, NEW s \in Sessions, SrvRefuse(m, s) PROVE Numbered'
  <2>1. UNCHANGED <<sblock, expected_block>> /\ net' \subseteq net \cup {error(s)}
    BY <1>8 DEF SrvRefuse
  <2> QED
    BY <2>1 DEF Numbered
<1> QED
  BY <1>1, <1>2, <1>3, <1>4, <1>5, <1>6, <1>7, <1>8, Steps

\* With the first version of the file there is memory for every block with data.
LEMMA Enough ==
  ASSUME TypeOK, Served, Sized, version = 1, pc = "tftp", NEW m \in net, m.type = "data"
  PROVE  ~behind(m)
<1>1. m.port \in Sessions /\ m.block \in Nat
  BY Forms DEF TypeOK
<1>2. m.ver = 1 /\ m.block <= last(1) /\ in_bootsize = blocksOf(1) /\ 1 \in Versions
  BY <1>1 DEF Served, Sized, TypeOK
<1>3. Full[1] \in Nat
  BY <1>2, LastBlock
<1> QED
  BY <1>1, <1>2, <1>3 DEF behind, blocksOf, last

\* The memory stays as large as the file.
LEMMA SizedStep ==
  ASSUME TypeOK, Served, Sized, Received, [Next]_vars, TypeOK'
  PROVE  Sized'
<1> USE Small
<1>0. version \in Nat \ {0}
  <2>1. version \in 1 .. NVersions
    BY DEF TypeOK, Versions
  <2> QED
    BY <2>1, FilesAssumption
<1>1. CASE Quiet
  <2>1. version' = 1 => version = 1
    BY <1>0, <1>1 DEF Quiet
  <2> QED
    BY <1>1, <2>1 DEF Quiet, Sized
<1>2. CASE Repeat
  <2>1. \A m \in again : m.type # "bootrep"
    BY <1>2, Again DEF Repeat
  <2> QED
    BY <1>2, <2>1 DEF Repeat, Sized
<1>3. ASSUME NEW m \in net, BootpReply(m) PROVE Sized'
  <2>1. /\ m.type = "bootrep" /\ in_bootsize' = m.blocks
        /\ UNCHANGED <<version, sver, overrun>>
        /\ \A k \in net' : k.type = "bootrep" => k \in net
    BY <1>3 DEF BootpReply, startTftp
  <2> QED
    BY <2>1 DEF Sized
<1>4. ASSUME NEW m \in net, TftpBlock(m) PROVE Sized'
  <2>1. /\ pc = "tftp" /\ m.type = "data"
        /\ UNCHANGED <<version, sver, in_bootsize>>
        /\ overrun' = (overrun \/ behind(m))
        /\ \A k \in net' : k.type = "bootrep" => k \in net
    BY <1>4 DEF TftpBlock, accept, nextTry, request
  <2>2. version = 1 => ~behind(m)
    BY <2>1, Enough
  <2> QED
    BY <2>1, <2>2 DEF Sized
<1>5. ASSUME NEW m \in net, NEW s \in Sessions, SrvOpen(m, s) PROVE Sized'
  <2>1. /\ sver' = [sver EXCEPT ![s] = version]
        /\ UNCHANGED <<version, pc, in_bootsize, overrun>>
        /\ \A k \in net' : k.type = "bootrep" => k \in net
    BY <1>5 DEF SrvOpen
  <2>2. version = 1 => \A r \in Sessions : sver'[r] = 1
    BY <2>1 DEF Sized, TypeOK
  <2> QED
    BY <2>1, <2>2 DEF Sized
<1>6. ASSUME NEW m \in net, NEW s \in Sessions, SrvRefuse(m, s) PROVE Sized'
  BY <1>6 DEF SrvRefuse, Sized
<1>7. ASSUME NEW m \in net, SrvAck(m) \/ SrvNak(m) PROVE Sized'
  <2>1. /\ UNCHANGED <<version, sver, pc, in_bootsize, overrun>>
        /\ \A k \in net' : k.type = "bootrep" => k \in net
    BY <1>7 DEF SrvAck, SrvNak
  <2> QED
    BY <2>1 DEF Sized
<1> QED
  BY <1>1, <1>2, <1>3, <1>4, <1>5, <1>6, <1>7, Steps

\* What a server does to sessions leaves the transfer alone.
LEMMA Apart ==
  ASSUME TypeOK, OneFile, Received, Ended,
         UNCHANGED <<pc, in_bootsize, bootram, expected_block, connected_to, buf, result>>,
         connected_to # NoSession =>
           session'[connected_to] # "free" /\ sver'[connected_to] = sver[connected_to]
  PROVE  OneFile' /\ Received' /\ Ended'
<1>1. OneFile'
  BY DEF OneFile
<1>2. Received'
  BY DEF Received
<1>3. Ended'
  BY DEF Ended, file
<1> QED
  BY <1>1, <1>2, <1>3

\* The last block: what is in memory is the file, if the count agrees.
LEMMA LastFits ==
  ASSUME TypeOK, Served, Numbered, OneFile, Received, NEW m \in net, TftpBlock(m),
         ~(m.block < last(m.ver)), counted(m.ver) = in_bootsize
  PROVE  /\ buf' = file(m.ver)
         /\ in_bootsize = last(m.ver) \/ (m.ver \in Empty /\ in_bootsize = Full[m.ver])
         /\ last(m.ver) < Edge
<1>1. /\ m.block = expected_block /\ m.ver \in Versions /\ m.block \in 1 .. last(m.ver)
      /\ m.block < Edge
      /\ Len(buf') = expected_block
      /\ \A i \in 1 .. Len(buf') : buf'[i] = <<m.ver, i>>
      /\ buf' = Append(buf, <<m.ver, m.block>>)
  BY Fits
<1>2. Full[m.ver] \in Nat /\ last(m.ver) = Full[m.ver] + 1
  BY <1>1, FilesAssumption DEF last
<1>3. expected_block = last(m.ver)
  BY <1>1, <1>2
<1>4. buf' = file(m.ver)
  <2>1. <<m.ver, m.block>> \in Versions \X (Nat \ {0})
    BY <1>1, <1>2
  <2>2. buf' \in Seq(Versions \X (Nat \ {0}))
    BY <1>1, <2>1 DEF TypeOK
  <2>3. buf' = [i \in 1 .. Len(buf') |-> buf'[i]]
    BY <2>2
  <2> QED
    BY <1>1, <1>3, <2>3 DEF file
<1>5. in_bootsize \in Nat
  BY DEF TypeOK
<1>6. in_bootsize = last(m.ver) \/ (m.ver \in Empty /\ in_bootsize = Full[m.ver])
  BY <1>2, <1>3, <1>5 DEF counted
<1> QED
  BY <1>1, <1>3, <1>4, <1>6

\* The transfer stays one file.
LEMMA TransferStep ==
  ASSUME Safe, [Next]_vars, TypeOK'
  PROVE  OneFile' /\ Received' /\ Ended'
<1> USE Small DEF Safe
<1>1. CASE Quiet
  <2>1. OneFile'
    BY <1>1 DEF Quiet, OneFile
  <2>2. Received'
    BY <1>1 DEF Quiet, Received
  <2>3. Ended'
    BY <1>1 DEF Quiet, Ended, Received, file
  <2> QED
    BY <2>1, <2>2, <2>3
<1>2. CASE Repeat
  BY <1>2, Apart DEF Repeat, Received
<1>3. ASSUME NEW m \in net, BootpReply(m) PROVE OneFile' /\ Received' /\ Ended'
  <2>1. /\ expected_block' = 1 /\ connected_to' = NoSession /\ buf' = << >> /\ bootram' = TRUE
        /\ pc' \in {"arp", "tftp"} /\ result' = result /\ pc = "bootp"
    BY <1>3 DEF BootpReply, startTftp
  <2>2. Len(buf') = 0
    BY <2>1
  <2>3. result' = "none"
    BY <2>1 DEF Received
  <2> QED
    BY <2>1, <2>2, <2>3 DEF OneFile, Received, Ended
<1>4. ASSUME NEW m \in net, TftpBlock(m) PROVE OneFile' /\ Received' /\ Ended'
  <2>1. /\ m.port \in Sessions /\ m.port # NoSession
        /\ session[m.port] # "free"
        /\ m.ver = sver[m.port] /\ m.ver \in Versions
        /\ m.block = expected_block /\ m.block \in 1 .. last(m.ver)
        /\ bootram /\ connected_to' = m.port
        /\ \A i \in 1 .. Len(buf') : buf'[i] = <<sver[m.port], i>>
        /\ Len(buf') = expected_block
    BY <1>4, Fits
  <2>2. pc = "tftp" /\ result = "none" /\ UNCHANGED <<session, sver, in_bootsize>>
    BY <1>4 DEF TftpBlock, Received
  <2>3. OneFile'
    BY <2>1, <2>2 DEF OneFile
  <2>4. CASE m.block < last(m.ver)
    <3>1. expected_block' = expected_block + 1 /\ UNCHANGED <<pc, bootram, result>>
      BY <1>4, <2>4 DEF TftpBlock, accept
    <3>2. expected_block' \in 2 .. last(m.ver) /\ Len(buf') = expected_block' - 1
      BY <2>1, <2>4, <3>1, LastBlock
    <3> QED
      BY <2>1, <2>2, <2>3, <3>1, <3>2 DEF Received, Ended
  <2>5. CASE ~(m.block < last(m.ver)) /\ counted(m.ver) = in_bootsize
    <3>1. pc' = "done" /\ result' = "booted" /\ UNCHANGED bootram
      BY <1>4, <2>5 DEF TftpBlock, accept
    <3>2. /\ buf' = file(m.ver)
          /\ in_bootsize = last(m.ver) \/ (m.ver \in Empty /\ in_bootsize = Full[m.ver])
          /\ last(m.ver) < Edge
      BY <1>4, <2>5, LastFits
    <3>3. Received'
      BY <2>1, <2>2, <3>1 DEF Received
    <3>4. Ended'
      BY <2>1, <2>2, <3>1, <3>2 DEF Ended, file
    <3> QED
      BY <2>3, <3>3, <3>4
  <2>6. CASE ~(m.block < last(m.ver)) /\ counted(m.ver) # in_bootsize
    <3>1. \/ pc' = "bootp" /\ result' = "none"
          \/ pc' = "done" /\ result' = "failed" /\ bootram' = FALSE
      BY <1>4, <2>2, <2>6 DEF TftpBlock, accept, nextTry
    <3> QED
      BY <2>1, <2>2, <2>3, <3>1 DEF Received, Ended
  <2> QED
    BY <2>4, <2>5, <2>6
<1>5. ASSUME NEW m \in net, SrvAck(m) \/ SrvNak(m) PROVE OneFile' /\ Received' /\ Ended'
  <2>1. /\ session' = session \/ session' = [session EXCEPT ![m.port] = "closed"]
        /\ UNCHANGED <<sver, pc, in_bootsize, bootram, expected_block, connected_to, buf, result>>
    BY <1>5 DEF SrvAck, SrvNak
  <2>2. connected_to # NoSession => session'[connected_to] # "free"
    BY SMTT(30), <2>1 DEF TypeOK, Received
  <2> QED
    BY <2>1, <2>2, Apart
<1>6. ASSUME NEW m \in net, NEW s \in Sessions, SrvOpen(m, s) \/ SrvRefuse(m, s)
      PROVE OneFile' /\ Received' /\ Ended'
  <2>1. /\ session[s] = "free"
        /\ \E v \in {"open", "closed"} : session' = [session EXCEPT ![s] = v]
        /\ sver' = sver \/ sver' = [sver EXCEPT ![s] = version]
        /\ UNCHANGED <<pc, in_bootsize, bootram, expected_block, connected_to, buf, result>>
    BY <1>6 DEF SrvOpen, SrvRefuse, newSession
  <2>2. connected_to # NoSession =>
          connected_to # s /\ connected_to \in Sessions /\ session[connected_to] # "free"
    BY <2>1 DEF TypeOK, Received
  <2>3. connected_to # NoSession =>
          session'[connected_to] # "free" /\ sver'[connected_to] = sver[connected_to]
    BY SMTT(30), <2>1, <2>2 DEF TypeOK
  <2> QED
    BY <2>1, <2>3, Apart
<1> QED
  BY <1>1, <1>2, <1>3, <1>4, <1>5, <1>6, Steps

\* The machine starts with nothing received.
LEMMA InitSafe == Init => Safe
<1> SUFFICES ASSUME Init PROVE Safe
  OBVIOUS
<1>1. 1 \in 1 .. BootTries /\ 1 \in 1 .. TryCount /\ Ticks \in 0 .. Ticks /\ 0 \in 0 .. MaxLoss
      /\ 1 \in 0 .. TftpTries /\ 1 \in Versions
  BY BoundsAssumption, FilesAssumption DEF Versions
<1>2. bootreq(1) \in Messages
  BY <1>1, Made
<1>3. << >> \in Seq(Versions \X (Nat \ {0})) /\ Len(buf) = 0
  BY DEF Init
<1>4. TypeOK
  <2>1. net \subseteq Messages
    BY <1>2 DEF Init
  <2>2. buf \in Seq(Versions \X (Nat \ {0})) /\ aborted \subseteq Sessions
    BY <1>3 DEF Init
  <2>3. /\ version \in Versions /\ session \in [Sessions -> {"free", "open", "closed"}]
        /\ sver \in [Sessions -> Versions] /\ sblock \in [Sessions -> Nat]
        /\ lost \in 0 .. MaxLoss /\ overrun \in BOOLEAN
    <3>1. overrun \in BOOLEAN
      BY DEF Init
    <3> QED
      BY <1>1, <3>1 DEF Init
  <2>4. /\ pc \in {"bootp", "arp", "tftp", "done"}
        /\ try \in 1 .. TryCount /\ try_count \in 1 .. BootTries /\ timeout \in 0 .. Ticks
        /\ in_bootsize \in Nat /\ bootram \in BOOLEAN /\ arp_dest \in {"none", "right", "wrong"}
        /\ tries \in 0 .. TftpTries /\ expected_block \in Nat \ {0}
        /\ connected_to \in Sessions \cup {NoSession}
        /\ tlen \in {"out", "err"} /\ result \in {"none", "booted", "failed"}
    <3>1. /\ pc = "bootp" /\ try = 1 /\ try_count = 1 /\ timeout = Ticks
          /\ in_bootsize = 0 /\ bootram = FALSE /\ arp_dest = "none"
          /\ tries = 1 /\ expected_block = 1 /\ connected_to = NoSession
          /\ tlen = "out" /\ result = "none"
      BY DEF Init
    <3>2. bootram \in BOOLEAN
      BY <3>1
    <3>3. try \in 1 .. TryCount /\ try_count \in 1 .. BootTries /\ tries \in 0 .. TftpTries
      BY <1>1, <3>1
    <3> QED
      BY <1>1, <3>1, <3>2, <3>3
  <2> QED
    BY <2>1, <2>2, <2>3, <2>4 DEF TypeOK
<1>5. Served
  BY DEF Init, Served
<1>6. Numbered /\ Sized
  BY BoundsAssumption DEF Init, Numbered, Sized
<1> QED
  BY <1>3, <1>4, <1>5, <1>6 DEF Init, Safe, OneFile, Received, Ended

\* The parts together are inductive.
LEMMA SafeStep == Safe /\ [Next]_vars => Safe'
  BY TypeStep, ServedStep, NumberedStep, SizedStep, TransferStep DEF Safe

\* Every variable keeps its type: no round, request or repetition exceeds its limit.
THEOREM TypeCorrect == Spec => []TypeOK
<1>1. Safe => TypeOK
  BY DEF Safe
<1> QED
  BY InitSafe, SafeStep, <1>1, PTL DEF Spec

\* Memory holds the beginning of one version from one session, however the network
\* delays, repeats and reorders, and however many sessions the server has opened.
THEOREM Consistent == Spec => []OneFile
<1>1. Safe => OneFile
  BY DEF Safe
<1> QED
  BY InitSafe, SafeStep, <1>1, PTL DEF Spec

\* A boot that succeeds has a whole file of as many blocks as BOOTP said, none of them at or
\* beyond the edge of the signed block number, and data are written behind the memory held
\* only after the file has been replaced, whatever its size.
THEOREM Complete == Spec => []Whole
<1>1. Safe => Whole
  <2>1. Safe => (overrun => version > 1)
    BY FilesAssumption DEF Safe, Sized, TypeOK, Versions
  <2> QED
    BY <2>1 DEF Safe, Ended, Whole
<1> QED
  BY InitSafe, SafeStep, <1>1, PTL DEF Spec

-----------------------------------------------------------------------------
(***************************************************************************)
(* No session of this round gets ahead of the client.                      *)
(***************************************************************************)
\* No step lets a session of this round get ahead.
LEMMA AheadStep ==
  ASSUME Safe, Safe', Ahead, [Next]_vars
  PROVE  Ahead'
<1> USE Small DEF Safe
<1>0. /\ \A m \in net : m \in Messages
      /\ expected_block \in Nat \ {0} /\ expected_block' \in Nat \ {0}
      /\ \A s \in Sessions : s # NoSession
  BY DEF TypeOK, Sessions, NoSession
<1>1. CASE Quiet
  <2>1. \A s \in Sessions : InStep(s)' => InStep(s)
    BY <1>1 DEF Quiet, InStep, Received, NoSession, Sessions
  <2>2. \A s \in Sessions : reached(s)' = reached(s)
    BY <1>1 DEF Quiet, reached
  <2> QED
    BY <1>1, <2>1, <2>2 DEF Quiet, Ahead
<1>2. CASE Repeat
  <2>1. \A s \in Sessions : (InStep(s)' <=> InStep(s)) /\ reached(s)' = reached(s)
    BY <1>2 DEF Repeat, InStep, reached
  <2>2. ASSUME NEW m \in again
        PROVE  m.type # "data" /\ (m.type = "ack" => m.port = connected_to /\ m.block < expected_block)
    BY <1>2, <2>2, Again DEF Repeat
  <2>3. ASSUME NEW s \in Sessions, InStep(s), NEW m \in net'
        PROVE  /\ m.type = "data" /\ m.port = s => m.block <= reached(s)
               /\ m.type = "ack" /\ m.port = s => m.block < reached(s)
    <3>1. CASE m \in net
      BY <2>3, <3>1 DEF Ahead
    <3>2. CASE m \in again
      BY <2>2, <2>3, <3>2 DEF reached
    <3> QED
      BY <1>2, <3>1, <3>2 DEF Repeat
  <2>4. UNCHANGED sblock
    BY <1>2 DEF Repeat
  <2> QED
    BY <2>1, <2>3, <2>4 DEF Ahead
<1>3. ASSUME NEW m \in net, BootpReply(m) PROVE Ahead'
  <2>1. /\ connected_to' = NoSession /\ UNCHANGED sblock
        /\ aborted' = (aborted \cup {connected_to}) \ {NoSession}
        /\ \A k \in net' : k.type \in {"data", "ack"} => k \in net
    BY <1>3 DEF BootpReply, startTftp
  <2>2. \A s \in Sessions : InStep(s)' => InStep(s) /\ reached(s) = 1 /\ reached(s)' = 1
    BY <1>0, <2>1 DEF InStep, reached
  <2> QED
    BY <2>1, <2>2 DEF Ahead
<1>4. ASSUME NEW m \in net, TftpBlock(m) PROVE Ahead'
  <2>1. /\ m.port \in Sessions /\ m.block = expected_block /\ connected_to' = m.port
        /\ m.block \in Nat
    BY <1>0, <1>4, Fits
  <2>2. /\ m.type = "data" /\ pc = "tftp" /\ connected_to \in {NoSession, m.port}
        /\ UNCHANGED <<aborted, sblock>>
        /\ \A k \in net' : k.type \in {"data", "ack"} => k \in net \/ k = ack(m.port, m.block)
    BY <1>4 DEF TftpBlock, accept, nextTry, request, fromServer
  <2>3. ASSUME NEW s \in Sessions, InStep(s)'
        PROVE  /\ sblock[s] <= reached(s)'
               /\ \A k \in net' : /\ k.type = "data" /\ k.port = s => k.block <= reached(s)'
                                  /\ k.type = "ack" /\ k.port = s => k.block < reached(s)'
    <3>1. InStep(s)
      BY <2>2, <2>3 DEF InStep
    <3>2. CASE s # m.port
      <4>1. reached(s) = 1 /\ reached(s)' = 1
        BY <1>0, <2>1, <2>2, <3>2 DEF reached
      <4> QED
        BY <2>2, <3>1, <3>2, <4>1 DEF Ahead
    <3>3. CASE s = m.port
      <4>1. pc' = "tftp"
        BY <2>1, <2>3, <3>3 DEF InStep
      <4>2. m.block < last(m.ver) /\ expected_block' = expected_block + 1
        BY <1>4, <2>2, <4>1 DEF TftpBlock, accept, nextTry
      <4>3. reached(s)' = expected_block + 1
        BY <2>1, <3>3, <4>2 DEF reached
      <4>4. reached(s) <= expected_block /\ reached(s) \in Nat
        BY <1>0 DEF reached
      <4>5. sblock[s] \in Nat /\ sblock[s] <= reached(s)
        BY <3>1 DEF TypeOK, Ahead
      <4>6. \A k \in net : /\ k.type = "data" /\ k.port = s =>
                                k.block \in Nat /\ k.block <= reached(s)
                           /\ k.type = "ack" /\ k.port = s =>
                                k.block \in Nat /\ k.block < reached(s)
        BY <1>0, <3>1, Forms DEF Ahead
      <4> QED
        BY <1>0, <2>1, <2>2, <4>3, <4>4, <4>5, <4>6
    <3> QED
      BY <3>2, <3>3
  <2> QED
    BY <2>2, <2>3 DEF Ahead
<1>5. ASSUME NEW m \in net, SrvAck(m) PROVE Ahead'
  <2>1. /\ m.type = "ack" /\ m.port \in Sessions /\ m.block \in Nat
        /\ UNCHANGED <<aborted, connected_to, pc, expected_block>>
    BY <1>0, <1>5, Forms DEF SrvAck
  <2>2. \A s \in Sessions : (InStep(s)' <=> InStep(s)) /\ reached(s)' = reached(s)
    BY <2>1 DEF InStep, reached
  <2>3. \A s \in Sessions : reached(s) \in Nat /\ sblock[s] \in Nat
    BY <1>0 DEF reached, TypeOK
  <2>4. ASSUME NEW s \in Sessions, InStep(s)
        PROVE  /\ sblock'[s] <= reached(s)
               /\ \A k \in net' : /\ k.type = "data" /\ k.port = s => k.block <= reached(s)
                                  /\ k.type = "ack" /\ k.port = s => k.block < reached(s)
    <3>1. sblock[s] <= reached(s) /\ (m.port = s => m.block < reached(s))
      BY <2>1, <2>4 DEF Ahead
    <3>2. CASE m.block = sblock[m.port] /\ m.block # last(sver[m.port])
      <4>1. /\ sblock' = [sblock EXCEPT ![m.port] = @ + 1]
            /\ net' \subseteq net \cup {data(m.port, sver[m.port], sblock[m.port] + 1)}
        BY <1>5, <3>2 DEF SrvAck
      <4>2. sblock'[s] <= reached(s)
        <5>1. CASE s = m.port
          <6>1. sblock'[s] = m.block + 1 /\ m.block < reached(s)
            BY <3>1, <3>2, <4>1, <5>1 DEF TypeOK
          <6> QED
            BY <2>1, <2>3, <6>1
        <5>2. CASE s # m.port
          BY <3>1, <4>1, <5>2 DEF TypeOK
        <5> QED
          BY <5>1, <5>2
      <4>3. m.port = s => sblock[m.port] + 1 <= reached(s)
        BY <2>1, <2>3, <3>1, <3>2
      <4> QED
        BY <2>4, <4>1, <4>2, <4>3 DEF Ahead
    <3>3. CASE ~(m.block = sblock[m.port] /\ m.block # last(sver[m.port]))
      <4>1. /\ UNCHANGED sblock
            /\ net' \subseteq net \cup {data(m.port, sver[m.port], sblock[m.port])}
        BY <1>5, <3>3 DEF SrvAck
      <4> QED
        BY <2>4, <3>1, <4>1 DEF Ahead
    <3> QED
      BY <3>2, <3>3
  <2> QED
    BY <2>2, <2>4 DEF Ahead
<1>6. ASSUME NEW m \in net, SrvNak(m) PROVE Ahead'
  BY <1>6 DEF SrvNak, Ahead, InStep, reached
<1>7. ASSUME NEW m \in net, NEW s \in Sessions, SrvOpen(m, s) PROVE Ahead'
  <2>1. /\ session[s] = "free" /\ sblock' = [sblock EXCEPT ![s] = 1]
        /\ net' \subseteq net \cup {data(s, version, 1)}
        /\ UNCHANGED <<aborted, connected_to, pc, expected_block>>
    BY <1>7 DEF SrvOpen, newSession
  <2>2. s # connected_to
    BY <1>0, <2>1 DEF Received
  <2>3. \A r \in Sessions : (InStep(r)' <=> InStep(r)) /\ reached(r)' = reached(r)
    BY <2>1 DEF InStep, reached
  <2>4. reached(s) = 1
    BY <2>2 DEF reached
  <2>5. \A r \in Sessions : InStep(r) => sblock'[r] <= reached(r)
    BY SMTT(30), <2>1, <2>4 DEF Ahead, TypeOK
  <2> QED
    BY <2>1, <2>3, <2>4, <2>5 DEF Ahead
<1>8. ASSUME NEW m \in net, NEW s \in Sessions, SrvRefuse(m, s) PROVE Ahead'
  <2>1. /\ net' \subseteq net \cup {error(s)}
        /\ UNCHANGED <<aborted, connected_to, pc, expected_block, sblock>>
    BY <1>8 DEF SrvRefuse
  <2> QED
    BY <2>1 DEF Ahead, InStep, reached
<1> QED
  BY <1>1, <1>2, <1>3, <1>4, <1>5, <1>6, <1>7, <1>8, Steps DEF Safe

\* The comment in tftp() is right: a block ahead of the one expected comes from a session
\* of an earlier round, and the error sent to it never stops the transfer at work.
THEOREM NeverStopped == Spec => []AheadIsStale
<1>1. Init => Ahead
  BY DEF Init, Ahead, reached
<1>2. Safe /\ Ahead => AheadIsStale
  <2> SUFFICES ASSUME Safe, Ahead, pc = "tftp", NEW m \in net,
                      m.type = "data", m.port = connected_to, m.block > expected_block
               PROVE  connected_to \in aborted
    BY DEF AheadIsStale
  <2>1. m.port \in Sessions /\ m.block \in Nat /\ expected_block \in Nat
    BY Forms DEF Safe, TypeOK
  <2> QED
    BY <2>1 DEF Ahead, InStep, reached
<1>3. Safe /\ Ahead /\ [Next]_vars => Safe' /\ Ahead'
  BY SafeStep, AheadStep
<1> QED
  BY InitSafe, <1>1, <1>2, <1>3, PTL DEF Spec

-----------------------------------------------------------------------------
(***************************************************************************)
(* The boot only goes forward: the safety core of Ends.                    *)
(***************************************************************************)
\* Where the client is in its rounds, phases, requests, blocks, repetitions and ticks.
clock == <<try, pc, try_count, expected_block, tries, timeout>>

nextPhase == <<pc, pc'>> \in {<<"bootp", "arp">>, <<"bootp", "tftp">>, <<"arp", "tftp">>}
nextAsked == try_count' > try_count \/ (try_count' = try_count /\ timeout' < timeout)
nextBlock ==
  \/ expected_block' > expected_block
  \/ /\ expected_block' = expected_block
     /\ tries' > tries \/ (tries' = tries /\ timeout' < timeout)

\* The clock goes on in the order of rounds, then phases, then what the phase counts.
Onward ==
  /\ pc # "done"
  /\ \/ pc' = "done"
     \/ pc' = "bootp" /\ try' > try
     \/ try' = try /\ nextPhase
     \/ UNCHANGED <<try, pc>> /\ pc = "bootp" /\ nextAsked
     \/ UNCHANGED <<try, pc>> /\ pc = "tftp" /\ nextBlock

\* The end of a round, or of the boot.
LEMMA RoundOnward ==
  ASSUME TypeOK, pc # "done", NEW left, nextTry(left)
  PROVE  Onward
<1>1. CASE try < TryCount
  <2>1. try' = try + 1 /\ pc' = "bootp" /\ try \in Nat
    BY <1>1 DEF nextTry, TypeOK
  <2> QED
    BY <2>1 DEF Onward
<1>2. CASE ~(try < TryCount)
  BY <1>2 DEF nextTry, Onward
<1> QED
  BY <1>1, <1>2

LEMMA RequestOnward ==
  ASSUME TypeOK, pc = "bootp", NEW left, nextRequest(left)
  PROVE  Onward
<1>1. CASE try_count < BootTries
  <2>1. try_count' = try_count + 1 /\ UNCHANGED <<pc, try>> /\ try_count \in Nat
    BY <1>1 DEF nextRequest, request, TypeOK
  <2> QED
    BY <2>1 DEF Onward, nextAsked
<1>2. CASE ~(try_count < BootTries)
  BY <1>2, RoundOnward DEF nextRequest
<1> QED
  BY <1>1, <1>2

\* A block that fits, whatever it leads to.
LEMMA BlockOnward ==
  ASSUME TypeOK, NEW m \in net, TftpBlock(m)
  PROVE  Onward
<1>0. pc = "tftp" /\ accept(m)
  BY DEF TftpBlock
<1>1. CASE m.block < last(m.ver)
  <2>1. expected_block' = expected_block + 1 /\ UNCHANGED <<pc, try>> /\ expected_block \in Nat
    BY <1>0, <1>1 DEF accept, TypeOK
  <2> QED
    BY <1>0, <2>1 DEF Onward, nextBlock
<1>2. CASE ~(m.block < last(m.ver)) /\ counted(m.ver) = in_bootsize
  BY <1>0, <1>2 DEF accept, Onward
<1>3. CASE ~(m.block < last(m.ver)) /\ counted(m.ver) # in_bootsize
  BY <1>0, <1>3, RoundOnward DEF accept
<1> QED
  BY <1>1, <1>2, <1>3

LEMMA StepOnward ==
  ASSUME TypeOK, [Next]_vars
  PROVE  [Onward]_clock
<1> USE DEF clock
<1>1. ASSUME BootpTimeout PROVE Onward
  BY <1>1, RequestOnward DEF BootpTimeout
<1>2. ASSUME NEW m \in net, BootpReply(m) PROVE Onward
  BY <1>2 DEF BootpReply, startTftp, Onward, nextPhase
<1>3. ASSUME NEW m \in net, BootpNoMemory(m) PROVE Onward
  BY <1>3, RoundOnward DEF BootpNoMemory
<1>4. ASSUME NEW m \in net, BootpBadRecord(m) PROVE Onward
  BY <1>4, RequestOnward DEF BootpBadRecord
<1>5. ASSUME NEW m \in net, BootpStray(m) \/ ArpDrop(m) \/ TftpStray(m) PROVE UNCHANGED clock
  BY <1>5 DEF BootpStray, ArpDrop, TftpStray
<1>6. ASSUME NEW e \in {"right", "wrong"}, ArpEnd(e) PROVE Onward
  BY <1>6 DEF ArpEnd, Onward, nextPhase
<1>15. ASSUME ArpLate PROVE UNCHANGED clock
  BY <1>15 DEF ArpLate
<1>7. ASSUME NEW m \in net, TftpBlock(m) PROVE Onward
  BY <1>7, BlockOnward
<1>8. ASSUME NEW m \in net, TftpNak(m) \/ TftpDup(m) PROVE UNCHANGED clock
  BY <1>8 DEF TftpNak, TftpDup
<1>9. ASSUME NEW m \in net, TftpError(m) PROVE Onward
  BY <1>9, RoundOnward DEF TftpError
<1>10. ASSUME TftpIcmp PROVE Onward
  BY <1>10, RoundOnward DEF TftpIcmp
<1>11. ASSUME TftpTimeout PROVE Onward
  <2>1. CASE tries + 1 > TftpTries
    BY <1>11, <2>1, RoundOnward DEF TftpTimeout
  <2>2. CASE ~(tries + 1 > TftpTries)
    <3>1. tries' = tries + 1 /\ UNCHANGED <<pc, try, expected_block>> /\ pc = "tftp" /\ tries \in Nat
      BY <1>11, <2>2 DEF TftpTimeout, TypeOK
    <3> QED
      BY <3>1 DEF Onward, nextBlock
  <2> QED
    BY <2>1, <2>2
<1>12. ASSUME Tick PROVE Onward
  <2>1. /\ timeout' < timeout /\ UNCHANGED <<pc, try, try_count, expected_block, tries>>
        /\ pc \in {"bootp", "tftp"}
    BY <1>12 DEF Tick, TypeOK
  <2> QED
    BY <2>1 DEF Onward, nextAsked, nextBlock
<1>13. ASSUME Server \/ Replace \/ Network PROVE UNCHANGED clock
  <2>1. CASE Server
    BY <2>1 DEF Server, SrvBootp, SrvOpen, SrvRefuse, SrvAck, SrvNak
  <2>2. CASE Replace \/ Network
    BY <2>2 DEF Replace, Network, Lose, Vanish
  <2> QED
    BY <1>13, <2>1, <2>2
<1>14. CASE UNCHANGED vars
  BY <1>14 DEF vars
<1> QED
  BY <1>1, <1>2, <1>3, <1>4, <1>5, <1>6, <1>7, <1>8, <1>9, <1>10, <1>11, <1>12, <1>13, <1>14,
     <1>15 DEF Next, Bootp, Arp, Tftp, Timeouts

\* The client never goes back and never turns in a circle: whatever comes from the net, a
\* step leaves its counters alone or takes it on, to the next tick, repetition, block,
\* request, phase or round (inetboot(), bootp(), tftp()).  By TypeCorrect and WithinFile
\* there are only so many of each.
THEOREM OnlyForward == Spec => [][Onward]_clock
<1>1. Safe /\ [Next]_vars => [Onward]_clock
  BY StepOnward DEF Safe
<1> QED
  BY InitSafe, SafeStep, <1>1, PTL DEF Spec

\* A block is expected only as long as some version of the file has one.
THEOREM WithinFile ==
  Spec => [](pc = "tftp" => \E v \in Versions : expected_block <= last(v))
<1>1. Safe => (pc = "tftp" => \E v \in Versions : expected_block <= last(v))
  <2> SUFFICES ASSUME Safe, pc = "tftp" PROVE \E v \in Versions : expected_block <= last(v)
    OBVIOUS
  <2>1. TypeOK /\ Received
    BY DEF Safe
  <2>2. CASE connected_to = NoSession
    <3>1. expected_block = 1 /\ version \in Versions
      BY <2>1, <2>2 DEF Received, TypeOK
    <3> QED
      BY <3>1, LastBlock
  <2>3. CASE connected_to # NoSession
    <3>1. sver[connected_to] \in Versions /\ expected_block \in 2 .. last(sver[connected_to])
      BY <2>1, <2>3 DEF Received, TypeOK
    <3> QED
      BY <3>1, LastBlock
  <2> QED
    BY <2>2, <2>3
<1> QED
  BY InitSafe, SafeStep, <1>1, PTL DEF Spec

-----------------------------------------------------------------------------
(***************************************************************************)
(* Memory.                                                                 *)
(***************************************************************************)
holds == pc \in {"arp", "tftp"} \/ result = "booted"

LEMMA MemoryStep ==
  ASSUME Safe, Safe', bootram <=> holds, [Next]_vars
  PROVE  (bootram <=> holds)'
<1>0. /\ pc = "done" <=> result # "none"
      /\ pc' = "done" <=> result' # "none"
      /\ bootram \in BOOLEAN /\ bootram' \in BOOLEAN
  BY DEF Safe, Received, TypeOK
<1>1. ASSUME NEW left, nextTry(left) PROVE (bootram <=> holds)'
  <2>1. bootram' = FALSE /\ pc' \in {"bootp", "done"} /\ (pc' = "done" => result' = "failed")
    BY <1>1 DEF nextTry
  <2> QED
    BY <1>0, <2>1 DEF holds
<1>2. CASE UNCHANGED <<pc, bootram, result>>
  BY <1>2 DEF holds
<1>3. ASSUME NEW left, nextRequest(left) PROVE (bootram <=> holds)'
  BY <1>1, <1>2, <1>3 DEF nextRequest
<1>4. ASSUME NEW m \in net, BootpReply(m) PROVE (bootram <=> holds)'
  BY <1>4 DEF BootpReply, startTftp, holds
<1>5. ASSUME NEW m \in net, BootpNoMemory(m) \/ BootpBadRecord(m) \/ TftpError(m)
      PROVE  (bootram <=> holds)'
  BY <1>1, <1>3, <1>5 DEF BootpNoMemory, BootpBadRecord, TftpError
<1>6. CASE BootpTimeout \/ TftpIcmp
  BY <1>1, <1>3, <1>6 DEF BootpTimeout, TftpIcmp
<1>7. CASE TftpTimeout
  BY <1>1, <1>2, <1>7 DEF TftpTimeout
<1>8. ASSUME NEW m \in net, TftpBlock(m) PROVE (bootram <=> holds)'
  <2>1. pc = "tftp" /\ accept(m)
    BY <1>8 DEF TftpBlock
  <2>2. CASE m.block < last(m.ver)
    BY <1>2, <2>1, <2>2 DEF accept
  <2>3. CASE ~(m.block < last(m.ver)) /\ counted(m.ver) = in_bootsize
    BY <2>1, <2>3 DEF accept, holds
  <2>4. CASE ~(m.block < last(m.ver)) /\ counted(m.ver) # in_bootsize
    BY <1>1, <2>1, <2>4 DEF accept
  <2> QED
    BY <2>2, <2>3, <2>4
<1>9. ASSUME NEW e \in {"right", "wrong"}, ArpEnd(e) PROVE (bootram <=> holds)'
  BY <1>9 DEF ArpEnd, holds
<1>10. ASSUME NEW m \in net,
              BootpStray(m) \/ ArpDrop(m) \/ TftpStray(m) \/ TftpNak(m) \/ TftpDup(m)
       PROVE  (bootram <=> holds)'
  BY <1>2, <1>10 DEF BootpStray, ArpDrop, TftpStray, TftpNak, TftpDup
<1>11. CASE Server
  BY <1>2, <1>11 DEF Server, SrvBootp, SrvOpen, SrvRefuse, SrvAck, SrvNak
<1>12. CASE ArpLate \/ Tick \/ Replace \/ Network \/ UNCHANGED vars
  BY <1>2, <1>12 DEF ArpLate, Tick, Replace, Network, Lose, Vanish, vars
<1> QED
  BY <1>4, <1>5, <1>6, <1>7, <1>8, <1>9, <1>10, <1>11, <1>12
  DEF Next, Bootp, Arp, Tftp, Timeouts

\* Memory for the file is held exactly from the answer that says its size to the end of
\* that round, or for good when the boot succeeds: no round begins with the memory of an
\* earlier one, and none is lost (inetboot()).
THEOREM MemoryHeld == Spec => [](bootram <=> holds)
<1>1. Init => (bootram <=> holds)
  BY DEF Init, holds
<1>2. Safe /\ Safe' /\ (bootram <=> holds) /\ [Next]_vars => (bootram <=> holds)'
  BY MemoryStep
<1> QED
  BY InitSafe, SafeStep, <1>1, <1>2, PTL DEF Spec
=============================================================================
