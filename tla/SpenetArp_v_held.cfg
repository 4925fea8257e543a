\* a packet waits when a request or a management call brings the address
CONSTANTS
  Addrs = {a1, me}
  Ours = {me}
  EtherAddrs = {e1}
  Broadcast = Broadcast
  Zero = Zero
  NoAddr = NoAddr
  NumProtoAddr = 1
  Cells = {c1, c2}
  Root = Root
  NPackets = 2
  HoldMax = 1
  KillC = 1
  KillI = 0
  MaxBusy = 1
  MaxCalls = 1
SPECIFICATION Spec
INVARIANT HeldUntilResolved
