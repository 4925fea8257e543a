\* two next hops, one of them possibly our own, three packets, one management call
CONSTANTS
  Addrs = {a1, me}
  Ours = {me}
  EtherAddrs = {e1, e2}
  Broadcast = Broadcast
  Zero = Zero
  NoAddr = NoAddr
  NumProtoAddr = 1
  Cells = {c1, c2}
  Root = Root
  NPackets = 3
  HoldMax = 2
  KillC = 1
  KillI = 0
  MaxBusy = 1
  MaxCalls = 1
SPECIFICATION Spec
INVARIANT TypeOK
INVARIANT TableSound
INVARIANT CacheLive
INVARIANT HeldSound
INVARIANT NotOutlived
INVARIANT RoutesAgree
PROPERTY ResolutionSpec
SYMMETRY Symmetry
