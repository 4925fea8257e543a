\* two transmit and two receive descriptors: full, empty and wrapped rings, a queue behind
CONSTANTS
  TCount = 2
  RCount = 2
  NPackets = 4
  NFrames = 3
  Null = Null
  MaxWindow = 1
SPECIFICATION FairSpec
INVARIANT TypeOK
INVARIANT RingAgrees
INVARIANT NoOvertaking
INVARIANT ChipReadsLive
INVARIANT PassedOnce
INVARIANT ScanTakesAll
PROPERTY InOrder
PROPERTY Leaves
