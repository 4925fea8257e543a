\* two rounds, two sessions, two versions, the second longer than the signed block number
\* counts; datagrams come late, in any order, any number of times
CONSTANTS
  NVersions = 2
  first = 1
  second = 2
  Full <- FullBlocks
  Empty = {1}
  OldServer = FALSE
  RrqFits = FALSE
  TryCount = 2
  BootTries = 2
  TftpTries = 2
  Ticks = 1
  Edge = 3
  NSessions = 2
  MaxLoss = 0
  Dup = TRUE
  Prompt = FALSE
  Faults = {"refuse", "memory", "icmp"}
SPECIFICATION Spec
INVARIANT TypeOK
INVARIANT OneFile
INVARIANT Whole
INVARIANT AheadIsStale
PROPERTY Ends
CHECK_DEADLOCK FALSE
