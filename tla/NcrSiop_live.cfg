\* fair, each process with a device of its own; both poll
CONSTANTS
  p1 = p1
  p2 = p2
  NoProc = NoProc
  NoTarget = NoTarget
  Procs = {p1, p2}
  SystemProcs = {p1, p2}
  Targets = {0, 1}
  SelfId = 7
  Present = {0, 1}
  Uses <- UsesOwn2
  AuxTimer = FALSE
  Faults = {}
  MaxFaults = 0
  Tags = 1
  Statuses = {"GOOD"}
SPECIFICATION FairSpec
INVARIANT PendingIsSeen
PROPERTY CallReturns
