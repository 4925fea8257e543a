\* two processes share a device, one of them has another too; one trouble that the chip
\* does not recover from
CONSTANTS
  p1 = p1
  p2 = p2
  NoProc = NoProc
  NoTarget = NoTarget
  Procs = {p1, p2}
  SystemProcs = {p2}
  Targets = {0, 1}
  SelfId = 7
  Present = {0, 1}
  Uses <- UsesShared2
  AuxTimer = FALSE
  Faults = {"sge", "berr_free", "notmsgi"}
  MaxFaults = 1
  Tags = 1
  Statuses = {"GOOD"}
SPECIFICATION Spec
INVARIANT OneOwner
INVARIANT NoLostWakeup
PROPERTY ServiceSpec
CHECK_DEADLOCK FALSE
