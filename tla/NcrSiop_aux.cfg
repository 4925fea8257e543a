\* the auxiliary timer, one gross error, two processes on one device
CONSTANTS
  p1 = p1
  p2 = p2
  NoProc = NoProc
  NoTarget = NoTarget
  Procs = {p1, p2}
  SystemProcs = {}
  Targets = {0}
  SelfId = 7
  Present = {0}
  Uses <- UsesSame2
  AuxTimer = TRUE
  Faults = {"sge"}
  MaxFaults = 1
  Tags = 1
  Statuses = {"GOOD"}
SPECIFICATION Spec
INVARIANT WakeIsKept
CHECK_DEADLOCK FALSE
SYMMETRY ProcSymmetry
