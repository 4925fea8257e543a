\* a target drops off the bus and keeps its command
CONSTANTS
  p1 = p1
  p2 = p2
  NoProc = NoProc
  NoTarget = NoTarget
  Procs = {p1}
  SystemProcs = {}
  Targets = {0}
  SelfId = 7
  Present = {0}
  Uses <- UsesOwn1
  AuxTimer = FALSE
  Faults = {"udc_resel"}
  MaxFaults = 1
  Tags = 1
  Statuses = {"GOOD"}
SPECIFICATION Spec
PROPERTY StaleReselectAborted
