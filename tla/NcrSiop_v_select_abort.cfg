\* the auxiliary timer and a device that answers selection with another phase
CONSTANTS
  p1 = p1
  p2 = p2
  NoProc = NoProc
  NoTarget = NoTarget
  Procs = {p1}
  SystemProcs = {}
  Targets = {0}
  SelfId = 7
  Present = {0}
  Uses <- UsesOwn1
  AuxTimer = TRUE
  Faults = {}
  MaxFaults = 0
  Tags = 1
  Statuses = {"GOOD"}
SPECIFICATION Spec
PROPERTY ConnectionNotAborted
