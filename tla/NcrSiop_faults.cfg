\* each process on its own device, one absent; two troubles of the bus or the target; a bus reset
\* on a phase mismatch hangs the SCRIPT
CONSTANTS
  p1 = p1
  p2 = p2
  NoProc = NoProc
  NoTarget = NoTarget
  Procs = {p1, p2}
  SystemProcs = {p2}
  Targets = {0, 1}
  SelfId = 7
  Present = {0}
  Uses <- UsesOwn2
  AuxTimer = FALSE
  Faults = {"udc", "rrst", "par", "berr", "pm", "unknph", "badmsg"}
  MaxFaults = 2
  Tags = 1
  Statuses = {"GOOD"}
SPECIFICATION Spec
INVARIANT TypeOK
INVARIANT OnePhysical
INVARIANT LogicalMeansDisconnected
INVARIANT WakeQueueFits
PROPERTY RestartOnBusFree
PROPERTY ServiceSpec
CHECK_DEADLOCK FALSE
