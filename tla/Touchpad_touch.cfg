\* two programs on one pad, packets of four bytes, signals that fail
CONSTANTS
  Procs = {p1, p2}
  NoProc = NoProc
  Points = {a, b}
  Off = Off
  PKTBUFSIZ = 4
  SendFails = TRUE
  AlarmFails = FALSE
SPECIFICATION FairSpec
INVARIANT TypeOK
INVARIANT PenWatched
INVARIANT NobodyForgotten
PROPERTY WholePackets
PROPERTY LiftReported
