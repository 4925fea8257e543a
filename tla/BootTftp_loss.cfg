\* two rounds, three losses or answers without a file, the file replaced once, four tries each
CONSTANTS
  NVersions = 2
  first = 3
  second = 1
  Full <- FullBlocks
  Empty = {1}
  OldServer = FALSE
  RrqFits = FALSE
  TryCount = 2
  BootTries = 4
  TftpTries = 4
  Ticks = 1
  Edge = 32768
  NSessions = 6
  MaxLoss = 3
  Dup = FALSE
  Prompt = TRUE
  Faults = {}
SPECIFICATION PromptSpec
PROPERTY Succeeds
CHECK_DEADLOCK FALSE
