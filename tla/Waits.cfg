SPECIFICATION WaitsSpec
CONSTANTS
  c1 = c1
  p1 = p1
  p2 = p2
  Procs = {p1, p2}
  MaxRepair = 2
  Sent = {"Quit", "Terminate", "Suspend", "Interrupt"}
  MaxSent = 3
  MaxEvents = 3
  Kinds <- TextAndCall
  MaxChunks = 5
  MaxBlocks = 1
  MaxReads = 2
INVARIANTS
  StreamIsWhole
  RepairsShownFile
  LeavesAllSettled
PROPERTIES
  EveryWaitEnds
CHECK_DEADLOCK FALSE
