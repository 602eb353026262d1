CONSTANTS
  Calls = {c1}
  MainLoop = MainLoop
  Overrun = TRUE
  MaxFaults = 1
SPECIFICATION FairSpec
PROPERTIES AudioReclaimed
CHECK_DEADLOCK FALSE
