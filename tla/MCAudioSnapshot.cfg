CONSTANTS
  Calls = {c1}
  MainLoop = MainLoop
  Overrun = FALSE
  MaxFaults = 0
SPECIFICATION Spec
INVARIANTS SnapshotCarriesUrl
CHECK_DEADLOCK FALSE
