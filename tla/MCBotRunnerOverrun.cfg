CONSTANTS
  Calls = {c1}
  Runners = {r1}
  Limit = 1
  MaxFaults = 0
  Overrun = TRUE
  LateBots = FALSE
  NoCall = NoCall
  NoRunner = NoRunner
SPECIFICATION Spec
PROPERTIES StrictStatusMachine
