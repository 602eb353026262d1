CONSTANTS
  Calls = {c1, c2}
  Runners = {r1}
  Limit = 2
  MaxFaults = 2
  Overrun = FALSE
  LateBots = FALSE
  NoCall = NoCall
  NoRunner = NoRunner
SPECIFICATION Spec
SYMMETRY Symmetric
INVARIANTS TypeOK DoneIsStored ReceiverAgrees
PROPERTIES ImplementsLifecycle AudioKept OrphansOnly
