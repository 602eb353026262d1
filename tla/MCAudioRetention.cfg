CONSTANTS
  Calls = {c1, c2}
  MainLoop = MainLoop
  Overrun = FALSE
  MaxFaults = 1
SPECIFICATION Spec
SYMMETRY Symmetric
INVARIANTS TypeOK ObjectNamed DanglingUrlHeals
PROPERTY ImplementsPromise
CHECK_DEADLOCK FALSE
