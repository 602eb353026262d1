CONSTANTS
  Calls = {c1, c2, c3}
  Runners = {r1, r2}
  Limit = 1
  NoCall = NoCall
SPECIFICATION FairSpec
INVARIANTS TypeOK ClaimsAreExclusive CeilingHolds RefusalNeedsOverlap
PROPERTIES QueueDrains
CHECK_DEADLOCK FALSE
