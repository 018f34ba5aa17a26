SPECIFICATION FairSpec
CONSTANTS
  c1 = c1
  c2 = c2
  Conns = {c1, c2}
  MaxOut = 2
  MaxFail = 0
  MaxDrain = 0
  ForceAfter = 1
  Broadcasts = FALSE
INVARIANT ClosePaired
PROPERTY ClosingFlushes
