SPECIFICATION FairSpec
CONSTANTS
  c1 = c1
  c2 = c2
  Conns = {c1}
  MaxOut = 1
  MaxFail = 0
  MaxDrain = 1
  ForceAfter = 1
  Broadcasts = FALSE
PROPERTY ClosingResetIsRemoved
