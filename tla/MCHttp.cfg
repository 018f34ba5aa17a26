SPECIFICATION LoopSpec
CONSTANTS
  c1 = c1
  c2 = c2
  Conns = {c1, c2}
  MaxOut = 1
  MaxFail = 2
  MaxDrain = 1
  ForceAfter = 1
  Broadcasts = TRUE
INVARIANT ClosingRight
PROPERTY ShutdownCompletes
