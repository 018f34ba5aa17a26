SPECIFICATION FairSpec
CONSTANTS
  s1 = s1
  s2 = s2
  t1 = t1
  t2 = t2
  f1 = f1
  Sockets = {}
  Timers = {t1, t2}
  Repeating = {t2}
  Fds = {f1}
  Masks <- Both
  Readiness <- Both
  MaxEvents = 3
  MaxTimers = 2
  MaxCtx = 4
  MaxFail = 1
  RestartPending = FALSE
INVARIANT TimersKept
PROPERTY LoopServes
