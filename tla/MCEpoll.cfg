SPECIFICATION FairSpec
CONSTANTS
  s1 = s1
  s2 = s2
  t1 = t1
  t2 = t2
  f1 = f1
  Sockets = {s1, s2}
  Timers = {t1}
  Repeating = {}
  Fds = {f1}
  Masks <- Both
  Readiness <- DataOrError
  MaxEvents = 2
  MaxTimers = 2
  MaxCtx = 3
  MaxFail = 1
  RestartPending = FALSE
INVARIANT ContextsKept
PROPERTIES ImplementsReactor SocketServed
