SPECIFICATION FairSpec
CONSTANTS
  s1 = s1
  t1 = t1
  Sockets = {s1}
  Timers = {t1}
  Masks <- ReadOrBoth
  SqSize = 2
  MaxEvents = 2
  MaxCtx = 2
  MaxModify = 1
  Allocs = {TRUE}
INVARIANTS ContextsOwned EventsAlive MaskFresh
PROPERTIES ImplementsReactor BackendProgresses
