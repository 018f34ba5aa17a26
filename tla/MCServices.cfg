SPECIFICATION Spec
CONSTANTS
  Empty = null
  RingCapacity = 2
  MaxItems = 4
  MaxSeconds = 4
  MonthLength = 2
  QueueLimit = 1
  MaxEvents = 4
  Jobs = {j1, j2}
  MaxRuns = 3
  CronNames = {a, b}
  CronFields <- MCCronFields
  MinuteLength = 3
  MaxTime = 4
  MaxCrons = 3
  Procs = {p1, p2, p3}
  Owner = p1
  MaxWrites = 2
  MaxLives = 2
  Shared = {"PGSQL"}
  Threads = {t1, t2, t3}
  NoThread = none
  MaxDrops = 2
  Calls <- MCCalls
  Answers <- MCAnswers
  Cookie <- MCCookie
  Host <- MCHost
  Same = "same"
  FirstHost = "h1"
  MaxRedirects = 1
  MaxInfo = 2
  MaxHeaders = 3
  MaxBody = 3
  MaxCalls = 2
INVARIANTS LinesKept JobsOutliveRuns FiresOncePerSecond   
PROPERTIES StopFlushes UnitsFinish 
CHECK_DEADLOCK FALSE
