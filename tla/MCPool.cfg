SPECIFICATION FairSpec
CONSTANTS
  u1 = u1
  u2 = u2
  k1 = k1
  k2 = k2
  k3 = k3
  Users = {u1, u2}
  Tasks = {k1, k2, k3}
  NumThreads = 3
  MaxResources = 2
  NoTask = NoTask
INVARIANT PoolSafe
PROPERTIES ImplementsTaskPool PoolServes
