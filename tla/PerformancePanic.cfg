CONSTANTS
  t1 = t1
  t2 = t2
  t3 = t3
  Tasks = {t1, t2, t3}
  MaxWorkers = 2
  QueueSize = 2
  c1 = c1
  c2 = c2
  Clients = {c1, c2}
  Cleaners = {"loop", "optimize"}
  PoolSize = 1
  MaxConns = 2
  k1 = k1
  k2 = k2
  k3 = k3
  Keys = {k1, k2, k3}
  r1 = r1
  Readers = {r1}
  CacheSize = 2
  MaxPushes = 3
  WSClients = {c1, c2}
  Topics = {"alerts"}
  SendSize = 2
  BroadcastSize = 1
  MaxBroadcasts = 1
  MaxRequests = 1
  Parts = {"connections"}
SPECIFICATION FairSpec
INVARIANTS ConnNoPanic
CHECK_DEADLOCK FALSE
