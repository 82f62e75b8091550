SPECIFICATION FairSpec
CONSTANTS
  Ports = {p1}
  Threads = {t1, t2}
  Clients = {c1, c2}
  RemoteClients = {c1, c2}
  RequestedMax = 1
  MaxSession = 3
  None = None
\* Once the sessions are used up and the clients are dead, nothing is left to do.
CHECK_DEADLOCK FALSE
PROPERTY DeferredCleanupRuns
