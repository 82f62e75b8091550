SPECIFICATION EventsSpec
CONSTANTS
  Ports = {p1}
  Threads = {t1, t2}
  Clients = {c1}
  RemoteClients = {c1}
  RequestedMax = 1
  MaxSession = 1
  None = None
  Observers = {o1}
  MaxLost = 1
SYMMETRY EventsSymmetry
INVARIANT EventsTypeOK EdgesAccounted
