SPECIFICATION Spec
CONSTANTS
  Ports = {p1, p2}
  Threads = {t1, t2}
  Clients = {c1, c2}
  RemoteClients = {c1, c2}
  RequestedMax = 1
  MaxSession = 2
  None = None
SYMMETRY Symmetry
\* Once the sessions are used up and the clients are dead, nothing is left to do.
CHECK_DEADLOCK FALSE
INVARIANT OneDriver SlotsAccounted StartedLimit SessionIdentity
INVARIANT CleanupNeverLost DeferredComesBack IInv
PROPERTY ImplementsContract CleanupOnlyDead
