SPECIFICATION PropertiesSpec
CONSTANTS
  Ports = {p1}
  Clients = {c1}
  Mortal = {c1}
  Limit = 1
  None = None
  Threads = {t1}
  UtWorker = UtWorker
  Observers = {o1}
  Metrics <- MCMetrics
  Supported <- MCSupported
  Declared <- MCDeclared
  Writable <- MCWritable
  Batches <- MCBatches
  UtUpdates <- MCUtUpdates
  Levels = {85}
  Now = 4
INVARIANT PropertiesTypeOK TypesDeclared CountersRestart CurrentValueAnnounced
PROPERTY BatchAtomic
