SPECIFICATION UtFairSpec
CONSTANTS
  CommandLines <- MCCommandLines
  DefaultPath = "hfp-compositeinput.yaml"
  DefaultPort = 8086
  Files = {"lab.yaml"}
  Configured = {0, 1}
  Numbers = {1, 7}
  Absent = Absent
  Unreadable = Unreadable
  MaxMessages = 3
\* The main thread ends, and the worker with it.
CHECK_DEADLOCK FALSE
INVARIANT UtTypeOK EarlyMessagesKept
PROPERTY ImplementsChannel ArgsExact NothingAfterTheEnd EveryMessageHandled ShutdownEnds
