SPECIFICATION SignalSpec
CONSTANTS
  Ports = {p1}
  Threads = {t1, t2}
  Clients = {c1}
  RemoteClients = {c1}
  RequestedMax = 1
  MaxSession = 1
  None = None
  Reports = {"connection_status", "signal_status", "video_mode", "clear_video_mode", "set_property"}
  Statuses = {"STABLE", "NO_SIGNAL"}
  Injected = {0}
  Writable = {"quality"}
SYMMETRY SignalSymmetry
INVARIANT SignalTypeOK ModeNeedsStableSignal ConnectionKnown SignalKnown
PROPERTY TelemetryFollows ImplementsInput
