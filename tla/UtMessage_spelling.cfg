SPECIFICATION MessageSpec
CONSTANTS
  Ports = {0, 1}
  Documents <- MCDocuments
  Metrics <- MCMetrics
  Padded <- MCPadded
  IntHalf = 128
  LongHalf = 256
  NaN = NaN
  NoMode = NoMode
  Nothing = Nothing
INVARIANT MessagesTypeOK SpellingBlind
PROPERTY ImplementsInput NoSilentChange
