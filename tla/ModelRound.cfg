SPECIFICATION FairSpec
CONSTANTS
  RawCaps = {0, 5}
  ConnectTimeouts = {119, 120}
  Samples = {}
  MaxTools = 5
  Overheads = {20}
  PerTool = 10
  Windows = {40}
  MaxResponse = 1
INVARIANTS
  TypeOK
  FirstTokenInTime
  SlowConnectNotRetried
  LearnedWasServed
PROPERTIES
  StreamedCallOnlyTrimmed
  TrimProgress
  RoundEnds
