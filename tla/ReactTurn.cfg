SPECIFICATION FairSpec
CONSTANTS
  Sigs = {a, b}
  Buffered = TRUE
  MaxBatch = 2
  MaxToolRounds = 3
  ErrorLimit = 2
  SuccessLimit = 2
  PruneAt = 3
  Backstop = 7
  MaxTurns = 2
INVARIANTS TypeOK CallsAnswered ResultsHaveCalls StreaksExact NoOrphanRows OneLateCall
PROPERTIES PromptKept TurnEnds
