SPECIFICATION Spec
CONSTANTS
  Sigs = {a}
  Buffered = FALSE
  MaxBatch = 2
  MaxToolRounds = 2
  ErrorLimit = 2
  SuccessLimit = 2
  PruneAt = 6
  Backstop = 12
  MaxTurns = 1
INVARIANTS HistoryRepaired
