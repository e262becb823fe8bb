SPECIFICATION Spec
CONSTANTS
  Modes <- Sessions
  Texts <- Replies
  MaxThoughts = 1
  MaxCalls = 1
  MaxRetries = 1
  MaxBase = 1
CHECK_DEADLOCK FALSE
INVARIANTS TypeOK CausalOrder
PROPERTIES Refinement
