SPECIFICATION FairSpec
CONSTANTS
  NoSid = NoSid
  HostKinds <- WaitKinds
  NewIds = {n1}
  OldIds = {}
  ChanCap = 1
  MaxFrames = 4
  MaxRpc = 1
  MaxUpdates = 1
CHECK_DEADLOCK FALSE
PROPERTIES
  EveryRequestAnswered
  CancelEndsTurn
