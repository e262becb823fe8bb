SPECIFICATION Spec
CONSTANTS
  NoSid = NoSid
  HostKinds <- TurnKinds
  NewIds = {n1}
  OldIds = {}
  ChanCap = 1
  MaxFrames = 5
  MaxRpc = 0
  MaxUpdates = 0
CHECK_DEADLOCK FALSE
INVARIANTS
  NoLostCancel
