SPECIFICATION Spec
CONSTANTS
  NoSid = NoSid
  HostKinds <- AllKinds
  NewIds = {n1}
  OldIds = {o1}
  ChanCap = 1
  MaxFrames = 4
  MaxRpc = 1
  MaxUpdates = 2
CHECK_DEADLOCK FALSE
INVARIANTS
  TypeOK
  NoStrayWaiter
  UpdatesPrecedeResponse
  ResponsesInOrder
  AwaitedRequestSent
  TokensCoherent
  CancelScope
