SPECIFICATION FairSpec
CONSTANTS
  NoSid = NoSid
  Sid = {n1}
  HostKinds <- AllKinds
  Shown = {"agent_message_chunk", "tool_call_failed"}
  MaxFrames = 4
  MaxRpc = 1
  MaxUpdates = 1
CHECK_DEADLOCK FALSE
INVARIANTS
  WireOrder
  CancelScope
PROPERTY
  EveryRequestAnswered
