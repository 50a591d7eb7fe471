CONSTANTS
  Clients = {c1}
  EventCap = 1
  BroadcastCap = 1
  SendCap = 1
  MaxEvents = 2
  SubscribeCanFail = FALSE
  ClientEventCap = 1
  FrameCap = 1
SPECIFICATION FairSpec
CHECK_DEADLOCK FALSE
PROPERTY StopReturns
