CONSTANTS
  Clients = {c1}
  EventCap = 1
  BroadcastCap = 1
  SendCap = 2
  MaxEvents = 3
  SubscribeCanFail = TRUE
  ClientEventCap = 1
  FrameCap = 1
SPECIFICATION FairSpec
CHECK_DEADLOCK FALSE
INVARIANT TypeOK
INVARIANT NoClosedChannelPanic
PROPERTY ConnectionReleased
PROPERTY ReadLoopEnds
PROPERTY HandoffsReceived
