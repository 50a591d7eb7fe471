CONSTANTS
  t1 = t1
  t2 = t2
  Tasks = {t1, t2}
  Pools = {p1, p2}
  Concurrency = 1
  PriorityOrder <- MCPriorityOrder
  TaskPriority <- MCTaskPriority
  CancelTasks = {}
  MaxCrashes = 1
  MaxMsgId = 5
  LiveReclaim = FALSE
  MaxRetries = 1
  NoWorker = NoWorker
  NoTime = NoTime
  MaxQueueSize = 1
  NoRecord = NoRecord
  NoMsg = NoMsg
SPECIFICATION FairSpec
INVARIANT TypeOK
INVARIANT AtLeastOnce
PROPERTY EventuallySettled
