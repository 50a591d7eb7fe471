CONSTANTS
  t1 = t1
  t2 = t2
  Tasks = {t1}
  Pools = {p1, p2}
  Concurrency = 1
  PriorityOrder <- MCOnePriority
  TaskPriority <- MCOneTaskPriority
  CancelTasks = {t1}
  MaxCrashes = 1
  MaxMsgId = 5
  LiveReclaim = FALSE
  MaxRetries = 2
  NoWorker = NoWorker
  NoTime = NoTime
  MaxQueueSize = 0
  NoRecord = NoRecord
  NoMsg = NoMsg
SPECIFICATION FairSpec
INVARIANT AtLeastOnce
PROPERTY EventuallySettled
