CONSTANTS
  t1 = t1
  t2 = t2
  Tasks = {t1}
  Pools = {p1}
  Concurrency = 2
  PriorityOrder <- MCOnePriority
  TaskPriority <- MCOneTaskPriority
  CancelTasks = {}
  MaxCrashes = 0
  MaxMsgId = 5
  LiveReclaim = TRUE
  MaxRetries = 1
  NoWorker = NoWorker
  NoTime = NoTime
  MaxQueueSize = 0
  NoRecord = NoRecord
  NoMsg = NoMsg
SPECIFICATION Spec
INVARIANT ExclusiveExecution
