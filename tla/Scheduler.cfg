CONSTANTS
  Tasks = {t1, t2}
  Schedulers = {s1, s2}
  CancelTasks = {t1}
  MaxCrashes = 1
  LockCanExpire = FALSE
  XAddCanFail = FALSE
  SubSecond = FALSE
  MaxRetries = 3
  NoWorker = NoWorker
  NoTime = NoTime
  NoRecord = NoRecord
  NoHolder = NoHolder
SPECIFICATION FairSpec
INVARIANT TypeOK
PROPERTY EventuallyActivated
PROPERTY DelayedQueueSpec
