CONSTANTS
  Tasks = {t1, t2}
  Schedulers = {s1, s2}
  CancelTasks = {t1}
  MaxCrashes = 0
  LockCanExpire = FALSE
  XAddCanFail = TRUE
  SubSecond = FALSE
  MaxRetries = 3
  NoWorker = NoWorker
  NoTime = NoTime
  NoRecord = NoRecord
  NoHolder = NoHolder
SPECIFICATION Spec
INVARIANT PendingIsQueued
