CONSTANTS
  Tasks = {t1}
  Admins = {a1}
  MaxCrashes = 0
  XAddCanFail = FALSE
  MaxRetries = 1
  NoWorker = NoWorker
  NoTime = NoTime
  NoRecord = NoRecord
  NoTask = NoTask
SPECIFICATION Spec
PROPERTY CompletedIsFinal
