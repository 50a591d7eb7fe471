CONSTANTS
  Tasks = {t1}
  Admins = {a1, a2}
  MaxCrashes = 1
  XAddCanFail = FALSE
  MaxRetries = 2
  NoWorker = NoWorker
  NoTime = NoTime
  NoRecord = NoRecord
  NoTask = NoTask
SPECIFICATION FairSpec
INVARIANT TypeOK
INVARIANT Recoverable
INVARIANT AttemptsWithinBudget
PROPERTY EventuallyAtRest
