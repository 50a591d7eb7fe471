CONSTANTS
  Fibers = {f1}
  Admins = {a1}
  Messages = 2
  MaxPauses = 1
  Streams = 2
  CanCrash = TRUE
SPECIFICATION Spec
INVARIANT TypeOK
INVARIANT StoppedIsGone
PROPERTY ListedWhileRunning
CHECK_DEADLOCK FALSE
