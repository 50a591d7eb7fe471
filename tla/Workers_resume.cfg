CONSTANTS
  Fibers = {f1, f2}
  Admins = {}
  Messages = 1
  MaxPauses = 1
  Streams = 2
  CanCrash = FALSE
SPECIFICATION Spec
PROPERTY ResumeWakesFibers
CHECK_DEADLOCK FALSE
