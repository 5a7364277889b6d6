\* Two ids whose timers go off before anybody takes a signal.
SPECIFICATION Spec
CONSTANTS
  a = a
  b = b
  None = None
  Id <- TwoIds
  Supporting <- TwoIds
  Returning <- OnlyB
  Deadline <- Early
  MaxTime = 2
  MaxRequests = 2
PROPERTY LaterOnTop
CHECK_DEADLOCK FALSE
