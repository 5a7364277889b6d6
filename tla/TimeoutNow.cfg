\* One id and a deadline that coincides with a reading of the clock.
SPECIFICATION Spec
CONSTANTS
  a = a
  b = b
  None = None
  Id <- TwoIds
  Supporting <- OnlyA
  Returning <- OnlyB
  Deadline <- Early
  MaxTime = 2
  MaxRequests = 2
PROPERTY NowIsDue
CHECK_DEADLOCK FALSE
