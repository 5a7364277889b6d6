\* Two ids, one of a kind with a timeout input, one of a kind with a return input, under fair scheduling;
\* no request names the last instants of the clock.
SPECIFICATION FairSpec
CONSTANTS
  a = a
  b = b
  None = None
  Id <- TwoIds
  Supporting <- OnlyA
  Returning <- OnlyB
  Deadline <- Early
  MaxTime = 3
  MaxRequests = 3
INVARIANTS
  TypeOK
  LedgerConsistent
PROPERTIES
  SweepComplete
  TimerSafety
  PoolSafety
  RequestsApplied
  TimersGoOff
CHECK_DEADLOCK FALSE
