SPECIFICATION Spec
CONSTANTS
  r1 = r1
  r2 = r2
  r3 = r3
  Receiver <- TwoReceivers
  Repollable <- NoReceivers
  DropPhases <- DropsWhileWaking
  MaxPush = 3
  MaxNotifiers = 3
INVARIANT NoLostWakeup
CHECK_DEADLOCK FALSE
