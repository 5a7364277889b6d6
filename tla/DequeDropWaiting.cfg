SPECIFICATION Spec
CONSTANTS
  r1 = r1
  r2 = r2
  r3 = r3
  Receiver <- TwoReceivers
  Repollable <- NoReceivers
  DropPhases <- DropsWhileWaiting
  MaxPush = 3
  MaxNotifiers = 3
PROPERTY PushNotifiesSleeper
CHECK_DEADLOCK FALSE
