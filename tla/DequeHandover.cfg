\* Three receivers, dropped while they run or once their wake is complete.
SPECIFICATION Spec
CONSTANTS
  r1 = r1
  r2 = r2
  r3 = r3
  Receiver <- ThreeReceivers
  Repollable <- NoReceivers
  DropPhases <- DropsWhenTaken
  MaxPush = 4
  MaxNotifiers = 4
SYMMETRY Sym
INVARIANTS
  NoLostWakeup
  WorkConserving
  OneNotifierPerSleeper
CHECK_DEADLOCK FALSE
