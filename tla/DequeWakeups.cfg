\* Three receivers, two of them in a timeout or select, nobody dropped, under fair scheduling.
SPECIFICATION FairSpec
CONSTANTS
  r1 = r1
  r2 = r2
  r3 = r3
  Receiver <- ThreeReceivers
  Repollable <- TwoReceivers
  DropPhases <- NoDrops
  MaxPush = 4
  MaxNotifiers = 4
INVARIANTS
  TypeOK
  NoLostWakeup
PROPERTIES
  MailboxSafety
  MailboxSpec
CHECK_DEADLOCK FALSE
