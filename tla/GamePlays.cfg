\* Two menus and two signals from users: two plays at once, or two of one menu.
SPECIFICATION FairSpec
CONSTANTS
  first = first
  second = second
  None = None
  Menu <- Menus
  Rally = 2
  MaxAsked = 2
ACTION_CONSTRAINT FirstThenSecond
INVARIANTS
  TypeOK
  NobodyPanics
  OnePacket
  EndIsReported
  VerdictStands
  NoTimerLeftBehind
PROPERTIES
  EndIsFinal
  PlaysEnd
CHECK_DEADLOCK FALSE
