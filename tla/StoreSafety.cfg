\* Three ids, two tasks; a task uses an id once the call that makes it has returned.
SPECIFICATION Spec
CONSTANTS
  menu = menu
  ping = ping
  pong = pong
  dispatcher = dispatcher
  worker = worker
  fresh = fresh
  done = done
  None = None
  Id <- Ids
  Task <- Tasks
  Owner <- Owners
  State <- States
  New = fresh
  Reported <- States
  Eager = FALSE
  MaxTrees = 2
  MaxOps = 6
INVARIANTS
  TypeOK
  IndexExact
  NeverABug
  ReportsExact
PROPERTY ForestSafety
CHECK_DEADLOCK FALSE
