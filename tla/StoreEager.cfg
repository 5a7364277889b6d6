\* A task uses an id as soon as SmContext::has_state is true.
SPECIFICATION Spec
CONSTANTS
  menu = menu
  ping = ping
  pong = pong
  dispatcher = dispatcher
  worker = worker
  fresh = fresh
  done = done
  None = None
  Id <- Ids
  Task <- Tasks
  Owner <- Owners
  State <- States
  New = fresh
  Reported <- States
  Eager = TRUE
  MaxTrees = 2
  MaxOps = 6
INVARIANT NeverABug
CHECK_DEADLOCK FALSE
