\* Every ordered tree of at most four nodes, every operation on each, ids that are missing too.
SPECIFICATION Spec
CONSTANTS
  root = root
  a = a
  b = b
  c = c
  d = d
  fresh = fresh
  failed = failed
  None = None
  Root = root
  New = fresh
  Id <- FourIds
  State <- TwoStates
INVARIANTS
  TypeOK
  KeysExact
  LookupCorrect
PROPERTY TreeSafety
