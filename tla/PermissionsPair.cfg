SPECIFICATION FairSpec
CONSTANTS
  a = a
  b = b
  scoped = scoped
  root = root
  Groups <- MCGroups
  Scope <- MCScope
  MaxPermissions = 2
  Rows = {o1}
  Requests = {r1, r2}
  Sessions <- PairSessions
  Assignable <- PairAssignable
  MaxEdits = 1
  Seed = Seed
  Nothing = Nothing
INVARIANTS
  TypeOK
  RefusedLeavesNoTrace
PROPERTIES
  EveryRequestAnswered
