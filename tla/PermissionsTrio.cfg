SPECIFICATION Spec
CONSTANTS
  a = a
  b = b
  scoped = scoped
  root = root
  Groups <- MCGroups
  Scope <- MCScope
  MaxPermissions = 2
  Rows = {o1}
  Requests = {r1, r2, r3}
  Sessions <- TrioSessions
  Assignable <- TrioAssignable
  MaxEdits = 2
  Seed = Seed
  Nothing = Nothing
SYMMETRY Symmetry
INVARIANTS
  Confined
PROPERTIES
  NoResurrection
