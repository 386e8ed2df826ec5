SPECIFICATION Spec
CONSTANTS
  Threads = {t1, t2}
  Profiles = {p1, p2}
  everybody = everybody
  user = user
  admin = admin
  push = push
  root = root
  licensed = licensed
  OneRequestAtATime = TRUE
INVARIANTS
  TypeOK
  EffectiveGroups
  ListsDrained
PROPERTIES
  LeavingRestores
