SPECIFICATION FairSpec
CONSTANTS
  a = a
  b = b
  c = c
  d = d
  e = e
  Groups = {a, b, c, d, e}
  Graphs <- MCGraphs
  Depths = {0, 1, 2, 3, 4, 5, None}
  Unlimited = None
INVARIANTS
  TypeOK
  ExpandsExactly
  ExpandsToDepth
PROPERTIES
  Answers
