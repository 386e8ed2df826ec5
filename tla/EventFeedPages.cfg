SPECIFICATION FairSpec
CONSTANTS
  Events = {e1, e2, e3}
  Pollers = {p}
  Walkers = {w}
  Matching <- MCMatching
  ResultsPerPage = 2
  OneWriterAtATime = FALSE
  Nobody = Nobody
INVARIANTS
  TypeOK
  OnlyLateMissed
  WalkComplete
PROPERTIES
  PagesDisjoint
  EventsArrive
