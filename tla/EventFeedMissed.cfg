SPECIFICATION Spec
CONSTANTS
  Events = {e1, e2}
  Pollers = {p}
  Walkers = {}
  Matching <- MCMatching
  ResultsPerPage = 2
  OneWriterAtATime = FALSE
  Nobody = Nobody
INVARIANTS
  NothingMissed
