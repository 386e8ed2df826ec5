SPECIFICATION Spec
CONSTANTS
  ann = ann
  band = band
  crew = crew
  i1 = i1
  i2 = i2
  i3 = i3
  i4 = i4
  Names = {ann, band, crew}
  Ids = {i1, i2, i3, i4}
  Requests = {r1, r2, r3}
  Asks <- MCAsks
  Tables <- MCTables
  Unused = Unused
  Gone = Gone
SYMMETRY Symmetry
CHECK_DEADLOCK FALSE
INVARIANTS
  TypeOK
  NamesAndKeysHold
  DuplicatesNeedARace
PROPERTIES
  AnsweredAsAsked
  RefusedForDuplicates
  ListsChangeOneByOne
