SPECIFICATION Spec
CONSTANTS
  r1 = r1
  r2 = r2
  Installs = {r1, r2}
  Settings <- MCSettings
CHECK_DEADLOCK FALSE
INVARIANTS
  TypeOK
  EnoughWorkersNeverStuck
  FailuresStayBehind
PROPERTIES
  EveryCallEnds
  DeliveredAsPromised
