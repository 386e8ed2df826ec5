SPECIFICATION Spec
CONSTANTS
  ann = ann
  bob = bob
  t1 = t1
  t2 = t2
  People = {ann, bob}
  Teams = {t1, t2}
  Team <- OneTeam
  Registered = {bob}
  Requests = {r1, r2}
  Doors = {"slack", "google"}
  MaxFailures = 1
SYMMETRY Symmetry
INVARIANTS
  TypeOK
  SignedUpWhole
  OkMeansDone
  AppTokensAreReal
  AnnouncedIsInstalled
