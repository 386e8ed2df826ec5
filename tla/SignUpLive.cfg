SPECIFICATION FairSpec
CONSTANTS
  ann = ann
  bob = bob
  t1 = t1
  t2 = t2
  People = {ann, bob}
  Teams = {t1, t2}
  Team <- OwnTeams
  Registered = {}
  Requests = {r1, r2}
  Doors = {"slack"}
  MaxFailures = 1
PROPERTIES
  InvitedSignUp
