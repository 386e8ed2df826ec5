SPECIFICATION FairSpec
CONSTANTS
  ann = ann
  bob = bob
  t1 = t1
  t2 = t2
  People = {ann, bob}
  Teams = {t1, t2}
  Team <- OneTeam
  Registered = {}
  Requests = {r1, r2}
  Doors = {"slack"}
  MaxFailures = 0
PROPERTIES
  InvitedSignUp
