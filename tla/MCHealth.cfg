SPECIFICATION FairSpec
CONSTANTS
  p1 = p1
  p2 = p2
  db = db
  custom = custom
  Probes <- MCProbes
  Checks <- MCChecks
  Obedient <- MCObedient
  Services = {"svc"}
  None = none
  MaxChanges = 2
  MaxPanics = 1
PROPERTIES
  VerdictIsHonest
  ProbesReturn
