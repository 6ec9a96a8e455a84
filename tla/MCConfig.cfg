\* A service that reloads, while others change secrets at its path.
SPECIFICATION FairSpec
CONSTANTS
  p1 = p1
  p2 = p2
  Fields <- MCFields
  Tagged = {"level", "flag"}
  Secret = "password"
  Sections = {"db"}
  PathOf <- MCPathOf
  Layouts <- MCLayouts
  Typed = {"jwt"}
  Keys = {"jwt", "db"}
  SecretKey = "db"
  EnvValue = EnvValue
  Environments <- MCEnvironments
  Absent = Absent
  NotAString = NotAString
  EnvOnly = EnvOnly
  Putters = {p1, p2}
  Debounce = 1
  MaxTime = 1
  MaxWrites = 1
  MaxEvents = 1
  MaxPuts = 2
  MaxFaults = 1
CHECK_DEADLOCK FALSE
INVARIANTS
  TypeOK
  SerialPutsPreserve
PROPERTIES
  HotReloadKept
  SecretsNeedRestart
  LoneEditGoesLive
