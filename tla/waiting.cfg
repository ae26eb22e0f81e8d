SPECIFICATION WaitSpec
CONSTANTS
  NCalls = 8  IdleTTL = 5  MaxTime = 7
  p1 = p1  p2 = p2  t1 = t1  t2 = t2
  Plans = {p1, p2}  NSteps = 2  Deps <- Chain  TenantOf <- OneTenant
  Default = t1  Feishu = t1  LastDreamer = t2
  UserStatuses = {"pending", "completed"}
  MaxEdits = 2  MaxFaults = 1  MaxCrashes = 1
  Debounce = 1  Cooldown = 3  AskCooldown = 2  Window = 6  MaxFixes = 2
  MaxFixRounds = 2  Horizon = 6  MaxErrors = 3  MaxFixDeaths = 1
INVARIANTS TypesOK ServedInTurn DependenciesFirst DoneOnce ChainGoesOn FixesApart
PROPERTIES WaitersAreServed AppointmentsAreKept
CHECK_DEADLOCK FALSE
