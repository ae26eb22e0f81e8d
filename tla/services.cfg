SPECIFICATION Spec
CONSTANTS
  Kind <- OnePage
  PageSize = 3
  MaxCache = 2
  Pulls = {c1, c2}
  MaxCalls = 2
  MaxKfCrashes = 0
  Checks = {c1, c2}
  Trial = 1
  Approval = 1
  Ttl = 2
  MaxTime = 3
  Requests = {x1, x2}
  Reviewers = {c1, c2}
  Free = 1
  MaxProvisionMishaps = 1
  Containers = {c1, c2}
  Tenants = {x1, x2}
  MaxQueue = 1
  MaxChanges = 2
  MaxSyncCrashes = 1
  Tasks = {x1, x2}
  Loops = {c1, c2}
  MaxWatchdogFaults = 1
  MaxWatchdogCrashes = 1
  Mail = {n1}
  KimiMail = {n1, n2}
  MaxRounds = 6
  MaxKimiRounds = 3
  SubRounds = 3
  StrongAt = 3
  SubStrongAt = 1
  MaxTries = 1
  Breaker = 2
  MaxDeliver = 1
  MaxGate = 2
  GateFrom = 2
  MaxEmpty = 1
  ForceFor = 2
  Compressors = {c1, c2}
  MaxEntries = 6
  Threshold = 4
  KeepRecent = 3
  BatchSize = 2
  Ceiling = 6
  TrimTo = 3
  IndexMax = 3
  MaxMemoryFaults = 1
  MaxMemoryCrashes = 1
  Visits = {c1, c2}
  MaxBrowsers = 3
  MaxScans = 2
  MaxVisits = 3
  MaxXhsFaults = 1
  Turns = {c1, c2}
  ChatRounds = 1
  ChatTtl = 1
  ChatHorizon = 2
  MaxSaid = 3
  MaxChatCrashes = 1
  MaxChatMishaps = 1
  Bots = {x1, x2, b}
  OneCorp = {x1, x2}
  MaxPort = 2
  MaxInstanceMishaps = 0
SYMMETRY Alike
INVARIANT TypesOK HandledOnce NothingSkipped DecisionHolds ReviewsSound InStep RetriedOnce
INVARIANT LoopSound MemorySound LogoutHolds HistoryKept InstancesSound
PROPERTY NoBrowserLost
CHECK_DEADLOCK FALSE
