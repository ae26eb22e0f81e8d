SPECIFICATION LoopSpec
CONSTANTS
  Mail = {}
  MaxRounds = 4
  SubRounds = 3
  StrongAt = 3
  SubStrongAt = 1
  MaxTries = 1
  Breaker = 2
  MaxDeliver = 1
  MaxGate = 2
  GateFrom = 2
  MaxEmpty = 1
  ForceFor = 2
INVARIANT EffectsAreTold
CHECK_DEADLOCK FALSE
