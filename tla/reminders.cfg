SPECIFICATION BackgroundSpec
CONSTANTS
  r1 = r1  r2 = r2  u1 = u1
  Rem = {r1, r2}  Owners = {u1}  Owner <- OneOwner
  Period = 3  MaxSleep = 2  MaxTrigger = 2  MaxEdits = 1  MaxMishaps = 1
  Threads = {c1, c2}  EventLoop = loop  Others = FALSE
  MaxTokens = 3  MaxOAuthFaults = 1  MaxOAuthCrashes = 1
INVARIANTS TypesOK ChainKept AtMostOnce CancelHolds LateUnderASleep TokensSound
PROPERTY DueIsTaken
CHECK_DEADLOCK FALSE
