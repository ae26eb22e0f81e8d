SPECIFICATION LifeSpec
CONSTANTS
    u1 = u1
    m1 = m1  m2 = m2  m3 = m3
    Users = {u1}
    Msgs = {m1, m2}
    Sender <- OneSender
    Kind <- TextAndMedia
    Group = {}
    RedisMayFail = FALSE
    TtlMayPass = FALSE
    MaxDeaths = 2
    KillAllowed = TRUE
    BeatAllowed = TRUE
    DeployAllowed = TRUE
    FirstStage = "scan"
INVARIANTS RecTypeOK InFlightSound
PROPERTIES OnlyDeathLoses TellsOnlyUnrecovered PersistedIsRecovered
CHECK_DEADLOCK FALSE
