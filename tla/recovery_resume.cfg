SPECIFICATION RecSpec
CONSTANTS
    u1 = u1
    m1 = m1  m2 = m2  m3 = m3
    Users = {u1}
    Msgs = {m1}
    Sender <- OneSender
    Kind <- TextAndMedia
    Group = {}
    RedisMayFail = FALSE
    TtlMayPass = FALSE
    MaxDeaths = 1
    KillAllowed = FALSE
    BeatAllowed = FALSE
    DeployAllowed = TRUE
    FirstStage = "done"
PROPERTY ResumesUnfinished
CHECK_DEADLOCK FALSE
