SPECIFICATION FairSpec
CONSTANTS
    u1 = u1  u2 = u2
    m1 = m1  m2 = m2  m3 = m3  m4 = m4
    Users = {u1, u2}
    Msgs = {m1, m2, m3, m4}
    Sender <- TwoSenders
    Kind <- MixedKinds
    Group = {m3}
    RedisMayFail = FALSE
    TtlMayPass = TRUE
PROPERTIES AckedIsSettled
CHECK_DEADLOCK FALSE
