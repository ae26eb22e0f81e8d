SPECIFICATION Spec
CONSTANTS
    u1 = u1  u2 = u2
    m1 = m1  m2 = m2  m3 = m3  m4 = m4
    Users = {u1}
    Msgs = {m1, m2, m3}
    Sender <- OneSender
    Kind <- BatchKinds
    Group = {}
    RedisMayFail = FALSE
    TtlMayPass = FALSE
PROPERTY ExitLosesNothing
CHECK_DEADLOCK FALSE
