SPECIFICATION Spec
CONSTANTS
    u1 = u1  u2 = u2
    m1 = m1  m2 = m2  m3 = m3  m4 = m4
    Users = {u1}
    Msgs = {m1, m2, m3, m4}
    Sender <- OneSender
    Kind <- FileKinds
    Group = {m3}
    RedisMayFail = FALSE
    TtlMayPass = FALSE
INVARIANTS TypeOK NothingUnattended ExactlyOneFate RecordsHold
PROPERTIES MailboxNotOverwritten LedgerSpec
CHECK_DEADLOCK FALSE
