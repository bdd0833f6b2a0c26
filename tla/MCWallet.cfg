SPECIFICATION FairServiceSpec
CONSTANTS
    u1 = u1
    t1 = t1
    t2 = t2
    t3 = t3
    t4 = t4
    Users = {u1}
    Tx = {t1, t2, t3, t4}
    Calls = {c1, c2}
    Requests <- OneUser
INVARIANTS
    TypeOK
    ReadStaysCurrent
    AcknowledgedIsRecorded
PROPERTIES
    AvailableAfterIsExact
    ImplementsLedger
    AvailableFollowsLedger
    EveryCallAnswers
