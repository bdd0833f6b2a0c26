SPECIFICATION FairFlowSpec
CONSTANTS
    u1 = u1
    k1 = k1
    k2 = k2
    b1 = b1
    b2 = b2
    d1 = d1
    w1 = w1
    c1 = c1
    NoBet = NoBet
    Users = {u1}
    Keys = {k1, k2}
    Bets = {b1, b2}
    Tx = {b1, b2, d1, w1, c1}
    Requests <- Drained
    KeyOf <- OneKey
    UserOf <- MCUserOf
    StakeOf <- MCStakeOf
    OddsOf <- MCOddsOf
    Odds = {100, 104, 120}
    TolerancePct = 5
    MaxSingleStake = 2
    DailyLimit = 4
    Relays = {y1}
    BatchLimit = 1
    MaxCopies = 2
    Faults = {"db", "commit", "kafka", "crash"}
PROPERTIES
    ReadyIsPublished
    AcceptedIsAccountedFor
    RetryAfterAnswerIsReplay
CHECK_DEADLOCK FALSE
