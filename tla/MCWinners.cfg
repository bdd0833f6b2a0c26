SPECIFICATION LifecycleSpec
CONSTANTS
    u1 = u1
    b1 = b1
    b2 = b2
    m1 = m1
    NoBet = NoBet
    Users = {u1}
    Bets <- OneBet
    Tx <- MCTx
    Requests <- MCRequests
    Markets = {m1}
    MarketOf <- MCMarketOf
    Selections = {"s1", "s2"}
    SelectionOf <- MCSelection
    UserOf <- MCUserOf
    StakeOf <- MCStakeOf
    OddsOf <- MCOddsOf
    MaxAttempts = 4
    MaxResults = 2
    MaxFaults = 1
    MaxPlaced = 1
    SubscribedName <- NamesAgree
    Headers = {TRUE, FALSE}
    Feed <- MCFeed
    Faults = {}
INVARIANT
    WinnersAreCredited
CHECK_DEADLOCK FALSE
