SPECIFICATION FairFeedsSpec
CONSTANTS
    LookAhead = 1
    LiveWindow = 1
    Events <- MCEvents
    StartOf <- MCStartOf
    BookOf <- MCBookOf
    TitleOf <- MCTitleOf
    HomeOf <- MCHomeOf
    AwayOf <- MCAwayOf
    ChanBuf = 1
    MaxInputs = 2
INVARIANTS
    NoLostWakeup
PROPERTIES
    SubscriptionsSettle
    FinalScorePublished
