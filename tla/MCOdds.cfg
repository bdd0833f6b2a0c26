SPECIFICATION PipelineSpec
CONSTANTS
    Probs = {40, 44, 98}
    Vigs = {110}
    BetEvents <- MCBets
    Before = {10050}
    HashBits = 8
    Hash = 5
    Partitions = 16
    Dispatched = {"feed", "bets"}
    MaxMessages = 2
    MaxFaults = 1
    Faults = {"db", "kafka", "redis", "crash"}
INVARIANTS
    HandledIsPublished
    BookHasMargin
    AmericanIsFaithful
    QuietCacheIsLatest
    NotLaggingIsTried
CHECK_DEADLOCK FALSE
