SPECIFICATION ServiceSpec
CONSTANTS
    Messages <- Game
    Operators = {"o1", "o2"}
    Clients = {"c1"}
    SendBuf = 1
    MaxInputs = 4
INVARIANTS
    OperatorRules
    OverflowIsLeaving
    QuietClientIsCurrent
PROPERTIES
    CacheSettles
    EveryoneLeaves
    MarketsDelivered
