SPECIFICATION Spec
CONSTANTS
    w1 = w1
    w2 = w2
    alice = alice
    bob = bob
    carol = carol
    NoWorker = NoWorker
    Users <- Traders
    Workers <- OneWorker
    Requests <- BookRequests
    Deposit <- Wallets24
    MaxOrders = 3
    MaxAttempts = 1
    MaxCancelling = 0
    PriceScale = 1
    FeeDen = 10
    MakerFee = 0
    TakerFee = 1
CHECK_DEADLOCK FALSE
INVARIANTS
    FillsAddUp
    ValueConserved
    OpenOrdersCovered
    TradesRespectLimits
    ImmediateOrdersNeverRest
    NeverOverpays
