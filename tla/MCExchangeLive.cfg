SPECIFICATION Spec
CONSTANTS
    w1 = w1
    w2 = w2
    alice = alice
    bob = bob
    carol = carol
    NoWorker = NoWorker
    Users <- Traders
    Workers <- TwoWorkers
    Requests <- LiveRequests
    Deposit <- Wallets24
    MaxOrders = 2
    MaxAttempts = 2
    MaxCancelling = 0
    PriceScale = 1
    FeeDen = 10
    MakerFee = 1
    TakerFee = 1
CHECK_DEADLOCK FALSE
PROPERTIES
    EveryCommandEnds
    ImmediateOrdersSettle
