SPECIFICATION Spec
CONSTANTS
    w1 = w1
    w2 = w2
    alice = alice
    bob = bob
    carol = carol
    NoWorker = NoWorker
    Users <- Traders
    Workers <- TwoWorkers
    Requests <- RaceRequests
    Deposit <- Wallets24
    MaxOrders = 2
    MaxAttempts = 2
    MaxCancelling = 1
    PriceScale = 1
    FeeDen = 10
    MakerFee = 1
    TakerFee = 1
SYMMETRY WorkerSymmetry
CHECK_DEADLOCK FALSE
INVARIANTS
    TypeOK
    TerminalHoldClosed
    ExecutedOnce
    UnpublishedUntouched
    FinalOutcomeTruthful
    MakersPublished
    HeldEqualsResiduals
PROPERTIES
    OutcomeImmutable
    OrdersOnlyProgress
    KeepsPromise
