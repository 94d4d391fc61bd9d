SPECIFICATION Spec
CONSTANTS
    Books <- OrderedBooks
    Takers <- AllTakers
    Millisecond = 2
    PriceScale = 2
    FeeDen = 10
    MakerFee = 1
    TakerFee = 2
CHECK_DEADLOCK FALSE
INVARIANTS
    LoopComputesFills
    LoopCountsVolume
    WorthlessFillThrows
