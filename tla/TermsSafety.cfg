\* Three players, every mix of good and bad deposits, and a Merkle path that may be missing.
SPECIFICATION TermsSpec
CONSTANTS
    N = 3
    Collateral = 4
    MinerFee = 2
    OperatorFee = 3
    MaxInput = 1
    MaxRandom = 5
    MaxMoney = 9
    ZatRange = 37
    Bundles <- MCBundles
INVARIANTS
    FeesCovered
    OperatorRewarded
    WinnerTakesThePot
    DepositsShown
    GoodDepositsSettle
CHECK_DEADLOCK FALSE
