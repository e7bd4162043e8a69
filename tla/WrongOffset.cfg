\* Inputs of up to two bytes on their way to the functionality.
SPECIFICATION TermsSpec
CONSTANTS
    N = 2
    Collateral = 4
    MinerFee = 2
    OperatorFee = 3
    MaxInput = 2
    MaxRandom = 5
    MaxMoney = 9
    ZatRange = 28
    Bundles <- MCBundles
INVARIANTS
    InputsReachTheFunctionality
CHECK_DEADLOCK FALSE
