\* The operator, one player, their shells and their files; everything fails.
SPECIFICATION FairHosts
CONSTANTS
    NumPlayers  = 1
    RefundDelay = 1
    SettleDelay = 2
    Faults <- AllFaults
INVARIANTS
    AddressLive
    ReturnsTellTheState
PROPERTIES
    PlayerFindsItsMoney
    OperatorFindsItsMoney
