\* Two players and no failures: the protocol never waits for itself.
SPECIFICATION FlowSpec
CONSTANTS
    NumPlayers  = 2
    RefundDelay = 1
    SettleDelay = 2
    Faults <- NoFaults
PROPERTIES
    ContractCompletes
