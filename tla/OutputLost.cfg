\* A failing last callback of get_deposits.
SPECIFICATION Spec
CONSTANTS
    NumPlayers  = 1
    RefundDelay = 1
    SettleDelay = 2
    Faults <- NoCrash
INVARIANTS
    OutputKept
