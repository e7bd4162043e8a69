\* Two players; calls, host I/O and processes fail at every step.
SPECIFICATION Spec
CONSTANTS
    NumPlayers  = 2
    RefundDelay = 2
    SettleDelay = 3
    Faults <- AllFaults
INVARIANTS
    TypeOK
    OperatorCommitted
    UnanimousConsent
    PayoutOnlyAfterSettlement
    SettleNeedsTheLongerChain
    PointersLive
    MessagesInOrder
    FaultStrandsNoDeposit
    Consistent
PROPERTIES
    Irrevocable
    ImplementsContract
