\* Two players whose calls may fail at any step: everyone gets their money.
SPECIFICATION FairSpec
CONSTANTS
    NumPlayers  = 2
    RefundDelay = 1
    SettleDelay = 2
    Faults <- Interrupts
PROPERTIES
    PlayerMadeWhole
    OperatorMadeWhole
