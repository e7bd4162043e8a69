\* Three clients, two seats, every kind of fault at every step.
SPECIFICATION FairSetupInOrder
CONSTANTS
    NumPlayers = 2
    c1 = c1
    c2 = c2
    c3 = c3
    NoClient = NoClient
    Clients <- ThreeClients
    Faults <- AllMisfortunes
CHECK_DEADLOCK FALSE
INVARIANTS
    SetupTypeOK
    LiveForAll
    SetupInOrder
    HandoverClean
    SetupConsistent
    SeatsCounted
PROPERTIES
    ImplementsAgreement
    SetupCompletes
    AcceptLoopMovesOn
