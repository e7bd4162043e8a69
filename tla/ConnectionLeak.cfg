\* A client that comes when all seats are taken.
SPECIFICATION SetupSpec
CONSTANTS
    NumPlayers = 2
    c1 = c1
    c2 = c2
    c3 = c3
    NoClient = NoClient
    Clients <- ThreeClients
    Faults <- Leaving
CHECK_DEADLOCK FALSE
INVARIANTS
    ConnectionReleased
