\* A plaintext message and encrypted ones: every kind of mishap and
\* fragmentation.
SPECIFICATION FairRecords
CONSTANTS
    Envelope = 2
    Header = 2
    Payloads = {0, 2}
    MaxSends = 5
    Mishaps <- AllMishaps
CHECK_DEADLOCK FALSE
INVARIANTS
    InStep
    RecordsConsistent
PROPERTIES
    ImplementsFifo
    ReceiveReturns
