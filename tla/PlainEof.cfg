\* A plaintext receive whose peer is gone in the middle of a payload.
SPECIFICATION FairRecords
CONSTANTS
    Envelope = 2
    Header = 2
    Payloads = {0, 2}
    MaxSends = 2
    Mishaps <- AllMishaps
CHECK_DEADLOCK FALSE
PROPERTIES
    EveryReceiveReturns
