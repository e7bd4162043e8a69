\* Every file of up to five blocks, in either format, cut off anywhere.
SPECIFICATION BlocksSpec
CONSTANTS
    coinbase = coinbase
    spend = spend
    settlement = settlement
    junk = junk
    none = none
    NoBlock = none
    Checkpoint = "checkpoint"
    AllBlocks <- MCBlocks
    Prev <- MCPrev
    Work <- MCWork
    Body <- MCBody
    Root <- MCRoot
    Lists <- MCLists
    Settlement <- settlement
    Counts <- MCCounts
    Heap <- MCHeap
    MaxBlocks = 5
CHECK_DEADLOCK FALSE
INVARIANTS
    BlocksTypeOK
    NeverOvercounts
    Exact
    EnclaveSurvives
