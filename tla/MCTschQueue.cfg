SPECIFICATION FairSpec
CONSTANTS
    Addr = {a}
    EB = EB
    BC = BC
    None = None
    Block = {p1, p2}
    RingCap = 2
    DeqCap = 1
    MaxNbr = 3
    MaxTx = 2
    MaxBE = 1
    LinkType <- OwnBeaconSlot
    Shared <- AllShared
    Fixed <- BeaconAndCommon
INVARIANTS
    TypeOK
    PacketsAccounted
    TxHeld
    CountIsLinks
PROPERTIES
    AnswersInOrder
    RingsUsedAsFifos
    AllAnswered
    NoneFreedInUse
