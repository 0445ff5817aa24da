SPECIFICATION Spec
CONSTANTS
    Addr = {a, b}
    EB = EB
    BC = BC
    None = None
    Block = {p1, p2}
    RingCap = 1
    DeqCap = 2
    MaxNbr = 3
    MaxTx = 2
    MaxBE = 1
    LinkType <- SharedBeaconSlot
    Shared <- CommonShared
    Fixed <- CommonOnly
INVARIANT CountIsLinks
