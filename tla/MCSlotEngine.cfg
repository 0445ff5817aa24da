SPECIFICATION FairSpec
CONSTANTS
    Low = 8
    High = 3
    ClockRange = 16
    MinDelay = 1
    SlotframeSize <- MCSlotframeSize
    SlotDuration = 2
    TxOffset = 1
    StartDelay = 1
    CtcAsn = 5
    BeaconPeriod = 24
    Threshold = 3
    FixedLink <- MCFixedLink
    Link <- MCLink
    Mode = {"ctc", "eb", "coordinator"}
    NetworkShift <- MCNetworkShift
    QuickRejoin = FALSE
    MaxBusy = 2
    MaxBeacons = 1
    MayMiscount = FALSE
    NoLink = NoLink
    None = None
INVARIANTS
    TypeOK
    LinkMatchesAsn
    OnTime
PROPERTIES
    NoActiveSlotPassed
    LeavesOnlyWhenStale
    KeepsWaking
