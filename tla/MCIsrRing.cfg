SPECIFICATION FairSpec
CONSTANTS
    Mask = 3
    Item = {f1, f2}
INVARIANTS
    TypeOK
    NoSlotShared
    ReservationHolds
    AsleepOnlyWhenEmpty
PROPERTIES
    RingIsFifo
    CommittedIsTaken
