SPECIFICATION Spec
CONSTANTS
    Low = 60
    High = 1
    ClockRange = 16
    MinDelay = 1
    SlotframeSize <- MCSlotframeSize
    Encodings = {TRUE, FALSE}
    CTC_CODES = 11
    CTC_SYNC_CODES = 3
    CTC_SYNC_PERIOD = 3
    IndexRange = 16
    DlSlot0 = 2
    FirstAsn = 4
    FirstSlip = 4
    MissLimit = 2
    Threshold = 16
    MeasureSlots = 3
    PauseSlots = 3
    QuietSlots = 2
    NodeLink <- MCNodeLink
    None = None
INVARIANTS
    TypeOK
    SlotsAgree
PROPERTIES
    AsnDecoded
    HaltsBeforeLeaving
