SPECIFICATION FairTimersSpec
CONSTANTS
    Timer = {K, A}
    keepalive_timer = K
    NumEvents = 2
    StrikesInside = FALSE
    Leave = Leave
    NULL = NULL
INVARIANT TimersLinked
PROPERTY CallbackCalled
