SPECIFICATION TimersSpec
CONSTANTS
    Timer = {K, A, B}
    keepalive_timer = K
    NumEvents = 2
    StrikesInside = TRUE
    Leave = Leave
    NULL = NULL
INVARIANT TimersLinked
