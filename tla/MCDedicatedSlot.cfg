SPECIFICATION FairDedicatedSpec
CONSTANTS
    Lifetime = 1
    Room = 1
    Null = Null
INVARIANT LinksExpire
PROPERTY Reconnects
