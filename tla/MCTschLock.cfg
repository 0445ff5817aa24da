SPECIFICATION FairSpec
CONSTANTS
    Link = {l1, l2, l3}
    Nbr = {n1, n2}
    NoLink = NoLink
    None = None
INVARIANTS
    TypeOK
    CurrentLinkUsable
    ListsReadable
    TxExcludesLock
PROPERTIES
    LockGranted
