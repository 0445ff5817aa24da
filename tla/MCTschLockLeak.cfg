SPECIFICATION Spec
CONSTANTS
    Link = {l1, l2, l3}
    Nbr = {n1, n2}
    NoLink = NoLink
    None = None
INVARIANT LockReleased
