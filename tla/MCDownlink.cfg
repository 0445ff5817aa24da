SPECIFICATION FairSpec
CONSTANTS
    N_FLOW = 2
    src_dst_nodes <- SrcDst
    dl_fwd_nodes <- Forwards
    MaxSeq = 2
INVARIANTS
    TypeOK
    OrderedAlongPath
PROPERTIES
    NeverBackwards
    MessagesKept
    NewestDelivered
