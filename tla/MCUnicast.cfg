SPECIFICATION Spec
CONSTANTS
    SeqRange = 5
    MaxSeqnos = 3
    MaxTx = 2
    InputCap = 2
    OtherNumber = {1}
    Packet = {1, 2}
    None = None
INVARIANT TypeOK
PROPERTY DeliveredOnce
