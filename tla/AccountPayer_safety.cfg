SPECIFICATION FairSpec
CHECK_DEADLOCK FALSE
CONSTANTS
    Epochs = {1, 2}
    Kinds <- MCKinds
    Size <- MCSize
    MAX_REALLOC_BYTES = 1
    OVERHEAD = 2
    Amounts <- MCAmounts
    MaxFunded = 44
    Gifts <- MCGifts
    MaxGifted = 2
INVARIANTS
    RentExempt
    LamportsConserved
    RentComesBack
PROPERTIES
    EpochsFinish
