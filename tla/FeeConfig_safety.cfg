SPECIFICATION FeeSpec
CONSTANTS
    w1 = w1
    w2 = w2
    none = none
    MAX_FEE_BPS = 10
    PROTOCOL_FEE_BPS = 2
    NcnFees <- MCNcnFees
    Wallets <- MCWallets
    DefaultWallet = none
    SnapshotEpochs = {1, 2}
    LastEpoch = 3
INVARIANTS
    FeesWithinCap
PROPERTIES
    ImplementsFeeSchedule
