SPECIFICATION KeeperSpec
CONSTANTS
    StartingEpoch = 1
    MaxEpoch = 2
    RewardedEpochs = {2}
    MaxFailures = 1
    RoutersClosedByHand = TRUE
INVARIANTS
    ActsOnReachedPhase
PROPERTIES
    EpochsComplete
