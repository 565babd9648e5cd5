SPECIFICATION KeeperSpec
CONSTANTS
    StartingEpoch = 1
    MaxEpoch = 2
    RewardedEpochs = {2}
    MaxFailures = 0
    RoutersClosedByHand = FALSE
PROPERTIES
    EpochsComplete
