SPECIFICATION OpSpec
CONSTANTS
    StartingEpoch = 1
    MaxEpoch = 2
    RewardedEpochs = {1}
    MaxFailures = 1
    RoutersClosedByHand = TRUE
PROPERTIES
    OperatorVotes
CHECK_DEADLOCK FALSE
