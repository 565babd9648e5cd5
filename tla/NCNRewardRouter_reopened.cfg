SPECIFICATION FairRouterSpec
CHECK_DEADLOCK FALSE
CONSTANTS
    Operators <- MCOperators
    Stake <- MCStake
    ConsensusVotes <- MCConsensusVotes
    Fees <- MCFees
    MAX_BPS = 10
    Rent = 2
    Deposits <- MCDeposits
    MaxDeposited = 12
    MaxIterations = 1
    ClosedEarly = {}
    MaxReopens = 1
PROPERTIES
    RoutingFinishes
