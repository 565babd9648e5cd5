SPECIFICATION FairSpec
CHECK_DEADLOCK FALSE
CONSTANTS
    Operators <- MCOperators
    Stake <- MCStake
    ConsensusVotes <- MCConsensusVotes
    Fees <- MCFees
    MAX_BPS = 10
    Rent = 2
    Deposits <- MCDeposits
    MaxDeposited = 10
    MaxIterations = 1
    ClosedEarly <- MCClosedEarly
    MaxReopens = 1
    Vaults <- MCVaults
    Delegations <- MCDelegations
    OperatorFee <- MCOperatorFee
INVARIANTS
    RoutersSolvent
    BooksBalance
    ResumeIsExact
    OperatorResumeIsExact
    NobodyOverpaid
    EveryLamportAccounted
PROPERTIES
    UndisturbedRoutingFinishes
