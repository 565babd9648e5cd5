SPECIFICATION Spec
CONSTANTS
    o1 = o1
    o2 = o2
    o3 = o3
    o4 = o4
    o5 = o5
    Operators = {o1, o2, o3, o4, o5}
    StatusCodes = {0, 1, 2, 3}
    NoBallot = NoBallot
    VotingEpoch = 0
    PRECISION = 1000
    U64_MAX = 511
    MAX_OPERATORS = 5
    SLOTS_PER_EPOCH = 2
    MIN_EPOCHS_BEFORE_STALL = 1
    MAX_EPOCHS_BEFORE_STALL = 2
    MIN_VALID_SLOTS_AFTER_CONSENSUS = 1
    MAX_VALID_SLOTS_AFTER_CONSENSUS = 2
    MaxSlot = 6
    StakeWeight <- EdgeWeights
    TotalStakeWeight = 1000
INVARIANT
    OutcomeIsRecorded
