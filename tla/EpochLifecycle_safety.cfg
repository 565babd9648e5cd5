SPECIFICATION FairSpec
CONSTANTS
    Operators = {1, 2}
    SLOTS_PER_EPOCH = 2
    MIN_EPOCHS_BEFORE_CLOSE = 1
    MAX_EPOCHS_BEFORE_CLOSE = 2
    MIN_VALID_SLOTS = 1
    MAX_VALID_SLOTS = 3
    MaxVoteSlot = 2
    MaxSlot = 6
INVARIANTS
    StatusIsTrue
    NothingLeftBehind
    ClosedInTime
    VoteIsPossible
PROPERTIES
    NeverReopened
    PhasesAdvance
    EpochCloses
