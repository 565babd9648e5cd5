SPECIFICATION FairSpec
CONSTANTS
    m1 = m1
    m2 = m2
    v1 = v1
    v2 = v2
    v3 = v3
    Mints = {m1, m2}
    Vaults = {v1, v2, v3}
    SupportedMint <- VaultMint
    Weights = {0, 2, 3}
    MAX_ST_MINTS = 2
    MAX_VAULTS = 2
    TABLE_CHUNKS = 2
    Operators = {0, 1, 2}
    Securities = {0, 1}
    MAX_OPERATORS = 2
INVARIANTS
    VaultsPriced
    StakeAddsUp
    ProgressExact
PROPERTIES
    FinalIsFrozen
    TableSettles
    SnapshotCompletes
