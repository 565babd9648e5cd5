SPECIFICATION CallSpec
CONSTANTS
    k1 = k1
    u1 = u1
    Calls <- MCFunctions
    AccountPieces <- MCPieces
    Keepers <- MCKeepers
    Users <- MCUsers
    Retries = 1
    MaxLosses = 2
    MaxLate = 2
INVARIANTS
    CallsAccepted
    OkMeansDone
    InitializedOnce
PROPERTIES
    EnsureSucceeds
