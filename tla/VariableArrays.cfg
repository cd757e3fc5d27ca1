CONSTANTS
    Base = 3
    PrefixLen = 1
    KeyLen = 2
    DiscLen = 1
    UsizeMax = 8
    AmountLen = 1
    Moved = 1
    LeastAmount = 1
    MaxSeedLen = 2
    MaxSeeds = 4
    ProgramId <- MCProgramId
    SystemId <- MCSystemId
    AMM_PROG <- MCAmm
    FOREIGN <- MCForeign
    VAULT <- MCVault
    Hash <- MCHash
    RentMinimum <- MCRentMinimum
    Instructions <- Arrays
    Calls <- MCCalls
SPECIFICATION Spec
INVARIANT GuardedFieldIsFound
CHECK_DEADLOCK FALSE
