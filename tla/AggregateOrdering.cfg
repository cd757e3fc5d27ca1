SPECIFICATION Spec
CONSTANTS
    Top = 1
    Structs <- MCStructs
INVARIANTS
    AggregatesRunVerbatim
CHECK_DEADLOCK FALSE
