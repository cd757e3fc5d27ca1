SPECIFICATION Spec
CONSTANTS
    Top = 1
    Structs <- MCStructs
INVARIANTS
    TypeOK
    ValidateIsContract
    UnlistedIsProven
    EnforcedSomewhere
    DropIn
CHECK_DEADLOCK FALSE
