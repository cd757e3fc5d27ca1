CONSTANTS
    pda = pda
    alice = alice
    bob = bob
    Keys <- MCKeys
    Lens <- MCLens
    MinimumBalance <- MCRent
    Pda = pda
    Structs <- MCStructs
    Ledgers <- MCLedgers
    Messages <- MCMessages
    MaxGrowth = 40
    RentLamports = 2
SPECIFICATION Spec
INVARIANTS
    TypeOK
    PostsHoldTogether
    OnlyConsentingPay
    OnlyStraddlingUnbalances
PROPERTY StepsAreLean
CHECK_DEADLOCK FALSE
