CONSTANTS
    pda = pda
    alice = alice
    bob = bob
    Keys <- MCKeys
    Lens <- MCLens
    MinimumBalance <- MCRent
    Pda = pda
    InitRent = 1
    CounterRent = 2
    Messages <- MCMessages
    Wallets <- MCWallets
    Amounts = {1}
    CreateLens = {0, 8}
SPECIFICATION Spec
INVARIANT ClosedIsNeverLive
