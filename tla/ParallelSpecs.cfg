CONSTANTS
    r1 = r1
    r2 = r2
    r3 = r3
    app = app
    lib = lib
    Runs <- MCRuns
    Crates <- MCCrates
    Structs <- MCStructs
    Programs <- MCBroken
    CrateOf <- MCCrateOf
    Route <- MCLocal
    Deny <- MCDeny
    Limit = 2
    MaxKills = 0
SPECIFICATION Spec
INVARIANT ReportedIsProven
