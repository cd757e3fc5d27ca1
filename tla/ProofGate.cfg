CONSTANTS
    r1 = r1
    r2 = r2
    r3 = r3
    app = app
    lib = lib
    Runs <- MCRuns
    Crates <- MCCrates
    Structs <- MCStructs
    Programs <- MCPrograms
    CrateOf <- MCCrateOf
    Route <- MCRoute
    Deny <- MCDeny
    Limit = 1
    MaxKills = 1
SPECIFICATION FairSpec
INVARIANTS
    TypeOK
    GreenMeansProven
    ReportExact
    OnlyPinnedLibrary
PROPERTIES
    PopulatedCacheIsReused
    RunsEnd
