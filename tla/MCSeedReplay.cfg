\* Three runs, one after the other or at once, each killed anywhere, and two
\* registrations of strangers.
CONSTANTS
    r1 = r1
    r2 = r2
    r3 = r3
    Runs <- AnyRun
    Stranger = Stranger
    Files <- SomeFiles
    MaxStrangers = 2
SPECIFICATION SeedSpec
SYMMETRY Symmetry
INVARIANTS
    NothingTwice
    SuccessIsWholeFile
    FailsForAReason

CHECK_DEADLOCK FALSE
