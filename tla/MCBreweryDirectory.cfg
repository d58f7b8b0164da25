\* Pages of two, up to four breweries that may come and go at any time.
SPECIFICATION DirectorySpec
CONSTANTS
    PageSize = 2
    MaxBorn = 4
INVARIANTS
    RepeatsAreNewcomers
    MissesAreDeletions
PROPERTIES
    ReachesTheEnd
CHECK_DEADLOCK FALSE
