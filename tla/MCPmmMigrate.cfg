CONSTANTS
    t1 = t1
    t2 = t2
    Thread <- MCThread
    Reserved <- MCReserved
    Listed <- MCListed
    NCPU = 2
    TotalPages = 4
    CacheSize = 2
    MaxRun = 2
    MigrateInWindow = TRUE
SYMMETRY MCSymmetry
SPECIFICATION Spec
INVARIANTS
    CachedPagesMarked
