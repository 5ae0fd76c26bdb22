\* Every setting right and wrong, kills at every step of two boots, a signal
\* at any time.
SPECIFICATION FairSpec
CONSTANTS
    Environments <- Variants
    Requests = {r1, r2}
    MaxCrashes = 2
INVARIANTS TypeOK ServesWithTables
PROPERTIES OrderlyExitAnswers ComesBack ShutdownEnds
