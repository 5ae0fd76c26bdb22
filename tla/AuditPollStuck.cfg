\* A page full of events the worker skips.
SPECIFICATION FairSpec
CONSTANTS
    Ticks = {t1}
    Orchs = {o1}
    NoOrch = NoOrch
    Limit = 2
    ClockSteps = {1}
    OldestFirst = TRUE
    MaxEvents = 3
    MaxNoise = 2
    MaxCopies = 2
    MaxBoots = 1
PROPERTIES EventuallyMirrored
