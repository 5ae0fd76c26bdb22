\* Two events one millisecond apart, in two polls.
SPECIFICATION Spec
CONSTANTS
    Ticks = {t1}
    Orchs = {o1}
    NoOrch = NoOrch
    Limit = 2
    ClockSteps = {0, 1}
    OldestFirst = TRUE
    MaxEvents = 2
    MaxNoise = 0
    MaxCopies = 3
    MaxBoots = 1
PROPERTIES NoDoubleRecord
