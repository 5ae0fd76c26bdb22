\* Ties in the daemon's clock, undated and orch-less events, pages shorter
\* than the log, two lives of the process, two ticks that could overlap.
SPECIFICATION FairSpec
CONSTANTS
    Ticks = {t1, t2}
    Orchs = {o1}
    NoOrch = NoOrch
    Limit = 2
    ClockSteps = {0, 1}
    OldestFirst = TRUE
    MaxEvents = 4
    MaxNoise = 1
    MaxCopies = 3
    MaxBoots = 2
INVARIANTS TypeOK SingleFlight OncePerLife LostOnlyToTies
PROPERTIES RepeatsOnlyAtWatermark WatermarkFollowsRows MirroredUnlessBlocked ImplementsMirror
