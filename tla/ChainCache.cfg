\* Both pairs of keys, loads that may outlive the TTL, two requests.  Stops
\* when the clock and the loads are used up.
SPECIFICATION FairSpec
CONSTANTS
    Keys = {"bondingManager", "poolStakeMap", "serviceRegistry", "serviceUri"}
    NoKey = NoKey
    Needs <- BothNeeds
    Swallow = {"serviceUri"}
    Callers = {c1, c2}
    TTL = 2
    LoadTime = 3
    MaxTime = 3
    MaxLoads = 3
INVARIANTS TypeOK FreshAnswers NoFailureStored SingleFlight
PROPERTIES KeptForTTL EveryCallAnswered
CHECK_DEADLOCK FALSE
