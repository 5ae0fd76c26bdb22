\* Two transcoders whose pool changes at any moment of a walk.
SPECIFICATION FairSpec
CONSTANTS
    o1 = o1
    o2 = o2
    Orchs = {o1, o2}
    Zero = Zero
    Stakes = {1, 2}
    WalkLimit = 3
    Spelled <- MCSpelled
    HistoryLimit = 1
    Rows = {0, 2}
INVARIANTS TypeOK SteadyReported ShownAsStaked HistoryShown
PROPERTIES RequestEnds
