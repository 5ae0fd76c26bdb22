\* A mixed-case address of a transcoder the mirror has rows of.
SPECIFICATION Spec
CONSTANTS
    o1 = o1
    o2 = o2
    Orchs = {o1, o2}
    Zero = Zero
    Stakes = {1}
    WalkLimit = 3
    Spelled <- MCSpelled
    HistoryLimit = 1
    Rows = {0, 2}
INVARIANT NotFoundMeansUnobserved
