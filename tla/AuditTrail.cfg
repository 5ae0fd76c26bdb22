\* Four refreshes against pages of two rows, an operator who pages back.
SPECIFICATION FairSpec
CONSTANTS
    Requests = {r1, r2, r3, r4}
    PageSize = 2
INVARIANTS TypeOK OneRowPerAttempt OkMeansExecuted NoGapNoDuplicate
PROPERTIES OldestReached
