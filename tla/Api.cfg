\* Every route, with daemons that fail and come back as other versions.
SPECIFICATION FairSpec
CONSTANTS
    None = None
    Deadline = 1
    MaxDate = 2000
    Address = "0xA"
    Configured = {TRUE, FALSE}
INVARIANTS TypeOK OnlyAdmittedCalls ClaimsWereSaid MeaningKept EveryMessageSurvives
PROPERTIES EveryRequestAnswered
