\* Two orchs, four requests under way, answered in any order.
SPECIFICATION Spec
CONSTANTS
    Orchs = {o1, o2}
    NoOrch = NoOrch
    MaxPending = 4
SYMMETRY OrchSymmetry
INVARIANTS TypeOK LoggedOutIsClean DataNeedsToken SettlesOnSubject SpinnersEnd
