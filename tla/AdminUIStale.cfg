\* The address changes while the load of the one before is under way.
SPECIFICATION Spec
CONSTANTS
    Orchs = {o1, o2}
    NoOrch = NoOrch
    MaxPending = 3
INVARIANTS DrilldownShowsItsOrch
