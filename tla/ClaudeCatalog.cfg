CONSTANTS
    Ids = {s1}
    Activities <- MCActivities
    Times <- MCTimes
    Unknown = Unknown
    Lists = {l1, l2}
    Users = {u1}
    Mortal = {u1}
    Clients <- MCClients
SPECIFICATION Spec
SYMMETRY MCSymmetry
PROPERTIES AtomicStore QuietListHeals ArchivedStaysHidden
CHECK_DEADLOCK FALSE
