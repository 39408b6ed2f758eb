CONSTANTS
    Dispatches = {d1}
    RenameOnly = {d1}
    Stops = {s1}
    Archives = {a1}
    MaxTurns = 2
    MaxFaults = 1
SPECIFICATION Spec
INVARIANTS StopsWhatItSaw StoppedIsOver ArchiveOnlyRaces
PROPERTIES CommittedReturns StopsReturn
CHECK_DEADLOCK FALSE
