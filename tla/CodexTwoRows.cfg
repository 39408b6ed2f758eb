SPECIFICATION Spec

CONSTANTS
    Threads = {t1}
    HiddenThreads = {}
    Names = {n1}
    Absent = Absent
    Kinds = {}
    MaxEvents = 3
    ListCalls = {c1}
    Turns = {}
    NoTurn = NoTurn
    MaxRounds = 1
    MaxFaults = 0

INVARIANTS
    OneRowPerThread

CHECK_DEADLOCK FALSE
