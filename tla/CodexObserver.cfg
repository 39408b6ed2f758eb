SPECIFICATION Spec

CONSTANTS
    Threads = {t1, t2}
    HiddenThreads = {}
    Names = {n1, n2}
    Absent = Absent
    Kinds = {"start", "persist", "status", "close", "resume", "archive", "rename"}
    MaxEvents = 3
    ListCalls = {}
    Turns = {}
    NoTurn = NoTurn
    MaxRounds = 1
    MaxFaults = 0

INVARIANTS
    TypeOK
    StatusIsCurrent
    QuiescentRows

PROPERTIES
    NoFlicker

SYMMETRY Symmetry

CHECK_DEADLOCK FALSE
