SPECIFICATION FairSpec

CONSTANTS
    Threads = {t1}
    HiddenThreads = {}
    Names = {n1}
    Absent = Absent
    Kinds = {"start", "persist", "status", "close", "resume", "archive"}
    MaxEvents = 3
    ListCalls = {}
    Turns = {u1}
    NoTurn = NoTurn
    MaxRounds = 1
    MaxFaults = 1

PROPERTIES
    Converges

CHECK_DEADLOCK FALSE
