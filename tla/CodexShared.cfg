SPECIFICATION Spec

CONSTANTS
    Threads = {t1, h1}
    HiddenThreads = {h1}
    Names = {n1}
    Absent = Absent
    Kinds = {"start", "status", "unarchive"}
    MaxEvents = 2
    ListCalls = {c1}
    Turns = {}
    NoTurn = NoTurn
    MaxRounds = 1
    MaxFaults = 1

INVARIANTS
    HiddenNeverVisible
    PublishedIsCurrent
    NoWrongStatus

PROPERTIES
    TwoRowsOnlyByOvertaking

CHECK_DEADLOCK FALSE
