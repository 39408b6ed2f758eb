CONSTANTS
    a = a
    b = b
    Renames = {r1}
    Opens = {o1}
    Name <- MCName
    NoName = NoName
    Others = {a, b}
    Cancelled = {r1, o1}
    MayHang = {r1}
SPECIFICATION Spec
INVARIANTS NotIntoEarlyCapture ReportedNameWasTrue NoClientLeft
PROPERTY CallsEnd
CHECK_DEADLOCK FALSE
