CONSTANTS
    Jobs = {j1, j2}
    MaxReloads = 3
    MaxVersion = 2
    MaxFaults = 1
SPECIFICATION Spec
INVARIANTS TypeOK NoSilentLoss AnswersEveryRequest ViewIsCurrent
PROPERTIES NeverOlder RefinesCoalesced
CHECK_DEADLOCK FALSE
