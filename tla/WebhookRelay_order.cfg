SPECIFICATION Spec
CONSTANTS
    r1 = r1
    r2 = r2
    MaxSeq = 3
    Writers = 2
    Relays = {r1}
    Limit = 2
    MaxDeaths = 0
    MaxReplays = 0
CHECK_DEADLOCK FALSE
INVARIANT AtLeastOnce
