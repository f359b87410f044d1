SPECIFICATION Spec
CONSTANTS
    c1 = c1
    c2 = c2
    MaxSeq = 3
    Writers = 1
    Clients = {c1}
    PumpLimit = 2
    ReplayBatch = 1
    Capacity = 2
    Wire = 1
    MaxDrops = 0
    MaxFails = 0
    MaxReseeds = 0
CHECK_DEADLOCK FALSE
INVARIANT AtLeastOnce
