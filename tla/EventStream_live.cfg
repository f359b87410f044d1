SPECIFICATION FairSpec
CONSTANTS
    c1 = c1
    c2 = c2
    MaxSeq = 4
    Writers = 2
    Clients = {c1}
    PumpLimit = 2
    ReplayBatch = 2
    Capacity = 1
    Wire = 1
    MaxDrops = 1
    MaxFails = 1
    MaxReseeds = 1
CHECK_DEADLOCK FALSE
INVARIANTS ReceivedInOrder NothingMissed
PROPERTY Arrives
