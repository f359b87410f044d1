SPECIFICATION FairSpec
CONSTANTS
    u1 = u1
    w1 = w1
    w2 = w2
    Rows = {1, 2, 3}
    Target <- MCTarget
    Effective <- MCOneUser
    Workers = {w1, w2}
    Batch = 2
    MaxRetries = 2
    MaxInserted = 2
    MaxAborts = 1
    Faulty = {"email", "fanout", "endpoint"}
CHECK_DEADLOCK FALSE
INVARIANTS OnePassPerRow NoDuplicates DoneIsDelivered
PROPERTIES PromiseKept SettledIsFinal Settles
