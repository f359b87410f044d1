SPECIFICATION LoopsSpec
CONSTANTS
    MaxSeq = 3
    Writers = 2
    r1 = r1
    r2 = r2
    Relays = {r1, r2}
    Limit = 2
    MaxDeaths = 1
    MaxReplays = 1
    n1 = n1
    n2 = n2
    n3 = n3
    n4 = n4
    g1 = g1
    g2 = g2
    s1 = s1
    s2 = s2
    Notes = {n1, n2, n3, n4}
    Sweepers = {s1, s2}
    Group <- MCGroup
    MaxAborts = 1
    j = j
    w1 = w1
    w2 = w2
    Schedules = {j}
    Crons <- MCCrons
    Slots <- MCSlots
    Workers = {w1, w2}
    Horizon = 2
    MaxEdits = 1
    MaxCrashes = 1
    Never = Never
CHECK_DEADLOCK FALSE
INVARIANTS OneSummaryEach NothingSkipped OncePerSlot
PROPERTIES StormsEnd Relayed EverySlotFires
