SPECIFICATION DigestSpec
CONSTANTS
    n1 = n1
    n2 = n2
    n3 = n3
    n4 = n4
    g1 = g1
    g2 = g2
    s1 = s1
    s2 = s2
    Notes = {n1, n2, n3}
    Group <- MCThree
    MaxAborts = 2
    Sweepers = {s1, s2}
CHECK_DEADLOCK FALSE
INVARIANT NothingHidden
