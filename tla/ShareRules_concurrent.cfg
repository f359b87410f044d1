SPECIFICATION Spec
CONSTANTS
    d1 = d1
    d2 = d2
    u1 = u1
    u2 = u2
    p1 = p1
    p2 = p2
    None = None
    Keep = Keep
    Records <- MCRecords1
    Principals = {u1, u2}
    MaxRules = 1
    Docs <- MCDocs
    Conds <- MCConds
    Accesses = {"read"}
    Patches <- MCPatches
    Limits = {1}
    AutoLimit = 1
    MaxEpoch = 3
    Procs = {p1, p2}
INVARIANTS TypeOK EpochInv RevokeSafe SharesExact
PROPERTIES RevokeIsFinal RulesLeaveManualAlone GrantedAfterWrite
