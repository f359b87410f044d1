SPECIFICATION Spec
CONSTANTS
    e1 = e1
    e2 = e2
    l = l
    h1 = h1
    h2 = h2
    None = None
    Entities = {e1, e2}
    Links = {l}
    Source <- MCSource
    Target <- MCTarget
    First <- MCFirst
    Models <- MCModels
    MaxDrafts = 2
    MaxSaves = 0
    MaxVersion = 3
    History = 1
    Handlers = {h1, h2}
CHECK_DEADLOCK FALSE
INVARIANT NoDangling
