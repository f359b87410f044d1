SPECIFICATION ServicesSpec
CONSTANTS
    e1 = e1
    e2 = e2
    l = l
    h1 = h1
    h2 = h2
    None = None
    Entities = {e1, e2}
    Links = {l}
    Source <- MCSource
    Target <- MCTarget
    First <- MCFirst
    Models <- MCModels
    MaxDrafts = 2
    MaxSaves = 1
    MaxVersion = 3
    History = 1
    Handlers = {h1, h2}
    a = a
    b = b
    c = c
    Null = Null
    Absent = Absent
    Left = Left
    NoBlob = NoBlob
    NoRow = NoRow
    Nothing = Nothing
    Parents = {a}
    Children = {c}
    Vals = {a}
    Writers = {h1, h2}
    MaxTx = 4
    Guesses = {2}
    Defs <- MCDefs
    BlobIds = {1, 2, 3}
    Tenants = {a, b}
    Sums = {c}
    BlobHandlers = {h1, h2}
    MaxLost = 1
    Callers = {h1, h2}
    MaxSessions = 2
    MaxFails = 2
    Window = 0
    Lockout = 1
    AccessTtl = 0
    RefreshTtl = 1
    MaxTime = 1
    Requests = {a}
    Machines = {c}
    Designs <- MCDesigns
    RuleIds = {1}
    RuleBodies <- MCRuleBodies
    FieldVals = {a, b}
    Clients = {h1, h2}
    Toggles = {FALSE}
    MaxFirings = 1
    MaxImages = 3
    Unset = Unset
    Forms = {h1, h2}
    MaxWritten = 3
    MaxUnheard = 1
    NoVersion = NoVersion
    Tabs = {tab1}
    ItemIds = {b, c}
    Texts = {a}
    Starts <- MCStarts
    Blank = Null
    NoText = Absent
    MaxCalls = 2
    MaxEdits = 1
    MaxLosses = 1
    Unopened = Unopened
    Unmounted = Unmounted
    MaxPublished = 1
    MaxDrops = 1
    Kinds = {"rules", "workflows", "share", "users", "user_roles", "teams", "owd", "roles",
             "parents", "dashboards", "reports"}
    RowIds = {h1, h2}
    NoItem = Absent
    NoTab = None
    MaxClicks = 2
    MaxOthers = 1
    MaxUnanswered = 1
    Ents = {e1, e2}
    FieldsOf <- MCFieldsOf
    RefsOf <- MCRefsOf
    Labels = {b}
    Plain = Null
    Bare = Absent
    DesignKinds = {"form", "view"}
    StoredFirst <- MCStoredFirst
    Authored <- MCAuthored
    EmptyRest = Left
    NotAList = Null
    Unstored = Absent
    Unpicked = None
    MaxShown = 1
    MaxLoads = 2
    MaxInputs = 2
    Events = {a}
    Runners = {h1, h2}
    Policies = {"last_write_wins", "field_level_sor"}
    RecIds = {1, 2}
    MaxTries = 2
    MaxPulls = 1
    MaxUserEdits = 1
    MaxDeaths = 1
    NoRecord = None
    RowKeys = {a, b}
    Imports = {h1, h2}
    Files <- MCFiles
    Chunk = 1
    MaxUpsets = 1
    NoRec = None
    EntityIds = {e1, e2}
    FieldIds = {a, b, c}
    RelIds = {l}
    DraftModels <- MCDraftModels
    MaxDepth = 1
    MaxPublishes = 3
    NoDef = Absent
    NoFormula = Null
    Parts = {"hub"}
CHECK_DEADLOCK FALSE
INVARIANT IdempotentRedelivery
