CONSTANTS
    demo_admin = demo_admin
    demo_agent = demo_agent
    Uids = {u1, u2}
    Lids = {l1, l2, l3}
    Names = {demo_admin, demo_agent}
    Kinds = {"agent", "staff", "admin"}
    Titles <- MCTitles
    OwnTitle = OwnTitle
    Workers = {w1, w2}
    BadId = BadId
    NoUser = NoUser
    NoRow = NoRow
    NoTxn = NoTxn
    DemoAdmin = demo_admin
    DemoAgents <- OneAgent
    MaxCount = 2
    Bounds <- MCBounds
    NoSeed = NoSeed
SPECIFICATION Spec
SYMMETRY Symmetry
INVARIANTS StateOK ReferencesExist FailuresOnlyByOverlap IInv
PROPERTIES DuplicatesOnlyByOverlap SeedDelivers SeedFailsOnlyForNames AccountsKeepOut AgentsAreLive
