SPECIFICATION AllSpec
CONSTANTS
    Scenes = {"tokens", "starts", "export", "panel", "usage", "money", "trail", "talk", "talk_anyone", "users"}
    Nil = Nil
    t1 = t1
    e1 = e1
    Devices = {"d1", "d2"}
    Settings <- MCSettings
    NodeRows <- MCNodeRows
    MaxExportStarts = 2
    NoDevice = NoDevice
    MaxChanges = 2
    Week = 2
    Month = 3
    Opening = {0, 3}
    MaxDevices = 2
    MaxDay = 3
    MaxAdded = 1
    Procs = {"p1", "p2"}
    TrailProtocols = {"wireguard", "xray"}
    Batch = 2
    NoAccess = "none"
    MaxJobs = 3
    Senders = {"boss"}
    Admins = {"boss"}
    Texts = {"code", "name", "amount"}
    TalkButtons = {"lookup", "adjust", "batch", "revoke", "reissue"}
    MaxSent = 4
    Accounts = {"a1", "a2"}
    Names = {"n1", "n2"}
    NoName = ""
    NoRow = "no row"
    Goroutines = {"h1", "h2"}
    MaxHits = 1
    MaxRenames = 1
    Accesses = {a1}
    Tokens = {t1, t2}
    Downloads = {e1, e2}
    Nodes = {n1, n2}
    Keys = {k1, k2}
    None = None
    NoKey = NoKey
    FirstNode = n1
    FirstKey = k1
    Handlers = {"user"}
    MaxStarts = 1
    MaxFaults = 1
INVARIANTS
    
    CardsStayTrue
    FiguresAgree
    TrailFollowsDeeds
    AnswersMatchQuestions
    UsersAreMet

    
CHECK_DEADLOCK FALSE
