SPECIFICATION AllSpec
CONSTANTS
    Scenes = {"wireguard", "xray", "document", "keys"}
    Nil = Nil
    Uuids = {"u1", "u2"}
    NoId = ""
    Docs <- MCDocs
    Agents <- MCAgents
    MaxCalls = 3
    MaxDocChanges = 1
    Accesses = {"old", "a1"}
    Old = {"old"}
    Pushers = {"p1", "p2"}
    PskLoop = "loop"
    MaxFiles = 3
    MaxPskRestarts = 2
    Missing = Missing
    NoArray = NoArray
    WgKeys = {w1}
    XrayKeys = {x1, x2}
    OpIds = {o1, o2}
    Callers = {c1, c2}
    FreshOp = FreshOp
    Nobody = Nobody
    NoReq = NoReq
    MaxFaults = 1
    MaxRestarts = 1
INVARIANTS
    TypeOK
    AtMostOncePerOp
    XraySettled
PROPERTIES
    XrayStoreSpec
    DocumentFollowsCalls
    KeysFollowText
CHECK_DEADLOCK FALSE
