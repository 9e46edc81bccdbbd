SPECIFICATION AllSpec
CONSTANTS
    Scenes = {"wireguard"}
    Nil = Nil
    Uuids = {"u1", "u2"}
    NoId = ""
    Docs <- MCDocs
    Agents <- MCAgents
    MaxCalls = 3
    MaxDocChanges = 1
    Accesses = {"old", "a1"}
    Old = {"old"}
    Pushers = {"p1", "p2"}
    PskLoop = "loop"
    MaxFiles = 3
    MaxPskRestarts = 2
    Missing = Missing
    NoArray = NoArray
    WgKeys = {w1}
    XrayKeys = {}
    OpIds = {o1}
    Callers = {c1, c2}
    FreshOp = FreshOp
    Nobody = Nobody
    NoReq = NoReq
    MaxFaults = 1
    MaxRestarts = 0
INVARIANTS
    NoAckOfFailedOp
CHECK_DEADLOCK FALSE
