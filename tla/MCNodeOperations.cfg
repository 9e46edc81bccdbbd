SPECIFICATION AllSpec
CONSTANTS
    Scenes = {"operations", "fleet", "repair", "log", "limiter", "replay", "gate", "samples", "peers"}
    o1 = o1
    o2 = o2
    o3 = o3
    NoNode = NoNode
    ReconcileId = ReconcileId
    Nodes = {n1, n2}
    Single = NoNode
    Capacity = 4
    Devices = {d1, d2}
    Ops = {o1, o2, o3}
    Procs = {p1, p2}
    MaxFaults = 1
    MaxReports = 1
    Own = n1
    MaxAdmin = 1
    GateRequests = {g1}
    Copies = {k1, k2, k3}
    Limit = 3
    Window = 1
    MaxSkew = 2
    MarkTTL = 2
    Ahead = 1
    MaxStall = 2
    MaxTime = 6
    RepairRows = {"r1", "r2", "r3"}
    RepairAccesses = {"wg", "xray"}
    RepairAccessOf <- MCAccessOf
    MaxStarts = 2
    MaxChanges = 1
    LogRequests = {"q1", "q2"}
    LogDay = 2
    LogRetention = 4
    LogTime = 9
    Interval = 2
    Day = 4
    Retention = 5
    Link = 1
    Horizon = 7
    PeerChanges = 3
SYMMETRY MCSymmetry
INVARIANTS
    
    DownIsExplained
    
PROPERTIES
    RepairKeepsAccess
    LogKeepsRecords
    
    PassIsTrue
CHECK_DEADLOCK FALSE
