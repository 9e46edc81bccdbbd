SPECIFICATION FairAllSpec
CONSTANTS
    Scenes = {"loop", "peers"}
    WgKeys = {w1, w2}
    XrayKeys = {x1}
    NoopKeys = {w1}
    Callers = {lp, h1}
    Loop = lp
    OpIds = {}
    FreshOp = FreshOp
    Nobody = Nobody
    NoReq = NoReq
    MaxFaults = 1
    MaxRestarts = 1
    MaxChanges = 2
    MaxPushes = 1
INVARIANTS
    LoopTypeOK
    OnePassConverges
PROPERTIES
    NothingStaysWrong
