SPECIFICATION AllSpec
CONSTANTS
    Scenes = {"invites_user"}
    i1 = i1
    u1 = u1
    None = None
    Users = {u1}
    Codes = {i1, i2}
    Handlers = {h1}
    MaxUses <- MCUses
    UsesOfEach = 1
    Numbers = {1}
    Admins = {"a1"}
    Api = "api"
    Tries = 1
    Sizes = {1}
    Fits = 1
    Shown = 1
    Devices = {"d1"}
    Owner <- MCOwner
    SendDeadline = 1
    SendMax = 1
    MaxCommands = 1
    MaxChanges = 1
    Bonus = 2
    GrantTime = 1
    MaxTime = 1
    MaxDebt = 2
    MaxGrants = 2
    MaxFaults = 1
INVARIANTS
    OneBonusPerActivation
CHECK_DEADLOCK FALSE
