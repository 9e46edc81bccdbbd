SPECIFICATION FairAllSpec
CONSTANTS
    Scenes = {"invites_code", "invites_user", "making", "notices", "pool", "pool_roomy"}
    i1 = i1
    u1 = u1
    None = None
    Users = {u1, u2}
    Codes = {i1, i2}
    Handlers = {h1, h2}
    MaxUses <- MCUses
    UsesOfEach = 1
    Numbers = {1, 2, 3}
    Admins = {"a1", "a2"}
    Api = "api"
    Tries = 2
    Sizes = {2, 3}
    Fits = 2
    Shown = 1
    Devices = {"d1", "d2", "d3"}
    Owner <- MCOwner
    SendDeadline = 3
    SendMax = 2
    MaxCommands = 2
    MaxChanges = 1
    Bonus = 2
    GrantTime = 1
    MaxTime = 1
    MaxDebt = 2
    MaxGrants = 2
    MaxFaults = 1
INVARIANTS
    CodesAreTold
    NoticesReach
PROPERTIES
    ActivationsCounted
    EverythingEnds
CHECK_DEADLOCK FALSE
