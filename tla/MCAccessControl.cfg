SPECIFICATION FairSpec
CONSTANTS
    Users = {u1}
    Admins = {a1}
    Devices = {d1, d2}
    Procs = {p1, p2}
    Nobody = Nobody
    MaxFaults = 1
    MaxTxs = 2
INVARIANTS
    TypeOK
    OneActiveDevice
    SuspendedOwnerBlocked
    CleanDelete
PROPERTIES
    FollowsLifecycle
    LockReleased
