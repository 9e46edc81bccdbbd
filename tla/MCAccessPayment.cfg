SPECIFICATION Spec
CONSTANTS
    Users = {u1}
    Admins = {}
    Devices = {d1}
    Procs = {p1}
    Nobody = Nobody
    MaxFaults = 0
    MaxTxs = 2
PROPERTIES
    DeletedStaysOff
