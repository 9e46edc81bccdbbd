SPECIFICATION FairAllSpec
CONSTANTS
    Scenes = {"billing", "traffic"}
    Users = {u1, u2}
    NoUser = NoUser
    Clients = {p1}
    Worker = Worker
    Amounts = {2}
    Targets = {0}
    MaxDevices = 1
    MaxDay = 1
    MaxRows = 1
    MaxFaults = 1
    Devices = {"d1", "d2"}
    NoDevice = NoDevice
    Payers = {"u1"}
    Owner <- MCOwner
    MaxBytes = 2
    MaxResets = 1
    XrayToo = {}
INVARIANTS
    BooksBalance
    TrafficIsCounted
PROPERTIES
    WorkersCatchUp
CHECK_DEADLOCK FALSE
