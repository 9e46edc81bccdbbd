SPECIFICATION FairAllSpec
CONSTANTS
    Scenes = {"call", "fleet", "addresses"}
    Applies = {a}
    Revokes = {r1}
    Adapters = {"wireguard", "xray", "mock", "shell", "unavailable"}
    MaxRetries = 1
    MaxFaults = 1
    Calls = {"c1", "c2"}
    Capacity = 4
    Usable = {2, 3, 4}
    MaxAsked = 3
    MaxForgets = 1
INVARIANTS
    AnswersAreTrue
PROPERTIES
    CallsSettle
    OthersSettle
    AddressesHold
CHECK_DEADLOCK FALSE
