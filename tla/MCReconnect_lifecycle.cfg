\* Two instances start on an empty database, exit and start again, under one client.
SPECIFICATION FairSpec
CONSTANTS
    i1 = i1  i2 = i2  k1 = k1
    NoKey = NoKey
    Instances = {i1, i2}
    Clients = {k1}
    MaxFailed = 6
INVARIANTS
    TypeOK
    PresentedAreStored
    SomebodyStarts
    SleepFollowsOutage
PROPERTIES
    StoredKeysStay
    AllServe
    Reconnects
CHECK_DEADLOCK FALSE
