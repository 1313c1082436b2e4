\* The host keys of two instances.
SPECIFICATION Spec
CONSTANTS
    i1 = i1  i2 = i2  k1 = k1
    NoKey = NoKey
    Instances = {i1, i2}
    Clients = {}
    MaxFailed = 0
INVARIANTS
    ServersAgree
CHECK_DEADLOCK FALSE
