\* Every kind of client, one connection at a time.
SPECIFICATION HFairSpec
CONSTANTS
    p1 = p1   c1 = c1   u1 = u1
    Principals = {p1}
    UUIDs = {u1}
    Subdomain = Subdomain
    Garbled = Garbled
    NoHost = NoHost
    Conns = {c1}
    PrincipalOf <- Owner
    MaxRequests = 4
    PortStart = 1  PortEnd = 3
    HTTPStart = 3  HTTPEnd = 4
    Kinds <- AllKinds
    MayCrash = TRUE
INVARIANTS
    RequestsAreAnswered
PROPERTIES
    TCPPortIsKept
    
    CancelReleases
    PgrokSettles
