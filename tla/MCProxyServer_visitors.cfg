\* Two users compete for one port, with a visitor of the first.
SPECIFICATION PFairSpec
CONSTANTS
    p1 = p1   p2 = p2   c1 = c1   c2 = c2   u1 = u1   v1 = v1
    Principals = {p1, p2}
    UUIDs = {u1}
    Subdomain = Subdomain
    Garbled = Garbled
    NoHost = NoHost
    NoConn = NoConn
    Conns = {c1, c2}
    PrincipalOf <- EachAUser
    MaxRequests = 4
    PortStart = 1  PortEnd = 2
    HTTPStart = 2  HTTPEnd = 3
    Kinds <- ClosingKind
    MayCrash = TRUE
    Visitors = {v1}
    Visited <- OneHost
INVARIANTS
    RoutesAreOwned
    PromisesAreKept
PROPERTIES
    StreamsEnd
