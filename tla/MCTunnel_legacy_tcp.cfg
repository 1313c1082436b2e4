\* An old pgrok tcp client.
SPECIFICATION Spec
CONSTANTS
    p1 = p1   c1 = c1   c2 = c2   u1 = u1   u2 = u2
    Principals = {p1}
    UUIDs = {u1}
    Subdomain = Subdomain
    Garbled = Garbled
    NoHost = NoHost
    Conns = {c1}
    PrincipalOf <- OneUser
    MaxRequests = 4
    PortStart = 1  PortEnd = 2
    HTTPStart = 2  HTTPEnd = 4
    Kinds <- LegacyKinds
    MayCrash = FALSE
INVARIANTS
    SubdomainFreed
VIEW View
