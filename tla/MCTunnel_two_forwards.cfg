\* ssh with two -R options.
SPECIFICATION Spec
CONSTANTS
    p1 = p1   c1 = c1   c2 = c2   u1 = u1   u2 = u2
    Principals = {p1}
    UUIDs = {u1, u2}
    Subdomain = Subdomain
    Garbled = Garbled
    NoHost = NoHost
    Conns = {c1}
    PrincipalOf <- OneUser
    MaxRequests = 4
    PortStart = 1  PortEnd = 2
    HTTPStart = 2  HTTPEnd = 4
    Kinds <- TwoForwards
    MayCrash = FALSE
INVARIANTS
    SubdomainFreed
VIEW View
