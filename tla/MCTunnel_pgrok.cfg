\* pgrok for both protocols, two connections of one principal, crashes.
SPECIFICATION Spec
CONSTANTS
    p1 = p1   c1 = c1   c2 = c2   u1 = u1   u2 = u2
    Principals = {p1}
    UUIDs = {u1}
    Subdomain = Subdomain
    Garbled = Garbled
    NoHost = NoHost
    Conns = {c1, c2}
    PrincipalOf <- OneUser
    MaxRequests = 4
    PortStart = 1  PortEnd = 3
    HTTPStart = 3  HTTPEnd = 5
    Kinds <- PgrokKinds
    MayCrash = TRUE
INVARIANTS
    TypeOK
    RoutesAreOwned
    ReportedEndpointServed
PROPERTIES
    SavedPortIsHeld
    SubdomainIsStable
    ImplementsRegistry
SYMMETRY Symmetry
VIEW View
