\* Every sort of user signs in with one browser, two requests in progress.
SPECIFICATION Spec
CONSTANTS
    john = john   johnny = johnny   mary = mary   guest = guest   dots = dots   johns = johns
    marys = marys
    Sessions = {s1}
    Requests = {r1, r2}
    Identifiers = {john, johnny, guest, dots}
    Members = {john, johnny, dots}
    Subdomains = {johns, marys}
    Normalized <- Names
    Tokens = {t1, t2}
    Nonces = {n1}
    Nothing = Nothing
    MaxCodes = 1
INVARIANTS
    TypeOK
    PrincipalsAreDistinct
    OnlyMembersHavePrincipals
PROPERTIES
    TokensOutliveSignIns
SYMMETRY Symmetry
VIEW View
