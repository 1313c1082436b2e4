\* Two users whose identifiers normalize to one subdomain.
SPECIFICATION Spec
CONSTANTS
    john = john   johnny = johnny   mary = mary   guest = guest   dots = dots   johns = johns
    marys = marys
    Sessions = {s1}
    Requests = {r1, r2}
    Identifiers = {john, johnny, guest, dots}
    Members = {john, johnny, dots}
    Subdomains = {johns, marys}
    Normalized <- Names
    Tokens = {t1, t2}
    Nonces = {n1}
    Nothing = Nothing
    MaxCodes = 1
INVARIANTS
    EveryUserGetsASubdomain
