\* Two browsers of one user, two requests in progress.
SPECIFICATION Spec
CONSTANTS
    john = john   johnny = johnny   mary = mary   guest = guest   dots = dots   johns = johns
    marys = marys
    Sessions = {s1, s2}
    Requests = {r1, r2}
    Identifiers = {john}
    Members = {john}
    Subdomains = {johns, marys}
    Normalized <- Names
    Tokens = {t1}
    Nonces = {n1, n2}
    Nothing = Nothing
    MaxCodes = 1
INVARIANTS
    SignedInAsProven
SYMMETRY Symmetry
