----------------------------- MODULE MCWebServer -----------------------------
(***************************************************************************)
(* Small instances of WebServer.                                           *)
(***************************************************************************)
EXTENDS WebServer, TLC

CONSTANTS john, johnny, mary, guest, dots, johns, marys

\* john@a.org and john@b.org get one subdomain; guest has an address of another
\* domain; the name dots has nothing left when it is normalized.
Names == [i \in Identifiers |-> CASE i \in {john, johnny} -> johns
                                 [] i \in {mary, guest} -> marys
                                 [] i = dots -> Nothing]

\* Cookies, slots, tokens and nonces are interchangeable.
Symmetry == Permutations(Sessions) \cup Permutations(Requests)
            \cup Permutations(Tokens) \cup Permutations(Nonces)

\* Nothing but SignedInAsProven looks at the history.
View == <<principals, stored, request, logins, codes>>
=============================================================================
