------------------------------ MODULE WebServer ------------------------------
(***************************************************************************)
(* The web server of pgrokd: sessions, the sign-in through an OIDC         *)
(* provider, and the principals it creates.                                *)
(*                                                                         *)
(* The session middleware reads a session when a request comes in and      *)
(* writes it back when the handler has returned, so the handlers of one    *)
(* session's requests work on copies of it, and the last write wins.       *)
(* `request[r]` is the handler that runs in slot r, with its copy; `at`    *)
(* names the next stretch of code between two accesses to the database,    *)
(* the provider or the session store.  A principal's ID is its place in    *)
(* the table.  An identifier stands for what the provider's claims say of  *)
(* a user, the email address included.                                     *)
(*                                                                         *)
(* A server without an identity provider answers every sign-in with an     *)
(* error before it touches anything, and is left out.                      *)
(***************************************************************************)
EXTENDS Naturals, Sequences, FiniteSets

CONSTANTS
    Sessions,       \* the browsers' cookies
    Requests,       \* slots for requests in progress
    Identifiers,    \* the users the provider knows
    Members,        \* those who have an identifier and the required domain
    Subdomains,
    Normalized,     \* NormalizeIdentifier, or Nothing when it gives an error
    Tokens,         \* random tokens
    Nonces,         \* random nonces
    Nothing,        \* the empty string
    MaxCodes        \* bound: codes the provider keeps at a time

WebAssumption ==
    /\ Members \subseteq Identifiers
    /\ Normalized \in [Identifiers -> Subdomains \cup {Nothing}]
    /\ Nothing \notin Subdomains \cup Nonces \cup Identifiers \cup Sessions
    /\ MaxCodes \in Nat
ASSUME WebAssumption

VARIABLES
    principals,     \* the table, in the order of the IDs
    stored,         \* the session store
    request,
    logins,         \* login pages of the provider that are open in browsers
    codes,          \* authorization codes the provider has not redeemed
    proven          \* history: who has logged in on pages a session asked for,
                    \* and, at Nothing, on pages that no session asked for

vars == <<principals, stored, request, logins, codes, proven>>

SessionData == [userID : Nat, nonce : Nonces \cup {Nothing}]
Code == [nonce : Nonces \cup {Nothing}, identifier : Identifiers]
\* The query of /-/oidc/callback: a code that is spent, or none, is Nothing.
Link == [state : Nonces \cup {Nothing}, code : Code \cup {Nothing}]
Principal == [identifier : Identifiers, token : Tokens, subdomain : Subdomains]
Login == [session : Sessions, nonce : Nonces]
\* A login page of the provider that no session asked for has no nonce.
Unasked == [session |-> Nothing, nonce |-> Nothing]

NewSession == [userID |-> 0, nonce |-> Nothing]
NoLink == [state |-> Nothing, code |-> Nothing]

Places == {"idle", "auth", "callback", "userInfo", "signOut", "find", "create",
           "save", "redirect"}
Handler == [at : Places, session : Sessions \cup {Nothing}, data : SessionData,
            link : Link, identifier : Identifiers \cup {Nothing}]
Idle == [at |-> "idle", session |-> Nothing, data |-> NewSession,
         link |-> NoLink, identifier |-> Nothing]

Init ==
    /\ principals = <<>>
    /\ stored = [s \in Sessions |-> NewSession]
    /\ request = [r \in Requests |-> Idle]
    /\ logins = {}
    /\ codes = {}
    /\ proven = [s \in Sessions \cup {Nothing} |-> {}]
----------------------------------------------------------------------------
(***************************************************************************)
(* The middleware.                                                         *)
(***************************************************************************)
Receive(r, s, at, link) ==
    /\ request[r].at = "idle"
    /\ request' = [request EXCEPT ![r] =
           [at |-> at, session |-> s, data |-> stored[s], link |-> link,
            identifier |-> Nothing]]
    /\ UNCHANGED <<principals, stored, logins, codes, proven>>

\* The handler returns with a session it has changed, or has not changed.
Return(r, at, data) ==
    request' = [request EXCEPT ![r] =
        [at |-> at, session |-> request[r].session, data |-> data, link |-> NoLink,
         identifier |-> Nothing]]
ReturnUnchanged(r) == request' = [request EXCEPT ![r] = Idle]

\* The browser sees the answer after the session is written; an error of the
\* store is logged only.
Save(r) ==
    LET s == request[r].session
        data == request[r].data
    IN  /\ request[r].at \in {"save", "redirect"}
        /\ \/ stored' = [stored EXCEPT ![s] = data]
           \/ UNCHANGED stored
        /\ logins' = IF request[r].at = "redirect"
                     THEN logins \cup {[session |-> s, nonce |-> data.nonce]}
                     ELSE logins
        /\ ReturnUnchanged(r)
        /\ UNCHANGED <<principals, codes, proven>>
----------------------------------------------------------------------------
(***************************************************************************)
(* The handlers.                                                           *)
(***************************************************************************)
\* MustRandomChars never gives a nonce anyone remembers.
Fresh(n) ==
    /\ \A s \in Sessions : stored[s].nonce # n
    /\ \A r \in Requests : request[r].data.nonce # n /\ request[r].link.state # n
    /\ \A page \in logins : page.nonce # n
    /\ \A c \in codes : c.nonce # n

\* The provider may be out of reach.
Auth(r) ==
    /\ request[r].at = "auth"
    /\ \/ \E n \in Nonces :
            Fresh(n) /\ Return(r, "redirect", [request[r].data EXCEPT !.nonce = n])
       \/ ReturnUnchanged(r)
    /\ UNCHANGED <<principals, stored, logins, codes, proven>>

SignOut(r) ==
    /\ request[r].at = "signOut"
    /\ Return(r, "save", [request[r].data EXCEPT !.userID = 0])
    /\ UNCHANGED <<principals, stored, logins, codes, proven>>

\* Reads a principal by ID, whatever comes of it.
UserInfo(r) ==
    /\ request[r].at = "userInfo"
    /\ ReturnUnchanged(r)
    /\ UNCHANGED <<principals, stored, logins, codes, proven>>

Expected(r) == request[r].data.nonce

\* The nonce is deleted however the callback ends.
Spent(r) == [request[r].data EXCEPT !.nonce = Nothing]
Fail(r) == Return(r, "save", Spent(r))
SignIn(r, id) == Return(r, "save", [Spent(r) EXCEPT !.userID = id])

MismatchedState(r) ==
    /\ request[r].at = "callback"
    /\ request[r].link.state # Expected(r)
    /\ Fail(r)
    /\ UNCHANGED <<principals, stored, logins, codes, proven>>

\* Faulty: forgets the required domain.
AcceptsAnyDomain(i) == Normalized[i] # Nothing

\* Faulty: drops the error of NormalizeIdentifier.
AcceptsAnyName(i) == i \in Members

Accepts(i) == i \in Members /\ Normalized[i] # Nothing

\* The callback knows its user, and reads the query no more.
GoOn(r, i) ==
    request' = [request EXCEPT ![r].at = "find", ![r].link = NoLink, ![r].identifier = i]

\* Faulty: takes an ID token whatever its nonce is.
ExchangeAnyNonce(r) ==
    /\ request[r].at = "callback"
    /\ request[r].link.state = Expected(r)
    /\ \E c \in codes :
          /\ c = request[r].link.code
          /\ Accepts(c.identifier)
          /\ codes' = codes \ {c}
          /\ GoOn(r, c.identifier)
    /\ UNCHANGED <<principals, stored, logins, proven>>

\* The provider redeems the code, and the ID token carries the nonce.  A session
\* that has no nonce expects none, of the link and of the token.
Exchange(r) ==
    /\ request[r].at = "callback"
    /\ request[r].link.state = Expected(r)
    /\ \E c \in codes :
          /\ c = request[r].link.code
          /\ c.nonce = Expected(r)
          /\ Accepts(c.identifier)
          /\ codes' = codes \ {c}
          /\ GoOn(r, c.identifier)
    /\ UNCHANGED <<principals, stored, logins, proven>>

\* Any step of handleOIDCCallback fails, before the exchange or after it.
ExchangeFails(r) ==
    /\ request[r].at = "callback"
    /\ request[r].link.state = Expected(r)
    /\ codes' \in {codes, codes \ {request[r].link.code}}
    /\ Fail(r)
    /\ UNCHANGED <<principals, stored, logins, proven>>
----------------------------------------------------------------------------
(***************************************************************************)
(* UpsertPrincipal: FirstOrCreate is a SELECT, and an INSERT if nothing    *)
(* was found, which the unique columns may refuse.                         *)
(***************************************************************************)
Row(i, token) ==
    [identifier |-> i, token |-> token, subdomain |-> Normalized[i]]

\* Faulty: subdomains need not be unique.
ConflictsUnlessNew(row) ==
    \E id \in DOMAIN principals :
        \/ principals[id].identifier = row.identifier
        \/ principals[id].token = row.token

Conflicts(row) ==
    \E id \in DOMAIN principals :
        \/ principals[id].identifier = row.identifier
        \/ principals[id].token = row.token
        \/ principals[id].subdomain = row.subdomain

\* Faulty: a known user gets the new token.
FindAndAssign(r) ==
    /\ request[r].at = "find"
    /\ \/ \E id \in DOMAIN principals, token \in Tokens :
            /\ principals[id].identifier = request[r].identifier
            /\ principals' = [principals EXCEPT ![id].token = token]
            /\ SignIn(r, id)
       \/ /\ \A id \in DOMAIN principals :
                principals[id].identifier # request[r].identifier
          /\ request' = [request EXCEPT ![r].at = "create"]
          /\ UNCHANGED principals
    /\ UNCHANGED <<stored, logins, codes, proven>>

Find(r) ==
    /\ request[r].at = "find"
    /\ \/ \E id \in DOMAIN principals :
            principals[id].identifier = request[r].identifier /\ SignIn(r, id)
       \/ /\ \A id \in DOMAIN principals :
                principals[id].identifier # request[r].identifier
          /\ request' = [request EXCEPT ![r].at = "create"]
       \/ Fail(r)
    /\ UNCHANGED <<principals, stored, logins, codes, proven>>

Create(r) ==
    LET i == request[r].identifier
    IN  /\ request[r].at = "create"
        /\ \/ \E token \in Tokens :
                /\ ~Conflicts(Row(i, token))
                /\ principals' = Append(principals, Row(i, token))
                /\ SignIn(r, Len(principals) + 1)
           \/ UNCHANGED principals /\ Fail(r)
        /\ UNCHANGED <<stored, logins, codes, proven>>
----------------------------------------------------------------------------
(***************************************************************************)
(* Browsers, the provider, the session store and the process.              *)
(***************************************************************************)
\* A browser opens a page of the web server.
Visit(r) ==
    \E s \in Sessions, at \in {"auth", "userInfo", "signOut"} : Receive(r, s, at, NoLink)

\* The provider sends a browser back, or a user opens a link, maybe again, in
\* another browser, with a code that is spent, or with a state and a code that do
\* not belong together.
CallbackLinks == [state : Nonces \cup {Nothing}, code : codes \cup {Nothing}]

ComeBack(r) == \E s \in Sessions, link \in CallbackLinks : Receive(r, s, "callback", link)

\* A user logs in on a page of the provider.
LogIn(page, i) ==
    /\ Cardinality(codes) < MaxCodes
    /\ codes' = codes \cup {[nonce |-> page.nonce, identifier |-> i]}
    /\ proven' = [proven EXCEPT ![page.session] = @ \cup {i}]
    /\ UNCHANGED <<principals, stored, request, logins>>

Leave(page) ==
    /\ logins' = logins \ {page}
    /\ UNCHANGED <<principals, stored, request, codes, proven>>

ExpireCode(c) ==
    /\ codes' = codes \ {c}
    /\ UNCHANGED <<principals, stored, request, logins, proven>>

ExpireSession(s) ==
    /\ stored' = [stored EXCEPT ![s] = NewSession]
    /\ UNCHANGED <<principals, request, logins, codes, proven>>

\* pgrokd stops and starts.
Crash ==
    /\ request' = [r \in Requests |-> Idle]
    /\ UNCHANGED <<principals, stored, logins, codes, proven>>

Handle(r) ==
    \/ Auth(r) \/ SignOut(r) \/ UserInfo(r) \/ MismatchedState(r)
    \/ Exchange(r) \/ ExchangeFails(r) \/ Find(r) \/ Create(r) \/ Save(r)

Next ==
    \/ \E r \in Requests : Visit(r) \/ ComeBack(r) \/ Handle(r)
    \/ \E page \in logins : Leave(page)
    \/ \E page \in logins \cup {Unasked}, i \in Identifiers : LogIn(page, i)
    \/ \E c \in codes : ExpireCode(c)
    \/ \E s \in Sessions : ExpireSession(s)
    \/ Crash

Spec == Init /\ [][Next]_vars
----------------------------------------------------------------------------
(***************************************************************************)
(* Properties.                                                             *)
(***************************************************************************)
\* Every variable keeps its type; a principal's subdomain is never empty, and
\* the userID of a session is the ID of a principal. (web_server.go 102-246,
\* principals.go 9-18)
TypeOK ==
    /\ principals \in Seq(Principal)
    /\ stored \in [Sessions -> SessionData]
    /\ request \in [Requests -> Handler]
    /\ logins \subseteq Login
    /\ codes \subseteq Code
    /\ proven \in [Sessions \cup {Nothing} -> SUBSET Identifiers]
    /\ \A s \in Sessions : stored[s].userID <= Len(principals)
    /\ \A r \in Requests : /\ request[r].data.userID <= Len(principals)
                           /\ request[r].at # "idle" => request[r].session \in Sessions

(***************************************************************************)
(* A callback that finds a nonce in its session goes on for nobody but a   *)
(* user who has logged in at the provider on a page this session asked     *)
(* for: the ID token of a code made without a nonce, or for another page,  *)
(* is refused.  A callback that finds none can only bring in a user who    *)
(* has logged in on a page that no session asked for.  So a session,       *)
(* stored or in the hands of a request, is signed in as one of these,      *)
(* however its requests overlap, whichever browser opens a callback with   *)
(* whatever state and code, and wherever pgrokd crashes.                   *)
(* (web_server.go 177-178, 197-239, 297-299)                               *)
(***************************************************************************)
IsProven(data, s) ==
    data.userID # 0 =>
        principals[data.userID].identifier \in proven[s] \cup proven[Nothing]

NoncesBindCallbacks ==
    \A r \in Requests :
        request[r].at \in {"find", "create"} /\ request[r].data.nonce # Nothing =>
            request[r].identifier \in proven[request[r].session]

SignedInAsProven ==
    /\ \A s \in Sessions : IsProven(stored[s], s)
    /\ \A r \in Requests :
          request[r].at # "idle" => IsProven(request[r].data, request[r].session)
    /\ NoncesBindCallbacks

(***************************************************************************)
(* Nobody shares an identifier, a token or a subdomain with another user:  *)
(* the SSH server takes the host of a principal to be his alone.           *)
(* (principals.go 9-18, 32-40; sshd/client.go 210-211)                     *)
(***************************************************************************)
PrincipalsAreDistinct ==
    \A a, b \in DOMAIN principals : a # b =>
        /\ principals[a].identifier # principals[b].identifier
        /\ principals[a].token # principals[b].token
        /\ principals[a].subdomain # principals[b].subdomain

(***************************************************************************)
(* Only a user of the required domain has a principal, and his subdomain   *)
(* is that of his identifier. (web_server.go 219-237, 331-336)             *)
(***************************************************************************)
OnlyMembersHavePrincipals ==
    \A id \in DOMAIN principals :
        LET p == principals[id]
        IN  /\ p.identifier \in Members
            /\ p.subdomain = Normalized[p.identifier]

(***************************************************************************)
(* Signing in again, or at the same time in two tabs, keeps the token that *)
(* the user's pgrok is configured with, and his subdomain.                 *)
(* (principals.go 32-40)                                                   *)
(***************************************************************************)
TokensOutliveSignIns ==
    [][\A id \in DOMAIN principals :
          id \in DOMAIN principals' /\ principals'[id] = principals[id]]_vars

(***************************************************************************)
(* README.md 14: "It gives stable subdomain for every user".  A member     *)
(* whose identifier can be normalized has a principal, or can still get    *)
(* one. (userutil.go 27-50, principals.go 14)                              *)
(***************************************************************************)
EveryUserGetsASubdomain ==
    \A i \in Members : Normalized[i] # Nothing =>
        \/ \E id \in DOMAIN principals : principals[id].identifier = i
        \/ \A id \in DOMAIN principals : principals[id].subdomain # Normalized[i]
----------------------------------------------------------------------------
(***************************************************************************)
(* The inductive invariants behind TypeOK and SignedInAsProven.            *)
(***************************************************************************)
\* What a place in the code knows of the handler's variables.
PlaceOK(h) ==
    /\ h.at = "redirect" => h.data.nonce \in Nonces
    /\ h.at \in {"find", "create"} => Accepts(h.identifier)

TypeInv == TypeOK /\ \A r \in Requests : PlaceOK(request[r])

\* A nonce was made for session s.
Asked(s, n) ==
    \/ stored[s].nonce = n
    \/ \E r \in Requests : /\ request[r].at # "idle"
                           /\ request[r].session = s
                           /\ request[r].data.nonce = n
    \/ [session |-> s, nonce |-> n] \in logins

\* It was made for no other session, and whoever has a code for it logged in
\* for that session.
NoncesAreOwned ==
    \A s \in Sessions, n \in Nonces : Asked(s, n) =>
        /\ \A t \in Sessions : Asked(t, n) => t = s
        /\ \A c \in codes : c.nonce = n => c.identifier \in proven[s]

\* A code without a nonce is that of a page that no session asked for.
CodesAreProven ==
    \A c \in codes : c.nonce = Nothing => c.identifier \in proven[Nothing]

CallbacksAreProven ==
    \A r \in Requests : request[r].at \in {"find", "create"} =>
        request[r].identifier \in
            IF request[r].data.nonce = Nothing THEN proven[Nothing]
            ELSE proven[request[r].session]

SignInInv ==
    TypeInv /\ SignedInAsProven /\ NoncesAreOwned /\ CodesAreProven /\ CallbacksAreProven
=============================================================================
