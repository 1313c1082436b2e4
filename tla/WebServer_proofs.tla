--------------------------- MODULE WebServer_proofs ---------------------------
(***************************************************************************)
(* Proofs about WebServer, for any number of browsers, requests and users. *)
(***************************************************************************)
EXTENDS WebServer, SequenceTheorems, TLAPS

\* What TypeInv says of one handler.
HandlerOK(h, table) ==
    /\ h \in Handler
    /\ h.data.userID <= Len(table)
    /\ h.at # "idle" => h.session \in Sessions
    /\ PlaceOK(h)

\* The ID of a row is its place in the table.
LEMMA Rows ==
    ASSUME principals \in Seq(Principal)
    PROVE  /\ Len(principals) \in Nat
           /\ DOMAIN principals = 1 .. Len(principals)
           /\ \A id \in DOMAIN principals : principals[id] \in Principal
BY LenProperties, ElementOfSeq

\* A slot in use holds a well-typed handler, and so does one at rest.
LEMMA Handlers ==
    ASSUME TypeInv, NEW r \in Requests
    PROVE  HandlerOK(request[r], principals)
BY DEF TypeInv, TypeOK, HandlerOK

LEMMA IdleOK ==
    ASSUME TypeInv
    PROVE  HandlerOK(Idle, principals)
BY Rows DEF TypeInv, TypeOK, HandlerOK, Idle, Handler, PlaceOK, Places, NewSession,
            SessionData, NoLink, Link

\* The handler that Return leaves behind.
Returned(r, at, data) ==
    [at |-> at, session |-> request[r].session, data |-> data, link |-> NoLink,
     identifier |-> Nothing]

\* One handler changes, the rest of the state keeps its type, and the table
\* does not shrink.
LEMMA TypeKept ==
    ASSUME TypeInv, NEW r \in Requests, NEW h, HandlerOK(h, principals'),
           request' = [request EXCEPT ![r] = h],
           principals' \in Seq(Principal), Len(principals) <= Len(principals'),
           stored' \in [Sessions -> SessionData],
           \A s \in Sessions : stored'[s].userID <= Len(principals'),
           logins' \subseteq Login, codes' \subseteq Code,
           proven' \in [Sessions \cup {Nothing} -> SUBSET Identifiers]
    PROVE  TypeInv'
<1>1. \A q \in Requests : HandlerOK(request'[q], principals')
    <2> SUFFICES ASSUME NEW q \in Requests
                 PROVE  HandlerOK(request'[q], principals')
        OBVIOUS
    <2>1. CASE q = r
        BY <2>1 DEF TypeInv, TypeOK
    <2>2. CASE q # r
        <3>1. request'[q] = request[q]
            BY <2>2 DEF TypeInv, TypeOK
        <3>2. HandlerOK(request[q], principals)
            BY Handlers
        <3>3. Len(principals) \in Nat /\ Len(principals') \in Nat
            BY LenProperties DEF TypeInv, TypeOK
        <3>4. request[q].data.userID \in Nat
            BY <3>2 DEF HandlerOK, Handler, SessionData
        <3> QED BY <3>1, <3>2, <3>3, <3>4 DEF HandlerOK
    <2> QED BY <2>1, <2>2
<1>2. request' \in [Requests -> Handler]
    BY <1>1 DEF TypeInv, TypeOK, HandlerOK
<1> QED BY <1>1, <1>2 DEF TypeInv, TypeOK, HandlerOK, PlaceOK, Accepts

\* A handler that has finished.
LEMMA TypeFinished ==
    ASSUME TypeInv, NEW r \in Requests, ReturnUnchanged(r), UNCHANGED <<principals, proven>>,
           stored' \in [Sessions -> SessionData],
           \A s \in Sessions : stored'[s].userID <= Len(principals),
           logins' \subseteq Login, codes' \subseteq Code
    PROVE  TypeInv'
<1>1. HandlerOK(Idle, principals')
    BY IdleOK
<1>2. Len(principals) \in Nat /\ principals \in Seq(Principal) /\ proven \in [Sessions \cup {Nothing} -> SUBSET Identifiers]
    BY Rows DEF TypeInv, TypeOK
<1>3. /\ principals' \in Seq(Principal)
      /\ Len(principals) <= Len(principals')
      /\ proven' \in [Sessions \cup {Nothing} -> SUBSET Identifiers]
    BY <1>2
<1>4. \A s \in Sessions : stored'[s].userID <= Len(principals')
    OBVIOUS
<1>5. request' = [request EXCEPT ![r] = Idle]
    BY DEF ReturnUnchanged
<1> QED BY <1>1, <1>3, <1>4, <1>5, TypeKept

\* A handler that returns with a changed session.
LEMMA TypeReturned ==
    ASSUME TypeInv, NEW r \in Requests, NEW at \in {"save", "redirect"},
           NEW data \in SessionData, data.userID <= Len(principals'),
           at = "redirect" => data.nonce \in Nonces, request[r].at # "idle",
           Return(r, at, data),
           principals' \in Seq(Principal), Len(principals) <= Len(principals'),
           codes' \subseteq Code, UNCHANGED <<stored, logins, proven>>
    PROVE  TypeInv'
<1> DEFINE h == Returned(r, at, data)
<1>1. HandlerOK(request[r], principals)
    BY Handlers
<1>2. request \in [Requests -> Handler]
    BY DEF TypeInv, TypeOK
<1>3. request' = [request EXCEPT ![r] = h]
    BY <1>2 DEF Return, Returned
<1>4. HandlerOK(h, principals')
    BY <1>1 DEF HandlerOK, Handler, PlaceOK, Places, Returned, NoLink, Link
<1>5. Len(principals) \in Nat /\ Len(principals') \in Nat
    BY LenProperties DEF TypeInv, TypeOK
<1>6. /\ stored \in [Sessions -> SessionData]
      /\ logins \subseteq Login
      /\ proven \in [Sessions \cup {Nothing} -> SUBSET Identifiers]
    BY DEF TypeInv, TypeOK
<1>7. \A s \in Sessions : stored[s].userID <= Len(principals')
    BY <1>5, <1>6 DEF TypeInv, TypeOK, SessionData
<1> HIDE DEF h
<1> QED BY <1>3, <1>4, <1>6, <1>7, TypeKept

\* The copies of the session that a failing callback and a sign-in leave.
LEMMA Copies ==
    ASSUME TypeInv, NEW r \in Requests, NEW id \in Nat
    PROVE  /\ Spent(r) \in SessionData
           /\ Spent(r).userID = request[r].data.userID
           /\ Spent(r).nonce = Nothing
           /\ [Spent(r) EXCEPT !.userID = id] = [userID |-> id, nonce |-> Nothing]
<1>1. request[r].data \in SessionData
    BY Handlers DEF HandlerOK, Handler
<1>2. Spent(r) = [userID |-> request[r].data.userID, nonce |-> Nothing]
    BY <1>1 DEF Spent, SessionData
<1>3. request[r].data.userID \in Nat
    BY <1>1 DEF SessionData
<1> QED BY <1>2, <1>3 DEF SessionData

(***************************************************************************)
(* Every action preserves TypeInv.                                         *)
(***************************************************************************)
LEMMA ReceiveType ==
    ASSUME TypeInv, NEW r \in Requests, NEW s \in Sessions,
           NEW at \in {"auth", "callback", "userInfo", "signOut"}, NEW link \in Link,
           Receive(r, s, at, link)
    PROVE  TypeInv'
<1> DEFINE h == [at |-> at, session |-> s, data |-> stored[s], link |-> link,
                 identifier |-> Nothing]
<1>1. /\ principals' = principals
      /\ UNCHANGED <<stored, logins, codes, proven>>
      /\ request' = [request EXCEPT ![r] = h]
    BY DEF Receive
<1>2. stored[s] \in SessionData /\ stored[s].userID <= Len(principals)
    BY DEF TypeInv, TypeOK
<1>3. HandlerOK(h, principals')
    BY <1>1, <1>2 DEF HandlerOK, Handler, Places, PlaceOK
<1>4. /\ principals' \in Seq(Principal)
      /\ Len(principals) <= Len(principals')
      /\ \A t \in Sessions : stored'[t].userID <= Len(principals')
    BY <1>1, Rows DEF TypeInv, TypeOK
<1>5. /\ stored' \in [Sessions -> SessionData]
      /\ logins' \subseteq Login
      /\ codes' \subseteq Code
      /\ proven' \in [Sessions \cup {Nothing} -> SUBSET Identifiers]
    BY <1>1 DEF TypeInv, TypeOK
<1> HIDE DEF h
<1> QED BY <1>1, <1>3, <1>4, <1>5, TypeKept

LEMMA SaveType ==
    ASSUME TypeInv, NEW r \in Requests, Save(r)
    PROVE  TypeInv'
<1>1. HandlerOK(request[r], principals)
    BY Handlers
<1>2. /\ request[r].session \in Sessions
      /\ request[r].data \in SessionData
      /\ request[r].data.userID <= Len(principals)
      /\ request[r].at = "redirect" => request[r].data.nonce \in Nonces
    BY <1>1 DEF HandlerOK, Handler, PlaceOK, Save
<1>3. /\ stored' \in [Sessions -> SessionData]
      /\ \A s \in Sessions : stored'[s].userID <= Len(principals)
    BY <1>2 DEF Save, TypeInv, TypeOK
<1>4. logins' \subseteq Login
    BY <1>2 DEF Save, TypeInv, TypeOK, Login
<1>5. UNCHANGED <<principals, codes, proven>> /\ ReturnUnchanged(r) /\ codes \subseteq Code
    BY DEF Save, TypeInv, TypeOK
<1> QED BY <1>3, <1>4, <1>5, TypeFinished

\* The handlers that leave everything but the session and the codes alone.
LEMMA FailType ==
    ASSUME TypeInv, NEW r \in Requests, request[r].at # "idle", Fail(r),
           codes' \subseteq Code, UNCHANGED <<principals, stored, logins, proven>>
    PROVE  TypeInv'
<1>1. Spent(r) \in SessionData /\ Spent(r).userID = request[r].data.userID
    BY Copies, 0 \in Nat
<1>2. request[r].data.userID <= Len(principals)
    BY Handlers DEF HandlerOK
<1>3. principals' \in Seq(Principal) /\ Len(principals) <= Len(principals')
    BY Rows DEF TypeInv, TypeOK
<1>4. Spent(r).userID <= Len(principals')
    BY <1>1, <1>2
<1> HIDE DEF Spent
<1> QED BY <1>1, <1>3, <1>4, TypeReturned DEF Fail

LEMMA SignInType ==
    ASSUME TypeInv, NEW r \in Requests, request[r].at # "idle",
           NEW id \in Nat, id <= Len(principals'), SignIn(r, id),
           principals' \in Seq(Principal), Len(principals) <= Len(principals'),
           UNCHANGED <<stored, logins, codes, proven>>
    PROVE  TypeInv'
<1> DEFINE data == [Spent(r) EXCEPT !.userID = id]
<1>1. data = [userID |-> id, nonce |-> Nothing]
    BY Copies
<1>2. data \in SessionData /\ data.userID = id
    BY <1>1 DEF SessionData
<1>3. codes' \subseteq Code
    BY DEF TypeInv, TypeOK
<1>4. Return(r, "save", data)
    BY DEF SignIn
<1> HIDE DEF data
<1> QED BY <1>2, <1>3, <1>4, TypeReturned

LEMMA AuthType ==
    ASSUME TypeInv, NEW r \in Requests, Auth(r)
    PROVE  TypeInv'
<1>1. /\ stored' \in [Sessions -> SessionData] /\ logins' \subseteq Login /\ codes' \subseteq Code
      /\ \A s \in Sessions : stored'[s].userID <= Len(principals)
      /\ UNCHANGED <<principals, stored, logins, proven>>
      /\ request[r].at # "idle"
    BY DEF Auth, TypeInv, TypeOK
<1>2. CASE ReturnUnchanged(r)
    BY <1>1, <1>2, TypeFinished
<1>3. ASSUME NEW n \in Nonces,
             Return(r, "redirect", [request[r].data EXCEPT !.nonce = n])
      PROVE  TypeInv'
    <2> DEFINE data == [request[r].data EXCEPT !.nonce = n]
    <2>1. request[r].data \in SessionData /\ request[r].data.userID <= Len(principals)
        BY Handlers DEF HandlerOK, Handler
    <2>2. /\ data \in SessionData
          /\ data.userID = request[r].data.userID
          /\ data.nonce = n
        BY <2>1 DEF SessionData
    <2>3. principals' \in Seq(Principal) /\ Len(principals) <= Len(principals')
        BY <1>1, Rows DEF TypeInv, TypeOK
    <2>4. data.userID <= Len(principals')
        BY <1>1, <2>1, <2>2
    <2>5. Return(r, "redirect", data)
        BY <1>3
    <2> HIDE DEF data
    <2> QED BY <1>1, <2>2, <2>3, <2>4, <2>5, TypeReturned
<1> QED BY <1>2, <1>3 DEF Auth

LEMMA SignOutType ==
    ASSUME TypeInv, NEW r \in Requests, SignOut(r)
    PROVE  TypeInv'
<1> DEFINE data == [request[r].data EXCEPT !.userID = 0]
<1>1. request[r].data \in SessionData
    BY Handlers DEF HandlerOK, Handler
<1>2. data \in SessionData /\ data.userID = 0
    BY <1>1 DEF SessionData
<1>3. principals' \in Seq(Principal) /\ Len(principals) <= Len(principals')
    BY Rows DEF SignOut, TypeInv, TypeOK
<1>4. data.userID <= Len(principals')
    BY <1>2, <1>3, LenProperties
<1>5. /\ Return(r, "save", data) /\ request[r].at # "idle" /\ codes' \subseteq Code
      /\ UNCHANGED <<stored, logins, proven>>
    BY DEF SignOut, TypeInv, TypeOK
<1> HIDE DEF data
<1> QED BY <1>2, <1>3, <1>4, <1>5, TypeReturned

LEMMA UserInfoType ==
    ASSUME TypeInv, NEW r \in Requests, UserInfo(r)
    PROVE  TypeInv'
<1>1. /\ stored' \in [Sessions -> SessionData] /\ logins' \subseteq Login /\ codes' \subseteq Code
      /\ \A s \in Sessions : stored'[s].userID <= Len(principals)
      /\ UNCHANGED <<principals, proven>> /\ ReturnUnchanged(r)
    BY DEF UserInfo, TypeInv, TypeOK
<1> QED BY <1>1, TypeFinished

LEMMA CallbackFailsType ==
    ASSUME TypeInv, NEW r \in Requests, MismatchedState(r) \/ ExchangeFails(r)
    PROVE  TypeInv'
<1>1. /\ request[r].at # "idle" /\ Fail(r) /\ codes' \subseteq Code
      /\ UNCHANGED <<principals, stored, logins, proven>>
    BY DEF MismatchedState, ExchangeFails, TypeInv, TypeOK
<1> QED BY <1>1, FailType

\* Where the handler of a callback goes on.
LEMMA MoveType ==
    ASSUME TypeInv, NEW r \in Requests, request[r].at # "idle",
           NEW at \in {"find", "create"}, NEW i \in Identifiers, Accepts(i),
           NEW link \in Link,
           request' = [request EXCEPT ![r].at = at, ![r].link = link, ![r].identifier = i],
           codes' \subseteq Code, UNCHANGED <<principals, stored, logins, proven>>
    PROVE  TypeInv'
<1> DEFINE h == [request[r] EXCEPT !.at = at, !.link = link, !.identifier = i]
<1>1. request \in [Requests -> Handler] /\ HandlerOK(request[r], principals)
    BY Handlers DEF TypeInv, TypeOK
<1>2. request' = [request EXCEPT ![r] = h]
    BY <1>1
<1>3. HandlerOK(h, principals')
    BY <1>1 DEF HandlerOK, Handler, PlaceOK, Places
<1>4. principals' \in Seq(Principal) /\ Len(principals) <= Len(principals')
    BY Rows DEF TypeInv, TypeOK
<1>5. /\ stored' \in [Sessions -> SessionData] /\ logins' \subseteq Login
      /\ proven' \in [Sessions \cup {Nothing} -> SUBSET Identifiers]
      /\ \A s \in Sessions : stored'[s].userID <= Len(principals')
    BY DEF TypeInv, TypeOK
<1> HIDE DEF h
<1> QED BY <1>2, <1>3, <1>4, <1>5, TypeKept

LEMMA ExchangeType ==
    ASSUME TypeInv, NEW r \in Requests, Exchange(r)
    PROVE  TypeInv'
<1>1. PICK c \in codes :
         /\ Accepts(c.identifier)
         /\ codes' = codes \ {c}
         /\ request' = [request EXCEPT ![r].at = "find", ![r].link = NoLink,
                                       ![r].identifier = c.identifier]
    BY DEF Exchange, GoOn
<1>2. c.identifier \in Identifiers /\ codes' \subseteq Code /\ NoLink \in Link
    BY <1>1 DEF TypeInv, TypeOK, Code, NoLink, Link
<1>3. request[r].at # "idle" /\ UNCHANGED <<principals, stored, logins, proven>>
    BY DEF Exchange
<1> QED BY <1>1, <1>2, <1>3, MoveType

LEMMA FindType ==
    ASSUME TypeInv, NEW r \in Requests, Find(r)
    PROVE  TypeInv'
<1>1. /\ request[r].at = "find" /\ codes' \subseteq Code
      /\ UNCHANGED <<principals, stored, logins, codes, proven>>
    BY DEF Find, TypeInv, TypeOK
<1>2. principals' \in Seq(Principal) /\ Len(principals) <= Len(principals')
    BY <1>1, Rows DEF TypeInv, TypeOK
<1>3. ASSUME NEW id \in DOMAIN principals, SignIn(r, id)
      PROVE  TypeInv'
    <2>1. id \in Nat /\ id <= Len(principals')
        BY <1>1, Rows DEF TypeInv, TypeOK
    <2> QED BY <1>1, <1>2, <1>3, <2>1, SignInType
<1>4. CASE request' = [request EXCEPT ![r].at = "create"]
    <2>1. HandlerOK(request[r], principals) /\ request \in [Requests -> Handler]
        BY Handlers DEF TypeInv, TypeOK
    <2>2. Accepts(request[r].identifier)
        BY <1>1, <2>1 DEF HandlerOK, PlaceOK
    <2>3. request[r].identifier \in Identifiers
        BY <2>2, WebAssumption DEF Accepts, WebAssumption
    <2>4. /\ request' = [request EXCEPT ![r].at = "create", ![r].link = request[r].link,
                                        ![r].identifier = request[r].identifier]
          /\ request[r].link \in Link
        BY <1>4, <2>1 DEF Handler
    <2> QED BY <1>1, <2>2, <2>3, <2>4, MoveType
<1>5. CASE Fail(r)
    BY <1>1, <1>5, FailType
<1> QED BY <1>3, <1>4, <1>5 DEF Find

\* What UpsertPrincipal inserts.
LEMMA Inserted ==
    ASSUME TypeInv, NEW r \in Requests, request[r].at = "create", NEW token \in Tokens
    PROVE  Row(request[r].identifier, token) \in Principal
<1>1. Accepts(request[r].identifier)
    BY Handlers DEF HandlerOK, PlaceOK
<1> QED BY <1>1, WebAssumption DEF Accepts, WebAssumption, Row, Principal

LEMMA CreateType ==
    ASSUME TypeInv, NEW r \in Requests, Create(r)
    PROVE  TypeInv'
<1>1. request[r].at = "create" /\ UNCHANGED <<stored, logins, codes, proven>>
    BY DEF Create
<1>2. ASSUME NEW token \in Tokens,
             principals' = Append(principals, Row(request[r].identifier, token)),
             SignIn(r, Len(principals) + 1)
      PROVE  TypeInv'
    <2>1. Row(request[r].identifier, token) \in Principal
        BY <1>1, Inserted
    <2>2. /\ principals' \in Seq(Principal)
          /\ Len(principals') = Len(principals) + 1
          /\ Len(principals) \in Nat
        BY <1>2, <2>1, AppendProperties, LenProperties DEF TypeInv, TypeOK
    <2> QED BY <1>1, <1>2, <2>2, SignInType
<1>3. CASE UNCHANGED principals /\ Fail(r)
    <2>1. codes' \subseteq Code
        BY <1>1 DEF TypeInv, TypeOK
    <2> QED BY <1>1, <1>3, <2>1, FailType
<1> QED BY <1>2, <1>3 DEF Create

LEMMA HandleType ==
    ASSUME TypeInv, NEW r \in Requests, Handle(r)
    PROVE  TypeInv'
BY AuthType, SignOutType, UserInfoType, CallbackFailsType, ExchangeType, FindType,
   CreateType, SaveType DEF Handle

\* The links a browser opens.
LEMMA LinkTypes ==
    ASSUME TypeInv
    PROVE  CallbackLinks \subseteq Link /\ NoLink \in Link
BY DEF TypeInv, TypeOK, CallbackLinks, Link, NoLink, Code

LEMMA ArriveType ==
    ASSUME TypeInv, NEW r \in Requests, Visit(r) \/ ComeBack(r)
    PROVE  TypeInv'
<1>1. CASE Visit(r)
    <2>1. PICK s \in Sessions, at \in {"auth", "userInfo", "signOut"} :
              Receive(r, s, at, NoLink)
        BY <1>1 DEF Visit
    <2> QED BY <2>1, LinkTypes, ReceiveType
<1>2. CASE ComeBack(r)
    <2>1. PICK s \in Sessions, link \in CallbackLinks : Receive(r, s, "callback", link)
        BY <1>2 DEF ComeBack
    <2> QED BY <2>1, LinkTypes, ReceiveType
<1> QED BY <1>1, <1>2

LEMMA OutsideType ==
    ASSUME TypeInv,
           \/ \E page \in logins : Leave(page)
           \/ \E page \in logins \cup {Unasked}, i \in Identifiers : LogIn(page, i)
           \/ \E c \in codes : ExpireCode(c)
           \/ \E s \in Sessions : ExpireSession(s)
           \/ Crash
    PROVE  TypeInv'
<1> USE DEF TypeInv, TypeOK, PlaceOK, Accepts
<1>1. ASSUME NEW page \in logins, Leave(page) PROVE TypeInv'
    BY <1>1 DEF Leave
<1>2. ASSUME NEW page \in logins \cup {Unasked}, NEW i \in Identifiers, LogIn(page, i)
      PROVE  TypeInv'
    <2>1. page.session \in Sessions \cup {Nothing} /\ page.nonce \in Nonces \cup {Nothing}
        BY DEF Login, Unasked
    <2>2. codes' \subseteq Code
        BY <1>2, <2>1 DEF LogIn, Code
    <2>3. proven' \in [Sessions \cup {Nothing} -> SUBSET Identifiers]
        BY <1>2, <2>1 DEF LogIn
    <2> QED BY <1>2, <2>2, <2>3 DEF LogIn
<1>3. ASSUME NEW c \in codes, ExpireCode(c) PROVE TypeInv'
    BY <1>3 DEF ExpireCode
<1>4. ASSUME NEW s \in Sessions, ExpireSession(s) PROVE TypeInv'
    <2>1. NewSession \in SessionData /\ NewSession.userID = 0
        BY DEF NewSession, SessionData
    <2>2. /\ stored' \in [Sessions -> SessionData]
          /\ \A t \in Sessions : stored'[t].userID <= Len(principals)
        BY <1>4, <2>1, LenProperties DEF ExpireSession
    <2> QED BY <1>4, <2>2 DEF ExpireSession
<1>5. CASE Crash
    <2>1. HandlerOK(Idle, principals)
        BY IdleOK
    <2> QED BY <1>5, <2>1 DEF Crash, HandlerOK
<1> QED BY <1>1, <1>2, <1>3, <1>4, <1>5

LEMMA TypeInit ==
    ASSUME Init
    PROVE  TypeInv
<1>1. principals \in Seq(Principal) /\ Len(principals) = 0
    BY EmptySeq DEF Init
<1>2. stored \in [Sessions -> SessionData] /\ \A s \in Sessions : stored[s].userID = 0
    BY DEF Init, NewSession, SessionData
<1>3. request \in [Requests -> Handler] /\ \A r \in Requests : request[r] = Idle
    BY DEF Init, Idle, Handler, Places, NewSession, SessionData, NoLink, Link
<1> QED BY <1>1, <1>2, <1>3
        DEF Init, TypeInv, TypeOK, PlaceOK, Idle, NewSession

LEMMA TypeStep ==
    ASSUME TypeInv, [Next]_vars
    PROVE  TypeInv'
<1>1. CASE Next
    BY <1>1, HandleType, ArriveType, OutsideType DEF Next
<1>2. CASE UNCHANGED vars
    BY <1>2 DEF vars, TypeInv, TypeOK, PlaceOK, Accepts
<1> QED BY <1>1, <1>2

(***************************************************************************)
(* Whatever overlaps, fails or crashes, the state keeps its type: a        *)
(* userID is the ID of a principal, and a principal has a subdomain.       *)
(***************************************************************************)
THEOREM TypeCorrect == Spec => []TypeOK
<1>1. TypeInv => TypeOK
    BY DEF TypeInv
<1> QED BY <1>1, TypeInit, TypeStep, PTL DEF Spec
----------------------------------------------------------------------------
(***************************************************************************)
(* Sessions are signed in as who has logged in for them.                   *)
(***************************************************************************)
\* The user with this ID, if any, has logged in for session s or for none.
Known(id, s) ==
    id = 0 \/ (/\ id \in DOMAIN principals
               /\ principals[id].identifier \in proven[s] \cup proven[Nothing])

AllKnown ==
    /\ \A s \in Sessions : Known(stored[s].userID, s)
    /\ \A r \in Requests :
          request[r].at # "idle" => Known(request[r].data.userID, request[r].session)

LEMMA KnownIsProven ==
    ASSUME TypeInv, CallbacksAreProven
    PROVE  SignedInAsProven <=> AllKnown
<1>1. \A s \in Sessions : IsProven(stored[s], s) <=> Known(stored[s].userID, s)
    <2> SUFFICES ASSUME NEW s \in Sessions
                 PROVE  IsProven(stored[s], s) <=> Known(stored[s].userID, s)
        OBVIOUS
    <2>1. stored[s].userID \in Nat /\ stored[s].userID <= Len(principals)
        BY DEF TypeInv, TypeOK, SessionData
    <2>2. DOMAIN principals = 1 .. Len(principals) /\ Len(principals) \in Nat
        BY Rows DEF TypeInv, TypeOK
    <2> QED BY <2>1, <2>2 DEF IsProven, Known
<1>2. \A r \in Requests :
         IsProven(request[r].data, request[r].session)
         <=> Known(request[r].data.userID, request[r].session)
    <2> SUFFICES ASSUME NEW r \in Requests
                 PROVE  IsProven(request[r].data, request[r].session)
                        <=> Known(request[r].data.userID, request[r].session)
        OBVIOUS
    <2>1. request[r].data.userID \in Nat /\ request[r].data.userID <= Len(principals)
        BY Handlers DEF HandlerOK, Handler, SessionData
    <2>2. DOMAIN principals = 1 .. Len(principals) /\ Len(principals) \in Nat
        BY Rows DEF TypeInv, TypeOK
    <2> QED BY <2>1, <2>2 DEF IsProven, Known
<1>3. NoncesBindCallbacks
    BY DEF NoncesBindCallbacks, CallbacksAreProven
<1> QED BY <1>1, <1>2, <1>3 DEF SignedInAsProven, AllKnown

\* The table only grows, and so does what has been proven.
Growing ==
    /\ \A id \in DOMAIN principals :
          id \in DOMAIN principals' /\ principals'[id] = principals[id]
    /\ \A s \in Sessions \cup {Nothing} : proven[s] \subseteq proven'[s]

LEMMA StillKnown ==
    ASSUME Growing, NEW id, NEW s \in Sessions, Known(id, s)
    PROVE  id = 0 \/ (/\ id \in DOMAIN principals'
                      /\ principals'[id].identifier \in proven'[s] \cup proven'[Nothing])
BY DEF Growing, Known

\* What a handler may hold after a step: a nonce that was asked for by its
\* session before the step, a user who is known after it.
Sound(h) ==
    h.at # "idle" =>
        /\ h.session \in Sessions
        /\ h.data.nonce \in Nonces => Asked(h.session, h.data.nonce)
        /\ h.at \in {"find", "create"} =>
               h.identifier \in IF h.data.nonce = Nothing THEN proven[Nothing]
                               ELSE proven[h.session]

LEMMA HandlersSound ==
    ASSUME SignInInv, NEW r \in Requests
    PROVE  Sound(request[r])
<1>1. request[r].at # "idle" => request[r].session \in Sessions
    BY DEF SignInInv, TypeInv, TypeOK
<1> QED BY <1>1 DEF Sound, SignInInv, CallbacksAreProven, Asked

\* Nonces only spread within their sessions.
LEMMA NoncesKept ==
    ASSUME SignInInv, \A s \in Sessions \cup {Nothing} : proven[s] \subseteq proven'[s],
           codes' \subseteq codes,
           \A q \in Requests : Sound(request'[q]),
           \A s \in Sessions : stored'[s].nonce \in Nonces => Asked(s, stored'[s].nonce),
           logins' \subseteq Login,
           \A page \in logins' : Asked(page.session, page.nonce)
    PROVE  NoncesAreOwned' /\ CodesAreProven' /\ CallbacksAreProven'
<1>1. \A s \in Sessions, n \in Nonces : Asked(s, n)' => Asked(s, n)
    <2> SUFFICES ASSUME NEW s \in Sessions, NEW n \in Nonces, Asked(s, n)'
                 PROVE  Asked(s, n)
        OBVIOUS
    <2>1. CASE stored'[s].nonce = n
        BY <2>1
    <2>2. ASSUME NEW q \in Requests, request'[q].at # "idle",
                 request'[q].session = s, request'[q].data.nonce = n
          PROVE  Asked(s, n)
        BY <2>2 DEF Sound
    <2>3. CASE [session |-> s, nonce |-> n] \in logins'
        BY <2>3
    <2> QED BY <2>1, <2>2, <2>3 DEF Asked
<1>2. NoncesAreOwned'
    <2> SUFFICES ASSUME NEW s \in Sessions, NEW n \in Nonces, Asked(s, n)'
                 PROVE  /\ \A t \in Sessions : Asked(t, n)' => t = s
                        /\ \A c \in codes' : c.nonce = n => c.identifier \in proven'[s]
        BY DEF NoncesAreOwned
    <2>1. Asked(s, n)
        BY <1>1
    <2>2. /\ \A t \in Sessions : Asked(t, n) => t = s
          /\ \A c \in codes : c.nonce = n => c.identifier \in proven[s]
        BY <2>1 DEF SignInInv, NoncesAreOwned
    <2> QED BY <1>1, <2>2
<1>3. CodesAreProven'
    BY DEF SignInInv, CodesAreProven
<1>4. CallbacksAreProven'
    BY DEF CallbacksAreProven, Sound
<1> QED BY <1>2, <1>3, <1>4

\* After the step, the user with this ID is known.
KnownNext(id, s) ==
    id = 0 \/ (/\ id \in DOMAIN principals'
               /\ principals'[id].identifier \in proven'[s] \cup proven'[Nothing])

\* One handler takes a step; sessions and pages keep what was asked for them.
LEMMA HandlerKeeps ==
    ASSUME SignInInv, TypeInv', Growing, codes' \subseteq codes,
           NEW r \in Requests, NEW h, request' = [request EXCEPT ![r] = h], Sound(h),
           h.at # "idle" => KnownNext(h.data.userID, h.session),
           \A s \in Sessions : /\ Known(stored'[s].userID, s)
                               /\ stored'[s].nonce \in Nonces => Asked(s, stored'[s].nonce),
           \A page \in logins' : Asked(page.session, page.nonce)
    PROVE  SignInInv'
<1>1. \A q \in Requests : request'[q] = IF q = r THEN h ELSE request[q]
    BY DEF SignInInv, TypeInv, TypeOK
<1>2. \A q \in Requests : Sound(request'[q])
    BY <1>1, HandlersSound
<1>3. NoncesAreOwned' /\ CodesAreProven' /\ CallbacksAreProven'
    BY <1>2, NoncesKept DEF Growing, TypeInv, TypeOK
<1>4. AllKnown
    BY KnownIsProven DEF SignInInv
<1>5. \A s \in Sessions : KnownNext(stored'[s].userID, s)
    BY StillKnown DEF KnownNext
<1>6. \A q \in Requests : request'[q].at # "idle" =>
         KnownNext(request'[q].data.userID, request'[q].session)
    <2> SUFFICES ASSUME NEW q \in Requests, request'[q].at # "idle"
                 PROVE  KnownNext(request'[q].data.userID, request'[q].session)
        OBVIOUS
    <2>1. CASE q = r
        BY <1>1, <2>1
    <2>2. CASE q # r
        <3>1. request'[q] = request[q]
            BY <1>1, <2>2
        <3>2. request[q].session \in Sessions /\ Known(request[q].data.userID, request[q].session)
            BY <1>4, <3>1 DEF AllKnown, SignInInv, TypeInv, TypeOK
        <3> QED BY <3>1, <3>2, StillKnown DEF KnownNext
    <2> QED BY <2>1, <2>2
<1>7. AllKnown'
    BY <1>5, <1>6 DEF AllKnown, Known, KnownNext
<1>8. SignedInAsProven' <=> AllKnown'
    BY <1>3, KnownIsProven, PTL
<1> QED BY <1>3, <1>7, <1>8 DEF SignInInv

\* What the session store and the login pages hold before a step.
LEMMA Before ==
    ASSUME SignInInv
    PROVE  /\ \A s \in Sessions : /\ Known(stored[s].userID, s)
                                  /\ stored[s].nonce \in Nonces => Asked(s, stored[s].nonce)
           /\ \A page \in logins : Asked(page.session, page.nonce)
           /\ \A r \in Requests : request[r].at # "idle" =>
                  Known(request[r].data.userID, request[r].session)
<1>1. AllKnown
    BY KnownIsProven DEF SignInInv
<1>2. \A page \in logins : page = [session |-> page.session, nonce |-> page.nonce]
    BY DEF SignInInv, TypeInv, TypeOK, Login
<1> QED BY <1>1, <1>2 DEF AllKnown, Asked

\* The session store and the pages stay as they are.
LEMMA HandlerKeepsRest ==
    ASSUME SignInInv, TypeInv', Growing, codes' \subseteq codes,
           UNCHANGED <<stored, logins>>,
           NEW r \in Requests, NEW h, request' = [request EXCEPT ![r] = h], Sound(h),
           h.at # "idle" => KnownNext(h.data.userID, h.session)
    PROVE  SignInInv'
<1>1. /\ \A s \in Sessions : /\ Known(stored'[s].userID, s)
                             /\ stored'[s].nonce \in Nonces => Asked(s, stored'[s].nonce)
      /\ \A page \in logins' : Asked(page.session, page.nonce)
    BY Before
<1> QED BY <1>1, HandlerKeeps

LEMMA Grows ==
    ASSUME UNCHANGED <<principals, proven>>
    PROVE  Growing /\ \A id, s : Known(id, s) => KnownNext(id, s)
BY DEF Growing, Known, KnownNext

LEMMA IdleSound == Sound(Idle) /\ Idle.at = "idle"
BY DEF Sound, Idle

LEMMA ReceiveSignIn ==
    ASSUME SignInInv, TypeInv', NEW r \in Requests, NEW s \in Sessions,
           NEW at \in {"auth", "callback", "userInfo", "signOut"}, NEW link \in Link,
           Receive(r, s, at, link)
    PROVE  SignInInv'
<1> DEFINE h == [at |-> at, session |-> s, data |-> stored[s], link |-> link,
                 identifier |-> Nothing]
<1>1. /\ UNCHANGED <<principals, stored, logins, codes, proven>>
      /\ request' = [request EXCEPT ![r] = h]
    BY DEF Receive
<1>2. Sound(h)
    BY Before DEF Sound
<1>3. KnownNext(h.data.userID, h.session)
    BY <1>1, Before, Grows
<1> HIDE DEF h
<1> QED BY <1>1, <1>2, <1>3, Grows, HandlerKeepsRest

\* A request that is done and has saved nothing.
LEMMA FinishedSignIn ==
    ASSUME SignInInv, TypeInv', NEW r \in Requests, ReturnUnchanged(r),
           UNCHANGED <<principals, stored, logins, codes, proven>>
    PROVE  SignInInv'
<1>1. request' = [request EXCEPT ![r] = Idle]
    BY DEF ReturnUnchanged
<1> QED BY <1>1, IdleSound, Grows, HandlerKeepsRest

LEMMA SaveSignIn ==
    ASSUME SignInInv, TypeInv', NEW r \in Requests, Save(r)
    PROVE  SignInInv'
<1> DEFINE s == request[r].session
           data == request[r].data
<1>1. /\ request[r].at \in {"save", "redirect"}
      /\ stored' = [stored EXCEPT ![s] = data] \/ stored' = stored
      /\ logins' = IF request[r].at = "redirect"
                   THEN logins \cup {[session |-> s, nonce |-> data.nonce]} ELSE logins
      /\ request' = [request EXCEPT ![r] = Idle]
      /\ UNCHANGED <<principals, codes, proven>>
    BY DEF Save, ReturnUnchanged
<1>2. /\ s \in Sessions
      /\ Known(data.userID, s)
      /\ data.nonce \in Nonces => Asked(s, data.nonce)
    BY <1>1, Before, HandlersSound DEF Sound
<1>3. request[r].at = "redirect" => data.nonce \in Nonces
    BY DEF SignInInv, TypeInv, PlaceOK
<1>4. stored \in [Sessions -> SessionData]
    BY DEF SignInInv, TypeInv, TypeOK
<1> HIDE DEF s, data
<1>5. \A t \in Sessions : /\ Known(stored'[t].userID, t)
                          /\ stored'[t].nonce \in Nonces => Asked(t, stored'[t].nonce)
    BY <1>1, <1>2, <1>4, Before
<1>6. \A page \in logins' : Asked(page.session, page.nonce)
    BY <1>1, <1>2, <1>3, Before
<1> QED BY <1>1, <1>5, <1>6, IdleSound, Grows, HandlerKeeps

\* A handler returns with a copy that has the nonce it had, or none.
LEMMA ReturnedSignIn ==
    ASSUME SignInInv, TypeInv', Growing, codes' \subseteq codes,
           UNCHANGED <<stored, logins, proven>>,
           NEW r \in Requests, request[r].at # "idle",
           NEW data, data.nonce \in {request[r].data.nonce, Nothing},
           KnownNext(data.userID, request[r].session),
           Return(r, "save", data)
    PROVE  SignInInv'
<1> DEFINE h == Returned(r, "save", data)
<1>1. request[r] \in Handler /\ request \in [Requests -> Handler]
    BY DEF SignInInv, TypeInv, TypeOK
<1>2. request' = [request EXCEPT ![r] = h]
    BY DEF Return, Returned
<1>3. h.at = "save" /\ h.session = request[r].session /\ h.data = data
    BY DEF Returned
<1>4. Nothing \notin Nonces
    BY WebAssumption DEF WebAssumption
<1>5. Sound(h)
    BY <1>3, <1>4, HandlersSound DEF Sound
<1> HIDE DEF h
<1> QED BY <1>2, <1>3, <1>5, HandlerKeepsRest

LEMMA FailSignIn ==
    ASSUME SignInInv, TypeInv', codes' \subseteq codes,
           UNCHANGED <<principals, stored, logins, proven>>,
           NEW r \in Requests, request[r].at # "idle", Fail(r)
    PROVE  SignInInv'
<1>1. Spent(r).nonce = Nothing /\ Spent(r).userID = request[r].data.userID
    BY Copies, 0 \in Nat DEF SignInInv
<1>2. KnownNext(Spent(r).userID, request[r].session)
    BY <1>1, Before, Grows
<1> HIDE DEF Spent
<1> QED BY <1>1, <1>2, Grows, ReturnedSignIn DEF Fail

LEMMA SignOutSignIn ==
    ASSUME SignInInv, TypeInv', NEW r \in Requests, SignOut(r)
    PROVE  SignInInv'
<1> DEFINE data == [request[r].data EXCEPT !.userID = 0]
<1>1. request[r].data \in SessionData
    BY Handlers DEF SignInInv, HandlerOK, Handler
<1>2. data.nonce = request[r].data.nonce /\ data.userID = 0
    BY <1>1 DEF SessionData
<1>3. /\ Return(r, "save", data) /\ request[r].at # "idle"
      /\ UNCHANGED <<principals, stored, logins, codes, proven>>
    BY DEF SignOut
<1>4. KnownNext(data.userID, request[r].session)
    BY <1>2 DEF KnownNext
<1> HIDE DEF data
<1> QED BY <1>2, <1>3, <1>4, Grows, ReturnedSignIn

\* A fresh nonce has been asked for by nobody, and there is no code for it.
LEMMA FreshIsFree ==
    ASSUME NEW n \in Nonces, Fresh(n)
    PROVE  /\ \A s \in Sessions : ~Asked(s, n)
           /\ \A c \in codes : c.nonce # n
BY DEF Fresh, Asked

LEMMA AuthSignIn ==
    ASSUME SignInInv, TypeInv', NEW r \in Requests, Auth(r)
    PROVE  SignInInv'
<1>1. UNCHANGED <<principals, stored, logins, codes, proven>> /\ request[r].at = "auth"
    BY DEF Auth
<1>2. CASE ReturnUnchanged(r)
    BY <1>1, <1>2, FinishedSignIn
<1>3. ASSUME NEW n \in Nonces, Fresh(n),
             Return(r, "redirect", [request[r].data EXCEPT !.nonce = n])
      PROVE  SignInInv'
    <2> DEFINE data == [request[r].data EXCEPT !.nonce = n]
               own == request[r].session
    <2>1. request[r] \in Handler /\ request \in [Requests -> Handler] /\ own \in Sessions
        BY <1>1 DEF SignInInv, TypeInv, TypeOK
    <2>2. data.nonce = n /\ data.userID = request[r].data.userID
        BY <2>1 DEF Handler, SessionData
    <2>3. \A q \in Requests :
             /\ request'[q].session = request[q].session
             /\ request'[q].at = "idle" <=> request[q].at = "idle"
             /\ request'[q].at \in {"find", "create"} => q # r /\ request'[q] = request[q]
             /\ request'[q].data = IF q = r THEN data ELSE request[q].data
        BY <1>1, <1>3, <2>1 DEF Return, Handler
    <2> HIDE DEF data
    <2>4. \A s \in Sessions, m \in Nonces :
             Asked(s, m)' => Asked(s, m) \/ (s = own /\ m = n)
        BY <1>1, <2>2, <2>3 DEF Asked
    <2>5. NoncesAreOwned'
        <3> SUFFICES ASSUME NEW s \in Sessions, NEW m \in Nonces, Asked(s, m)'
                     PROVE  /\ \A t \in Sessions : Asked(t, m)' => t = s
                            /\ \A c \in codes : c.nonce = m => c.identifier \in proven[s]
            BY <1>1 DEF NoncesAreOwned
        <3>1. CASE m = n
            BY <1>3, <2>4, <3>1, FreshIsFree
        <3>2. CASE m # n
            BY <2>4, <3>2 DEF SignInInv, NoncesAreOwned
        <3> QED BY <3>1, <3>2
    <2>6. CodesAreProven' /\ CallbacksAreProven'
        BY <1>1, <2>3 DEF SignInInv, CodesAreProven, CallbacksAreProven
    <2>7. SignedInAsProven'
        BY <1>1, <2>2, <2>3, <2>6
           DEF SignInInv, SignedInAsProven, IsProven, NoncesBindCallbacks, CallbacksAreProven
    <2> QED BY <2>5, <2>6, <2>7 DEF SignInInv
<1> QED BY <1>2, <1>3 DEF Auth

\* The code was made for the session's own nonce, or without one for a session
\* without one, so its user is proven.
LEMMA ExchangeSignIn ==
    ASSUME SignInInv, TypeInv', NEW r \in Requests, Exchange(r)
    PROVE  SignInInv'
<1>1. PICK c \in codes :
         /\ c.nonce = Expected(r)
         /\ codes' = codes \ {c}
         /\ request' = [request EXCEPT ![r].at = "find", ![r].link = NoLink,
                                       ![r].identifier = c.identifier]
    BY DEF Exchange, GoOn
<1> DEFINE h == [request[r] EXCEPT !.at = "find", !.link = NoLink, !.identifier = c.identifier]
           own == request[r].session
<1>2. request[r] \in Handler /\ request \in [Requests -> Handler] /\ c \in Code
    BY DEF SignInInv, TypeInv, TypeOK
<1>3. request[r].at # "idle" /\ UNCHANGED <<principals, stored, logins, proven>>
    BY DEF Exchange
<1>4. c.nonce \in Nonces \cup {Nothing} /\ c.nonce = request[r].data.nonce
    BY <1>1, <1>2 DEF Code, Expected
<1>5. own \in Sessions /\ (c.nonce \in Nonces => Asked(own, c.nonce))
    BY <1>3, <1>4, HandlersSound DEF Sound
<1>6. c.identifier \in IF c.nonce = Nothing THEN proven[Nothing] ELSE proven[own]
    BY <1>4, <1>5 DEF SignInInv, NoncesAreOwned, CodesAreProven
<1>7. request' = [request EXCEPT ![r] = h]
    BY <1>1, <1>2
<1>8. h.session = own /\ h.data = request[r].data /\ h.identifier = c.identifier
    BY <1>2 DEF Handler
<1> HIDE DEF h
<1>9. Sound(h) /\ KnownNext(h.data.userID, h.session)
    BY <1>3, <1>4, <1>5, <1>6, <1>8, Before, Grows DEF Sound
<1>10. codes' \subseteq codes
    BY <1>1
<1> QED BY <1>3, <1>7, <1>9, <1>10, Grows, HandlerKeepsRest

\* The copy that a sign-in leaves.
LEMMA SignInSignIn ==
    ASSUME SignInInv, TypeInv', Growing, UNCHANGED <<stored, logins, codes, proven>>,
           NEW r \in Requests, request[r].at # "idle", NEW id \in Nat,
           KnownNext(id, request[r].session), SignIn(r, id)
    PROVE  SignInInv'
<1> DEFINE data == [Spent(r) EXCEPT !.userID = id]
<1>1. data = [userID |-> id, nonce |-> Nothing]
    BY Copies DEF SignInInv
<1>2. Return(r, "save", data)
    BY DEF SignIn
<1>3. data.nonce = Nothing /\ data.userID = id
    BY <1>1
<1> HIDE DEF data
<1> QED BY <1>2, <1>3, ReturnedSignIn

LEMMA FindSignIn ==
    ASSUME SignInInv, TypeInv', NEW r \in Requests, Find(r)
    PROVE  SignInInv'
<1>1. request[r].at = "find" /\ UNCHANGED <<principals, stored, logins, codes, proven>>
    BY DEF Find
<1>2. request[r].identifier \in proven[request[r].session] \cup proven[Nothing]
    BY <1>1 DEF SignInInv, CallbacksAreProven
<1>3. ASSUME NEW id \in DOMAIN principals,
             principals[id].identifier = request[r].identifier, SignIn(r, id)
      PROVE  SignInInv'
    <2>1. id \in Nat
        BY Rows DEF SignInInv, TypeInv, TypeOK
    <2>2. KnownNext(id, request[r].session)
        BY <1>1, <1>2, <1>3 DEF KnownNext
    <2> QED BY <1>1, <1>3, <2>1, <2>2, Grows, SignInSignIn
<1>4. CASE request' = [request EXCEPT ![r].at = "create"]
    <2> DEFINE h == [request[r] EXCEPT !.at = "create"]
    <2>1. request[r] \in Handler /\ request \in [Requests -> Handler]
        BY DEF SignInInv, TypeInv, TypeOK
    <2>2. request' = [request EXCEPT ![r] = h]
        BY <1>4, <2>1
    <2>3. /\ h.session = request[r].session /\ h.data = request[r].data
          /\ h.identifier = request[r].identifier
        BY <2>1 DEF Handler
    <2> HIDE DEF h
    <2>4. Sound(h) /\ KnownNext(h.data.userID, h.session)
        BY <1>1, <1>2, <2>3, HandlersSound, Before, Grows DEF Sound
    <2> QED BY <1>1, <2>2, <2>4, Grows, HandlerKeepsRest
<1>5. CASE Fail(r)
    BY <1>1, <1>5, FailSignIn
<1> QED BY <1>3, <1>4, <1>5 DEF Find

\* A new row, and what it leaves of the table.
LEMMA AppendGrows ==
    ASSUME TypeInv, NEW row \in Principal, principals' = Append(principals, row)
    PROVE  /\ \A id \in DOMAIN principals :
                 id \in DOMAIN principals' /\ principals'[id] = principals[id]
           /\ DOMAIN principals' = DOMAIN principals \cup {Len(principals) + 1}
           /\ principals'[Len(principals) + 1] = row
<1>1. /\ Len(principals) \in Nat
      /\ principals \in Seq(Principal) /\ DOMAIN principals = 1 .. Len(principals)
    BY Rows DEF TypeInv, TypeOK
<1>2. /\ principals' \in Seq(Principal)
      /\ Len(principals') = Len(principals) + 1
      /\ \A i \in 1 .. Len(principals) : principals'[i] = principals[i]
      /\ principals'[Len(principals) + 1] = row
    BY <1>1, AppendProperties
<1>3. DOMAIN principals' = 1 .. Len(principals) + 1
    BY <1>2, LenProperties
<1> QED BY <1>1, <1>2, <1>3

LEMMA CreateSignIn ==
    ASSUME SignInInv, TypeInv', NEW r \in Requests, Create(r)
    PROVE  SignInInv'
<1>1. request[r].at = "create" /\ UNCHANGED <<stored, logins, codes, proven>>
    BY DEF Create
<1>2. ASSUME NEW token \in Tokens,
             principals' = Append(principals, Row(request[r].identifier, token)),
             SignIn(r, Len(principals) + 1)
      PROVE  SignInInv'
    <2> DEFINE row == Row(request[r].identifier, token)
               id == Len(principals) + 1
    <2>1. row \in Principal
        BY <1>1, Inserted DEF SignInInv
    <2>2. row.identifier \in proven[request[r].session] \cup proven[Nothing]
        BY <1>1 DEF SignInInv, CallbacksAreProven, Row
    <2>3. id \in Nat
        BY LenProperties DEF SignInInv, TypeInv, TypeOK
    <2> HIDE DEF row
    <2>4. /\ \A k \in DOMAIN principals :
                k \in DOMAIN principals' /\ principals'[k] = principals[k]
          /\ id \in DOMAIN principals' /\ principals'[id] = row
        BY <1>2, <2>1, AppendGrows DEF SignInInv, row
    <2> HIDE DEF id
    <2>5. Growing /\ KnownNext(id, request[r].session)
        BY <1>1, <2>2, <2>4 DEF Growing, KnownNext
    <2>6. SignIn(r, id)
        BY <1>2 DEF id
    <2> QED BY <1>1, <2>3, <2>5, <2>6, SignInSignIn
<1>3. CASE UNCHANGED principals /\ Fail(r)
    BY <1>1, <1>3, FailSignIn
<1> QED BY <1>2, <1>3 DEF Create

LEMMA HandleSignIn ==
    ASSUME SignInInv, TypeInv', NEW r \in Requests, Handle(r)
    PROVE  SignInInv'
<1>1. ASSUME UserInfo(r) PROVE SignInInv'
    BY <1>1, FinishedSignIn DEF UserInfo
<1>2. ASSUME MismatchedState(r) \/ ExchangeFails(r) PROVE SignInInv'
    <2>1. /\ request[r].at # "idle" /\ Fail(r) /\ codes' \subseteq codes
          /\ UNCHANGED <<principals, stored, logins, proven>>
        BY <1>2 DEF MismatchedState, ExchangeFails
    <2> QED BY <2>1, FailSignIn
<1> QED BY <1>1, <1>2, AuthSignIn, SignOutSignIn, ExchangeSignIn, FindSignIn,
           CreateSignIn, SaveSignIn DEF Handle

LEMMA ArriveSignIn ==
    ASSUME SignInInv, TypeInv', NEW r \in Requests, Visit(r) \/ ComeBack(r)
    PROVE  SignInInv'
<1>1. CallbackLinks \subseteq Link /\ NoLink \in Link
    BY LinkTypes DEF SignInInv
<1>2. CASE Visit(r)
    <2>1. PICK s \in Sessions, at \in {"auth", "userInfo", "signOut"} :
              Receive(r, s, at, NoLink)
        BY <1>2 DEF Visit
    <2> QED BY <1>1, <2>1, ReceiveSignIn
<1>3. CASE ComeBack(r)
    <2>1. PICK s \in Sessions, link \in CallbackLinks : Receive(r, s, "callback", link)
        BY <1>3 DEF ComeBack
    <2> QED BY <1>1, <2>1, ReceiveSignIn
<1> QED BY <1>2, <1>3

\* Fewer requests, sessions, pages or codes.
LEMMA LessSignIn ==
    ASSUME SignInInv, TypeInv', UNCHANGED <<principals, proven>>,
           codes' \subseteq codes, logins' \subseteq logins,
           \A q \in Requests : request'[q] \in {request[q], Idle},
           \A s \in Sessions : stored'[s] \in {stored[s], NewSession}
    PROVE  SignInInv'
<1>1. \A q \in Requests : Sound(request'[q])
    BY HandlersSound, IdleSound
<1>2. /\ NewSession.nonce \notin Nonces
      /\ \A s \in Sessions : Known(NewSession.userID, s)
    BY WebAssumption DEF WebAssumption, NewSession, Known
<1>3. \A s \in Sessions : stored'[s].nonce \in Nonces => Asked(s, stored'[s].nonce)
    BY <1>2, Before
<1>4. \A page \in logins' : Asked(page.session, page.nonce)
    BY Before
<1>5. NoncesAreOwned' /\ CodesAreProven' /\ CallbacksAreProven'
    BY <1>1, <1>3, <1>4, NoncesKept DEF TypeInv, TypeOK
<1>6. \A s \in Sessions : KnownNext(stored'[s].userID, s)
    BY <1>2, Before, Grows
<1>7. \A q \in Requests : request'[q].at # "idle" =>
         KnownNext(request'[q].data.userID, request'[q].session)
    BY Before, Grows, IdleSound
<1>8. AllKnown'
    BY <1>6, <1>7 DEF AllKnown, Known, KnownNext
<1>9. SignedInAsProven' <=> AllKnown'
    BY <1>5, KnownIsProven, PTL
<1> QED BY <1>5, <1>8, <1>9 DEF SignInInv

\* A user logs in on a page that his session asked for, or that none asked for.
LEMMA LogInSignIn ==
    ASSUME SignInInv, TypeInv', NEW page \in logins \cup {Unasked}, NEW i \in Identifiers,
           LogIn(page, i)
    PROVE  SignInInv'
<1>1. /\ page.session \in Sessions \cup {Nothing}
      /\ page.nonce \in Nonces => page.session \in Sessions /\ Asked(page.session, page.nonce)
      /\ page.nonce = Nothing => page.session = Nothing
    <2>1. CASE page = Unasked
        BY <2>1, WebAssumption DEF WebAssumption, Unasked
    <2>2. CASE page \in logins
        <3>1. page.session \in Sessions /\ page.nonce \in Nonces
            BY <2>2 DEF SignInInv, TypeInv, TypeOK, Login
        <3> QED BY <2>2, <3>1, Before, WebAssumption DEF WebAssumption
    <2> QED BY <2>1, <2>2
<1>2. /\ codes' = codes \cup {[nonce |-> page.nonce, identifier |-> i]}
      /\ proven' = [proven EXCEPT ![page.session] = @ \cup {i}]
      /\ UNCHANGED <<principals, stored, request, logins>>
    BY DEF LogIn
<1>3. /\ \A s \in Sessions \cup {Nothing} : proven[s] \subseteq proven'[s]
      /\ i \in proven'[page.session]
    BY <1>1, <1>2 DEF SignInInv, TypeInv, TypeOK
<1>4. \A s, n : Asked(s, n)' <=> Asked(s, n)
    BY <1>2 DEF Asked
<1>5. NoncesAreOwned'
    <2> SUFFICES ASSUME NEW s \in Sessions, NEW n \in Nonces, Asked(s, n)
                 PROVE  /\ \A t \in Sessions : Asked(t, n) => t = s
                        /\ \A c \in codes' : c.nonce = n => c.identifier \in proven'[s]
        BY <1>4 DEF NoncesAreOwned
    <2>1. /\ \A t \in Sessions : Asked(t, n) => t = s
          /\ \A c \in codes : c.nonce = n => c.identifier \in proven[s]
        BY DEF SignInInv, NoncesAreOwned
    <2>2. page.nonce = n => page.session = s
        BY <1>1, <2>1
    <2> HIDE DEF Asked
    <2> QED BY <1>2, <1>3, <2>1, <2>2
<1>6. CodesAreProven'
    BY <1>1, <1>2, <1>3 DEF SignInInv, CodesAreProven
<1>7. CallbacksAreProven'
    <2> SUFFICES ASSUME NEW r \in Requests, request[r].at \in {"find", "create"}
                 PROVE  request[r].identifier \in IF request[r].data.nonce = Nothing
                                                  THEN proven'[Nothing]
                                                  ELSE proven'[request[r].session]
        BY <1>2 DEF CallbacksAreProven
    <2>1. request[r].session \in Sessions
        BY DEF SignInInv, TypeInv, TypeOK
    <2> QED BY <1>3, <2>1 DEF SignInInv, CallbacksAreProven
<1>8. Growing
    BY <1>2, <1>3 DEF Growing
<1>9. AllKnown'
    <2>1. \A s \in Sessions : KnownNext(stored[s].userID, s)
        BY <1>8, Before, StillKnown DEF KnownNext
    <2>2. ASSUME NEW r \in Requests, request[r].at # "idle"
          PROVE  KnownNext(request[r].data.userID, request[r].session)
        <3>1. request[r].session \in Sessions
            BY <2>2 DEF SignInInv, TypeInv, TypeOK
        <3> QED BY <1>8, <2>2, <3>1, Before, StillKnown DEF KnownNext
    <2> QED BY <1>2, <2>1, <2>2 DEF AllKnown, Known, KnownNext
<1>10. SignedInAsProven' <=> AllKnown'
    BY <1>7, KnownIsProven, PTL
<1> QED BY <1>5, <1>6, <1>7, <1>9, <1>10 DEF SignInInv

LEMMA OutsideSignIn ==
    ASSUME SignInInv, TypeInv',
           \/ \E page \in logins : Leave(page)
           \/ \E page \in logins \cup {Unasked}, i \in Identifiers : LogIn(page, i)
           \/ \E c \in codes : ExpireCode(c)
           \/ \E s \in Sessions : ExpireSession(s)
           \/ Crash
    PROVE  SignInInv'
<1>1. ASSUME NEW page \in logins, Leave(page) PROVE SignInInv'
    BY <1>1, LessSignIn DEF Leave
<1>2. ASSUME NEW c \in codes, ExpireCode(c) PROVE SignInInv'
    BY <1>2, LessSignIn DEF ExpireCode
<1>3. ASSUME NEW s \in Sessions, ExpireSession(s) PROVE SignInInv'
    <2>1. \A t \in Sessions : stored'[t] \in {stored[t], NewSession}
        BY <1>3 DEF ExpireSession, SignInInv, TypeInv, TypeOK
    <2> QED BY <1>3, <2>1, LessSignIn DEF ExpireSession
<1>4. CASE Crash
    BY <1>4, LessSignIn DEF Crash
<1> QED BY <1>1, <1>2, <1>3, <1>4, LogInSignIn

LEMMA SignInInit ==
    ASSUME Init
    PROVE  SignInInv
<1>1. TypeInv
    BY TypeInit
<1>2. Nothing \notin Nonces
    BY WebAssumption DEF WebAssumption
<1> QED BY <1>1, <1>2
        DEF Init, SignInInv, SignedInAsProven, IsProven, NoncesBindCallbacks, NoncesAreOwned,
            Asked, CodesAreProven, CallbacksAreProven, Idle, NewSession

LEMMA SignInStep ==
    ASSUME SignInInv, [Next]_vars
    PROVE  SignInInv'
<1>1. TypeInv'
    BY TypeStep DEF SignInInv
<1>2. CASE Next
    BY <1>1, <1>2, HandleSignIn, ArriveSignIn, OutsideSignIn DEF Next
<1>3. CASE UNCHANGED vars
    <2>1. \A s, n : Asked(s, n)' <=> Asked(s, n)
        BY <1>3 DEF vars, Asked
    <2>2. NoncesAreOwned'
        BY <1>3, <2>1 DEF vars, SignInInv, NoncesAreOwned
    <2>3. SignedInAsProven' /\ CodesAreProven' /\ CallbacksAreProven'
        BY <1>3 DEF vars, SignInInv, SignedInAsProven, IsProven, NoncesBindCallbacks,
                    CodesAreProven, CallbacksAreProven
    <2> QED BY <1>1, <2>2, <2>3 DEF SignInInv
<1> QED BY <1>2, <1>3

(***************************************************************************)
(* However requests of a session overlap, whichever browser opens the      *)
(* callback, with whatever state and code, and wherever saves get lost or  *)
(* pgrokd crashes: a callback with a nonce signs in nobody but a user who  *)
(* logged in for its session, and one without nobody but a user who logged *)
(* in on a page that no session asked for.                                 *)
(***************************************************************************)
THEOREM SignedInProven == Spec => []SignedInAsProven
<1>1. SignInInv => SignedInAsProven
    BY DEF SignInInv
<1> QED BY <1>1, SignInInit, SignInStep, PTL DEF Spec
----------------------------------------------------------------------------
(***************************************************************************)
(* The table of principals.                                                *)
(***************************************************************************)
\* A step leaves the table alone, or adds a row that conflicts with none
\* and is that of a user the callback accepts.
NewRow(row) == /\ row \in Principal
               /\ row.identifier \in Members
               /\ row.subdomain = Normalized[row.identifier]
               /\ ~Conflicts(row)
               /\ principals' = Append(principals, row)

LEMMA TableStep ==
    ASSUME TypeInv, [Next]_vars
    PROVE  UNCHANGED principals \/ \E row : NewRow(row)
<1>1. ASSUME NEW r \in Requests, Create(r)
      PROVE  UNCHANGED principals \/ \E row : NewRow(row)
    <2>1. CASE UNCHANGED principals
        BY <2>1
    <2>2. ASSUME NEW token \in Tokens, ~Conflicts(Row(request[r].identifier, token)),
                 principals' = Append(principals, Row(request[r].identifier, token))
          PROVE  \E row : NewRow(row)
        <3>1. Row(request[r].identifier, token) \in Principal
            BY <1>1, Inserted DEF Create
        <3>2. /\ Row(request[r].identifier, token).identifier \in Members
              /\ Row(request[r].identifier, token).subdomain =
                     Normalized[Row(request[r].identifier, token).identifier]
            BY <1>1, Handlers DEF Create, HandlerOK, PlaceOK, Accepts, Row
        <3> HIDE DEF Row
        <3>3. NewRow(Row(request[r].identifier, token))
            BY <2>2, <3>1, <3>2 DEF NewRow
        <3> QED BY <3>3
    <2> QED BY <1>1, <2>1, <2>2 DEF Create
<1>2. ASSUME NEW r \in Requests, Visit(r) \/ ComeBack(r)
      PROVE  UNCHANGED principals
    BY <1>2 DEF Visit, ComeBack, Receive
<1>3. ASSUME NEW r \in Requests, Handle(r), ~Create(r)
      PROVE  UNCHANGED principals
    BY <1>3 DEF Handle, Auth, SignOut, UserInfo, MismatchedState, Exchange,
                ExchangeFails, Find, Save
<1>4. CASE \/ \E page \in logins : Leave(page)
           \/ \E page \in logins \cup {Unasked}, i \in Identifiers : LogIn(page, i)
           \/ \E c \in codes : ExpireCode(c)
           \/ \E s \in Sessions : ExpireSession(s)
           \/ Crash
    BY <1>4 DEF Leave, LogIn, ExpireCode, ExpireSession, Crash
<1>5. CASE UNCHANGED vars
    BY <1>5 DEF vars
<1> QED BY <1>1, <1>2, <1>3, <1>4, <1>5 DEF Next

(***************************************************************************)
(* A sign-in never changes or removes the row of a principal.              *)
(***************************************************************************)
THEOREM TokensKept == Spec => TokensOutliveSignIns
<1> DEFINE Kept == \A id \in DOMAIN principals :
                      id \in DOMAIN principals' /\ principals'[id] = principals[id]
<1>1. TypeInv /\ [Next]_vars => Kept
    <2> SUFFICES ASSUME TypeInv, [Next]_vars
                 PROVE  Kept
        OBVIOUS
    <2>1. CASE UNCHANGED principals
        BY <2>1
    <2>2. CASE \E row : NewRow(row)
        <3>1. PICK row : NewRow(row)
            BY <2>2
        <3> QED BY <3>1, AppendGrows DEF NewRow
    <2> QED BY <2>1, <2>2, TableStep
<1> HIDE DEF Kept
<1>2. Spec => [][Kept]_vars
    BY <1>1, TypeInit, TypeStep, PTL DEF Spec
<1> QED BY <1>2 DEF TokensOutliveSignIns, Kept

(***************************************************************************)
(* No two principals share an identifier, a token or a subdomain, though   *)
(* sign-ins look for a row and insert one in two steps.                    *)
(***************************************************************************)
THEOREM DistinctPrincipals == Spec => []PrincipalsAreDistinct
<1>1. Init => PrincipalsAreDistinct
    BY DEF Init, PrincipalsAreDistinct
<1>2. TypeInv /\ PrincipalsAreDistinct /\ [Next]_vars => PrincipalsAreDistinct'
    <2> SUFFICES ASSUME TypeInv, PrincipalsAreDistinct, [Next]_vars
                 PROVE  PrincipalsAreDistinct'
        OBVIOUS
    <2>1. CASE UNCHANGED principals
        BY <2>1 DEF PrincipalsAreDistinct
    <2>2. CASE \E row : NewRow(row)
        <3>1. PICK row : NewRow(row)
            BY <2>2
        <3>2. /\ \A id \in DOMAIN principals : principals'[id] = principals[id]
              /\ DOMAIN principals' = DOMAIN principals \cup {Len(principals) + 1}
              /\ principals'[Len(principals) + 1] = row
            BY <3>1, AppendGrows DEF NewRow
        <3>3. \A id \in DOMAIN principals :
                  /\ principals[id].identifier # row.identifier
                  /\ principals[id].token # row.token
                  /\ principals[id].subdomain # row.subdomain
            BY <3>1 DEF NewRow, Conflicts
        <3> QED BY <3>2, <3>3 DEF PrincipalsAreDistinct
    <2> QED BY <2>1, <2>2, TableStep
<1> QED BY <1>1, <1>2, TypeInit, TypeStep, PTL DEF Spec

(***************************************************************************)
(* Nobody gets a principal who is not of the required domain, and nobody   *)
(* the subdomain of another identifier, though the checks were made at     *)
(* another step of the callback than the insert.                           *)
(***************************************************************************)
THEOREM MembersOnly == Spec => []OnlyMembersHavePrincipals
<1>1. Init => OnlyMembersHavePrincipals
    BY DEF Init, OnlyMembersHavePrincipals
<1>2. TypeInv /\ OnlyMembersHavePrincipals /\ [Next]_vars => OnlyMembersHavePrincipals'
    <2> SUFFICES ASSUME TypeInv, OnlyMembersHavePrincipals, [Next]_vars
                 PROVE  OnlyMembersHavePrincipals'
        OBVIOUS
    <2>1. CASE UNCHANGED principals
        BY <2>1 DEF OnlyMembersHavePrincipals
    <2>2. CASE \E row : NewRow(row)
        <3>1. PICK row : NewRow(row)
            BY <2>2
        <3>2. /\ \A id \in DOMAIN principals : principals'[id] = principals[id]
              /\ DOMAIN principals' = DOMAIN principals \cup {Len(principals) + 1}
              /\ principals'[Len(principals) + 1] = row
            BY <3>1, AppendGrows DEF NewRow
        <3> QED BY <3>1, <3>2 DEF OnlyMembersHavePrincipals, NewRow
    <2> QED BY <2>1, <2>2, TableStep
<1> QED BY <1>1, <1>2, TypeInit, TypeStep, PTL DEF Spec
===============================================================================
