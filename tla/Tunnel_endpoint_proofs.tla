------------------------ MODULE Tunnel_endpoint_proofs ------------------------
(***************************************************************************)
(* The ports and addresses that the daemon saves and reports are those of  *)
(* tunnels that serve, for all connections, users, UUIDs and ports, when   *)
(* clients are well behaved and ask in turn.                               *)
(***************************************************************************)
EXTENDS Tunnel_routing_proofs

\* From Opened to the end of the tunnel, the Principal that all goroutines of the
\* connection share has the port that this one has opened: the one it saves, and
\* the one "server-info" reports.
PortKnown == {"persist", "register", "assign", "answer", "serving"}

PortSound(c) ==
    \A n \in Numbers : handler[c][n].pc \in PortKnown => handler[c][n].port = client[c].lastPort

PortInv == RoutingInv /\ \A c \in Conns : PortSound(c)

\* No goroutine of c opens a port, and the Principal of c keeps its own.
LEMMA PortKept ==
    ASSUME NEW c \in Conns, PortSound(c),
           client'[c].lastPort = client[c].lastPort,
           \A m \in Numbers : handler'[c][m].pc \in PortKnown =>
               handler[c][m].pc \in PortKnown /\ handler'[c][m].port = handler[c][m].port
    PROVE  PortSound(c)'
  BY DEF PortSound

\* No goroutine of c has opened a port.
LEMMA PortIdle ==
    ASSUME NEW c \in Conns, \A m \in Numbers : handler'[c][m].pc \notin PortKnown
    PROVE  PortSound(c)'
  BY DEF PortSound

\* The other connections of a step that changes the client of c at most.
LEMMA PortElsewhere ==
    ASSUME PortInv, NEW c \in Conns, NEW fields, Update(c, fields), UNCHANGED handler
    PROVE  /\ client'[c] = fields
           /\ \A d \in Conns : d # c => PortSound(d)'
  <1>1. client \in [Conns -> Client] /\ \A d \in Conns : PortSound(d)
    BY DEF PortInv, RoutingInv, TypeInv, TypeOK
  <1> QED
    BY <1>1, PortKept DEF Update
----------------------------------------------------------------------------
(***************************************************************************)
(* Opened is the one step that stores a port in the Principal; a goroutine *)
(* of another forward would store its own over it, but a connection has    *)
(* one forward.                                                            *)
(***************************************************************************)
LEMMA OpenedPort ==
    ASSUME PortInv, NEW c \in Conns, NEW n \in Numbers, Opened(c, n)
    PROVE  \A d \in Conns : PortSound(d)'
  <1>1. /\ TypeOK /\ client[c] \in Client /\ handler[c][n] \in Handler /\ QueueSound(c)
        /\ \A d \in Conns : PortSound(d)
    BY DEF PortInv, RoutingInv, TypeInv, TypeOK, Sound
  <1> DEFINE port == handler[c][n].port
             fields == [client[c] EXCEPT !.waiter = TRUE, !.lastPort = port]
  <1>2. fields.lastPort = port
    BY <1>1 DEF Client
  <1>3. Update(c, fields)
    BY DEF Opened
  <1> HIDE DEF fields
  <1>4. client'[c].lastPort = port /\ \A d \in Conns : d # c => client'[d] = client[d]
    BY <1>1, <1>2, <1>3 DEF Update, TypeOK
  <1>5. \E pc : Goto(c, n, pc)
    BY DEF Opened
  <1>6. /\ handler'[c][n].port = port
        /\ \A d \in Conns, m \in Numbers : (d # c \/ m # n) => handler'[d][m] = handler[d][m]
    BY <1>1, <1>5 DEF Goto, Become, TypeOK
  <1>7. \A m \in Numbers : m # n => ~Active(c, m)
    BY <1>1 DEF QueueSound, OneForward, Forwarding, Opened, Active
  <1>8. PortSound(c)'
    BY <1>4, <1>6, <1>7 DEF PortSound, PortKnown, Active
  <1>9. ASSUME NEW d \in Conns, d # c PROVE PortSound(d)'
    BY <1>1, <1>4, <1>6, <1>9, PortKept
  <1> QED
    BY <1>8, <1>9

LEMMA GoroutinePort ==
    ASSUME PortInv, NEW c \in Conns, NEW n \in Numbers, GoroutineStep(c, n)
    PROVE  \A d \in Conns : PortSound(d)'
  <1>1. /\ TypeOK /\ client[c] \in Client /\ \A d \in Conns : PortSound(d)
    BY DEF PortInv, RoutingInv, TypeInv, TypeOK
  <1>2. CASE Opened(c, n)
    BY <1>2, OpenedPort
  <1>3. CASE ~Opened(c, n)
    <2>1. /\ client'[c].lastPort = client[c].lastPort
          /\ \A d \in Conns : d # c => client'[d] = client[d]
      <3>1. UNCHANGED client \/ FailForward(c, n) \/ AssignHost(c, n) \/ RunCancel(c, n)
        BY <1>3 DEF GoroutineStep, Goroutine, Refuse, Begin, AcquirePort, NoLuck, PersistPort,
           RegisterHost, AnswerForward, StopServing, UnregisterHost, CloseListener
      <3>2. CASE UNCHANGED client
        BY <3>2
      <3>3. CASE FailForward(c, n) \/ AssignHost(c, n) \/ RunCancel(c, n)
        <4>1. PICK fields : fields.lastPort = client[c].lastPort /\ Update(c, fields)
          BY <1>1, <3>3 DEF FailForward, AssignHost, RunCancel, Client
        <4> QED
          BY <1>1, <4>1 DEF Update, TypeOK
      <3> QED
        BY <3>1, <3>2, <3>3
    <2>2. \A d \in Conns, m \in Numbers : handler'[d][m].pc \in PortKnown =>
              handler[d][m].pc \in PortKnown /\ handler'[d][m].port = handler[d][m].port
      <3>1. ASSUME NEW pc, NEW port, NEW host, Become(c, n, pc, port, host),
                   pc \in PortKnown => handler[c][n].pc \in PortKnown /\ port = handler[c][n].port
            PROVE  \A d \in Conns, m \in Numbers : handler'[d][m].pc \in PortKnown =>
                       handler[d][m].pc \in PortKnown /\ handler'[d][m].port = handler[d][m].port
        <4>1. /\ handler'[c][n].pc = pc /\ handler'[c][n].port = port
              /\ \A d \in Conns, m \in Numbers :
                     (d # c \/ m # n) => handler'[d][m] = handler[d][m]
          BY <1>1, <3>1 DEF Become, TypeOK
        <4> QED
          BY <3>1, <4>1
      <3>2. CASE \/ Refuse(c, n) \/ NoLuck(c, n) \/ FailForward(c, n) \/ PersistPort(c, n)
                 \/ AssignHost(c, n) \/ AnswerForward(c, n) \/ UnregisterHost(c, n)
                 \/ CloseListener(c, n) \/ RunCancel(c, n)
        <4>1. \/ End(c, n)
              \/ \E pc \in {"failed", "closing"} : Goto(c, n, pc)
              \/ handler[c][n].pc \in PortKnown /\ \E pc : Goto(c, n, pc)
          BY <3>2 DEF Refuse, NoLuck, FailForward, PersistPort, AssignHost, AnswerForward,
             UnregisterHost, CloseListener, RunCancel, PortKnown
        <4>2. CASE End(c, n)
          BY <3>1, <4>2 DEF End, PortKnown
        <4>3. CASE \E pc \in {"failed", "closing"} : Goto(c, n, pc)
          BY <3>1, <4>3 DEF Goto, PortKnown
        <4>4. CASE handler[c][n].pc \in PortKnown /\ \E pc : Goto(c, n, pc)
          BY <3>1, <4>4 DEF Goto
        <4> QED
          BY <4>1, <4>2, <4>3, <4>4
      <3>3. CASE Begin(c, n) \/ AcquirePort(c, n) \/ StopServing(c, n)
        <4>1. \E pc, port, host : Become(c, n, pc, port, host) /\ pc \notin PortKnown
          BY <3>3 DEF Begin, AcquirePort, StopServing, Goto, PortKnown
        <4> QED
          BY <3>1, <4>1
      <3>4. CASE RegisterHost(c, n)
        <4>1. /\ handler[c][n].pc \in PortKnown
              /\ \E pc, host : Become(c, n, pc, handler[c][n].port, host)
          BY <3>4 DEF RegisterHost, Goto, PortKnown
        <4> QED
          BY <3>1, <4>1
      <3> QED
        BY <1>3, <3>2, <3>3, <3>4 DEF GoroutineStep, Goroutine
    <2> QED
      BY <1>1, <2>1, <2>2, PortKept
  <1> QED
    BY <1>2, <1>3

LEMMA RequestLoopPort ==
    ASSUME PortInv, NEW c \in Conns, RequestLoopStep(c)
    PROVE  \A d \in Conns : PortSound(d)'
  <1>1. /\ TypeOK /\ client[c] \in Client /\ QueueSound(c) /\ \A d \in Conns : PortSound(d)
    BY DEF PortInv, RoutingInv, TypeInv, TypeOK, Sound
  <1>2. CASE LoadPrincipal(c) \/ LoadPrincipalFails(c)
    <2>1. UNCHANGED handler /\ \E fields : Update(c, fields)
      BY <1>2 DEF LoadPrincipal, LoadPrincipalFails
    <2>2. \A m \in Numbers : handler[c][m].pc = "none"
      BY <1>1, <1>2 DEF LoadPrincipal, LoadPrincipalFails, QueueSound, HandlersStarted
    <2> QED
      BY <2>1, <2>2, PortIdle, PortElsewhere DEF PortKnown
  <1>3. CASE HandleHint(c) \/ HandleServerInfo(c) \/ AnswerServerInfo(c) \/ EndLoop(c)
    <2>1. UNCHANGED handler
      BY <1>3 DEF HandleHint, HandleServerInfo, AnswerServerInfo, EndLoop
    <2>2. CASE UNCHANGED client
      BY <1>1, <2>1, <2>2, PortKept
    <2>3. ASSUME ~UNCHANGED client
          PROVE  \E fields : Update(c, fields) /\ fields.lastPort = client[c].lastPort
      <3>1. CASE HandleHint(c) \/ HandleServerInfo(c)
        <4>1. \E protocol :
                  \/ Update(c, [client[c] EXCEPT !.protocol = protocol])
                  \/ Update(c, [client[c] EXCEPT !.protocol = protocol, !.state = "awaiting"])
          BY <2>3, <3>1 DEF HandleHint, HandleServerInfo
        <4>2. ASSUME NEW protocol
              PROVE  /\ [client[c] EXCEPT !.protocol = protocol].lastPort = client[c].lastPort
                     /\ [client[c] EXCEPT !.protocol = protocol, !.state = "awaiting"].lastPort
                            = client[c].lastPort
          BY <1>1 DEF Client
        <4> QED
          BY <4>1, <4>2
      <3>2. CASE AnswerServerInfo(c)
        <4> DEFINE fields == [client[c] EXCEPT !.state = "serving"]
        <4>1. Update(c, fields) /\ fields.lastPort = client[c].lastPort
          BY <1>1, <3>2 DEF AnswerServerInfo, Client
        <4> HIDE DEF fields
        <4> QED
          BY <4>1
      <3>3. CASE EndLoop(c)
        <4> DEFINE fields == [client[c] EXCEPT !.state = "closed", !.cancelled = TRUE]
        <4>1. Update(c, fields) /\ fields.lastPort = client[c].lastPort
          BY <1>1, <3>3 DEF EndLoop, Client
        <4> HIDE DEF fields
        <4> QED
          BY <4>1
      <3> QED
        BY <1>3, <3>1, <3>2, <3>3
    <2>4. CASE ~UNCHANGED client
      <3>1. PICK fields : Update(c, fields) /\ fields.lastPort = client[c].lastPort
        BY <2>3, <2>4
      <3> QED
        BY <1>1, <2>1, <3>1, PortElsewhere, PortKept
    <2> QED
      BY <2>2, <2>4
  <1>4. CASE HandleForward(c) \/ HandleCancel(c)
    <2>1. /\ UNCHANGED client
          /\ \E pc \in {"refuse", "begin", "cancel"} : Goto(c, Head(inbox[c]).n, pc)
      BY <1>4 DEF HandleForward, HandleCancel
    <2>2. \A d \in Conns, m \in Numbers :
              handler'[d][m].pc \in PortKnown => handler'[d][m] = handler[d][m]
      BY <1>1, <2>1 DEF Goto, Become, TypeOK, PortKnown
    <2> QED
      BY <1>1, <2>1, <2>2, PortKept
  <1>5. CASE HandleOther(c)
    BY <1>1, <1>5, PortKept DEF HandleOther
  <1> QED
    BY <1>2, <1>3, <1>4, <1>5 DEF RequestLoopStep, RequestLoop

LEMMA ClientPort ==
    ASSUME PortInv, NEW c \in Conns,
           \/ \E k \in Kinds : Dial(c, k)
           \/ SendNext(c) \/ SendCancel(c) \/ HearReply(c) \/ Drop(c)
           \/ WaiterStep(c)
    PROVE  \A d \in Conns : PortSound(d)'
  <1>1. TypeOK /\ client[c] \in Client /\ \A d \in Conns : PortSound(d)
    BY DEF PortInv, RoutingInv, TypeInv, TypeOK
  <1>2. CASE \E k \in Kinds : Dial(c, k)
    <2>1. /\ UNCHANGED handler /\ Update(c, NewClient(c, "loading", TRUE))
          /\ \A m \in Numbers : handler[c][m].pc = "none"
      BY <1>2 DEF Dial, Handshake
    <2> QED
      BY <2>1, PortIdle, PortElsewhere DEF PortKnown
  <1>3. CASE SendNext(c) \/ SendCancel(c) \/ HearReply(c)
    BY <1>1, <1>3, PortKept DEF SendNext, SendCancel, HearReply
  <1>4. CASE Drop(c) \/ WaiterStep(c)
    <2>1. PICK fields : /\ UNCHANGED handler /\ Update(c, fields)
                        /\ fields.lastPort = client[c].lastPort
      BY <1>1, <1>4 DEF Drop, WaiterStep, WaiterCancels, Client
    <2> QED
      BY <1>1, <2>1, PortElsewhere, PortKept
  <1> QED
    BY <1>2, <1>3, <1>4
----------------------------------------------------------------------------
LEMMA PortInvInit == ASSUME Init PROVE PortInv
  <1>1. RoutingInv
    BY InitType, InitRouting DEF RoutingInv
  <1>2. \A c \in Conns, n \in Numbers : handler[c][n].pc = "none"
    BY DEF Init, SshdInit, Idle
  <1> QED
    BY <1>1, <1>2 DEF PortInv, PortSound, PortKnown

LEMMA PortInvStep == WellBehavedClients /\ PortInv /\ [Next]_vars => PortInv'
  <1> SUFFICES ASSUME WellBehavedClients, PortInv, [Next]_vars PROVE PortInv'
    OBVIOUS
  <1>1. RoutingInv'
    BY RoutingStep DEF PortInv
  <1>2. CASE Crash
    <2>1. \A c \in Conns, n \in Numbers : handler'[c][n].pc = "none"
      BY <1>2 DEF Crash, Idle
    <2> QED
      BY <1>1, <2>1 DEF PortInv, PortSound, PortKnown
  <1>3. ASSUME NEW c \in Conns, ConnStep(c) PROVE \A d \in Conns : PortSound(d)'
    BY <1>3, GoroutinePort, RequestLoopPort, ClientPort DEF ConnStep
  <1>4. CASE UNCHANGED vars
    BY <1>1, <1>4, PortKept DEF vars, PortInv
  <1> QED
    BY <1>1, <1>2, <1>3, <1>4 DEF Next, PortInv

\* Only PersistPort writes the column.
LEMMA ColumnStep ==
    ASSUME [Next]_vars
    PROVE  UNCHANGED dbPort \/ \E c \in Conns, n \in Numbers : PersistPort(c, n)
  <1>1. ASSUME NEW c \in Conns, NEW n \in Numbers, Goroutine(c, n), ~PersistPort(c, n)
        PROVE  UNCHANGED dbPort
    BY <1>1 DEF Goroutine, Refuse, Begin, AcquirePort, NoLuck, FailForward, Opened,
       RegisterHost, AssignHost, AnswerForward, StopServing, UnregisterHost, CloseListener,
       RunCancel
  <1>2. ASSUME NEW c \in Conns, RequestLoop(c) PROVE UNCHANGED dbPort
    BY <1>2 DEF RequestLoop, LoadPrincipal, LoadPrincipalFails, HandleHint, HandleForward,
       HandleCancel, HandleOther, HandleServerInfo, AnswerServerInfo, EndLoop
  <1>3. ASSUME NEW c \in Conns,
               \/ \E k \in Kinds : Dial(c, k)
               \/ SendNext(c) \/ SendCancel(c) \/ HearReply(c) \/ Drop(c) \/ WaiterStep(c)
        PROVE  UNCHANGED dbPort
    BY <1>3 DEF Dial, Handshake, SendNext, SendCancel, HearReply, Drop, WaiterStep, WaiterCancels
  <1> QED
    BY <1>1, <1>2, <1>3 DEF Next, ConnStep, GoroutineStep, RequestLoopStep, Crash, vars

(***************************************************************************)
(* For well behaved clients, the port saved for a principal is one that a  *)
(* tunnel of that principal has open at that moment, however the tunnels   *)
(* of the principal overlap, are lost or start again.                      *)
(***************************************************************************)
THEOREM SavedPortHeld == ASSUME WellBehavedClients PROVE Spec => SavedPortIsHeld
  <1> DEFINE Held == \A p \in Principals : dbPort'[p] # dbPort[p] =>
                         \E c \in Conns, n \in Numbers :
                             PrincipalOf[c] = p /\ handler'[c][n].port = dbPort'[p]
  <1>1. PortInv /\ [Next]_vars => Held
    <2> SUFFICES ASSUME PortInv, [Next]_vars, NEW p \in Principals, dbPort'[p] # dbPort[p]
                 PROVE  \E c \in Conns, n \in Numbers :
                            PrincipalOf[c] = p /\ handler'[c][n].port = dbPort'[p]
      OBVIOUS
    <2>1. TypeOK /\ \A c \in Conns : PortSound(c)
      BY DEF PortInv, RoutingInv, TypeInv
    <2>2. PICK c \in Conns, n \in Numbers : PersistPort(c, n)
      BY ColumnStep
    <2>3. /\ handler[c][n].pc = "persist" /\ Goto(c, n, "register")
          /\ dbPort' = [dbPort EXCEPT ![PrincipalOf[c]] = client[c].lastPort]
      BY <2>2 DEF PersistPort
    <2>4. PrincipalOf[c] = p /\ dbPort'[p] = client[c].lastPort
      BY <2>1, <2>3 DEF TypeOK
    <2>5. handler'[c][n].port = handler[c][n].port
      BY <2>1, <2>3 DEF Goto, Become, TypeOK
    <2> QED
      BY <2>1, <2>3, <2>4, <2>5 DEF PortSound, PortKnown
  <1> HIDE DEF Held
  <1>2. Spec => []PortInv
    BY PortInvInit, PortInvStep, PTL DEF Spec
  <1>3. Spec => [][Held]_vars
    BY <1>1, <1>2, PTL DEF Spec
  <1> QED
    BY <1>3 DEF SavedPortIsHeld, Held
----------------------------------------------------------------------------
\* The goroutine has a listener open and, for "http", a route; it keeps both
\* until the connection's context is cancelled.
Holding(c, n) == handler[c][n].pc \in {"answer", "serving"}

Held(c) == \E n \in Numbers : Holding(c, n)
HoldsPort(c, port) ==
    port # 0 => \E n \in Numbers : Holding(c, n) /\ handler[c][n].port = port
HoldsHost(c, host) ==
    host # NoHost => \E n \in Numbers : Holding(c, n) /\ handler[c][n].host = host

Live(c) == peer[c] # Gone /\ ~client[c].cancelled

\* A client that waits for replies and has had none it gives up on.
InExchange(c) == Running(c) /\ peer[c].kind.serial

\* What a reply says is so, and it grants a forward only to one that is held.
Backed(c, reply) ==
    /\ HoldsPort(c, reply.port)
    /\ HoldsHost(c, reply.host)
    /\ (InExchange(c) /\ reply.ok /\ reply.n \in Forwards(Script(c))) => Held(c)

\* "server-info" waits behind a forward that is held.
InTurn(c, req) ==
    /\ req.type = "info" => Held(c)
    /\ (InExchange(c) /\ req.n \in Forwards(Script(c))) => req.type = "forward"

Earned(c) ==
    (InExchange(c) /\ \E i \in Forwards(Script(c)) : i <= peer[c].heard) => Held(c)

Told(c)  == HoldsPort(c, peer[c].port) /\ HoldsHost(c, peer[c].host)
Ready(c) == client[c].ready = "ok" => HoldsHost(c, client[c].host)

EndpointSound(c) == Live(c) =>
    /\ Told(c) /\ Ready(c) /\ Earned(c)
    /\ \A i \in DOMAIN outbox[c] : Backed(c, outbox[c][i])
    /\ \A i \in DOMAIN inbox[c] : InTurn(c, inbox[c][i])

EndpointInv == PortInv /\ \A c \in Conns : OneOpen(c) /\ EndpointSound(c)
----------------------------------------------------------------------------
HoldingKept(c) ==
    \A m \in Numbers : Holding(c, m) => /\ Holding(c, m)'
                                        /\ handler'[c][m].port = handler[c][m].port
                                        /\ handler'[c][m].host = handler[c][m].host

LEMMA EndpointFacts ==
    ASSUME EndpointInv, NEW c \in Conns
    PROVE  /\ TypeInv /\ TypeOK /\ EndsAgree(c) /\ client[c] \in Client
           /\ \A n \in Numbers : handler[c][n] \in Handler
           /\ inbox[c] \in Seq(Request) /\ outbox[c] \in Seq(Reply)
           /\ QueueSound(c) /\ HandlersSound(c) /\ RoutesSound
           /\ PortSound(c) /\ OneOpen(c) /\ EndpointSound(c)
  BY DEF EndpointInv, PortInv, RoutingInv, TypeInv, TypeOK, Sound

\* What is held stays held.
LEMMA HoldsKept ==
    ASSUME NEW c \in Conns, HoldingKept(c)
    PROVE  /\ Held(c) => Held(c)'
           /\ \A port : HoldsPort(c, port) => HoldsPort(c, port)'
           /\ \A host : HoldsHost(c, host) => HoldsHost(c, host)'
  <1> USE DEF HoldingKept
  <1>1. Held(c) => Held(c)'
    BY DEF Held
  <1>2. ASSUME NEW port, HoldsPort(c, port) PROVE HoldsPort(c, port)'
    BY <1>2 DEF HoldsPort
  <1>3. ASSUME NEW host, HoldsHost(c, host) PROVE HoldsHost(c, host)'
    BY <1>3 DEF HoldsHost
  <1> QED
    BY <1>1, <1>2, <1>3

\* A step of connection c by what it does to each part of the invariant.
LEMMA EndpointStep ==
    ASSUME NEW c \in Conns, EndpointSound(c), HoldingKept(c), Live(c)' => Live(c),
           peer'[c].kind = peer[c].kind, Running(c)' => Running(c),
           \/ /\ peer'[c].port = peer[c].port /\ peer'[c].host = peer[c].host
              /\ peer'[c].heard = peer[c].heard
           \/ Live(c) => Told(c)' /\ Earned(c)',
           \/ client'[c].host = client[c].host /\ client'[c].ready = client[c].ready
           \/ Live(c) => Ready(c)',
           \A i \in DOMAIN outbox'[c] :
               \/ \E j \in DOMAIN outbox[c] : outbox'[c][i] = outbox[c][j]
               \/ Live(c) => Backed(c, outbox[c][i])',
           \A i \in DOMAIN inbox'[c] :
               \/ \E j \in DOMAIN inbox[c] : inbox'[c][i] = inbox[c][j]
               \/ Live(c) => InTurn(c, inbox[c][i])'
    PROVE  EndpointSound(c)'
  <1> SUFFICES ASSUME Live(c)'
               PROVE  /\ Told(c)' /\ Ready(c)' /\ Earned(c)'
                      /\ \A i \in DOMAIN outbox'[c] : Backed(c, outbox[c][i])'
                      /\ \A i \in DOMAIN inbox'[c] : InTurn(c, inbox[c][i])'
    BY DEF EndpointSound
  <1>1. /\ Live(c) /\ Told(c) /\ Ready(c) /\ Earned(c)
        /\ \A i \in DOMAIN outbox[c] : Backed(c, outbox[c][i])
        /\ \A i \in DOMAIN inbox[c] : InTurn(c, inbox[c][i])
    BY DEF EndpointSound
  <1>2. (InExchange(c)' => InExchange(c)) /\ Script(c)' = Script(c)
    BY DEF InExchange, Script
  <1>3. Told(c)' /\ Earned(c)'
    BY <1>1, <1>2, HoldsKept DEF Told, Earned
  <1>4. Ready(c)'
    BY <1>1, HoldsKept DEF Ready
  <1>5. ASSUME NEW i \in DOMAIN outbox'[c] PROVE Backed(c, outbox[c][i])'
    BY <1>1, <1>2, HoldsKept DEF Backed
  <1>6. ASSUME NEW i \in DOMAIN inbox'[c] PROVE InTurn(c, inbox[c][i])'
    BY <1>1, <1>2, HoldsKept DEF InTurn
  <1> QED
    BY <1>3, <1>4, <1>5, <1>6

LEMMA EndpointDead == ASSUME NEW c \in Conns, ~Live(c)' PROVE EndpointSound(c)'
  BY DEF EndpointSound

\* Nothing happens to connection c but that goroutines that hold nothing move.
LEMMA EndpointFrame ==
    ASSUME NEW c \in Conns, EndpointSound(c), HoldingKept(c), peer'[c] = peer[c],
           client'[c] = client[c], inbox'[c] = inbox[c], outbox'[c] = outbox[c]
    PROVE  EndpointSound(c)'
  BY EndpointStep DEF Live, Running

\* A goroutine or the request loop of connection c moves; the others are left alone.
LEMMA OthersKept ==
    ASSUME EndpointInv, NEW c \in Conns, EndpointSound(c)',
           \A d \in Conns : d # c => /\ peer'[d] = peer[d] /\ client'[d] = client[d]
                                     /\ inbox'[d] = inbox[d] /\ outbox'[d] = outbox[d]
                                     /\ HoldingKept(d)
    PROVE  \A d \in Conns : EndpointSound(d)'
  BY EndpointFrame DEF EndpointInv

\* An answer adds one reply at most.
LEMMA Replied ==
    ASSUME TypeOK, NEW c \in Conns, NEW reply \in Reply,
           UNCHANGED outbox \/ outbox' = [outbox EXCEPT ![c] = Append(outbox[c], reply)]
    PROVE  \A i \in DOMAIN outbox'[c] :
               \/ \E j \in DOMAIN outbox[c] : outbox'[c][i] = outbox[c][j]
               \/ outbox'[c][i] = reply
  <1>1. outbox[c] \in Seq(Reply)
    BY DEF TypeOK
  <1>2. outbox'[c] = outbox[c] \/ outbox'[c] = Append(outbox[c], reply)
    BY DEF TypeOK
  <1>3. \A i \in DOMAIN Append(outbox[c], reply) :
            \/ \E j \in DOMAIN outbox[c] : Append(outbox[c], reply)[i] = outbox[c][j]
            \/ Append(outbox[c], reply)[i] = reply
    <2>1. DOMAIN outbox[c] = 1 .. Len(outbox[c]) /\ Len(outbox[c]) \in Nat
      BY <1>1, LenProperties
    <2> QED
      BY <1>1, <2>1, Appended
  <1> QED
    BY <1>2, <1>3

\* A denial, and a grant that names nothing and is not for a forward that a
\* client waits for, are always true.
LEMMA NothingSaid ==
    ASSUME NEW c \in Conns, NEW reply, reply.port = 0, reply.host = NoHost,
           ~reply.ok \/ ~(InExchange(c)' /\ reply.n \in Forwards(Script(c))')
    PROVE  Backed(c, reply)'
  BY DEF Backed, HoldsPort, HoldsHost
----------------------------------------------------------------------------
LEMMA GoroutineEndpoint ==
    ASSUME EndpointInv, NEW c \in Conns, NEW n \in Numbers, GoroutineStep(c, n)
    PROVE  \A d \in Conns : EndpointSound(d)'
  <1>1. /\ TypeInv /\ TypeOK /\ client[c] \in Client /\ EndpointSound(c)
        /\ handler[c][n] \in Handler
    BY EndpointFacts
  <1>2. UNCHANGED <<peer, inbox>> /\ \A d \in Conns : d # c => client'[d] = client[d]
    BY <1>1 DEF GoroutineStep, Goroutine, Refuse, Begin, AcquirePort, NoLuck, FailForward, Opened,
           PersistPort, RegisterHost, AssignHost, AnswerForward, StopServing, UnregisterHost,
           CloseListener, RunCancel, Update, TypeOK
  <1>3. ASSUME NEW pc, NEW port, NEW host, Become(c, n, pc, port, host)
        PROVE  /\ \A d \in Conns : d # c => HoldingKept(d)
               /\ ~Holding(c, n) => HoldingKept(c)
               /\ (pc \in {"answer", "serving"} /\ port = handler[c][n].port
                       /\ host = handler[c][n].host) => HoldingKept(c) /\ Holding(c, n)'
               /\ handler'[c][n].port = port /\ handler'[c][n].host = host
    <2>1. /\ handler'[c][n] = [pc |-> pc, port |-> port, host |-> host]
          /\ \A d \in Conns, m \in Numbers :
                 (d # c \/ m # n) => handler'[d][m] = handler[d][m]
      BY <1>1, <1>3 DEF Become, TypeOK
    <2> QED
      BY <2>1 DEF HoldingKept, Holding
  <1>4. PICK pc, port, host : Become(c, n, pc, port, host)
    BY DEF GoroutineStep, Goroutine, Refuse, Begin, AcquirePort, NoLuck, FailForward, Opened,
           PersistPort, RegisterHost, AssignHost, AnswerForward, StopServing, UnregisterHost,
           CloseListener, RunCancel, Goto, End
  <1>5. ASSUME UNCHANGED outbox \/ \E ok, p, h : Answer(c, n, ok, p, h), EndpointSound(c)'
        PROVE  \A d \in Conns : EndpointSound(d)'
    <2>1. \A d \in Conns : d # c => outbox'[d] = outbox[d]
      BY <1>1, <1>5 DEF Answer, TypeOK
    <2> QED
      BY <1>2, <1>3, <1>4, <1>5, <2>1, OthersKept
  <1>6. CASE \/ Begin(c, n) \/ AcquirePort(c, n) \/ NoLuck(c, n) \/ PersistPort(c, n)
             \/ RegisterHost(c, n) \/ UnregisterHost(c, n) \/ CloseListener(c, n)
    <2>1. UNCHANGED <<client, outbox>> /\ ~Holding(c, n)
      BY <1>6 DEF Begin, AcquirePort, NoLuck, PersistPort, RegisterHost, UnregisterHost,
         CloseListener, Holding
    <2> QED
      BY <1>1, <1>2, <1>3, <1>4, <1>5, <2>1, EndpointFrame
  <1>7. CASE Opened(c, n)
    <2> DEFINE fields == [client[c] EXCEPT !.waiter = TRUE, !.lastPort = handler[c][n].port]
    <2>1. UNCHANGED outbox /\ ~Holding(c, n) /\ Update(c, fields)
      BY <1>7 DEF Opened, Holding
    <2>2. /\ fields.cancelled = client[c].cancelled /\ fields.host = client[c].host
          /\ fields.ready = client[c].ready
      BY <1>1 DEF Client
    <2> HIDE DEF fields
    <2>3. client'[c] = fields
      BY <1>1, <2>1 DEF Update, TypeOK
    <2>4. EndpointSound(c)'
      BY <1>1, <1>2, <1>3, <1>4, <2>1, <2>2, <2>3, EndpointStep DEF Live, Running
    <2> QED
      BY <1>5, <2>1, <2>4
  <1>8. CASE Refuse(c, n) \/ FailForward(c, n)
    <2>1. Answer(c, n, FALSE, 0, NoHost) /\ ~Holding(c, n)
      BY <1>8 DEF Refuse, FailForward, Holding
    <2>2. /\ client'[c].cancelled = client[c].cancelled /\ client'[c].host = client[c].host
          /\ client'[c].ready \in {client[c].ready, "failed"}
      <3>1. CASE UNCHANGED client
        BY <3>1
      <3>2. CASE FailForward(c, n)
        <4> DEFINE fields == [client[c] EXCEPT !.ready = SignalReady(@, "failed")]
        <4>1. Update(c, fields)
          BY <3>2 DEF FailForward
        <4>2. /\ fields.cancelled = client[c].cancelled /\ fields.host = client[c].host
              /\ fields.ready \in {client[c].ready, "failed"}
          BY <1>1 DEF Client, SignalReady
        <4> HIDE DEF fields
        <4>3. client'[c] = fields
          BY <1>1, <4>1 DEF Update, TypeOK
        <4> QED
          BY <4>2, <4>3
      <3> QED
        BY <1>8, <3>1, <3>2 DEF Refuse
    <2> DEFINE reply == [n |-> n, ok |-> FALSE, port |-> 0, host |-> NoHost]
    <2>3. Backed(c, reply)'
      BY NothingSaid
    <2>4. \A i \in DOMAIN outbox'[c] :
              \/ \E j \in DOMAIN outbox[c] : outbox'[c][i] = outbox[c][j]
              \/ outbox'[c][i] = reply
      <3>1. reply \in Reply
        BY DEF Reply
      <3>2. UNCHANGED outbox \/ outbox' = [outbox EXCEPT ![c] = Append(outbox[c], reply)]
        BY <2>1 DEF Answer
      <3> HIDE DEF reply
      <3> QED
        BY <1>1, <3>1, <3>2, Replied
    <2> HIDE DEF reply
    <2>5. Live(c)' => Live(c)
      BY <1>2, <2>2 DEF Live
    <2>6. (client'[c].ready = client[c].ready) \/ Ready(c)'
      BY <2>2 DEF Ready
    <2>7. \A i \in DOMAIN outbox'[c] :
              \/ \E j \in DOMAIN outbox[c] : outbox'[c][i] = outbox[c][j]
              \/ Backed(c, outbox[c][i])'
      BY <2>3, <2>4
    <2>8. EndpointSound(c)'
      BY <1>1, <1>2, <1>3, <1>4, <2>1, <2>2, <2>5, <2>6, <2>7, EndpointStep DEF Running
    <2> QED
      BY <1>5, <2>1, <2>8
  <1>9. CASE AssignHost(c, n)
    <2> DEFINE host1 == handler[c][n].host
               fields == [client[c] EXCEPT !.host = host1, !.ready = SignalReady(@, "ok")]
    <2>1. /\ UNCHANGED outbox /\ ~Holding(c, n) /\ Update(c, fields)
          /\ Become(c, n, "answer", handler[c][n].port, host1)
      BY <1>9 DEF AssignHost, Holding, Goto
    <2> HIDE DEF host1
    <2>2. fields.cancelled = client[c].cancelled /\ fields.host = host1
      BY <1>1 DEF Client
    <2> HIDE DEF fields
    <2>3. client'[c] = fields
      BY <1>1, <2>1 DEF Update, TypeOK
    <2>4. Holding(c, n)' /\ handler'[c][n].host = host1 /\ HoldingKept(c)
      BY <1>3, <2>1 DEF host1
    <2>5. Ready(c)'
      BY <2>2, <2>3, <2>4 DEF Ready, HoldsHost
    <2>6. EndpointSound(c)'
      BY <1>1, <1>2, <2>1, <2>2, <2>3, <2>4, <2>5, EndpointStep DEF Live, Running
    <2> QED
      BY <1>5, <2>1, <2>6
  <1>10. CASE AnswerForward(c, n)
    <2>1. PICK port1 : port1 = handler[c][n].port
      OBVIOUS
    <2> DEFINE reply == [n |-> n, ok |-> TRUE, port |-> port1, host |-> NoHost]
    <2>2. /\ UNCHANGED client /\ Become(c, n, "serving", port1, handler[c][n].host)
          /\ Answer(c, n, TRUE, port1, NoHost)
      BY <1>10, <2>1 DEF AnswerForward, Goto
    <2>3. Holding(c, n)' /\ handler'[c][n].port = port1 /\ HoldingKept(c)
      BY <1>3, <2>1, <2>2
    <2>4. \A i \in DOMAIN outbox'[c] :
              \/ \E j \in DOMAIN outbox[c] : outbox'[c][i] = outbox[c][j]
              \/ outbox'[c][i] = reply
      <3>1. reply \in Reply
        BY <1>1, <2>1 DEF Handler, Reply
      <3>2. UNCHANGED outbox \/ outbox' = [outbox EXCEPT ![c] = Append(outbox[c], reply)]
        BY <2>2 DEF Answer
      <3> HIDE DEF reply
      <3> QED
        BY <1>1, <3>1, <3>2, Replied
    <2>5. Backed(c, reply)'
      BY <2>3 DEF Backed, Held, HoldsPort, HoldsHost
    <2> HIDE DEF reply
    <2>6. \A i \in DOMAIN outbox'[c] :
              \/ \E j \in DOMAIN outbox[c] : outbox'[c][i] = outbox[c][j]
              \/ Backed(c, outbox[c][i])'
      BY <2>4, <2>5
    <2>7. EndpointSound(c)'
      BY <1>1, <1>2, <2>2, <2>3, <2>6, EndpointStep DEF Live, Running
    <2> QED
      BY <1>5, <2>2, <2>7
  <1>11. CASE StopServing(c, n) \/ RunCancel(c, n)
    <2>1. client'[c].cancelled
      BY <1>1, <1>11 DEF StopServing, RunCancel, Update, TypeOK, Client
    <2>2. UNCHANGED outbox \/ \E ok, p, h : Answer(c, n, ok, p, h)
      BY <1>11 DEF StopServing, RunCancel
    <2> QED
      BY <1>5, <2>1, <2>2, EndpointDead DEF Live
  <1> QED
    BY <1>6, <1>7, <1>8, <1>9, <1>10, <1>11 DEF GoroutineStep, Goroutine
----------------------------------------------------------------------------
\* While the request loop serves, it leaves to goroutines what they share with it.
LEMMA LoopClient ==
    ASSUME TypeOK, NEW c \in Conns, RequestLoopStep(c), ~LoadPrincipalFails(c), ~EndLoop(c)
    PROVE  /\ UNCHANGED peer
           /\ \A d \in Conns : d # c => client'[d] = client[d]
           /\ client'[c].cancelled = client[c].cancelled
           /\ client'[c].host = client[c].host /\ client'[c].ready = client[c].ready
  <1>1. client[c] \in Client
    BY DEF TypeOK
  <1> DEFINE Kept(new) == /\ new.up = client[c].up /\ new.cancelled = client[c].cancelled
                          /\ new.host = client[c].host /\ new.ready = client[c].ready
  <1>2. UNCHANGED client \/ \E new : Update(c, new) /\ Kept(new)
    <2>1. CASE LoadPrincipal(c)
      <3> DEFINE new == [client[c] EXCEPT !.state = "serving",
                                          !.lastPort = dbPort[PrincipalOf[c]]]
      <3>1. Kept(new)
        BY <1>1 DEF Client
      <3>2. Update(c, new)
        BY <2>1 DEF LoadPrincipal
      <3> HIDE DEF new
      <3> QED
        BY <3>1, <3>2
    <2>2. CASE HandleHint(c) \/ HandleServerInfo(c)
      <3>1. \/ UNCHANGED client
            \/ \E protocol :
                   \/ Update(c, [client[c] EXCEPT !.protocol = protocol])
                   \/ Update(c, [client[c] EXCEPT !.protocol = protocol, !.state = "awaiting"])
        BY <2>2 DEF HandleHint, HandleServerInfo
      <3>2. ASSUME NEW protocol
            PROVE  /\ Kept([client[c] EXCEPT !.protocol = protocol])
                   /\ Kept([client[c] EXCEPT !.protocol = protocol, !.state = "awaiting"])
        BY <1>1 DEF Client
      <3> HIDE DEF Kept
      <3> QED
        BY <3>1, <3>2
    <2>3. CASE AnswerServerInfo(c)
      <3> DEFINE new == [client[c] EXCEPT !.state = "serving"]
      <3>1. Update(c, new) /\ Kept(new)
        BY <1>1, <2>3 DEF AnswerServerInfo, Client
      <3> HIDE DEF new
      <3> QED
        BY <3>1
    <2>4. CASE HandleForward(c) \/ HandleCancel(c) \/ HandleOther(c)
      BY <2>4 DEF HandleForward, HandleCancel, HandleOther
    <2> QED
      BY <2>1, <2>2, <2>3, <2>4 DEF RequestLoopStep, RequestLoop
  <1>3. ASSUME NEW new, Update(c, new)
        PROVE  client'[c] = new /\ \A d \in Conns : d # c => client'[d] = client[d]
    BY <1>3 DEF Update, TypeOK
  <1>4. /\ client'[c].up = client[c].up
        /\ \A d \in Conns : d # c => client'[d] = client[d]
        /\ client'[c].cancelled = client[c].cancelled
        /\ client'[c].host = client[c].host /\ client'[c].ready = client[c].ready
    BY <1>2, <1>3
  <1> QED
    BY <1>4 DEF RequestLoopStep

\* The loop takes the request at the head.
LEMMA Popped ==
    ASSUME TypeOK, NEW c \in Conns, inbox[c] # <<>>, inbox' = [inbox EXCEPT ![c] = Tail(inbox[c])]
    PROVE  /\ \A d \in Conns : d # c => inbox'[d] = inbox[d]
           /\ \A i \in DOMAIN inbox'[c] : \E j \in DOMAIN inbox[c] : inbox'[c][i] = inbox[c][j]
  <1>1. inbox'[c] = Tail(inbox[c]) /\ \A d \in Conns : d # c => inbox'[d] = inbox[d]
    BY DEF TypeOK
  <1> QED
    BY <1>1, InboxTail

\* The loop answers the request at the head, and the answer is right.
LEMMA LoopAnswers ==
    ASSUME EndpointInv, NEW c \in Conns, RequestLoopStep(c), UNCHANGED handler,
           ~LoadPrincipalFails(c), ~EndLoop(c),
           inbox[c] # <<>>, inbox' = [inbox EXCEPT ![c] = Tail(inbox[c])],
           NEW reply \in Reply,
           UNCHANGED outbox \/ outbox' = [outbox EXCEPT ![c] = Append(outbox[c], reply)],
           Live(c) => Backed(c, reply)
    PROVE  \A d \in Conns : EndpointSound(d)'
  <1>1. TypeOK /\ EndpointSound(c)
    BY EndpointFacts
  <1>2. \A d \in Conns : HoldingKept(d)
    BY DEF HoldingKept, Holding
  <1>3. /\ UNCHANGED peer
        /\ \A d \in Conns : d # c => client'[d] = client[d]
        /\ client'[c].cancelled = client[c].cancelled
        /\ client'[c].host = client[c].host /\ client'[c].ready = client[c].ready
    BY <1>1, LoopClient
  <1>4. \A d \in Conns : d # c => outbox'[d] = outbox[d]
    BY <1>1 DEF TypeOK
  <1>5. Live(c) => Backed(c, reply)'
    BY <1>3 DEF Backed, HoldsPort, HoldsHost, InExchange, Running, Script, Held, Holding
  <1>6. \A i \in DOMAIN outbox'[c] :
            \/ \E j \in DOMAIN outbox[c] : outbox'[c][i] = outbox[c][j]
            \/ Live(c) => Backed(c, outbox[c][i])'
    BY <1>1, <1>5, Replied
  <1>7. EndpointSound(c)'
    BY <1>1, <1>2, <1>3, <1>6, Popped, EndpointStep DEF Live, Running
  <1> QED
    BY <1>1, <1>2, <1>3, <1>4, <1>7, Popped, OthersKept

LEMMA RequestLoopEndpoint ==
    ASSUME EndpointInv, NEW c \in Conns, RequestLoopStep(c)
    PROVE  \A d \in Conns : EndpointSound(d)'
  <1> DEFINE req == Head(inbox[c])
  <1>1. /\ TypeOK /\ client[c] \in Client /\ EndpointSound(c) /\ QueueSound(c) /\ PortSound(c)
        /\ EndsAgree(c) /\ HandlersSound(c)
    BY EndpointFacts
  <1>2. inbox[c] # <<>> => /\ req \in Request /\ req.n \in Numbers
                           /\ 1 \in DOMAIN inbox[c] /\ req = inbox[c][1]
    BY <1>1, Inbox, InboxHead DEF Request
  <1>3. Live(c) /\ inbox[c] # <<>> => InTurn(c, req)
    BY <1>1, <1>2 DEF EndpointSound
  <1>4. ASSUME UNCHANGED <<handler, inbox, outbox>>, ~LoadPrincipalFails(c), ~EndLoop(c)
        PROVE  \A d \in Conns : EndpointSound(d)'
    <2>1. \A d \in Conns : HoldingKept(d)
      BY <1>4 DEF HoldingKept, Holding
    <2>2. EndpointSound(c)'
      BY <1>1, <1>4, <2>1, LoopClient, EndpointStep DEF Live, Running
    <2> QED
      BY <1>1, <1>4, <2>1, <2>2, LoopClient, OthersKept
  <1>5. CASE LoadPrincipal(c) /\ ~LoadPrincipalFails(c)
    <2>1. UNCHANGED <<handler, inbox, outbox>> /\ ~LoadPrincipalFails(c) /\ ~EndLoop(c)
      BY <1>5 DEF LoadPrincipal, EndLoop
    <2> QED
      BY <1>4, <2>1
  <1>6. CASE LoadPrincipalFails(c) \/ EndLoop(c)
    <2>1. CASE LoadPrincipalFails(c)
      <3>1. /\ Update(c, NewClient(c, "closed", FALSE)) /\ UNCHANGED handler
            /\ inbox' = [inbox EXCEPT ![c] = <<>>] /\ outbox' = [outbox EXCEPT ![c] = <<>>]
            /\ peer' = IF client[c].up /\ ~client'[c].up THEN [peer EXCEPT ![c] = Gone] ELSE peer
        BY <2>1 DEF LoadPrincipalFails, RequestLoopStep
      <3>2. ~client'[c].up
        BY <1>1, <3>1 DEF Update, NewClient, TypeOK
      <3>3. peer'[c] = Gone
        BY <1>1, <3>1, <3>2 DEF EndsAgree, TypeOK
      <3>4. \A d \in Conns : d # c => /\ peer'[d] = peer[d] /\ client'[d] = client[d]
                                       /\ inbox'[d] = inbox[d] /\ outbox'[d] = outbox[d]
                                       /\ HoldingKept(d)
        BY <1>1, <3>1 DEF TypeOK, Update, HoldingKept, Holding
      <3> QED
        BY <3>3, <3>4, EndpointDead, OthersKept DEF Live
    <2>2. CASE EndLoop(c)
      <3> DEFINE new == [client[c] EXCEPT !.state = "closed", !.cancelled = TRUE]
      <3>1. /\ Update(c, new) /\ UNCHANGED <<handler, inbox, outbox>> /\ ~client[c].up
            /\ peer' = IF client[c].up /\ ~client'[c].up THEN [peer EXCEPT ![c] = Gone] ELSE peer
        BY <2>2 DEF EndLoop, RequestLoopStep
      <3> HIDE DEF new
      <3>2. UNCHANGED peer /\ peer[c] = Gone
        BY <1>1, <3>1 DEF EndsAgree
      <3>3. \A d \in Conns : d # c => /\ peer'[d] = peer[d] /\ client'[d] = client[d]
                                       /\ inbox'[d] = inbox[d] /\ outbox'[d] = outbox[d]
                                       /\ HoldingKept(d)
        BY <1>1, <3>1, <3>2 DEF TypeOK, Update, HoldingKept, Holding
      <3> QED
        BY <3>2, <3>3, EndpointDead, OthersKept DEF Live
    <2> QED
      BY <1>6, <2>1, <2>2
  <1>7. CASE HandleForward(c) \/ HandleCancel(c)
    <2>1. /\ NextRequest(c, "forward") \/ NextRequest(c, "cancel")
          /\ inbox[c] # <<>> /\ inbox' = [inbox EXCEPT ![c] = Tail(inbox[c])]
          /\ UNCHANGED <<client, outbox>>
          /\ \E pc : Goto(c, req.n, pc)
      BY <1>7 DEF HandleForward, HandleCancel, NextRequest
    <2>2. UNCHANGED peer
      BY <2>1 DEF RequestLoopStep
    <2>3. handler[c][req.n].pc = "none"
      BY <1>1, <1>2, <2>1 DEF QueueSound, InboxInOrder, Numbers
    <2>4. \A d \in Conns, m \in Numbers : (d # c \/ m # req.n) => handler'[d][m] = handler[d][m]
      BY <1>1, <2>1 DEF Goto, Become, TypeOK
    <2>5. \A d \in Conns : HoldingKept(d)
      BY <1>2, <2>1, <2>3, <2>4 DEF HoldingKept, Holding
    <2>6. EndpointSound(c)'
      BY <1>1, <2>1, <2>2, <2>5, Popped, EndpointStep DEF Live, Running
    <2> QED
      BY <1>1, <2>1, <2>2, <2>5, <2>6, Popped, OthersKept
  <1>8. ASSUME inbox[c] # <<>>, inbox' = [inbox EXCEPT ![c] = Tail(inbox[c])],
               UNCHANGED handler, ~LoadPrincipalFails(c), ~EndLoop(c),
               NEW ok \in BOOLEAN, NEW port \in Ports \cup {0}, NEW host \in Host \cup {NoHost},
               Answer(c, req.n, ok, port, host),
               Live(c) => HoldsPort(c, port) /\ HoldsHost(c, host),
               ~ok \/ req.type # "forward"
        PROVE  \A d \in Conns : EndpointSound(d)'
    <2>1. PICK reply : reply = [n |-> req.n, ok |-> ok, port |-> port, host |-> host]
      OBVIOUS
    <2>2. reply \in Reply
      BY <1>2, <1>8, <2>1 DEF Reply
    <2>3. UNCHANGED outbox \/ outbox' = [outbox EXCEPT ![c] = Append(outbox[c], reply)]
      BY <1>8, <2>1 DEF Answer
    <2>4. Live(c) => Backed(c, reply)
      BY <1>3, <1>8, <2>1 DEF Backed, InTurn
    <2> QED
      BY <1>8, <2>2, <2>3, <2>4, LoopAnswers
  <1>9. HoldsPort(c, 0) /\ HoldsHost(c, NoHost)
    BY DEF HoldsPort, HoldsHost
  <1>10. CASE HandleHint(c) \/ HandleOther(c)
    <2>1. /\ inbox[c] # <<>> /\ inbox' = [inbox EXCEPT ![c] = Tail(inbox[c])]
          /\ UNCHANGED handler /\ ~LoadPrincipalFails(c) /\ ~EndLoop(c)
          /\ req.type # "forward"
      BY <1>10 DEF HandleHint, HandleOther, NextRequest, LoadPrincipalFails, EndLoop
    <2>2. Answer(c, req.n, TRUE, 0, NoHost) \/ Answer(c, req.n, FALSE, 0, NoHost)
      BY <1>10 DEF HandleHint, HandleOther
    <2> QED
      BY <1>8, <1>9, <2>1, <2>2
  <1>11. CASE HandleServerInfo(c)
    <2>1. /\ inbox[c] # <<>> /\ req.type = "info"
          /\ UNCHANGED handler /\ ~LoadPrincipalFails(c) /\ ~EndLoop(c)
      BY <1>11 DEF HandleServerInfo, NextRequest, LoadPrincipalFails, EndLoop
    <2>2. Live(c) => HoldsPort(c, client[c].lastPort)
      BY <1>1, <1>3, <2>1 DEF InTurn, Held, HoldsPort, PortSound, PortKnown, Holding
    <2>3. \/ UNCHANGED <<inbox, outbox>>
          \/ /\ inbox' = [inbox EXCEPT ![c] = Tail(inbox[c])]
             /\ \/ Answer(c, req.n, TRUE, client[c].lastPort, NoHost)
                \/ Answer(c, req.n, FALSE, 0, NoHost)
      BY <1>11 DEF HandleServerInfo
    <2>4. client[c].lastPort \in Ports \cup {0}
      BY <1>1 DEF Client
    <2> QED
      BY <1>4, <1>8, <1>9, <2>1, <2>2, <2>3, <2>4
  <1>12. CASE AnswerServerInfo(c)
    <2>1. /\ client[c].state = "awaiting" /\ client[c].ready # "pending"
          /\ inbox' = [inbox EXCEPT ![c] = Tail(inbox[c])]
          /\ UNCHANGED handler /\ ~LoadPrincipalFails(c) /\ ~EndLoop(c)
          /\ \/ Answer(c, req.n, FALSE, 0, NoHost)
             \/ /\ client[c].ready # "failed"
                /\ \E host \in HostReads(c) : Answer(c, req.n, TRUE, 0, host)
      BY <1>12 DEF AnswerServerInfo, LoadPrincipalFails, EndLoop
    <2>2. inbox[c] # <<>> /\ req.type = "info"
      BY <1>1, <2>1 DEF QueueSound, AwaitsInfo
    <2>3. CASE Answer(c, req.n, FALSE, 0, NoHost)
      BY <1>8, <1>9, <2>1, <2>2, <2>3
    <2>4. ASSUME client[c].ready # "failed",
                 NEW host \in HostReads(c), Answer(c, req.n, TRUE, 0, host)
          PROVE  \A d \in Conns : EndpointSound(d)'
      <3>1. host \in Host
        BY <1>1 DEF HostReads, Client, Host
      <3>2. Live(c) => HoldsHost(c, host)
        <4> SUFFICES ASSUME Live(c) PROVE HoldsHost(c, host)
          OBVIOUS
        <4>1. PICK n \in Numbers : Holding(c, n)
          BY <1>3, <2>2 DEF InTurn, Held
        <4>2. host = client[c].host
          BY <1>1, <4>1, Reads, <2>4 DEF Active, Holding
        <4>3. client[c].ready = "ok"
          BY <1>1, <2>1, <2>4 DEF Client
        <4> QED
          BY <1>1, <4>2, <4>3 DEF EndpointSound, Ready
      <3> QED
        BY <1>8, <1>9, <2>1, <2>2, <2>4, <3>1, <3>2
    <2> QED
      BY <2>1, <2>3, <2>4
  <1> QED
    BY <1>5, <1>6, <1>7, <1>10, <1>11, <1>12 DEF RequestLoopStep, RequestLoop
----------------------------------------------------------------------------
\* The client sends a request, and not too early.
LEMMA SentEndpoint ==
    ASSUME EndpointInv, NEW c \in Conns, NEW req \in Request, NEW new,
           inbox' = [inbox EXCEPT ![c] = Append(inbox[c], req)], UpdatePeer(c, new),
           new.kind = peer[c].kind, new.port = peer[c].port, new.host = peer[c].host,
           new.heard = peer[c].heard, new.status = "running" => Running(c),
           UNCHANGED <<client, handler, outbox>>, peer[c] # Gone,
           (Live(c) /\ req.type = "info") => Held(c),
           (Live(c) /\ new.status = "running" /\ new.kind.serial
               /\ req.n \in Forwards(new.kind.script)) => req.type = "forward"
    PROVE  \A d \in Conns : EndpointSound(d)'
  <1>1. TypeOK /\ EndpointSound(c) /\ inbox[c] \in Seq(Request)
    BY EndpointFacts
  <1>2. \A d \in Conns : HoldingKept(d)
    BY DEF HoldingKept, Holding
  <1>3. /\ peer'[c] = new /\ inbox'[c] = Append(inbox[c], req)
        /\ \A d \in Conns : d # c => peer'[d] = peer[d] /\ inbox'[d] = inbox[d]
    BY <1>1 DEF UpdatePeer, TypeOK
  <1>4. \A i \in DOMAIN inbox'[c] :
            (\E j \in DOMAIN inbox[c] : inbox'[c][i] = inbox[c][j]) \/ inbox'[c][i] = req
    <2>1. DOMAIN inbox[c] = 1 .. Len(inbox[c]) /\ Len(inbox[c]) \in Nat
      BY <1>1, LenProperties
    <2> QED
      BY <1>1, <1>3, <2>1, Appended
  <1>5. Live(c) => InTurn(c, req)'
    BY <1>2, <1>3, HoldsKept DEF InTurn, InExchange, Running, Script
  <1>6. \A i \in DOMAIN inbox'[c] :
            \/ \E j \in DOMAIN inbox[c] : inbox'[c][i] = inbox[c][j]
            \/ Live(c) => InTurn(c, inbox[c][i])'
    BY <1>4, <1>5
  <1>7. EndpointSound(c)'
    BY <1>1, <1>2, <1>3, <1>6, EndpointStep DEF Live, Running
  <1> QED
    BY <1>2, <1>3, <1>7, OthersKept

LEMMA SendEndpoint ==
    ASSUME EndpointInv, AskInTurn, NEW c \in Conns, SendNext(c) \/ SendCancel(c)
    PROVE  \A d \in Conns : EndpointSound(d)'
  <1>1. /\ TypeInv /\ TypeOK /\ EndsAgree(c) /\ EndpointSound(c) /\ OneOpen(c)
    BY EndpointFacts
  <1>2. peer[c] # Gone
    BY RunningFacts DEF SendNext, SendCancel
  <1>3. /\ peer[c] \in Peer /\ Script(c) \in Seq(Step) /\ Len(Script(c)) \in Nat
        /\ Len(Script(c)) < MaxRequests
        /\ peer[c].sent \in Nat /\ peer[c].heard \in Nat /\ peer[c].kind \in Kinds
    BY <1>1, <1>2, PeerFacts, TunnelAssumption DEF Peer, Script
  <1>4. CASE SendNext(c)
    <2>1. peer[c].sent < Len(Script(c)) /\ Running(c)
      BY <1>4 DEF SendNext
    <2> DEFINE step == Script(c)[peer[c].sent + 1]
    <2>2. step \in Step
      BY <1>3, <2>1
    <2>3. PICK sent : sent = peer[c].sent + 1
      OBVIOUS
    <2>4. PICK req : req = [n |-> sent, type |-> step.type, protocol |-> step.protocol,
                            rport |-> step.rport]
      OBVIOUS
    <2>5. PICK new : new = [peer[c] EXCEPT !.sent = sent]
      OBVIOUS
    <2>6. /\ inbox' = [inbox EXCEPT ![c] = Append(inbox[c], req)] /\ UpdatePeer(c, new)
          /\ UNCHANGED <<client, handler, outbox>>
          /\ peer[c].kind.serial => peer[c].heard = peer[c].sent
      BY <1>4, <2>3, <2>4, <2>5 DEF SendNext, SendRequest
    <2>7. req.n = sent /\ req.type = step.type /\ sent \in DOMAIN Script(c) /\ sent \in Nat
      BY <1>3, <2>1, <2>3, <2>4
    <2>8. req \in Request
      <3>1. step.type \in {"hint", "forward", "info", "keepalive"}
            /\ step.protocol \in Protocols \cup {""} /\ step.rport \in Nat
        BY <2>2 DEF Step
      <3>2. sent \in Numbers
        BY <1>3, <2>1, <2>3, SshdAssumption DEF Numbers
      <3> HIDE DEF step
      <3> QED
        BY <2>4, <3>1, <3>2 DEF Request
    <2>9. /\ new.kind = peer[c].kind /\ new.port = peer[c].port /\ new.host = peer[c].host
          /\ new.heard = peer[c].heard
      BY <1>3, <2>5 DEF Peer
    <2>10. (Live(c) /\ req.type = "info") => Held(c)
      <3> SUFFICES ASSUME Live(c), req.type = "info" PROVE Held(c)
        OBVIOUS
      <3>1. Script(c)[sent].type = "info"
        BY <2>3, <2>7
      <3>2. peer[c].kind.serial /\ \E j \in Forwards(Script(c)) : j < sent
        BY <1>3, <2>7, <3>1 DEF AskInTurn, Script
      <3>3. \E j \in Forwards(Script(c)) : j <= peer[c].heard
        BY <1>3, <2>3, <2>6, <3>2 DEF Forwards
      <3> QED
        BY <1>1, <2>1, <3>2, <3>3 DEF EndpointSound, Earned, InExchange
    <2>11. req.n \in Forwards(new.kind.script) => req.type = "forward"
      BY <2>3, <2>7, <2>9 DEF Forwards, Script
    <2> HIDE DEF step
    <2> QED
      BY <1>2, <2>1, <2>6, <2>8, <2>9, <2>10, <2>11, SentEndpoint
  <1>5. CASE SendCancel(c)
    <2>1. peer[c].sent <= Len(Script(c))
      BY <1>1, <1>2, <1>5 DEF SendCancel, EndsAgree, Running
    <2>2. PICK sent : sent = peer[c].sent + 1
      OBVIOUS
    <2>3. PICK req : req = [n |-> sent, type |-> "cancel", protocol |-> "", rport |-> 0]
      OBVIOUS
    <2>4. PICK new : new = [peer[c] EXCEPT !.status = "abandoned", !.sent = sent]
      OBVIOUS
    <2>5. /\ inbox' = [inbox EXCEPT ![c] = Append(inbox[c], req)] /\ UpdatePeer(c, new)
          /\ UNCHANGED <<client, handler, outbox>>
      BY <1>5, <2>2, <2>3, <2>4 DEF SendCancel, SendRequest, CancelForward
    <2>6. req \in Request /\ req.type = "cancel"
      <3>1. sent \in Numbers
        BY <1>3, <2>1, <2>2, SshdAssumption DEF Numbers
      <3> QED
        BY <2>3, <3>1 DEF Request
    <2>7. /\ new.kind = peer[c].kind /\ new.port = peer[c].port /\ new.host = peer[c].host
          /\ new.heard = peer[c].heard /\ new.status = "abandoned"
      BY <1>3, <2>4 DEF Peer
    <2> QED
      BY <1>2, <2>5, <2>6, <2>7, SentEndpoint
  <1> QED
    BY <1>4, <1>5

LEMMA HearEndpoint ==
    ASSUME EndpointInv, NEW c \in Conns, HearReply(c)
    PROVE  \A d \in Conns : EndpointSound(d)'
  <1>1. /\ TypeInv /\ TypeOK /\ EndsAgree(c) /\ EndpointSound(c) /\ OneOpen(c)
        /\ outbox[c] \in Seq(Reply)
    BY EndpointFacts
  <1>2. /\ outbox[c] # <<>> /\ outbox' = [outbox EXCEPT ![c] = Tail(@)]
        /\ UNCHANGED <<client, handler, inbox>>
    BY DEF HearReply
  <1>3. peer[c] # Gone /\ peer[c] \in Peer /\ peer[c].heard \in Nat
        /\ Script(c) \in Seq(Step) /\ Len(Script(c)) \in Nat
    BY <1>1, <1>2, PeerFacts DEF EndsAgree, Peer
  <1>4. PICK reply : reply = Head(outbox[c])
    OBVIOUS
  <1>5. PICK heard, status, host, port :
            /\ heard = peer[c].heard + 1
            /\ status = StatusAfter(c, reply.ok)
            /\ host = IF reply.host # NoHost THEN reply.host ELSE peer[c].host
            /\ port = IF reply.port # 0 THEN reply.port ELSE peer[c].port
    OBVIOUS
  <1>6. PICK new : new = [peer[c] EXCEPT !.heard = heard, !.status = status,
                                         !.host = host, !.port = port]
    OBVIOUS
  <1>7. UpdatePeer(c, new)
    BY <1>4, <1>5, <1>6 DEF HearReply
  <1>8. /\ new.kind = peer[c].kind /\ new.heard = heard /\ new.status = status
        /\ new.host = host /\ new.port = port
    BY <1>3, <1>6 DEF Peer
  <1>9. /\ peer'[c] = new /\ outbox'[c] = Tail(outbox[c])
        /\ \A d \in Conns : d # c => peer'[d] = peer[d] /\ outbox'[d] = outbox[d]
    BY <1>1, <1>2, <1>7 DEF UpdatePeer, TypeOK
  <1>10. \A d \in Conns : HoldingKept(d)
    BY <1>2 DEF HoldingKept, Holding
  <1>11. /\ 1 \in DOMAIN outbox[c] /\ reply = outbox[c][1]
         /\ \A i \in DOMAIN Tail(outbox[c]) :
                \E j \in DOMAIN outbox[c] : Tail(outbox[c])[i] = outbox[c][j]
    <2>1. /\ Len(outbox[c]) \in Nat \ {0} /\ DOMAIN outbox[c] = 1 .. Len(outbox[c])
          /\ Head(outbox[c]) = outbox[c][1]
      BY <1>1, <1>2, EmptySeq, LenProperties
    <2>2. /\ DOMAIN Tail(outbox[c]) = 1 .. (Len(outbox[c]) - 1)
          /\ \A i \in 1 .. (Len(outbox[c]) - 1) : Tail(outbox[c])[i] = outbox[c][i + 1]
      BY <1>1, <1>2, HeadTailProperties, LenProperties
    <2> QED
      BY <1>4, <2>1, <2>2
  <1>12. Running(c)' => Running(c)
    BY <1>5, <1>8, <1>9 DEF Running, StatusAfter
  <1>13. Live(c) => Told(c)' /\ Earned(c)'
    <2> SUFFICES ASSUME Live(c) PROVE Told(c)' /\ Earned(c)'
      OBVIOUS
    <2>1. Backed(c, reply) /\ Told(c) /\ Earned(c)
      BY <1>1, <1>11 DEF EndpointSound
    <2>2. HoldsPort(c, port) /\ HoldsHost(c, host)
      BY <1>5, <2>1 DEF Told, Backed
    <2>3. Told(c)'
      BY <1>8, <1>9, <1>10, <2>2, HoldsKept DEF Told
    <2>4. ASSUME InExchange(c)', NEW i \in Forwards(Script(c))', i <= heard PROVE Held(c)
      <3>1. InExchange(c) /\ i \in Forwards(Script(c)) /\ status = "running"
        BY <1>8, <1>9, <1>12, <2>4 DEF InExchange, Script, Running
      <3>2. i \in 1 .. Len(Script(c)) /\ Script(c)[i].type = "forward"
        BY <1>3, <3>1 DEF Forwards
      <3>3. CASE i <= peer[c].heard
        BY <2>1, <3>1, <3>3 DEF Earned
      <3>4. CASE i = peer[c].heard + 1
        <4>1. reply.n = i
          BY <1>1, <1>2, <1>3, <1>11, <3>1, <3>4 DEF OneOpen, Exchange, InExchange
        <4>2. Answered(c) = "forward"
          BY <1>3, <3>2, <3>4 DEF Answered
        <4>3. reply.ok
          BY <1>5, <3>1, <4>2 DEF StatusAfter, InExchange
        <4> QED
          BY <2>1, <3>1, <4>1, <4>3 DEF Backed
      <3> QED
        BY <1>3, <1>5, <2>4, <3>2, <3>3, <3>4
    <2>5. Earned(c)'
      BY <1>8, <1>9, <1>10, <2>4, HoldsKept DEF Earned
    <2> QED
      BY <2>3, <2>5
  <1>14. EndpointSound(c)'
    BY <1>1, <1>2, <1>3, <1>8, <1>9, <1>10, <1>11, <1>12, <1>13, EndpointStep DEF Live
  <1> QED
    BY <1>2, <1>9, <1>10, <1>14, OthersKept

LEMMA ClientEndpoint ==
    ASSUME EndpointInv, AskInTurn, NEW c \in Conns,
           \/ \E k \in Kinds : Dial(c, k)
           \/ SendNext(c) \/ SendCancel(c) \/ HearReply(c) \/ Drop(c)
           \/ WaiterStep(c)
    PROVE  \A d \in Conns : EndpointSound(d)'
  <1>1. TypeOK /\ client[c] \in Client
    BY EndpointFacts
  <1>2. ASSUME NEW k \in Kinds, Dial(c, k) PROVE \A d \in Conns : EndpointSound(d)'
    <2>1. /\ UNCHANGED handler /\ Update(c, NewClient(c, "loading", TRUE))
          /\ inbox' = [inbox EXCEPT ![c] = <<>>] /\ outbox' = [outbox EXCEPT ![c] = <<>>]
          /\ UpdatePeer(c, NewPeer(k))
      BY <1>2 DEF Dial, Handshake
    <2>2. /\ inbox'[c] = <<>> /\ outbox'[c] = <<>> /\ peer'[c] = NewPeer(k)
          /\ client'[c] = NewClient(c, "loading", TRUE)
          /\ \A d \in Conns : d # c => /\ inbox'[d] = inbox[d] /\ outbox'[d] = outbox[d]
                                       /\ peer'[d] = peer[d] /\ client'[d] = client[d]
                                       /\ HoldingKept(d)
      BY <1>1, <2>1 DEF Update, UpdatePeer, TypeOK, HoldingKept, Holding
    <2>3. Told(c)' /\ Ready(c)'
      BY <2>2 DEF Told, Ready, HoldsPort, HoldsHost, NewPeer, NewClient
    <2>4. Earned(c)'
      <3>1. k.script \in Seq(Step) /\ Script(c)' = k.script /\ peer'[c].heard = 0
        BY <2>2, TunnelAssumption DEF Script, NewPeer
      <3>2. \A i \in Forwards(k.script) : ~(i <= 0)
        BY <3>1 DEF Forwards
      <3> QED
        BY <3>1, <3>2 DEF Earned
    <2>5. EndpointSound(c)'
      BY <2>2, <2>3, <2>4 DEF EndpointSound
    <2> QED
      BY <2>2, <2>5, OthersKept
  <1>3. CASE Drop(c)
    <2>1. PICK received : inbox' = [inbox EXCEPT ![c] = SubSeq(@, 1, received)]
      BY <1>3 DEF Drop
    <2>2. /\ UNCHANGED handler /\ UpdatePeer(c, Gone) /\ outbox' = [outbox EXCEPT ![c] = <<>>]
          /\ Update(c, [client[c] EXCEPT !.up = FALSE])
      BY <1>3 DEF Drop
    <2>3. /\ peer'[c] = Gone
          /\ \A d \in Conns : d # c => /\ inbox'[d] = inbox[d] /\ outbox'[d] = outbox[d]
                                       /\ peer'[d] = peer[d] /\ client'[d] = client[d]
                                       /\ HoldingKept(d)
      BY <1>1, <2>1, <2>2 DEF Update, UpdatePeer, TypeOK, HoldingKept, Holding
    <2> QED
      BY <2>3, EndpointDead, OthersKept DEF Live
  <1>4. CASE WaiterStep(c)
    <2>1. /\ Update(c, [client[c] EXCEPT !.cancelled = TRUE])
          /\ UNCHANGED <<handler, inbox, outbox, peer>>
      BY <1>4 DEF WaiterStep, WaiterCancels
    <2>2. /\ client'[c].cancelled
          /\ \A d \in Conns : d # c => client'[d] = client[d]
          /\ \A d \in Conns : HoldingKept(d)
      BY <1>1, <2>1 DEF Update, TypeOK, Client, HoldingKept, Holding
    <2> QED
      BY <2>1, <2>2, EndpointDead, OthersKept DEF Live
  <1> QED
    BY <1>2, <1>3, <1>4, SendEndpoint, HearEndpoint
----------------------------------------------------------------------------
LEMMA EndpointInit == ASSUME Init PROVE EndpointInv
  <1>1. \A c \in Conns : peer[c] = Gone
    BY DEF Init
  <1> QED
    BY <1>1, PortInvInit, RepliesInvInit DEF EndpointInv, RepliesInv, EndpointSound, Live

LEMMA EndpointInvStep ==
    WellBehavedClients /\ AskInTurn /\ EndpointInv /\ [Next]_vars => EndpointInv'
  <1> SUFFICES ASSUME WellBehavedClients, AskInTurn, EndpointInv, [Next]_vars
               PROVE  EndpointInv'
    OBVIOUS
  <1>1. PortInv'
    BY PortInvStep DEF EndpointInv
  <1>2. RepliesInv /\ RepliesInv'
    BY RepliesInvStep DEF EndpointInv, PortInv, RoutingInv, RepliesInv
  <1>3. CASE Crash
    <2>1. \A c \in Conns : peer'[c] = Gone
      BY <1>3 DEF Crash
    <2> QED
      BY <1>1, <1>2, <2>1 DEF EndpointInv, RepliesInv, EndpointSound, Live
  <1>4. ASSUME NEW c \in Conns, ConnStep(c) PROVE \A d \in Conns : EndpointSound(d)'
    BY <1>4, GoroutineEndpoint, RequestLoopEndpoint, ClientEndpoint DEF ConnStep
  <1>5. CASE UNCHANGED vars
    BY <1>1, <1>2, <1>5, EndpointFrame
       DEF vars, EndpointInv, RepliesInv, HoldingKept, Holding
  <1> QED
    BY <1>1, <1>2, <1>3, <1>4, <1>5 DEF Next, EndpointInv, RepliesInv

(***************************************************************************)
(* For clients that are well behaved and ask in turn, the address a client *)
(* was told works, whatever else connects, fails or is lost: the port is   *)
(* its own listener's, and the host is routed to it.                       *)
(***************************************************************************)
THEOREM ReportedServed ==
    ASSUME WellBehavedClients, AskInTurn PROVE Spec => []ReportedEndpointServed
  <1>1. EndpointInv => ReportedEndpointServed
    <2> SUFFICES ASSUME EndpointInv, NEW c \in Conns, Live(c)
                 PROVE  /\ peer[c].port # 0 =>
                               \E n \in Numbers : handler[c][n].port = peer[c].port
                        /\ peer[c].host # NoHost => \E n \in Numbers : Serves(c, n, peer[c].host)
      BY DEF ReportedEndpointServed, Live
    <2>1. Told(c) /\ HandlersSound(c) /\ RoutesSound
      BY EndpointFacts DEF EndpointSound
    <2>2. ASSUME NEW n \in Numbers, Holding(c, n), handler[c][n].host # NoHost
          PROVE  Serves(c, n, handler[c][n].host)
      <3>1. Registered(c, n)
        BY <2>2 DEF Holding, Registered
      <3> QED
        BY <2>1, <3>1 DEF RoutesSound, HandlersSound, HandlerSound, Serves
    <2> QED
      BY <2>1, <2>2 DEF Told, HoldsPort, HoldsHost
  <1> QED
    BY <1>1, EndpointInit, EndpointInvStep, PTL DEF Spec
=============================================================================
