---------------------------- MODULE Tunnel_proofs ----------------------------
(***************************************************************************)
(* What holds of Tunnel for all connections, users, clients and ports: the *)
(* types, and that every request of a client gets its answer.              *)
(*                                                                         *)
(* TypeOK is not inductive by itself: a reply in flight must have a client *)
(* to hear it, and a client must not run out of request numbers.  TypeInv  *)
(* adds that.                                                              *)
(***************************************************************************)
EXTENDS TunnelInvariant, SequenceTheorems, FiniteSetTheorems, TLAPS

LEMMA HostFacts ==
    /\ NoHost \notin Host
    /\ \A c \in Conns : MainHost(c) \in Host /\ Alternatives(c) \subseteq Host
  BY SshdAssumption DEF Host, MainHost, Alternatives

LEMMA PortFacts == 0 \notin Ports /\ Ports \subseteq Nat
  BY SshdAssumption DEF Ports

----------------------------------------------------------------------------
\* What the three ways to change the shared state do to it.

HandlerBecomes(c, n, h) ==
    /\ handler' \in [Conns -> [Numbers -> Handler]]
    /\ handler'[c][n] = h
    /\ \A d \in Conns, m \in Numbers : (d # c \/ m # n) => handler'[d][m] = handler[d][m]

ClientBecomes(c, fields) ==
    /\ client' \in [Conns -> Client]
    /\ client'[c] = fields
    /\ \A d \in Conns : d # c => client'[d] = client[d]

OutboxGrows(c) ==
    /\ outbox' \in [Conns -> Seq(Reply)]
    /\ \A d \in Conns : d # c \/ ~client[d].up => outbox'[d] = outbox[d]

LEMMA HandlerUpdate ==
    ASSUME handler \in [Conns -> [Numbers -> Handler]],
           NEW c \in Conns, NEW n \in Numbers, NEW pc, NEW port, NEW host,
           [pc |-> pc, port |-> port, host |-> host] \in Handler,
           Become(c, n, pc, port, host)
    PROVE  HandlerBecomes(c, n, [pc |-> pc, port |-> port, host |-> host])
  BY DEF Become, HandlerBecomes

LEMMA ClientUpdate ==
    ASSUME client \in [Conns -> Client], NEW c \in Conns,
           NEW fields \in Client, Update(c, fields)
    PROVE  ClientBecomes(c, fields)
  BY DEF Update, ClientBecomes

LEMMA OutboxUpdate ==
    ASSUME outbox \in [Conns -> Seq(Reply)], NEW c \in Conns, NEW n \in Numbers,
           NEW ok \in BOOLEAN, NEW port \in Ports \cup {0},
           NEW host \in Host \cup {NoHost}, Answer(c, n, ok, port, host)
    PROVE  OutboxGrows(c)
  <1>1. [n |-> n, ok |-> ok, port |-> port, host |-> host] \in Reply
    BY DEF Reply
  <1> QED
    BY <1>1 DEF Answer, OutboxGrows

LEMMA InitType == Init => TypeInv
  <1> SUFFICES ASSUME Init PROVE TypeInv
    OBVIOUS
  <1> USE HostFacts, PortFacts DEF Init, SshdInit, NewCluster, NewClient, Idle
  <1>1. TypeOK
    BY DEF TypeOK, Client, Handler, Protocols, Absent, Peer, Gone
  <1>2. ASSUME NEW c \in Conns PROVE EndsAgree(c) /\ HostsAssigned(c)
    BY DEF EndsAgree, HostsAssigned, Gone
  <1> QED
    BY <1>1, <1>2 DEF TypeInv

----------------------------------------------------------------------------
\* The goroutines of forwards and cancels.

\* It is enough to look at the parts of the state that a goroutine changes.
HandlerKept == /\ handler' \in [Conns -> [Numbers -> Handler]]
               /\ \A d \in Conns, m \in Numbers :
                      handler'[d][m].pc = "assign" =>
                          handler'[d][m] = handler[d][m] \/ handler'[d][m].host # NoHost
ClientKept  == /\ client' \in [Conns -> Client]
               /\ \A d \in Conns : /\ client'[d].up = client[d].up
                                    /\ client'[d].state = client[d].state
OutboxKept  == /\ outbox' \in [Conns -> Seq(Reply)]
               /\ \A d \in Conns : ~client[d].up => outbox'[d] = outbox[d]
TablesKept  == /\ proxies' \in [Host -> Ports \cup {Absent}]
               /\ dbPort' \in [Principals -> Ports \cup {0}]

LEMMA KeptType ==
    ASSUME TypeInv, UNCHANGED <<peer, inbox>>,
           HandlerKept, ClientKept, OutboxKept, TablesKept
    PROVE  TypeInv'
  <1> USE DEF HandlerKept, ClientKept, OutboxKept, TablesKept
  <1>1. TypeOK'
    BY DEF TypeInv, TypeOK
  <1>2. ASSUME NEW d \in Conns PROVE EndsAgree(d)' /\ HostsAssigned(d)'
    BY DEF TypeInv, TypeOK, EndsAgree, HostsAssigned, Script
  <1> QED
    BY <1>1, <1>2 DEF TypeInv

LEMMA HandlerFrame ==
    ASSUME NEW c \in Conns, NEW n \in Numbers, NEW h, HandlerBecomes(c, n, h),
           h.pc = "assign" => h.host # NoHost
    PROVE  HandlerKept
  BY DEF HandlerBecomes, HandlerKept

LEMMA ClientFrame ==
    ASSUME TypeOK, NEW c \in Conns, NEW fields, ClientBecomes(c, fields),
           fields.up = client[c].up, fields.state = client[c].state
    PROVE  ClientKept
  BY DEF ClientBecomes, ClientKept

LEMMA Unchanged ==
    ASSUME TypeOK
    PROVE  /\ UNCHANGED client => ClientKept
           /\ UNCHANGED outbox => OutboxKept
           /\ UNCHANGED <<proxies, dbPort>> => TablesKept
  BY DEF TypeOK, ClientKept, OutboxKept, TablesKept

LEMMA OutboxFrame ==
    ASSUME NEW c \in Conns, OutboxGrows(c) PROVE OutboxKept
  BY DEF OutboxGrows, OutboxKept

LEMMA GoroutineType ==
    ASSUME TypeInv, NEW c \in Conns, NEW n \in Numbers, GoroutineStep(c, n)
    PROVE  TypeInv'
  <1> DEFINE h == handler[c][n]
  <1> USE HostFacts, PortFacts
  <1>1. TypeOK /\ h \in Handler /\ client[c] \in Client
    BY DEF TypeInv, TypeOK
  <1>2. UNCHANGED peer
    BY DEF GoroutineStep
  <1>3. CASE Refuse(c, n)
    <2>1. HandlerBecomes(c, n, [pc |-> "none", port |-> 0, host |-> NoHost])
      BY <1>1, <1>3, HandlerUpdate DEF Refuse, End, TypeOK, Handler
    <2>2. OutboxGrows(c)
      BY <1>1, <1>3, OutboxUpdate DEF Refuse, TypeOK
    <2>3. UNCHANGED <<client, proxies, dbPort, inbox>>
      BY <1>3 DEF Refuse
    <2> QED
      BY <1>1, <1>2, <2>1, <2>2, <2>3, HandlerFrame, OutboxFrame, Unchanged, KeptType
  <1>4. CASE Begin(c, n)
    <2>1. PICK protocol \in ProtocolReads(c) :
              \/ /\ Become(c, n, "opened", client[c].lastPort, NoHost)
                 /\ InTCPRange(client[c].lastPort)
              \/ Goto(c, n, "tcpPort") \/ Goto(c, n, "httpPort") \/ Goto(c, n, "failed")
      BY <1>4 DEF Begin
    <2>2. \/ HandlerBecomes(c, n, [pc |-> "opened", port |-> client[c].lastPort, host |-> NoHost])
          \/ HandlerBecomes(c, n, [pc |-> "tcpPort", port |-> h.port, host |-> h.host])
          \/ HandlerBecomes(c, n, [pc |-> "httpPort", port |-> h.port, host |-> h.host])
          \/ HandlerBecomes(c, n, [pc |-> "failed", port |-> h.port, host |-> h.host])
      BY <1>1, <2>1, HandlerUpdate DEF Goto, TypeOK, Handler, Client
    <2>3. UNCHANGED <<client, outbox, proxies, dbPort, inbox>>
      BY <1>4 DEF Begin
    <2> QED
      BY <1>1, <1>2, <2>2, <2>3, HandlerFrame, Unchanged, KeptType
  <1>5. CASE AcquirePort(c, n)
    <2>1. PICK port \in PortRange(h.pc) : Become(c, n, "opened", port, NoHost)
      BY <1>5 DEF AcquirePort
    <2>2. HandlerBecomes(c, n, [pc |-> "opened", port |-> port, host |-> NoHost])
      BY <1>1, <2>1, HandlerUpdate DEF TypeOK, Handler, PortRange, Ports
    <2>3. UNCHANGED <<client, outbox, proxies, dbPort, inbox>>
      BY <1>5 DEF AcquirePort
    <2> QED
      BY <1>1, <1>2, <2>2, <2>3, HandlerFrame, Unchanged, KeptType
  <1>6. CASE NoLuck(c, n)
    <2>1. HandlerBecomes(c, n, [pc |-> "failed", port |-> h.port, host |-> h.host])
      BY <1>1, <1>6, HandlerUpdate DEF NoLuck, Goto, End, TypeOK, Handler
    <2>2. UNCHANGED <<client, outbox, proxies, dbPort, inbox>>
      BY <1>6 DEF NoLuck
    <2> QED
      BY <1>1, <1>2, <2>1, <2>2, HandlerFrame, Unchanged, KeptType
  <1>7. CASE FailForward(c, n)
    <2>1. \/ HandlerBecomes(c, n, [pc |-> "none", port |-> 0, host |-> NoHost])
          \/ HandlerBecomes(c, n, [pc |-> "closing", port |-> h.port, host |-> h.host])
      BY <1>1, <1>7, HandlerUpdate DEF FailForward, Goto, End, TypeOK, Handler
    <2>2. OutboxGrows(c)
      BY <1>1, <1>7, OutboxUpdate DEF FailForward, TypeOK
    <2>3. ClientKept
      <3> DEFINE fields == [client[c] EXCEPT !.ready = SignalReady(@, "failed")]
      <3>1. fields \in Client /\ fields.up = client[c].up /\ fields.state = client[c].state
        BY <1>1 DEF Client, SignalReady
      <3>2. ClientBecomes(c, fields)
        BY <1>1, <1>7, <3>1, ClientUpdate DEF FailForward, TypeOK
      <3> QED
        BY <1>1, <3>1, <3>2, ClientFrame
    <2>4. UNCHANGED <<proxies, dbPort, inbox>>
      BY <1>7 DEF FailForward
    <2> QED
      BY <1>1, <1>2, <2>1, <2>2, <2>3, <2>4, HandlerFrame, OutboxFrame, Unchanged, KeptType
  <1>8. CASE Opened(c, n)
    <2>1. \/ HandlerBecomes(c, n, [pc |-> "persist", port |-> h.port, host |-> h.host])
          \/ HandlerBecomes(c, n, [pc |-> "register", port |-> h.port, host |-> h.host])
      BY <1>1, <1>8, HandlerUpdate DEF Opened, Goto, TypeOK, Handler
    <2>2. ClientKept
      <3> DEFINE fields == [client[c] EXCEPT !.waiter = TRUE, !.lastPort = h.port]
      <3>1. fields \in Client /\ fields.up = client[c].up /\ fields.state = client[c].state
        BY <1>1 DEF Client, Handler
      <3>2. ClientBecomes(c, fields)
        BY <1>1, <1>8, <3>1, ClientUpdate DEF Opened, TypeOK
      <3> QED
        BY <1>1, <3>1, <3>2, ClientFrame
    <2>3. UNCHANGED <<outbox, proxies, dbPort, inbox>>
      BY <1>8 DEF Opened
    <2> QED
      BY <1>1, <1>2, <2>1, <2>2, <2>3, HandlerFrame, Unchanged, KeptType
  <1>9. CASE PersistPort(c, n)
    <2>1. HandlerBecomes(c, n, [pc |-> "register", port |-> h.port, host |-> h.host])
      BY <1>1, <1>9, HandlerUpdate DEF PersistPort, Goto, TypeOK, Handler
    <2>2. TablesKept
      BY <1>1, <1>9, SshdAssumption DEF PersistPort, TablesKept, TypeOK, Client
    <2>3. UNCHANGED <<client, outbox, inbox>>
      BY <1>9 DEF PersistPort
    <2> QED
      BY <1>1, <1>2, <2>1, <2>2, <2>3, HandlerFrame, Unchanged, KeptType
  <1>10. CASE RegisterHost(c, n)
    <2>1. UNCHANGED <<client, outbox, dbPort, inbox>>
      BY <1>10 DEF RegisterHost
    <2>2. CASE Goto(c, n, "answer") /\ UNCHANGED proxies
      <3>1. HandlerBecomes(c, n, [pc |-> "answer", port |-> h.port, host |-> h.host])
        BY <1>1, <2>2, HandlerUpdate DEF Goto, TypeOK, Handler
      <3> QED
        BY <1>1, <1>2, <2>1, <2>2, <3>1, HandlerFrame, Unchanged, KeptType
    <2>3. ASSUME NEW host \in HostReads(c), NEW alternative \in Alternatives(c),
                 proxies' = Set(proxies, host, alternative, h.port),
                 LET used == SetHost(proxies, host, alternative)
                 IN  Become(c, n, IF used = NoHost THEN "failed" ELSE "assign", h.port, used)
          PROVE  TypeInv'
      <3> DEFINE used == SetHost(proxies, host, alternative)
                 pc == IF used = NoHost THEN "failed" ELSE "assign"
      <3>1. host \in Host /\ alternative \in Host
        BY <1>1 DEF HostReads, Client, Host
      <3>2. used \in Host \cup {NoHost}
        BY <3>1 DEF SetHost
      <3>3. HandlerBecomes(c, n, [pc |-> pc, port |-> h.port, host |-> used])
        BY <1>1, <2>3, <3>2, HandlerUpdate DEF TypeOK, Handler
      <3>4. TablesKept
        BY <1>1, <2>1, <2>3, <3>1, <3>2 DEF Set, TablesKept, TypeOK, Handler, Absent
      <3> QED
        BY <1>1, <1>2, <2>1, <3>3, <3>4, HandlerFrame, Unchanged, KeptType
    <2> QED
      BY <1>10, <2>2, <2>3 DEF RegisterHost
  <1>11. CASE AssignHost(c, n)
    <2>1. HandlerBecomes(c, n, [pc |-> "answer", port |-> h.port, host |-> h.host])
      BY <1>1, <1>11, HandlerUpdate DEF AssignHost, Goto, TypeOK, Handler
    <2>2. ClientKept
      <3> DEFINE fields == [client[c] EXCEPT !.host = h.host,
                                             !.ready = SignalReady(@, "ok")]
      <3>1. h.host \in Host
        BY <1>1, <1>11 DEF AssignHost, TypeInv, HostsAssigned, Handler
      <3>2. fields \in Client /\ fields.up = client[c].up /\ fields.state = client[c].state
        BY <1>1, <3>1 DEF Client, SignalReady
      <3>3. ClientBecomes(c, fields)
        BY <1>1, <1>11, <3>2, ClientUpdate DEF AssignHost, TypeOK
      <3> QED
        BY <1>1, <3>2, <3>3, ClientFrame
    <2>3. UNCHANGED <<outbox, proxies, dbPort, inbox>>
      BY <1>11 DEF AssignHost
    <2> QED
      BY <1>1, <1>2, <2>1, <2>2, <2>3, HandlerFrame, Unchanged, KeptType
  <1>12. CASE AnswerForward(c, n)
    <2>1. HandlerBecomes(c, n, [pc |-> "serving", port |-> h.port, host |-> h.host])
      BY <1>1, <1>12, HandlerUpdate DEF AnswerForward, Goto, TypeOK, Handler
    <2>2. OutboxGrows(c)
      BY <1>1, <1>12, OutboxUpdate DEF AnswerForward, TypeOK, Handler
    <2>3. UNCHANGED <<client, proxies, dbPort, inbox>>
      BY <1>12 DEF AnswerForward
    <2> QED
      BY <1>1, <1>2, <2>1, <2>2, <2>3, HandlerFrame, OutboxFrame, Unchanged, KeptType
  <1>13. CASE StopServing(c, n)
    <2>1. \/ HandlerBecomes(c, n, [pc |-> "unregister", port |-> h.port, host |-> h.host])
          \/ HandlerBecomes(c, n, [pc |-> "closing", port |-> h.port, host |-> h.host])
      BY <1>1, <1>13, HandlerUpdate DEF StopServing, Goto, End, TypeOK, Handler
    <2>2. UNCHANGED <<client, outbox, proxies, dbPort, inbox>>
      BY <1>13 DEF StopServing
    <2> QED
      BY <1>1, <1>2, <2>1, <2>2, HandlerFrame, Unchanged, KeptType
  <1>14. CASE UnregisterHost(c, n)
    <2>1. HandlerBecomes(c, n, [pc |-> "closing", port |-> h.port, host |-> h.host])
      BY <1>1, <1>14, HandlerUpdate DEF UnregisterHost, Goto, TypeOK, Handler
    <2>2. TablesKept
      BY <1>1, <1>14 DEF UnregisterHost, Remove, TablesKept, TypeOK, Absent
    <2>3. UNCHANGED <<client, outbox, inbox>>
      BY <1>14 DEF UnregisterHost
    <2> QED
      BY <1>1, <1>2, <2>1, <2>2, <2>3, HandlerFrame, Unchanged, KeptType
  <1>15. CASE CloseListener(c, n)
    <2>1. HandlerBecomes(c, n, [pc |-> "none", port |-> 0, host |-> NoHost])
      BY <1>1, <1>15, HandlerUpdate DEF CloseListener, Goto, End, TypeOK, Handler
    <2>2. UNCHANGED <<client, outbox, proxies, dbPort, inbox>>
      BY <1>15 DEF CloseListener
    <2> QED
      BY <1>1, <1>2, <2>1, <2>2, HandlerFrame, Unchanged, KeptType
  <1>16. CASE RunCancel(c, n)
    <2>1. HandlerBecomes(c, n, [pc |-> "none", port |-> 0, host |-> NoHost])
      BY <1>1, <1>16, HandlerUpdate DEF RunCancel, End, TypeOK, Handler
    <2>2. OutboxGrows(c)
      BY <1>1, <1>16, OutboxUpdate DEF RunCancel, TypeOK
    <2>3. ClientKept
      <3> DEFINE fields == [client[c] EXCEPT !.cancelled = TRUE]
      <3>1. fields \in Client /\ fields.up = client[c].up /\ fields.state = client[c].state
        BY <1>1 DEF Client
      <3>2. ClientBecomes(c, fields)
        BY <1>1, <1>16, <3>1, ClientUpdate DEF RunCancel, TypeOK
      <3> QED
        BY <1>1, <3>1, <3>2, ClientFrame
    <2>4. UNCHANGED <<proxies, dbPort, inbox>>
      BY <1>16 DEF RunCancel
    <2> QED
      BY <1>1, <1>2, <2>1, <2>2, <2>3, <2>4, HandlerFrame, OutboxFrame, Unchanged, KeptType
  <1> QED
    BY <1>3, <1>4, <1>5, <1>6, <1>7, <1>8, <1>9, <1>10, <1>11, <1>12, <1>13, <1>14,
       <1>15, <1>16 DEF GoroutineStep, Goroutine

----------------------------------------------------------------------------
\* The request loop.

LEMMA InboxHead ==
    ASSUME TypeOK, NEW c \in Conns, inbox[c] # <<>>
    PROVE  /\ Head(inbox[c]) \in Request
           /\ Tail(inbox[c]) \in Seq(Request)
  BY DEF TypeOK

LEMMA LoopType ==
    ASSUME TypeInv, NEW c \in Conns, UNCHANGED <<peer, proxies, dbPort>>,
           NEW fields \in Client, ClientBecomes(c, fields), fields.up = client[c].up,
           NEW rest \in Seq(Request), inbox' = [inbox EXCEPT ![c] = rest],
           fields.state = "awaiting" => rest # <<>>,
           HandlerKept, OutboxKept
    PROVE  TypeInv'
  <1> USE DEF HandlerKept, OutboxKept, ClientBecomes
  <1>1. TypeOK'
    <2>1. inbox' \in [Conns -> Seq(Request)]
      BY DEF TypeInv, TypeOK
    <2>2. \A d \in Conns : client'[d].state = "awaiting" => inbox'[d] # <<>>
      BY DEF TypeInv, TypeOK
    <2> QED
      BY <2>1, <2>2 DEF TypeInv, TypeOK
  <1>2. ASSUME NEW d \in Conns PROVE EndsAgree(d)'
    <2>1. EndsAgree(d) /\ client'[d].up = client[d].up
      BY DEF TypeInv
    <2>2. outbox'[d] # <<>> => client[d].up
      BY <2>1 DEF EndsAgree
    <2> QED
      BY <2>1, <2>2 DEF EndsAgree, Script
  <1>3. ASSUME NEW d \in Conns PROVE HostsAssigned(d)'
    BY DEF TypeInv, HostsAssigned
  <1> QED
    BY <1>1, <1>2, <1>3 DEF TypeInv

LEMMA RequestLoopType ==
    ASSUME TypeInv, NEW c \in Conns, RequestLoopStep(c)
    PROVE  TypeInv'
  <1> DEFINE req == Head(inbox[c])
  <1> USE HostFacts, PortFacts
  <1>1. TypeOK /\ client[c] \in Client
    BY DEF TypeInv, TypeOK
  <1>2. inbox[c] # <<>> => /\ req \in Request /\ Tail(inbox[c]) \in Seq(Request)
                           /\ req.n \in Numbers
    BY <1>1, InboxHead DEF Request
  <1>3. ASSUME NEW fields \in Client, Update(c, fields), fields.up = client[c].up
        PROVE  ClientBecomes(c, fields) /\ UNCHANGED peer
    BY <1>1, <1>3, ClientUpdate DEF RequestLoopStep, ClientBecomes, TypeOK
  <1>4. UNCHANGED client => UNCHANGED peer
    BY DEF RequestLoopStep
  <1>5. /\ UNCHANGED handler => HandlerKept
        /\ UNCHANGED client => ClientBecomes(c, client[c])
    BY <1>1 DEF HandlerKept, TypeOK, ClientBecomes
  <1>6. CASE LoadPrincipal(c)
    <2> DEFINE fields == [client[c] EXCEPT !.state = "serving",
                                           !.lastPort = dbPort[PrincipalOf[c]]]
    <2>1. fields \in Client /\ fields.up = client[c].up /\ fields.state = "serving"
      BY <1>1, SshdAssumption DEF Client, TypeOK
    <2>2. Update(c, fields) /\ UNCHANGED <<dbPort, proxies, handler, inbox, outbox>>
      BY <1>6 DEF LoadPrincipal
    <2>3. inbox' = [inbox EXCEPT ![c] = inbox[c]] /\ inbox[c] \in Seq(Request)
      BY <1>1, <2>2 DEF TypeOK
    <2> QED
      BY <1>1, <1>3, <1>5, <2>1, <2>2, <2>3, LoopType, Unchanged
  <1>7. CASE LoadPrincipalFails(c)
    <2>1. NewClient(c, "closed", FALSE) \in Client
      BY DEF NewClient, Client, Protocols
    <2>2. ClientBecomes(c, NewClient(c, "closed", FALSE))
      BY <1>1, <1>7, <2>1, ClientUpdate DEF LoadPrincipalFails, TypeOK
    <2>3. /\ inbox' = [inbox EXCEPT ![c] = <<>>]
          /\ outbox' = [outbox EXCEPT ![c] = <<>>]
          /\ UNCHANGED <<dbPort, proxies, handler>>
      BY <1>7 DEF LoadPrincipalFails
    <2>4. peer' = IF client[c].up THEN [peer EXCEPT ![c] = Gone] ELSE peer
      BY <2>2 DEF RequestLoopStep, ClientBecomes, NewClient
    <2>5. TypeOK'
      BY <1>1, <2>2, <2>3, <2>4 DEF TypeOK, ClientBecomes, NewClient
    <2>6. ASSUME NEW d \in Conns PROVE EndsAgree(d)' /\ HostsAssigned(d)'
      BY <1>1, <2>2, <2>3, <2>4
         DEF TypeInv, TypeOK, EndsAgree, HostsAssigned, Script, ClientBecomes, NewClient
    <2> QED
      BY <2>5, <2>6 DEF TypeInv
  <1>8. CASE HandleHint(c)
    <2> DEFINE fields == [client[c] EXCEPT !.protocol = req.protocol]
    <2>1. /\ inbox' = [inbox EXCEPT ![c] = Tail(@)] /\ inbox[c] # <<>>
          /\ client[c].state = "serving"
          /\ UNCHANGED <<dbPort, proxies, handler>>
      BY <1>8 DEF HandleHint, NextRequest
    <2>2. OutboxGrows(c)
      BY <1>1, <1>2, <1>8, <2>1, OutboxUpdate DEF HandleHint, TypeOK
    <2>3. CASE req.protocol \in {"tcp", "http"} /\ Update(c, fields)
      <3>1. fields \in Client /\ fields.up = client[c].up /\ fields.state = "serving"
        BY <1>1, <2>1, <2>3 DEF Client, Protocols
      <3> QED
        BY <1>2, <1>3, <1>5, <2>1, <2>2, <2>3, <3>1, LoopType, OutboxFrame
    <2>4. CASE UNCHANGED client
      BY <1>1, <1>2, <1>4, <1>5, <2>1, <2>2, <2>4, LoopType, OutboxFrame
    <2> QED
      BY <1>8, <2>3, <2>4 DEF HandleHint
  <1>9. CASE HandleForward(c) \/ HandleCancel(c)
    <2>1. /\ inbox' = [inbox EXCEPT ![c] = Tail(@)] /\ inbox[c] # <<>>
          /\ client[c].state = "serving"
          /\ UNCHANGED <<dbPort, proxies, client, outbox>>
          /\ \E pc \in {"refuse", "begin", "cancel"} : Goto(c, req.n, pc)
      BY <1>9 DEF HandleForward, HandleCancel, NextRequest
    <2>2. PICK pc \in {"refuse", "begin", "cancel"} : Goto(c, req.n, pc)
      BY <2>1
    <2> DEFINE h == handler[c][req.n]
    <2>3. HandlerBecomes(c, req.n, [pc |-> pc, port |-> h.port, host |-> h.host])
      <3>1. h \in Handler
        BY <1>1, <1>2, <2>1 DEF TypeOK
      <3>2. [pc |-> pc, port |-> h.port, host |-> h.host] \in Handler
        BY <3>1 DEF Handler
      <3> QED
        BY <1>1, <1>2, <2>1, <2>2, <3>2, HandlerUpdate DEF Goto, TypeOK
    <2>4. HandlerKept
      BY <1>2, <2>1, <2>2, <2>3, HandlerFrame
    <2> QED
      BY <1>1, <1>2, <1>4, <1>5, <2>1, <2>4, LoopType, Unchanged
  <1>10. CASE HandleOther(c)
    <2>1. /\ inbox' = [inbox EXCEPT ![c] = Tail(@)] /\ inbox[c] # <<>>
          /\ client[c].state = "serving"
          /\ UNCHANGED <<dbPort, proxies, client, handler>>
      BY <1>10 DEF HandleOther, NextRequest
    <2>2. OutboxGrows(c)
      BY <1>1, <1>2, <1>10, <2>1, OutboxUpdate DEF HandleOther, TypeOK
    <2> QED
      BY <1>1, <1>2, <1>4, <1>5, <2>1, <2>2, LoopType, OutboxFrame
  <1>11. CASE HandleServerInfo(c)
    <2> DEFINE protocol == IF req.protocol = "" THEN client[c].protocol ELSE req.protocol
               serving == [client[c] EXCEPT !.protocol = protocol]
               awaiting == [client[c] EXCEPT !.protocol = protocol, !.state = "awaiting"]
    <2>1. inbox[c] # <<>> /\ client[c].state = "serving"
          /\ UNCHANGED <<dbPort, proxies, handler>>
      BY <1>11 DEF HandleServerInfo, NextRequest
    <2>2. protocol \in Protocols
      BY <1>1, <1>2, <2>1 DEF Client, Request
    <2>3. /\ serving \in Client /\ serving.up = client[c].up /\ serving.state = "serving"
          /\ awaiting \in Client /\ awaiting.up = client[c].up
      BY <1>1, <2>1, <2>2 DEF Client
    <2>4. CASE /\ Update(c, serving)
               /\ \/ Answer(c, req.n, TRUE, client[c].lastPort, NoHost)
                  \/ Answer(c, req.n, FALSE, 0, NoHost)
               /\ inbox' = [inbox EXCEPT ![c] = Tail(@)]
      <3>1. OutboxGrows(c)
        BY <1>1, <1>2, <2>1, <2>4, OutboxUpdate DEF TypeOK, Client
      <3> QED
        BY <1>1, <1>2, <1>3, <1>5, <2>1, <2>3, <2>4, <3>1, LoopType, OutboxFrame
    <2>5. CASE Update(c, awaiting) /\ UNCHANGED <<inbox, outbox>>
      <3>1. inbox' = [inbox EXCEPT ![c] = inbox[c]] /\ inbox[c] \in Seq(Request)
        BY <1>1, <2>5 DEF TypeOK
      <3> QED
        BY <1>1, <1>3, <1>5, <2>1, <2>3, <2>5, <3>1, LoopType, Unchanged
    <2> QED
      BY <1>11, <2>4, <2>5 DEF HandleServerInfo
  <1>12. CASE AnswerServerInfo(c)
    <2> DEFINE fields == [client[c] EXCEPT !.state = "serving"]
    <2>1. fields \in Client /\ fields.up = client[c].up /\ fields.state = "serving"
      BY <1>1 DEF Client
    <2>2. /\ Update(c, fields) /\ inbox' = [inbox EXCEPT ![c] = Tail(@)]
          /\ UNCHANGED <<dbPort, proxies, handler>>
      BY <1>12 DEF AnswerServerInfo
    <2>3. inbox[c] # <<>>
      BY <1>1, <1>12 DEF AnswerServerInfo, TypeOK
    <2>4. OutboxGrows(c)
      <3>1. CASE Answer(c, req.n, FALSE, 0, NoHost)
        BY <1>1, <1>2, <2>3, <3>1, OutboxUpdate DEF TypeOK
      <3>2. ASSUME NEW host \in HostReads(c), Answer(c, req.n, TRUE, 0, host)
            PROVE  OutboxGrows(c)
        <4>1. host \in Host
          BY <1>1 DEF HostReads, Client, Host
        <4> QED
          BY <1>1, <1>2, <2>3, <3>2, <4>1, OutboxUpdate DEF TypeOK
      <3> QED
        BY <1>12, <3>1, <3>2 DEF AnswerServerInfo
    <2> QED
      BY <1>1, <1>2, <1>3, <1>5, <2>1, <2>2, <2>3, <2>4, LoopType, OutboxFrame
  <1>13. CASE EndLoop(c)
    <2> DEFINE fields == [client[c] EXCEPT !.state = "closed", !.cancelled = TRUE]
    <2>1. fields \in Client /\ fields.up = client[c].up /\ fields.state = "closed"
      BY <1>1 DEF Client
    <2>2. Update(c, fields) /\ UNCHANGED <<dbPort, proxies, handler, inbox, outbox>>
      BY <1>13 DEF EndLoop
    <2>3. inbox' = [inbox EXCEPT ![c] = inbox[c]] /\ inbox[c] \in Seq(Request)
      BY <1>1, <2>2 DEF TypeOK
    <2> QED
      BY <1>1, <1>3, <1>5, <2>1, <2>2, <2>3, LoopType, Unchanged
  <1> QED
    BY <1>6, <1>7, <1>8, <1>9, <1>10, <1>11, <1>12, <1>13 DEF RequestLoopStep, RequestLoop

----------------------------------------------------------------------------
\* The clients, the transport and a crash.

LEMMA PeerFacts ==
    ASSUME TypeOK, NEW c \in Conns, peer[c] # Gone
    PROVE  /\ peer[c] \in Peer
           /\ Script(c) \in Seq(Step)
           /\ Len(Script(c)) \in Nat
           /\ Len(Script(c)) < MaxRequests
           /\ DOMAIN Script(c) = 1 .. Len(Script(c))
  <1>1. peer[c] \in Peer
    BY DEF TypeOK
  <1>2. peer[c].kind \in Kinds
    BY <1>1 DEF Peer
  <1> QED
    BY <1>1, <1>2, TunnelAssumption DEF Script

LEMMA RunningFacts ==
    ASSUME NEW c \in Conns, Running(c) \/ peer[c].status = "cancelling"
    PROVE  peer[c] # Gone
  BY DEF Running, Gone

PeerBecomes(c, fields) ==
    /\ peer' \in [Conns -> Peer \cup {Gone}]
    /\ peer'[c] = fields
    /\ \A d \in Conns : d # c => peer'[d] = peer[d]

LEMMA PeerUpdate ==
    ASSUME peer \in [Conns -> Peer \cup {Gone}], NEW c \in Conns,
           NEW fields \in Peer \cup {Gone}, UpdatePeer(c, fields)
    PROVE  PeerBecomes(c, fields)
  BY DEF UpdatePeer, PeerBecomes

\* What a client may send, without its number.
Content == [type : {"hint", "forward", "cancel", "info", "keepalive"},
            protocol : Protocols \cup {""}, rport : Nat]

LEMMA SendType ==
    ASSUME TypeInv, NEW c \in Conns, peer[c] # Gone,
           NEW step \in Content, NEW new \in Peer,
           new.kind = peer[c].kind, new.sent = peer[c].sent + 1,
           peer[c].sent < Len(Script(c)) \/ new.status = "abandoned",
           peer[c].sent <= Len(Script(c)), SendRequest(c, step), UpdatePeer(c, new),
           UNCHANGED <<dbPort, proxies, client, handler, outbox>>
    PROVE  TypeInv'
  <1>1. TypeOK
    BY DEF TypeInv
  <1>2. /\ peer[c].sent \in Nat /\ Len(Script(c)) \in Nat
        /\ Len(Script(c)) < MaxRequests
    BY <1>1, PeerFacts DEF Peer
  <1> DEFINE req == [n |-> peer[c].sent + 1, type |-> step.type,
                     protocol |-> step.protocol, rport |-> step.rport]
  <1>3. new # Gone
    BY DEF Peer, Gone
  <1>4. PeerBecomes(c, new)
    BY <1>1, PeerUpdate DEF TypeOK
  <1>5. req \in Request
    <2>1. peer[c].sent + 1 \in Numbers
      BY <1>2, SshdAssumption DEF Numbers
    <2> QED
      BY <2>1 DEF Request, Content
  <1>6. inbox' = [inbox EXCEPT ![c] = Append(inbox[c], req)]
    BY DEF SendRequest
  <1>7. /\ Append(inbox[c], req) \in Seq(Request)
        /\ Append(inbox[c], req) # <<>>
    <2>1. inbox[c] \in Seq(Request)
      BY <1>1 DEF TypeOK
    <2> HIDE DEF req
    <2> QED
      BY <1>5, <2>1
  <1>8. /\ inbox' \in [Conns -> Seq(Request)]
        /\ \A d \in Conns : inbox[d] # <<>> => inbox'[d] # <<>>
    <2> HIDE DEF req
    <2> QED
      BY <1>1, <1>6, <1>7 DEF TypeOK
  <1>9. TypeOK'
    BY <1>1, <1>4, <1>8 DEF TypeOK, PeerBecomes
  <1>10. ASSUME NEW d \in Conns PROVE EndsAgree(d)' /\ HostsAssigned(d)'
    <2>1. EndsAgree(d) /\ HostsAssigned(d)
      BY DEF TypeInv
    <2>2. CASE d # c
      BY <1>4, <2>1, <2>2 DEF PeerBecomes, EndsAgree, HostsAssigned, Script
    <2>3. CASE d = c
      <3>1. Script(c)' = Script(c) /\ peer'[c] = new
        BY <1>4 DEF Script, PeerBecomes
      <3>2. new.sent <= Len(Script(c)) + 1
        BY <1>2
      <3>3. new.status # "abandoned" => new.sent <= Len(Script(c))
        BY <1>2
      <3> QED
        BY <1>3, <2>1, <2>3, <3>1, <3>2, <3>3 DEF EndsAgree, HostsAssigned
    <2> QED
      BY <2>2, <2>3
  <1> QED
    BY <1>9, <1>10 DEF TypeInv

LEMMA ClientStepType ==
    ASSUME TypeInv, NEW c \in Conns,
           \/ \E k \in Kinds : Dial(c, k)
           \/ SendNext(c) \/ SendCancel(c) \/ HearReply(c) \/ Drop(c)
           \/ WaiterStep(c)
    PROVE  TypeInv'
  <1> USE HostFacts, PortFacts
  <1>1. TypeOK /\ client[c] \in Client /\ EndsAgree(c)
    BY DEF TypeInv, TypeOK
  <1>2. ASSUME NEW k \in Kinds, Dial(c, k) PROVE TypeInv'
    <2>1. NewPeer(k) \in Peer /\ NewPeer(k) # Gone /\ NewPeer(k).sent = 0
          /\ NewPeer(k).kind = k
      BY DEF NewPeer, Peer, Gone
    <2>2. Len(k.script) \in Nat
      BY TunnelAssumption
    <2>3. NewClient(c, "loading", TRUE) \in Client
      BY DEF NewClient, Client, Protocols
    <2>4. ClientBecomes(c, NewClient(c, "loading", TRUE))
      BY <1>1, <1>2, <2>3, ClientUpdate DEF Dial, Handshake, TypeOK
    <2>5. /\ inbox' = [inbox EXCEPT ![c] = <<>>] /\ outbox' = [outbox EXCEPT ![c] = <<>>]
          /\ UNCHANGED <<dbPort, proxies, handler>>
          /\ PeerBecomes(c, NewPeer(k))
      BY <1>1, <1>2, <2>1, PeerUpdate DEF Dial, Handshake, TypeOK
    <2>6. TypeOK'
      BY <1>1, <2>1, <2>4, <2>5 DEF TypeOK, ClientBecomes, NewClient, PeerBecomes
    <2>7. ASSUME NEW d \in Conns PROVE EndsAgree(d)' /\ HostsAssigned(d)'
      BY <1>1, <2>1, <2>2, <2>4, <2>5
         DEF TypeInv, TypeOK, EndsAgree, HostsAssigned, Script, ClientBecomes, NewClient,
             PeerBecomes
    <2> QED
      BY <2>6, <2>7 DEF TypeInv
  <1>3. CASE SendNext(c)
    <2>1. peer[c] # Gone
      BY <1>3, RunningFacts DEF SendNext
    <2>2. /\ peer[c] \in Peer /\ Script(c) \in Seq(Step) /\ Len(Script(c)) \in Nat
          /\ peer[c].sent \in Nat
      BY <1>1, <2>1, PeerFacts DEF Peer
    <2>3. peer[c].sent < Len(Script(c)) /\ peer[c].status = "running"
      BY <1>3 DEF SendNext, Running
    <2> DEFINE step == Script(c)[peer[c].sent + 1]
    <2>4. step \in Step
      BY <2>2, <2>3
    <2>5. step \in Content
      BY <2>4 DEF Step, Content
    <2> DEFINE new == [peer[c] EXCEPT !.sent = @ + 1]
    <2>6. new \in Peer /\ new.kind = peer[c].kind /\ new.sent = peer[c].sent + 1
      BY <2>2 DEF Peer
    <2>7. /\ SendRequest(c, step) /\ UpdatePeer(c, new)
          /\ UNCHANGED <<dbPort, proxies, client, handler, outbox>>
      BY <1>3 DEF SendNext
    <2> HIDE DEF step, new
    <2> QED
      BY <2>1, <2>2, <2>3, <2>5, <2>6, <2>7, SendType
  <1>4. CASE SendCancel(c)
    <2>1. peer[c] # Gone
      BY <1>4, RunningFacts DEF SendCancel
    <2>2. peer[c].sent <= Len(Script(c))
      BY <1>1, <1>4, <2>1 DEF SendCancel, EndsAgree, Running
    <2>3. CancelForward \in Content
      BY DEF CancelForward, Content
    <2> DEFINE new == [peer[c] EXCEPT !.status = "abandoned", !.sent = peer[c].sent + 1]
    <2>4. /\ new \in Peer /\ new.kind = peer[c].kind /\ new.sent = peer[c].sent + 1
          /\ new.status = "abandoned"
      <3> DEFINE sent == peer[c].sent + 1
      <3>1. peer[c] \in Peer /\ sent \in Nat
        BY <1>1, <2>1, PeerFacts DEF Peer
      <3> HIDE DEF sent
      <3>2. [peer[c] EXCEPT !.status = "abandoned", !.sent = sent] \in Peer
        BY <3>1 DEF Peer
      <3>3. new \in Peer
        BY <3>2 DEF sent
      <3>4. new.kind = peer[c].kind /\ new.status = "abandoned"
        BY <3>1 DEF Peer
      <3>5. new.sent = peer[c].sent + 1
        BY <3>1 DEF Peer
      <3> QED
        BY <3>3, <3>4, <3>5
    <2>5. SendRequest(c, CancelForward)
      BY <1>4 DEF SendCancel
    <2>7. UNCHANGED <<dbPort, proxies, client, handler, outbox>>
      BY <1>4 DEF SendCancel
    <2>6. UpdatePeer(c, new)
      BY <1>4 DEF SendCancel
    <2> HIDE DEF new
    <2> QED
      BY <2>1, <2>2, <2>3, <2>4, <2>5, <2>6, <2>7, SendType
  <1>5. CASE HearReply(c)
    <2> DEFINE reply == Head(outbox[c])
               new == [peer[c] EXCEPT
                          !.heard  = peer[c].heard + 1,
                          !.status = StatusAfter(c, reply.ok),
                          !.host   = IF reply.host # NoHost THEN reply.host ELSE peer[c].host,
                          !.port   = IF reply.port # 0 THEN reply.port ELSE peer[c].port]
    <2>1. peer[c] # Gone
      BY <1>1, <1>5 DEF HearReply, EndsAgree
    <2>2. peer[c] \in Peer
      BY <1>1, <2>1, PeerFacts
    <2>3. reply \in Reply /\ Tail(outbox[c]) \in Seq(Reply) /\ outbox[c] # <<>>
      BY <1>1, <1>5 DEF HearReply, TypeOK
    <2>4. StatusAfter(c, reply.ok) \in {"running", "cancelling", "abandoned"}
          /\ (StatusAfter(c, reply.ok) # "abandoned" => peer[c].status # "abandoned")
      BY <2>2 DEF StatusAfter, Running, Peer
    <2>5. new \in Peer
      <3> DEFINE host == IF reply.host # NoHost THEN reply.host ELSE peer[c].host
                 port == IF reply.port # 0 THEN reply.port ELSE peer[c].port
                 heard == peer[c].heard + 1
                 status == StatusAfter(c, reply.ok)
      <3>1. host \in Host \cup {NoHost} /\ port \in Ports \cup {0}
        BY <2>2, <2>3 DEF Peer, Reply
      <3>2. heard \in Nat
        BY <2>2 DEF Peer
      <3>3. status \in {"running", "cancelling", "abandoned"}
        BY <2>4
      <3> HIDE DEF host, port, heard, status
      <3>4. [peer[c] EXCEPT !.heard = heard, !.status = status, !.host = host, !.port = port]
                \in Peer
        BY <2>2, <3>1, <3>2, <3>3 DEF Peer
      <3> QED
        BY <3>4 DEF host, port, heard, status
    <2>6. /\ new # Gone /\ new.kind = peer[c].kind /\ new.sent = peer[c].sent
          /\ new.status = StatusAfter(c, reply.ok)
      BY <2>2, <2>4 DEF Peer, Gone
    <2>7. /\ PeerBecomes(c, new)
          /\ outbox' = [outbox EXCEPT ![c] = Tail(outbox[c])]
          /\ UNCHANGED <<dbPort, proxies, client, handler, inbox>>
      <3>1. UpdatePeer(c, new)
        BY <1>5 DEF HearReply
      <3> HIDE DEF new
      <3> QED
        BY <1>1, <1>5, <2>5, <3>1, PeerUpdate DEF HearReply, TypeOK
    <2> HIDE DEF new, reply
    <2>8. TypeOK'
      BY <1>1, <2>3, <2>7 DEF TypeOK, PeerBecomes
    <2>9. ASSUME NEW d \in Conns PROVE EndsAgree(d)' /\ HostsAssigned(d)'
      <3>1. EndsAgree(d) /\ HostsAssigned(d)
        BY DEF TypeInv
      <3>2. CASE d # c
        BY <1>1, <2>7, <3>1, <3>2 DEF TypeOK, EndsAgree, HostsAssigned, Script, PeerBecomes
      <3>3. CASE d = c
        <4>1. Script(c)' = Script(c) /\ peer'[c] = new
          BY <2>6, <2>7 DEF PeerBecomes, Script
        <4> QED
          BY <1>1, <2>1, <2>3, <2>4, <2>6, <2>7, <3>1, <3>3, <4>1
             DEF EndsAgree, HostsAssigned
      <3> QED
        BY <3>2, <3>3
    <2> QED
      BY <2>8, <2>9 DEF TypeInv
  <1>6. CASE Drop(c)
    <2> DEFINE fields == [client[c] EXCEPT !.up = FALSE]
    <2>1. fields \in Client /\ fields.up = FALSE /\ fields.state = client[c].state
      BY <1>1 DEF Client
    <2>2. ClientBecomes(c, fields)
      BY <1>1, <1>6, <2>1, ClientUpdate DEF Drop, TypeOK
    <2>3. PICK received \in (IF client[c].state = "awaiting" THEN 1 ELSE 0) .. Len(inbox[c]) :
              inbox' = [inbox EXCEPT ![c] = SubSeq(@, 1, received)]
      BY <1>6 DEF Drop
    <2>4. /\ SubSeq(inbox[c], 1, received) \in Seq(Request)
          /\ client[c].state = "awaiting" => SubSeq(inbox[c], 1, received) # <<>>
      <3>1. inbox[c] \in Seq(Request) /\ Len(inbox[c]) \in Nat /\ received \in Nat
        BY <1>1, <2>3 DEF TypeOK
      <3>2. Len(SubSeq(inbox[c], 1, received)) = received
        BY <2>3, <3>1
      <3> QED
        BY <2>3, <3>1, <3>2
    <2>5. /\ outbox' = [outbox EXCEPT ![c] = <<>>] /\ PeerBecomes(c, Gone)
          /\ UNCHANGED <<dbPort, proxies, handler>>
      BY <1>1, <1>6, PeerUpdate DEF Drop, TypeOK
    <2> DEFINE kept == SubSeq(inbox[c], 1, received)
    <2>8. inbox' = [inbox EXCEPT ![c] = kept]
      BY <2>3
    <2> HIDE DEF kept
    <2>9. inbox' \in [Conns -> Seq(Request)]
          /\ \A d \in Conns : client'[d].state = "awaiting" => inbox'[d] # <<>>
      BY <1>1, <2>1, <2>2, <2>4, <2>8 DEF TypeOK, ClientBecomes, kept
    <2>6. TypeOK'
      <3>1. outbox' \in [Conns -> Seq(Reply)]
        BY <1>1, <2>5 DEF TypeOK
      <3> QED
        BY <1>1, <2>2, <2>5, <2>9, <3>1 DEF TypeOK, ClientBecomes, PeerBecomes
    <2>7. ASSUME NEW d \in Conns PROVE EndsAgree(d)' /\ HostsAssigned(d)'
      BY <1>1, <2>1, <2>2, <2>5
         DEF TypeInv, TypeOK, EndsAgree, HostsAssigned, Script, ClientBecomes, PeerBecomes
    <2> QED
      BY <2>6, <2>7 DEF TypeInv
  <1>7. CASE WaiterStep(c)
    <2> DEFINE fields == [client[c] EXCEPT !.cancelled = TRUE]
    <2>1. fields \in Client /\ fields.up = client[c].up /\ fields.state = client[c].state
      BY <1>1 DEF Client
    <2>2. ClientBecomes(c, fields)
      BY <1>1, <1>7, <2>1, ClientUpdate DEF WaiterStep, WaiterCancels, TypeOK
    <2>3. UNCHANGED <<peer, inbox, dbPort, proxies, handler, outbox>>
      BY <1>7 DEF WaiterStep, WaiterCancels
    <2>4. HandlerKept
      BY <1>1, <2>3 DEF HandlerKept, TypeOK
    <2> QED
      BY <1>1, <2>1, <2>2, <2>3, <2>4, ClientFrame, Unchanged, KeptType
  <1> QED
    BY <1>2, <1>3, <1>4, <1>5, <1>6, <1>7

LEMMA CrashType == ASSUME TypeInv, Crash PROVE TypeInv'
  <1> USE HostFacts, PortFacts DEF NewCluster, NewClient, Idle
  <1>1. TypeOK'
    BY DEF TypeInv, TypeOK, Crash, Client, Handler, Protocols, Absent, Gone
  <1>2. ASSUME NEW c \in Conns PROVE (EndsAgree(c) /\ HostsAssigned(c))'
    BY DEF Crash, EndsAgree, HostsAssigned, Gone
  <1> QED
    BY <1>1, <1>2 DEF TypeInv

LEMMA StutterType == ASSUME TypeInv, UNCHANGED vars PROVE TypeInv'
  BY DEF vars, TypeInv, TypeOK, EndsAgree, HostsAssigned, Script

LEMMA NextType == TypeInv /\ [Next]_vars => TypeInv'
  BY GoroutineType, RequestLoopType, ClientStepType, CrashType, StutterType
     DEF Next, ConnStep

\* The variables of Tunnel keep their types, with any number of connections,
\* clients and ports, and whatever the clients send.
THEOREM TypeCorrect == Spec => []TypeOK
  <1>1. TypeInv => TypeOK
    BY DEF TypeInv
  <1> QED
    BY <1>1, InitType, NextType, PTL DEF Spec

THEOREM TypeInvariance == Spec => []TypeInv
  BY InitType, NextType, PTL DEF Spec
----------------------------------------------------------------------------
(***************************************************************************)
(* Every request is answered: what a step may do to the requests and the   *)
(* replies of one connection.                                              *)
(***************************************************************************)
Same(c) == \A n \in Numbers : Unanswered(c, n)' <=> Unanswered(c, n)

SameBut(c, n) ==
    \A m \in Numbers : m # n => (Unanswered(c, m)' <=> Unanswered(c, m))

\* The type of the request a client gives the number n.
TypeOf(c, n) == IF n <= Len(Script(c)) THEN Script(c)[n].type ELSE "cancel"

Still(c) ==
    /\ peer'[c] = peer[c] /\ inbox'[c] = inbox[c] /\ outbox'[c] = outbox[c]
    /\ Same(c)

Dials(c) ==
    /\ \E k \in Kinds : peer'[c] = NewPeer(k)
    /\ inbox'[c] = <<>> /\ outbox'[c] = <<>>
    /\ \A n \in Numbers : ~Unanswered(c, n)'

\* The client sends a request.
Sends(c) ==
    /\ \E req \in Request :
           /\ inbox'[c] = Append(inbox[c], req)
           /\ req.n = peer[c].sent + 1
           /\ peer[c].status = "cancelling" \/ req.type = TypeOf(c, req.n)
    /\ peer'[c].kind = peer[c].kind
    /\ peer'[c].sent = peer[c].sent + 1
    /\ peer'[c].heard = peer[c].heard
    /\ peer'[c].status # "cancelling"
    /\ (peer[c].kind.serial /\ peer[c].status # "cancelling") => peer[c].heard = peer[c].sent
    /\ outbox'[c] = outbox[c]
    /\ Same(c)

\* The client hears a reply.
Hears(c) ==
    /\ outbox[c] # <<>> /\ outbox'[c] = Tail(outbox[c])
    /\ peer'[c].kind = peer[c].kind
    /\ peer'[c].sent = peer[c].sent
    /\ peer'[c].heard = peer[c].heard + 1
    /\ peer'[c].status = "cancelling" =>
           peer[c].status = "cancelling" \/ peer[c].kind.serial
    /\ inbox'[c] = inbox[c]
    /\ Same(c)

\* A goroutine answers its request.
Answers(c, n) ==
    /\ Unanswered(c, n) /\ ~Unanswered(c, n)' /\ SameBut(c, n)
    /\ \E reply \in Reply : outbox'[c] = Append(outbox[c], reply) /\ reply.n = n
    /\ peer'[c] = peer[c] /\ inbox'[c] = inbox[c]

\* The request loop answers.
Replies(c) ==
    /\ inbox[c] # <<>> /\ inbox'[c] = Tail(inbox[c])
    /\ \E reply \in Reply :
           outbox'[c] = Append(outbox[c], reply) /\ reply.n = Head(inbox[c]).n
    /\ peer'[c] = peer[c]
    /\ Same(c)

\* The request loop starts a goroutine.
Starts(c) ==
    /\ inbox[c] # <<>> /\ inbox'[c] = Tail(inbox[c])
    /\ Head(inbox[c]).type \in {"forward", "cancel"}
    /\ \E n \in Numbers : n = Head(inbox[c]).n /\ Unanswered(c, n)' /\ SameBut(c, n)
    /\ peer'[c] = peer[c] /\ outbox'[c] = outbox[c]

Move(c) ==
    \/ peer'[c] = Gone
    \/ Dials(c)
    \/ peer[c] # Gone /\ (Still(c) \/ Sends(c) \/ Hears(c) \/ Replies(c) \/ Starts(c))
    \/ peer[c] # Gone /\ \E n \in Numbers : Answers(c, n)

LEMMA Facts ==
    ASSUME TypeInv, NEW c \in Conns
    PROVE  /\ TypeOK /\ EndsAgree(c) /\ client[c] \in Client
           /\ inbox[c] \in Seq(Request) /\ outbox[c] \in Seq(Reply)
           /\ peer[c] # Gone => /\ peer[c] \in Peer
                                /\ peer[c].sent \in Nat /\ peer[c].heard \in Nat
  BY DEF TypeInv, TypeOK, Peer

\* Nothing happens to the connection.
LEMMA StillMoves ==
    ASSUME NEW c \in Conns, peer'[c] = peer[c], inbox'[c] = inbox[c], outbox'[c] = outbox[c],
           \A m \in Numbers : Unanswered(c, m)' <=> Unanswered(c, m)
    PROVE  Move(c)
  BY DEF Move, Still, Same

\* What a reply adds to the outbox of a connection that is up.
LEMMA AnswerMoves ==
    ASSUME TypeInv, NEW c \in Conns, NEW n \in Numbers, NEW ok \in BOOLEAN,
           NEW port \in Ports \cup {0}, NEW host \in Host \cup {NoHost},
           Answer(c, n, ok, port, host)
    PROVE  /\ peer[c] # Gone => \E reply \in Reply :
                  outbox'[c] = Append(outbox[c], reply) /\ reply.n = n
           /\ \A d \in Conns : d # c => outbox'[d] = outbox[d]
  <1> DEFINE reply == [n |-> n, ok |-> ok, port |-> port, host |-> host]
  <1>1. reply \in Reply /\ reply.n = n
    BY DEF Reply
  <1>2. outbox' = IF client[c].up THEN [outbox EXCEPT ![c] = Append(@, reply)] ELSE outbox
    BY DEF Answer
  <1> HIDE DEF reply
  <1>3. outbox \in [Conns -> Seq(Reply)] /\ (peer[c] # Gone => client[c].up)
    BY Facts DEF TypeOK, EndsAgree
  <1> QED
    BY <1>1, <1>2, <1>3

LEMMA GoroutineMoves ==
    ASSUME TypeInv, NEW c \in Conns, NEW n \in Numbers, GoroutineStep(c, n)
    PROVE  \A d \in Conns : Move(d)
  <1>1. TypeOK
    BY DEF TypeInv
  <1>2. UNCHANGED <<peer, inbox>>
    BY DEF GoroutineStep, Goroutine, Refuse, Begin, AcquirePort, NoLuck, FailForward, Opened,
           PersistPort, RegisterHost, AssignHost, AnswerForward, StopServing, UnregisterHost,
           CloseListener, RunCancel
  <1>3. ASSUME NEW pc, NEW port, NEW host, Become(c, n, pc, port, host)
        PROVE  /\ handler'[c][n].pc = pc
               /\ \A d \in Conns, m \in Numbers :
                      (d # c \/ m # n) => handler'[d][m] = handler[d][m]
    BY <1>1, <1>3 DEF Become, TypeOK
  <1>4. ASSUME NEW pc, Goto(c, n, pc) \/ (pc = "none" /\ End(c, n))
        PROVE  /\ handler'[c][n].pc = pc
               /\ \A d \in Conns, m \in Numbers :
                      (d # c \/ m # n) => handler'[d][m] = handler[d][m]
    BY <1>3, <1>4 DEF Goto, End
  <1>5. CASE Refuse(c, n) \/ FailForward(c, n) \/ AnswerForward(c, n) \/ RunCancel(c, n)
    <2>1. Unanswered(c, n)
      BY <1>5 DEF Refuse, FailForward, AnswerForward, RunCancel, Unanswered
    <2>2. PICK pc \in {"none", "closing", "serving"} :
              Goto(c, n, pc) \/ (pc = "none" /\ End(c, n))
      BY <1>5 DEF Refuse, FailForward, AnswerForward, RunCancel
    <2>3. /\ ~Unanswered(c, n)'
          /\ \A d \in Conns, m \in Numbers :
                 (d # c \/ m # n) => (Unanswered(d, m)' <=> Unanswered(d, m))
      BY <1>4, <2>2 DEF Unanswered
    <2>4. PICK ok \in BOOLEAN, port \in Ports \cup {0}, host \in Host \cup {NoHost} :
              Answer(c, n, ok, port, host)
      <3>1. handler[c][n].port \in Ports \cup {0}
        BY <1>1 DEF TypeOK, Handler
      <3> QED
        BY <1>5, <3>1 DEF Refuse, FailForward, AnswerForward, RunCancel
    <2>5. /\ peer[c] # Gone => \E reply \in Reply :
                 outbox'[c] = Append(outbox[c], reply) /\ reply.n = n
          /\ \A d \in Conns : d # c => outbox'[d] = outbox[d]
      BY <2>4, AnswerMoves
    <2>6. Move(c)
      <3>1. CASE peer[c] = Gone
        BY <1>2, <3>1 DEF Move
      <3>2. CASE peer[c] # Gone
        <4>1. Answers(c, n)
          BY <1>2, <2>1, <2>3, <2>5, <3>2 DEF Answers, SameBut
        <4> QED
          BY <3>2, <4>1 DEF Move
      <3> QED
        BY <3>1, <3>2
    <2>7. ASSUME NEW d \in Conns, d # c PROVE Move(d)
      BY <1>2, <2>3, <2>5, <2>7, StillMoves
    <2> QED
      BY <2>6, <2>7
  <1>6. CASE ~(Refuse(c, n) \/ FailForward(c, n) \/ AnswerForward(c, n) \/ RunCancel(c, n))
    <2>1. UNCHANGED outbox
      BY <1>6 DEF GoroutineStep, Goroutine, Begin, AcquirePort, NoLuck, Opened, PersistPort,
         RegisterHost, AssignHost, StopServing, UnregisterHost, CloseListener
    <2>2. /\ Unanswered(c, n)' <=> Unanswered(c, n)
          /\ \A d \in Conns, m \in Numbers : (d # c \/ m # n) => handler'[d][m] = handler[d][m]
      <3> DEFINE Pending == {"refuse", "begin", "tcpPort", "httpPort", "failed", "opened",
                             "persist", "register", "assign", "answer", "cancel"}
      <3>1. CASE NoLuck(c, n) \/ Opened(c, n) \/ PersistPort(c, n) \/ AssignHost(c, n)
        <4>1. Unanswered(c, n) /\ \E pc \in Pending : Goto(c, n, pc)
          BY <3>1 DEF NoLuck, Opened, PersistPort, AssignHost, Unanswered
        <4> QED
          BY <1>4, <4>1 DEF Unanswered
      <3>2. CASE StopServing(c, n) \/ UnregisterHost(c, n) \/ CloseListener(c, n)
        <4>1. ~Unanswered(c, n)
          BY <3>2 DEF StopServing, UnregisterHost, CloseListener, Unanswered
        <4>2. \/ \E pc \in {"unregister", "closing"} : Goto(c, n, pc)
              \/ End(c, n)
          BY <3>2 DEF StopServing, UnregisterHost, CloseListener
        <4> QED
          BY <1>4, <4>1, <4>2 DEF Unanswered
      <3>3. CASE Begin(c, n) \/ AcquirePort(c, n) \/ RegisterHost(c, n)
        <4>1. Unanswered(c, n) /\ \E pc \in Pending : \E port, host : Become(c, n, pc, port, host)
          BY <3>3 DEF Begin, AcquirePort, RegisterHost, Goto, Unanswered
        <4> QED
          BY <1>3, <4>1 DEF Unanswered
      <3> QED
        BY <1>6, <3>1, <3>2, <3>3 DEF GoroutineStep, Goroutine
    <2> QED
      BY <1>2, <2>1, <2>2, StillMoves DEF Unanswered
  <1> QED
    BY <1>5, <1>6

LEMMA RequestLoopMoves ==
    ASSUME TypeInv, NEW c \in Conns, RequestLoopStep(c)
    PROVE  \A d \in Conns : Move(d)
  <1>1. /\ TypeOK /\ client[c] \in Client /\ EndsAgree(c)
        /\ client \in [Conns -> Client] /\ handler \in [Conns -> [Numbers -> Handler]]
        /\ inbox \in [Conns -> Seq(Request)] /\ outbox \in [Conns -> Seq(Reply)]
        /\ peer \in [Conns -> Peer \cup {Gone}]
    BY Facts DEF TypeOK
  <1>2. CASE LoadPrincipalFails(c)
    <2>1. /\ UNCHANGED handler /\ Update(c, NewClient(c, "closed", FALSE))
          /\ inbox' = [inbox EXCEPT ![c] = <<>>] /\ outbox' = [outbox EXCEPT ![c] = <<>>]
          /\ peer' = IF client[c].up /\ ~client'[c].up THEN [peer EXCEPT ![c] = Gone] ELSE peer
      BY <1>2 DEF LoadPrincipalFails, RequestLoopStep
    <2>2. ~client'[c].up
      BY <1>1, <2>1 DEF Update, NewClient
    <2>3. peer'[c] = Gone /\ \A d \in Conns : d # c => peer'[d] = peer[d]
      BY <1>1, <2>1, <2>2 DEF EndsAgree
    <2>4. \A d \in Conns : d # c => inbox'[d] = inbox[d] /\ outbox'[d] = outbox[d]
      BY <1>1, <2>1
    <2>5. Move(c)
      BY <2>3 DEF Move
    <2> QED
      BY <2>1, <2>3, <2>4, <2>5, StillMoves DEF Unanswered
  <1>3. CASE ~LoadPrincipalFails(c)
    <2>1. UNCHANGED peer
      <3>1. ASSUME NEW fields, Update(c, fields), fields.up = client[c].up
            PROVE  client'[c].up = client[c].up
        BY <1>1, <3>1 DEF Update, TypeOK
      <3>2. UNCHANGED client \/ \E fields : Update(c, fields) /\ fields.up = client[c].up
        <4>1. CASE LoadPrincipal(c)
          <5> DEFINE fields == [client[c] EXCEPT !.state = "serving",
                                                 !.lastPort = dbPort[PrincipalOf[c]]]
          <5>1. Update(c, fields) /\ fields.up = client[c].up
            <6>1. fields.up = client[c].up
              BY <1>1 DEF Client
            <6>2. Update(c, fields)
              BY <4>1 DEF LoadPrincipal
            <6> HIDE DEF fields
            <6> QED
              BY <6>1, <6>2
          <5> HIDE DEF fields
          <5> QED
            BY <5>1
        <4>2. CASE HandleHint(c) \/ HandleServerInfo(c)
          <5>1. \/ UNCHANGED client
                \/ \E p : \/ Update(c, [client[c] EXCEPT !.protocol = p])
                          \/ Update(c, [client[c] EXCEPT !.protocol = p, !.state = "awaiting"])
            BY <4>2 DEF HandleHint, HandleServerInfo
          <5>2. ASSUME NEW p
                PROVE  /\ [client[c] EXCEPT !.protocol = p].up = client[c].up
                       /\ [client[c] EXCEPT !.protocol = p, !.state = "awaiting"].up
                              = client[c].up
            BY <1>1 DEF Client
          <5> QED
            BY <5>1, <5>2
        <4>3. CASE AnswerServerInfo(c)
          <5> DEFINE fields == [client[c] EXCEPT !.state = "serving"]
          <5>1. Update(c, fields) /\ fields.up = client[c].up
            BY <1>1, <4>3 DEF AnswerServerInfo, Client
          <5> HIDE DEF fields
          <5> QED
            BY <5>1
        <4>4. CASE EndLoop(c)
          <5> DEFINE fields == [client[c] EXCEPT !.state = "closed", !.cancelled = TRUE]
          <5>1. Update(c, fields) /\ fields.up = client[c].up
            BY <1>1, <4>4 DEF EndLoop, Client
          <5> HIDE DEF fields
          <5> QED
            BY <5>1
        <4>5. CASE HandleForward(c) \/ HandleCancel(c) \/ HandleOther(c)
          BY <4>5 DEF HandleForward, HandleCancel, HandleOther
        <4> QED
          BY <1>3, <4>1, <4>2, <4>3, <4>4, <4>5 DEF RequestLoopStep, RequestLoop
      <3>3. client'[c].up = client[c].up
        BY <3>1, <3>2
      <3> QED
        BY <3>3 DEF RequestLoopStep
    <2>2. \/ UNCHANGED <<inbox, outbox, handler>>
          \/ /\ UNCHANGED handler /\ inbox[c] # <<>>
             /\ inbox' = [inbox EXCEPT ![c] = Tail(inbox[c])]
             /\ \E ok \in BOOLEAN, port \in Ports \cup {0}, host \in Host \cup {NoHost} :
                    Answer(c, Head(inbox[c]).n, ok, port, host)
          \/ /\ UNCHANGED outbox /\ inbox[c] # <<>>
             /\ inbox' = [inbox EXCEPT ![c] = Tail(inbox[c])]
             /\ Head(inbox[c]).type \in {"forward", "cancel"}
             /\ \E pc \in {"refuse", "begin", "cancel"} : Goto(c, Head(inbox[c]).n, pc)
      <3>1. client[c].lastPort \in Ports \cup {0} /\ client[c].host \in Host
        BY <1>1 DEF Client
      <3>2. HostReads(c) \subseteq Host
        BY <3>1, HostFacts DEF HostReads, Host
      <3>3. CASE LoadPrincipal(c) \/ EndLoop(c)
        BY <3>3 DEF LoadPrincipal, EndLoop
      <3>4. CASE HandleHint(c) \/ HandleOther(c)
        BY <3>4 DEF HandleHint, HandleOther, NextRequest
      <3>5. CASE HandleForward(c) \/ HandleCancel(c)
        BY <3>5 DEF HandleForward, HandleCancel, NextRequest
      <3>6. CASE HandleServerInfo(c)
        BY <3>1, <3>6 DEF HandleServerInfo, NextRequest
      <3>7. CASE AnswerServerInfo(c)
        <4>1. /\ UNCHANGED handler /\ inbox[c] # <<>>
              /\ inbox' = [inbox EXCEPT ![c] = Tail(inbox[c])]
          BY <1>1, <3>7 DEF AnswerServerInfo, TypeOK
        <4>2. \E ok \in BOOLEAN, host \in Host \cup {NoHost} :
                  Answer(c, Head(inbox[c]).n, ok, 0, host)
          BY <3>2, <3>7 DEF AnswerServerInfo
        <4> QED
          BY <4>1, <4>2
      <3> QED
        BY <1>3, <3>3, <3>4, <3>5, <3>6, <3>7 DEF RequestLoopStep, RequestLoop
    <2>3. CASE UNCHANGED <<inbox, outbox, handler>>
      BY <2>1, <2>3, StillMoves DEF Unanswered
    <2>4. CASE /\ UNCHANGED handler /\ inbox[c] # <<>>
               /\ inbox' = [inbox EXCEPT ![c] = Tail(inbox[c])]
               /\ \E ok \in BOOLEAN, port \in Ports \cup {0}, host \in Host \cup {NoHost} :
                      Answer(c, Head(inbox[c]).n, ok, port, host)
      <3> DEFINE n == Head(inbox[c]).n
      <3>1. n \in Numbers
        <4>1. inbox[c] \in Seq(Request) /\ inbox[c] # <<>>
          BY <2>4, Facts
        <4>2. Head(inbox[c]) \in Request
          BY <4>1
        <4> QED
          BY <4>2 DEF Request
      <3>2. /\ peer[c] # Gone => \E reply \in Reply :
                   outbox'[c] = Append(outbox[c], reply) /\ reply.n = n
            /\ \A d \in Conns : d # c => outbox'[d] = outbox[d]
        <4> HIDE DEF n
        <4>1. PICK ok \in BOOLEAN, port \in Ports \cup {0}, host \in Host \cup {NoHost} :
                  Answer(c, n, ok, port, host)
          BY <2>4 DEF n
        <4> QED
          BY <3>1, <4>1, AnswerMoves
      <3>3. inbox'[c] = Tail(inbox[c]) /\ \A d \in Conns : d # c => inbox'[d] = inbox[d]
        BY <1>1, <2>4
      <3>4. Move(c)
        <4>1. CASE peer[c] = Gone
          BY <2>1, <4>1 DEF Move
        <4>2. CASE peer[c] # Gone
          <5>1. Replies(c)
            BY <2>1, <2>4, <3>2, <3>3, <4>2 DEF Replies, Same, Unanswered
          <5> QED
            BY <4>2, <5>1 DEF Move
        <4> QED
          BY <4>1, <4>2
      <3> QED
        BY <2>1, <2>4, <3>2, <3>3, <3>4, StillMoves DEF Unanswered
    <2>5. CASE /\ UNCHANGED outbox /\ inbox[c] # <<>>
               /\ inbox' = [inbox EXCEPT ![c] = Tail(inbox[c])]
               /\ Head(inbox[c]).type \in {"forward", "cancel"}
               /\ \E pc \in {"refuse", "begin", "cancel"} : Goto(c, Head(inbox[c]).n, pc)
      <3>1. PICK n \in Numbers : n = Head(inbox[c]).n
        <4>1. inbox[c] \in Seq(Request) /\ inbox[c] # <<>>
          BY <2>5, Facts
        <4>2. Head(inbox[c]) \in Request
          BY <4>1
        <4> QED
          BY <4>2 DEF Request
      <3>2. PICK pc \in {"refuse", "begin", "cancel"} : Goto(c, n, pc)
        BY <2>5, <3>1
      <3>3. inbox'[c] = Tail(inbox[c]) /\ \A d \in Conns : d # c => inbox'[d] = inbox[d]
        BY <1>1, <2>5
      <3>4. /\ handler'[c][n].pc = pc
            /\ \A d \in Conns, m \in Numbers :
                   (d # c \/ m # n) => handler'[d][m] = handler[d][m]
        BY <1>1, <3>1, <3>2 DEF Goto, Become
      <3>5. Move(c)
        <4>1. CASE peer[c] = Gone
          BY <2>1, <4>1 DEF Move
        <4>2. CASE peer[c] # Gone
          <5>1. Unanswered(c, n)' /\ SameBut(c, n)
            BY <3>4 DEF Unanswered, SameBut
          <5>2. Starts(c)
            BY <2>1, <2>5, <3>1, <3>3, <5>1 DEF Starts
          <5> QED
            BY <4>2, <5>2 DEF Move
        <4> QED
          BY <4>1, <4>2
      <3>6. ASSUME NEW d \in Conns, d # c PROVE Move(d)
        <4>1. \A m \in Numbers : handler'[d][m] = handler[d][m]
          BY <3>4, <3>6
        <4> QED
          BY <2>1, <2>5, <3>3, <3>6, <4>1, StillMoves DEF Unanswered
      <3> QED
        BY <3>5, <3>6
    <2> QED
      BY <2>2, <2>3, <2>4, <2>5
  <1> QED
    BY <1>2, <1>3

LEMMA ClientMoves ==
    ASSUME TypeInv, NEW c \in Conns,
           \/ \E k \in Kinds : Dial(c, k)
           \/ SendNext(c) \/ SendCancel(c) \/ HearReply(c) \/ Drop(c)
           \/ WaiterStep(c)
    PROVE  \A d \in Conns : Move(d)
  <1>1. /\ TypeOK /\ EndsAgree(c)
        /\ peer[c] # Gone => /\ peer[c] \in Peer
                             /\ peer[c].sent \in Nat /\ peer[c].heard \in Nat
    BY Facts
  <1>2. ASSUME NEW k \in Kinds, Dial(c, k) PROVE \A d \in Conns : Move(d)
    <2>1. /\ UNCHANGED handler /\ \A m \in Numbers : handler[c][m].pc = "none"
          /\ inbox' = [inbox EXCEPT ![c] = <<>>] /\ outbox' = [outbox EXCEPT ![c] = <<>>]
          /\ UpdatePeer(c, NewPeer(k))
      BY <1>2 DEF Dial, Handshake
    <2>2. /\ inbox'[c] = <<>> /\ outbox'[c] = <<>> /\ peer'[c] = NewPeer(k)
          /\ \A d \in Conns : d # c => /\ inbox'[d] = inbox[d] /\ outbox'[d] = outbox[d]
                                      /\ peer'[d] = peer[d]
      BY <1>1, <2>1 DEF UpdatePeer, TypeOK
    <2>3. Move(c)
      BY <2>1, <2>2 DEF Move, Dials, Unanswered
    <2> QED
      BY <2>1, <2>2, <2>3, StillMoves DEF Unanswered
  <1>3. ASSUME peer[c] # Gone, NEW step \in Content, NEW new,
               SendRequest(c, step), UpdatePeer(c, new),
               UNCHANGED <<handler, outbox>>,
               (peer[c].kind.serial /\ peer[c].status # "cancelling")
                   => peer[c].heard = peer[c].sent,
               peer[c].sent <= Len(Script(c)),
               peer[c].status = "cancelling" \/ step.type = TypeOf(c, peer[c].sent + 1),
               new.kind = peer[c].kind, new.sent = peer[c].sent + 1,
               new.heard = peer[c].heard, new.status # "cancelling"
        PROVE  \A d \in Conns : Move(d)
    <2> DEFINE req == [n |-> peer[c].sent + 1, type |-> step.type,
                       protocol |-> step.protocol, rport |-> step.rport]
    <2>1. req \in Request
      <3>1. Len(Script(c)) \in Nat /\ Len(Script(c)) < MaxRequests
        BY <1>1, <1>3, PeerFacts
      <3>2. peer[c].sent + 1 \in Numbers
        BY <1>1, <1>3, <3>1, SshdAssumption DEF Numbers
      <3> QED
        BY <3>2 DEF Request, Content
    <2>2. /\ inbox'[c] = Append(inbox[c], req) /\ peer'[c] = new
          /\ \A d \in Conns : d # c => inbox'[d] = inbox[d] /\ peer'[d] = peer[d]
      BY <1>1, <1>3 DEF SendRequest, UpdatePeer, TypeOK
    <2>3. req.n = peer[c].sent + 1 /\ req.type = step.type
      OBVIOUS
    <2> HIDE DEF req
    <2>4. Sends(c)
      BY <1>3, <2>1, <2>2, <2>3 DEF Sends, Same, Unanswered
    <2>5. Move(c)
      BY <1>3, <2>4 DEF Move
    <2> QED
      BY <1>3, <2>2, <2>5, StillMoves DEF Unanswered
  <1>4. CASE SendNext(c)
    <2>1. peer[c] # Gone /\ peer[c].sent < Len(Script(c))
      BY <1>4 DEF SendNext, Running, Gone
    <2> DEFINE new == [peer[c] EXCEPT !.sent = @ + 1]
               step == Script(c)[peer[c].sent + 1]
    <2>2. /\ SendRequest(c, step) /\ UpdatePeer(c, new)
          /\ UNCHANGED <<handler, outbox>>
          /\ peer[c].kind.serial => peer[c].heard = peer[c].sent
      BY <1>4 DEF SendNext
    <2>3. /\ new.kind = peer[c].kind /\ new.sent = peer[c].sent + 1
          /\ new.heard = peer[c].heard /\ new.status # "cancelling"
      BY <1>1, <1>4, <2>1 DEF SendNext, Running, Peer
    <2>4. /\ Script(c) \in Seq(Step) /\ Len(Script(c)) \in Nat
          /\ peer[c].sent + 1 \in 1 .. Len(Script(c))
      BY <1>1, <2>1, PeerFacts
    <2>5. step \in Content
      <3>1. step \in Step
        BY <2>4
      <3> HIDE DEF step
      <3> QED
        BY <3>1 DEF Step, Content
    <2>6. step.type = TypeOf(c, peer[c].sent + 1)
      BY <2>4 DEF TypeOf
    <2>7. peer[c].sent <= Len(Script(c))
      BY <1>1, <2>1, <2>4
    <2> HIDE DEF new, step
    <2> QED
      BY <1>3, <2>1, <2>2, <2>3, <2>5, <2>6, <2>7
  <1>5. CASE SendCancel(c)
    <2>1. peer[c] # Gone
      BY <1>5 DEF SendCancel, Running, Gone
    <2> DEFINE sent == peer[c].sent + 1
               new == [peer[c] EXCEPT !.status = "abandoned", !.sent = sent]
    <2>2. /\ SendRequest(c, CancelForward) /\ UpdatePeer(c, new)
          /\ UNCHANGED <<handler, outbox>>
      BY <1>5 DEF SendCancel
    <2> HIDE DEF sent
    <2>3. /\ new.kind = peer[c].kind /\ new.sent = sent
          /\ new.heard = peer[c].heard /\ new.status # "cancelling"
      BY <1>1, <2>1 DEF Peer
    <2> HIDE DEF new
    <2>4. peer[c].sent <= Len(Script(c))
      BY <1>1, <1>5, <2>1 DEF SendCancel, EndsAgree, Running
    <2>5. peer[c].status = "cancelling" \/ CancelForward.type = TypeOf(c, peer[c].sent + 1)
      <3>1. Len(Script(c)) \in Nat
        BY <1>1, <2>1, PeerFacts
      <3>2. peer[c].status = "cancelling" \/ peer[c].sent = Len(Script(c))
        BY <1>5 DEF SendCancel
      <3>3. ~(Len(Script(c)) + 1 <= Len(Script(c)))
        BY <3>1
      <3> QED
        BY <3>2, <3>3 DEF CancelForward, TypeOf
    <2>6. CancelForward \in Content
      BY DEF CancelForward, Content
    <2>7. (peer[c].kind.serial /\ peer[c].status # "cancelling") => peer[c].heard = peer[c].sent
      BY <1>5 DEF SendCancel
    <2> QED
      BY <1>3, <2>1, <2>2, <2>3, <2>4, <2>5, <2>6, <2>7 DEF sent
  <1>6. CASE HearReply(c)
    <2>1. peer[c] # Gone
      BY <1>1, <1>6 DEF HearReply, EndsAgree
    <2>2. PICK ok, host, port :
              UpdatePeer(c, [peer[c] EXCEPT !.heard = peer[c].heard + 1,
                                            !.status = StatusAfter(c, ok),
                                            !.host = host, !.port = port])
      BY <1>6 DEF HearReply
    <2> DEFINE heard == peer[c].heard + 1
               status == StatusAfter(c, ok)
               new == [peer[c] EXCEPT !.heard = heard, !.status = status,
                                      !.host = host, !.port = port]
    <2>3. UpdatePeer(c, new)
      BY <2>2
    <2>4. status = "cancelling" => peer[c].status = "cancelling" \/ peer[c].kind.serial
      BY DEF StatusAfter
    <2> HIDE DEF heard, status
    <2>5. /\ new.kind = peer[c].kind /\ new.sent = peer[c].sent
          /\ new.heard = heard /\ new.status = status
      BY <1>1, <2>1 DEF Peer
    <2> HIDE DEF new
    <2>6. /\ outbox[c] # <<>> /\ outbox' = [outbox EXCEPT ![c] = Tail(@)]
          /\ UNCHANGED <<handler, inbox>>
      BY <1>6 DEF HearReply
    <2>7. /\ outbox'[c] = Tail(outbox[c]) /\ peer'[c] = new
          /\ \A d \in Conns : d # c => outbox'[d] = outbox[d] /\ peer'[d] = peer[d]
      BY <1>1, <2>3, <2>6 DEF UpdatePeer, TypeOK
    <2>8. Hears(c)
      BY <2>4, <2>5, <2>6, <2>7 DEF Hears, Same, Unanswered, heard
    <2>9. Move(c)
      BY <2>1, <2>8 DEF Move
    <2> QED
      BY <2>6, <2>7, <2>9, StillMoves DEF Unanswered
  <1>7. CASE Drop(c)
    <2>1. PICK received : inbox' = [inbox EXCEPT ![c] = SubSeq(@, 1, received)]
      BY <1>7 DEF Drop
    <2>2. UNCHANGED handler /\ UpdatePeer(c, Gone) /\ outbox' = [outbox EXCEPT ![c] = <<>>]
      BY <1>7 DEF Drop
    <2>3. /\ peer'[c] = Gone
          /\ \A d \in Conns : d # c => /\ inbox'[d] = inbox[d] /\ outbox'[d] = outbox[d]
                                      /\ peer'[d] = peer[d]
      BY <1>1, <2>1, <2>2 DEF UpdatePeer, TypeOK
    <2>4. Move(c)
      BY <2>3 DEF Move
    <2> QED
      BY <2>2, <2>3, <2>4, StillMoves DEF Unanswered
  <1>8. CASE WaiterStep(c)
    BY <1>8, StillMoves DEF WaiterStep, WaiterCancels, Unanswered
  <1> QED
    BY <1>2, <1>4, <1>5, <1>6, <1>7, <1>8
----------------------------------------------------------------------------
(***************************************************************************)
(* A serial client has one request open, which is in exactly one place:    *)
(* with the daemon, with a goroutine, or on its way back.                  *)
(***************************************************************************)
Exchange(c) ==
    /\ peer[c].sent \in {peer[c].heard, peer[c].heard + 1}
    /\ peer[c].status = "cancelling" => peer[c].sent = peer[c].heard
    /\ inbox[c] # <<>> => /\ Len(inbox[c]) = 1 /\ inbox[c][1].n = peer[c].sent
                          /\ peer[c].sent = peer[c].heard + 1
                          /\ outbox[c] = <<>>
                          /\ \A n \in Numbers : ~Unanswered(c, n)
    /\ outbox[c] # <<>> => /\ Len(outbox[c]) = 1 /\ outbox[c][1].n = peer[c].sent
                           /\ peer[c].sent = peer[c].heard + 1
                           /\ \A n \in Numbers : ~Unanswered(c, n)
    /\ \A n \in Numbers : Unanswered(c, n) => n = peer[c].sent /\ n = peer[c].heard + 1

OneOpen(c) == peer[c] # Gone => (peer[c].kind.serial => Exchange(c))

RepliesInv == TypeInv /\ \A c \in Conns : OneOpen(c)

\* Sequences of one element.
LEMMA Single ==
    ASSUME NEW S, NEW s \in Seq(S), NEW x
    PROVE  /\ Append(<<>>, x) # <<>> /\ Len(Append(<<>>, x)) = 1 /\ Append(<<>>, x)[1] = x
           /\ s # <<>> => Head(s) = s[1]
           /\ Len(s) = 1 => Tail(s) = <<>>
  <1>1. Append(<<>>, x) # <<>> /\ Len(Append(<<>>, x)) = 1 /\ Append(<<>>, x)[1] = x
    <2>1. <<>> \in Seq({x})
      BY EmptySeq
    <2> QED
      BY <2>1, AppendProperties
  <1>2. s # <<>> => Head(s) = s[1]
    OBVIOUS
  <1>3. Len(s) = 1 => Tail(s) = <<>>
    <2> SUFFICES ASSUME Len(s) = 1 PROVE Tail(s) = <<>>
      OBVIOUS
    <2>1. s # <<>>
      BY EmptySeq
    <2>2. Tail(s) \in Seq(S) /\ Len(Tail(s)) = 0
      BY <2>1, HeadTailProperties
    <2> QED
      BY <2>2, EmptySeq
  <1> QED
    BY <1>1, <1>2, <1>3

LEMMA OneOpenKept ==
    ASSUME TypeInv, NEW c \in Conns, OneOpen(c), Move(c) PROVE OneOpen(c)'
  <1>1. CASE peer'[c] = Gone
    BY <1>1 DEF OneOpen
  <1>2. CASE Dials(c)
    BY <1>2 DEF OneOpen, Dials, Exchange, NewPeer
  <1> SUFFICES ASSUME peer[c] # Gone, peer'[c] # Gone, peer'[c].kind.serial,
                      \/ Still(c) \/ Sends(c) \/ Hears(c) \/ Replies(c) \/ Starts(c)
                      \/ \E n \in Numbers : Answers(c, n)
               PROVE  Exchange(c)'
    BY <1>1, <1>2 DEF Move, OneOpen
  <1>3. peer[c].kind.serial
    BY DEF Still, Sends, Hears, Replies, Starts, Answers
  <1>4. /\ Exchange(c) /\ peer[c].sent \in Nat /\ peer[c].heard \in Nat
        /\ inbox[c] \in Seq(Request) /\ outbox[c] \in Seq(Reply)
    BY <1>3, Facts DEF OneOpen
  <1>5. CASE Still(c)
    BY <1>4, <1>5 DEF Still, Same, Exchange
  <1>6. CASE Sends(c)
    <2>1. peer[c].heard = peer[c].sent
      BY <1>3, <1>4, <1>6 DEF Sends, Exchange
    <2>2. inbox[c] = <<>> /\ outbox[c] = <<>> /\ \A n \in Numbers : ~Unanswered(c, n)
      BY <1>4, <2>1 DEF Exchange
    <2>3. PICK req \in Request : inbox'[c] = Append(inbox[c], req) /\ req.n = peer[c].sent + 1
      BY <1>6 DEF Sends
    <2>4. inbox'[c] # <<>> /\ Len(inbox'[c]) = 1 /\ inbox'[c][1] = req
      BY <1>4, <2>2, <2>3, Single
    <2> QED
      BY <1>4, <1>6, <2>1, <2>2, <2>3, <2>4 DEF Exchange, Sends, Same
  <1>7. CASE Hears(c)
    <2>1. /\ inbox[c] = <<>> /\ Len(outbox[c]) = 1 /\ peer[c].sent = peer[c].heard + 1
          /\ \A n \in Numbers : ~Unanswered(c, n)
      BY <1>4, <1>7 DEF Exchange, Hears
    <2>2. outbox'[c] = <<>>
      BY <1>4, <1>7, <2>1, Single DEF Hears
    <2> QED
      BY <1>4, <1>7, <2>1, <2>2 DEF Exchange, Hears, Same
  <1>8. CASE Replies(c)
    <2>1. /\ Len(inbox[c]) = 1 /\ inbox[c][1].n = peer[c].sent
          /\ peer[c].sent = peer[c].heard + 1 /\ outbox[c] = <<>>
          /\ \A m \in Numbers : ~Unanswered(c, m)
      BY <1>4, <1>8 DEF Exchange, Replies
    <2>2. PICK reply \in Reply :
              outbox'[c] = Append(outbox[c], reply) /\ reply.n = Head(inbox[c]).n
      BY <1>8 DEF Replies
    <2>3. reply.n = peer[c].sent /\ inbox'[c] = <<>>
      BY <1>4, <1>8, <2>1, <2>2, Single DEF Replies
    <2>4. outbox'[c] # <<>> /\ Len(outbox'[c]) = 1 /\ outbox'[c][1] = reply
      BY <1>4, <2>1, <2>2, Single
    <2> QED
      BY <1>4, <1>8, <2>1, <2>3, <2>4 DEF Exchange, Replies, Same
  <1>9. CASE Starts(c)
    <2>1. /\ Len(inbox[c]) = 1 /\ inbox[c][1].n = peer[c].sent
          /\ peer[c].sent = peer[c].heard + 1 /\ outbox[c] = <<>>
          /\ \A m \in Numbers : ~Unanswered(c, m)
      BY <1>4, <1>9 DEF Exchange, Starts
    <2>2. Head(inbox[c]).n = peer[c].sent /\ inbox'[c] = <<>>
      BY <1>4, <1>9, <2>1, Single DEF Starts
    <2> QED
      BY <1>4, <1>9, <2>1, <2>2 DEF Exchange, Starts, SameBut
  <1>10. ASSUME NEW n \in Numbers, Answers(c, n) PROVE Exchange(c)'
    <2>1. /\ inbox[c] = <<>> /\ outbox[c] = <<>>
          /\ n = peer[c].sent /\ n = peer[c].heard + 1
          /\ \A m \in Numbers : Unanswered(c, m) => m = n
      BY <1>4, <1>10 DEF Exchange, Answers
    <2>2. PICK reply \in Reply : outbox'[c] = Append(outbox[c], reply) /\ reply.n = n
      BY <1>10 DEF Answers
    <2>3. outbox'[c] # <<>> /\ Len(outbox'[c]) = 1 /\ outbox'[c][1] = reply
      BY <1>4, <2>1, <2>2, Single
    <2>4. \A m \in Numbers : ~Unanswered(c, m)'
      BY <1>10, <2>1 DEF Answers, SameBut
    <2> QED
      BY <1>4, <1>10, <2>1, <2>2, <2>3, <2>4 DEF Exchange, Answers
  <1> QED
    BY <1>5, <1>6, <1>7, <1>8, <1>9, <1>10

LEMMA RepliesInvInit == ASSUME Init PROVE RepliesInv
  <1>1. \A c \in Conns : peer[c] = Gone
    BY DEF Init
  <1> QED
    BY <1>1, InitType DEF RepliesInv, OneOpen

LEMMA StepMoves == ASSUME TypeInv, [Next]_vars PROVE \A c \in Conns : Move(c)
  <1>1. CASE Crash
    BY <1>1 DEF Crash, Move
  <1>2. ASSUME NEW c \in Conns, ConnStep(c) PROVE \A d \in Conns : Move(d)
    BY <1>2, GoroutineMoves, RequestLoopMoves, ClientMoves DEF ConnStep
  <1>3. CASE UNCHANGED vars
    BY <1>3, StillMoves DEF vars, Unanswered
  <1> QED
    BY <1>1, <1>2, <1>3 DEF Next

LEMMA RepliesInvStep == RepliesInv /\ [Next]_vars => RepliesInv'
  BY NextType, StepMoves, OneOpenKept DEF RepliesInv
----------------------------------------------------------------------------
(***************************************************************************)
(* The books of a connection.  Requests are numbered as they are sent and  *)
(* wait in that order, so those the loop has taken up are the first ones;  *)
(* a number is with one goroutine or in one reply, and the four places add *)
(* up to what was sent.                                                    *)
(***************************************************************************)
Taken(c) == peer[c].sent - Len(inbox[c])

Balanced(c) ==
    peer[c].sent = peer[c].heard + Len(outbox[c]) + Cardinality(Working(c)) + Len(inbox[c])

NumbersInPlace(c) ==
    /\ \A i \in DOMAIN inbox[c] : inbox[c][i].n = Taken(c) + i
    /\ \A n \in Working(c) : n <= Taken(c)
    /\ \A i \in DOMAIN outbox[c] : outbox[c][i].n <= Taken(c) /\ outbox[c][i].n \notin Working(c)
    /\ \A i, j \in DOMAIN outbox[c] : i < j => outbox[c][i].n # outbox[c][j].n

\* A client that does not wait sends its script: goroutines have its forwards,
\* and the loop answers the rest in turn.
LoopInTurn(c) ==
    /\ peer[c].status # "cancelling"
    /\ \A i \in DOMAIN inbox[c] : inbox[c][i].type = TypeOf(c, inbox[c][i].n)
    /\ \A n \in Working(c) : ~ByLoop(c, n)
    /\ \A i, j \in DOMAIN outbox[c] :
           (i < j /\ ByLoop(c, outbox[c][i].n) /\ ByLoop(c, outbox[c][j].n))
               => outbox[c][i].n < outbox[c][j].n

Ledger(c) ==
    peer[c] # Gone => /\ Balanced(c) /\ NumbersInPlace(c)
                      /\ ~peer[c].kind.serial => LoopInTurn(c)

LedgerInv == RepliesInv /\ \A c \in Conns : Ledger(c)

LEMMA WorkingFacts ==
    ASSUME NEW c \in Conns
    PROVE  /\ IsFiniteSet(Working(c)) /\ Cardinality(Working(c)) \in Nat
           /\ Working(c) \subseteq Numbers
  <1>1. IsFiniteSet(Numbers)
    BY SshdAssumption, FS_Interval DEF Numbers
  <1>2. Working(c) \in SUBSET Numbers
    BY DEF Working
  <1> QED
    BY <1>1, <1>2, FS_Subset, FS_CardinalityType

\* The numbers with a goroutine, after each kind of step.
LEMMA WorkingSame == ASSUME NEW c \in Conns, Same(c) PROVE Working(c)' = Working(c)
  BY DEF Same, Working, Numbers

LEMMA WorkingLess ==
    ASSUME NEW c \in Conns, NEW n \in Numbers, Answers(c, n)
    PROVE  /\ n \in Working(c) /\ Working(c)' = Working(c) \ {n}
           /\ Cardinality(Working(c)') = Cardinality(Working(c)) - 1
  <1>1. n \in Working(c) /\ Working(c)' = Working(c) \ {n}
    BY DEF Answers, SameBut, Working, Numbers
  <1> QED
    BY <1>1, WorkingFacts, FS_RemoveElement

LEMMA WorkingMore ==
    ASSUME NEW c \in Conns, NEW n \in Numbers, n \notin Working(c),
           Unanswered(c, n)', SameBut(c, n)
    PROVE  /\ Working(c)' = Working(c) \cup {n}
           /\ Cardinality(Working(c)') = Cardinality(Working(c)) + 1
  <1>1. Working(c)' = Working(c) \cup {n}
    BY DEF SameBut, Working, Numbers
  <1> QED
    BY <1>1, WorkingFacts, FS_AddElement

\* A sequence that grows by an element, or loses its head.
LEMMA Grown ==
    ASSUME NEW S, NEW s \in Seq(S), NEW x \in S, NEW t, t = Append(s, x)
    PROVE  /\ Len(s) \in Nat /\ Len(t) = Len(s) + 1
           /\ \A i \in DOMAIN t : \/ i \in DOMAIN s /\ t[i] = s[i]
                                  \/ i = Len(s) + 1 /\ t[i] = x
           /\ \A i \in DOMAIN s : i \in Nat /\ i <= Len(s) /\ s[i] \in S
  <1>1. /\ Append(s, x) \in Seq(S) /\ Len(Append(s, x)) = Len(s) + 1
        /\ \A i \in 1 .. Len(s) : Append(s, x)[i] = s[i]
        /\ Append(s, x)[Len(s) + 1] = x
    BY AppendProperties
  <1>2. Len(s) \in Nat /\ DOMAIN s = 1 .. Len(s) /\ s \in [1 .. Len(s) -> S]
    BY LenProperties
  <1>3. DOMAIN t = 1 .. Len(t)
    BY <1>1, LenProperties
  <1> QED
    BY <1>1, <1>2, <1>3

LEMMA Shortened ==
    ASSUME NEW S, NEW s \in Seq(S), s # <<>>, NEW t, t = Tail(s)
    PROVE  /\ Head(s) = s[1] /\ Head(s) \in S /\ 1 \in DOMAIN s
           /\ Len(s) \in Nat \ {0} /\ Len(t) = Len(s) - 1
           /\ \A i \in DOMAIN t : i \in Nat /\ i + 1 \in DOMAIN s /\ t[i] = s[i + 1]
  <1>1. /\ Tail(s) \in Seq(S) /\ Len(Tail(s)) = Len(s) - 1
        /\ \A i \in 1 .. Len(Tail(s)) : Tail(s)[i] = s[i + 1]
        /\ Head(s) \in S
    BY HeadTailProperties
  <1>2. Len(s) \in Nat \ {0} /\ DOMAIN s = 1 .. Len(s)
    BY EmptySeq, LenProperties
  <1>3. DOMAIN t = 1 .. Len(s) - 1
    BY <1>1, LenProperties
  <1> QED
    BY <1>1, <1>2, <1>3

LEMMA LedgerDialled ==
    ASSUME NEW c \in Conns, Dials(c) PROVE Ledger(c)'
  <1>1. PICK k \in Kinds : peer'[c] = NewPeer(k)
    BY DEF Dials
  <1>2. /\ peer'[c].sent = 0 /\ peer'[c].heard = 0 /\ peer'[c].status = "running"
        /\ inbox'[c] = <<>> /\ outbox'[c] = <<>>
    BY <1>1 DEF NewPeer, Dials
  <1>3. Working(c)' = {}
    BY DEF Dials, Working
  <1>4. Balanced(c)'
    BY <1>2, <1>3, FS_EmptySet DEF Balanced
  <1>5. NumbersInPlace(c)' /\ LoopInTurn(c)'
    BY <1>2, <1>3 DEF NumbersInPlace, LoopInTurn
  <1> QED
    BY <1>4, <1>5 DEF Ledger

LEMMA LedgerKept ==
    ASSUME TypeInv, NEW c \in Conns, Ledger(c), Move(c) PROVE Ledger(c)'
  <1>1. CASE peer'[c] = Gone
    BY <1>1 DEF Ledger
  <1>2. CASE Dials(c)
    BY <1>2, LedgerDialled
  <1> SUFFICES ASSUME peer[c] # Gone,
                      \/ Still(c) \/ Sends(c) \/ Hears(c) \/ Replies(c) \/ Starts(c)
                      \/ \E n \in Numbers : Answers(c, n)
               PROVE  Balanced(c)' /\ NumbersInPlace(c)'
                      /\ (~peer'[c].kind.serial => LoopInTurn(c)')
    BY <1>1, <1>2 DEF Move, Ledger
  <1>3. /\ Balanced(c) /\ NumbersInPlace(c)
        /\ peer[c].sent \in Nat /\ peer[c].heard \in Nat
        /\ inbox[c] \in Seq(Request) /\ outbox[c] \in Seq(Reply)
    BY Facts DEF Ledger
  <1> DEFINE Sum(sent, heard, replies, busy, requests) ==
                 sent = heard + replies + busy + requests
  <1>4. PICK sent \in Nat, heard \in Nat, replies \in Nat, busy \in Nat, requests \in Nat :
            /\ sent = peer[c].sent /\ heard = peer[c].heard /\ replies = Len(outbox[c])
            /\ busy = Cardinality(Working(c)) /\ requests = Len(inbox[c])
            /\ Sum(sent, heard, replies, busy, requests)
    BY <1>3, WorkingFacts, LenProperties DEF Balanced
  <1>17. Sum(sent, heard, replies, busy, requests)
    BY <1>4
  <1>5. /\ peer'[c].kind = peer[c].kind
        /\ Script(c)' = Script(c)
        /\ \A n : TypeOf(c, n)' = TypeOf(c, n) /\ (ByLoop(c, n)' <=> ByLoop(c, n))
    BY DEF Still, Sends, Hears, Replies, Starts, Answers, Script, TypeOf, ByLoop
  <1>6. ~peer'[c].kind.serial => LoopInTurn(c) /\ ~peer[c].kind.serial
    BY <1>5 DEF Ledger
  <1>7. \A n \in Nat : ~(TypeOf(c, n) \in {"forward", "cancel"} /\ ByLoop(c, n))
    <2>1. /\ Script(c) \in Seq(Step) /\ Len(Script(c)) \in Nat
          /\ DOMAIN Script(c) = 1 .. Len(Script(c))
      BY PeerFacts DEF TypeInv
    <2>2. ASSUME NEW n \in DOMAIN Script(c) PROVE Script(c)[n].type # "cancel"
      <3>1. PICK step \in Step : step = Script(c)[n]
        BY <2>1, <2>2
      <3> QED
        BY <3>1 DEF Step
    <2> QED
      BY <2>1, <2>2 DEF TypeOf, ByLoop
  <1>8. PICK taken \in Int :
            taken = Taken(c) /\ taken = sent - requests
    BY <1>4 DEF Taken
  <1>9. /\ \A n \in Working(c) : n \in Nat /\ n <= taken
        /\ \A i \in DOMAIN outbox[c] : /\ i \in Nat /\ i <= replies
                                      /\ outbox[c][i].n \in Nat /\ outbox[c][i].n <= taken
                                      /\ outbox[c][i].n \notin Working(c)
        /\ \A i, j \in DOMAIN outbox[c] : i < j => outbox[c][i].n # outbox[c][j].n
    <2>1. ASSUME NEW i \in DOMAIN outbox[c]
          PROVE  i \in Nat /\ i <= replies /\ outbox[c][i].n \in Nat
      <3>1. i \in Nat /\ i <= Len(outbox[c]) /\ outbox[c][i] \in Reply
        BY <1>3, <2>1, LenProperties
      <3> QED
        BY <1>4, <3>1 DEF Reply, Numbers
    <2> QED
      BY <1>3, <1>8, <2>1, WorkingFacts DEF NumbersInPlace, Numbers
  <1>10. \A i \in DOMAIN inbox[c] : i \in Nat /\ i <= requests /\ inbox[c][i].n = taken + i
    <2>1. \A i \in DOMAIN inbox[c] : i \in Nat /\ i <= Len(inbox[c])
      BY <1>3, LenProperties
    <2> QED
      BY <1>3, <1>4, <1>8, <2>1 DEF NumbersInPlace
  <1>11. ASSUME NEW s, NEW h, NEW o, NEW b, NEW i,
                peer'[c].sent = s, peer'[c].heard = h, Len(outbox'[c]) = o,
                Cardinality(Working(c)') = b, Len(inbox'[c]) = i, Sum(s, h, o, b, i)
         PROVE  Balanced(c)' /\ Taken(c)' = s - i
    BY <1>11 DEF Balanced, Taken
  <1>12. CASE Still(c)
    <2>1. /\ peer'[c] = peer[c] /\ inbox'[c] = inbox[c] /\ outbox'[c] = outbox[c]
          /\ Working(c)' = Working(c) /\ Taken(c)' = Taken(c)
      BY <1>12, WorkingSame DEF Still, Taken
    <2>2. Balanced(c)'
      BY <1>3, <2>1 DEF Balanced
    <2>3. NumbersInPlace(c)'
      BY <1>3, <2>1 DEF NumbersInPlace
    <2>4. LoopInTurn(c) => LoopInTurn(c)'
      BY <1>5, <2>1 DEF LoopInTurn
    <2> QED
      BY <1>6, <2>2, <2>3, <2>4
  <1>13. CASE Sends(c)
    <2>1. PICK req \in Request :
              /\ inbox'[c] = Append(inbox[c], req) /\ req.n = sent + 1
              /\ peer[c].status = "cancelling" \/ req.type = TypeOf(c, req.n)
      BY <1>4, <1>13 DEF Sends
    <2>2. /\ Len(inbox'[c]) = requests + 1
          /\ \A i \in DOMAIN inbox'[c] :
                 \/ i \in DOMAIN inbox[c] /\ inbox'[c][i] = inbox[c][i]
                 \/ i = requests + 1 /\ inbox'[c][i] = req
      BY <1>3, <1>4, <2>1, Grown
    <2>3. /\ peer'[c].sent = sent + 1 /\ peer'[c].heard = heard
          /\ peer'[c].status # "cancelling"
          /\ outbox'[c] = outbox[c] /\ Working(c)' = Working(c)
      BY <1>4, <1>13, WorkingSame DEF Sends
    <2>4. Balanced(c)' /\ Taken(c)' = taken
      <3>1. Sum(sent + 1, heard, replies, busy, requests + 1)
        BY <1>17
      <3>2. (sent + 1) - (requests + 1) = taken
        BY <1>8
      <3> HIDE DEF Sum
      <3> QED
        BY <1>4, <1>11, <2>2, <2>3, <3>1, <3>2
    <2>5. NumbersInPlace(c)'
      <3>1. ASSUME NEW i \in DOMAIN inbox'[c] PROVE inbox'[c][i].n = taken + i
        <4>1. CASE i \in DOMAIN inbox[c] /\ inbox'[c][i] = inbox[c][i]
          BY <1>10, <4>1
        <4>2. CASE i = requests + 1 /\ inbox'[c][i] = req
          BY <1>8, <2>1, <4>2
        <4> QED
          BY <2>2, <4>1, <4>2
      <3> QED
        BY <1>9, <2>3, <2>4, <3>1 DEF NumbersInPlace
    <2>6. ASSUME ~peer'[c].kind.serial PROVE LoopInTurn(c)'
      <3>1. LoopInTurn(c) /\ req.type = TypeOf(c, req.n)
        BY <1>6, <2>1, <2>6 DEF LoopInTurn
      <3>2. \A i \in DOMAIN inbox'[c] : inbox'[c][i].type = TypeOf(c, inbox'[c][i].n)
        BY <2>2, <3>1 DEF LoopInTurn
      <3> QED
        BY <1>5, <2>3, <3>1, <3>2 DEF LoopInTurn
    <2> QED
      BY <2>4, <2>5, <2>6
  <1>14. CASE Hears(c)
    <2>1. /\ replies # 0 /\ Len(outbox'[c]) = replies - 1
          /\ \A i \in DOMAIN outbox'[c] :
                 i \in Nat /\ i + 1 \in DOMAIN outbox[c] /\ outbox'[c][i] = outbox[c][i + 1]
      BY <1>3, <1>4, <1>14, Shortened DEF Hears
    <2>2. /\ peer'[c].sent = sent /\ peer'[c].heard = heard + 1
          /\ inbox'[c] = inbox[c] /\ Working(c)' = Working(c)
      BY <1>4, <1>14, WorkingSame DEF Hears
    <2>3. Balanced(c)' /\ Taken(c)' = taken
      <3>1. Sum(sent, heard + 1, replies - 1, busy, requests)
        BY <1>17
      <3> HIDE DEF Sum
      <3> QED
        BY <1>4, <1>8, <1>11, <2>1, <2>2, <3>1
    <2>4. NumbersInPlace(c)'
      <3>1. ASSUME NEW i \in DOMAIN outbox'[c], NEW j \in DOMAIN outbox'[c], i < j
            PROVE  outbox'[c][i].n # outbox'[c][j].n
        <4>1. i + 1 < j + 1 /\ i + 1 \in DOMAIN outbox[c] /\ j + 1 \in DOMAIN outbox[c]
          BY <2>1, <3>1
        <4>2. outbox'[c][i] = outbox[c][i + 1] /\ outbox'[c][j] = outbox[c][j + 1]
          BY <2>1
        <4>3. outbox[c][i + 1].n # outbox[c][j + 1].n
          BY <1>9, <4>1
        <4> QED
          BY <4>2, <4>3
      <3> QED
        BY <1>9, <1>10, <2>1, <2>2, <2>3, <3>1 DEF NumbersInPlace
    <2>5. ASSUME ~peer'[c].kind.serial PROVE LoopInTurn(c)'
      <3>1. LoopInTurn(c) /\ peer'[c].status # "cancelling"
        BY <1>6, <1>14, <2>5 DEF LoopInTurn, Hears
      <3>2. ASSUME NEW i \in DOMAIN outbox'[c], NEW j \in DOMAIN outbox'[c], i < j,
                   ByLoop(c, outbox'[c][i].n), ByLoop(c, outbox'[c][j].n)
            PROVE  outbox'[c][i].n < outbox'[c][j].n
        <4>1. i + 1 < j + 1 /\ i + 1 \in DOMAIN outbox[c] /\ j + 1 \in DOMAIN outbox[c]
          BY <2>1, <3>2
        <4>2. outbox'[c][i] = outbox[c][i + 1] /\ outbox'[c][j] = outbox[c][j + 1]
          BY <2>1
        <4> QED
          BY <3>1, <3>2, <4>1, <4>2 DEF LoopInTurn
      <3> QED
        BY <1>5, <2>2, <3>1, <3>2 DEF LoopInTurn
    <2> QED
      BY <2>3, <2>4, <2>5
  <1>15. CASE Replies(c) \/ Starts(c)
    <2>1. /\ Head(inbox[c]) = inbox[c][1] /\ Head(inbox[c]) \in Request /\ 1 \in DOMAIN inbox[c]
          /\ requests # 0 /\ Len(inbox'[c]) = requests - 1
          /\ \A i \in DOMAIN inbox'[c] :
                 i \in Nat /\ i + 1 \in DOMAIN inbox[c] /\ inbox'[c][i] = inbox[c][i + 1]
      <3>1. inbox[c] # <<>> /\ inbox'[c] = Tail(inbox[c])
        BY <1>15 DEF Replies, Starts
      <3> QED
        BY <1>3, <1>4, <3>1, Shortened
    <2>2. PICK n \in Numbers : n = Head(inbox[c]).n
      BY <2>1 DEF Request
    <2>10. n = taken + 1 /\ n \in Nat
      BY <1>10, <2>1, <2>2 DEF Numbers
    <2>3. peer'[c] = peer[c] /\ peer'[c].sent = sent /\ peer'[c].heard = heard
      BY <1>4, <1>15 DEF Replies, Starts
    <2>4. n \notin Working(c) /\ \A i \in DOMAIN outbox[c] : outbox[c][i].n < n
      BY <1>9, <2>10
    <2>5. \A i \in DOMAIN inbox'[c] : inbox'[c][i].n = taken + 1 + i
      <3>1. ASSUME NEW i \in DOMAIN inbox'[c] PROVE inbox'[c][i].n = taken + 1 + i
        <4>1. i \in Nat /\ inbox'[c][i].n = taken + (i + 1)
          BY <1>10, <2>1
        <4> QED
          BY <4>1
      <3> QED
        BY <3>1
    <2>6. LoopInTurn(c) =>
              \A i \in DOMAIN inbox'[c] : inbox'[c][i].type = TypeOf(c, inbox'[c][i].n)
      BY <2>1 DEF LoopInTurn
    <2>7. sent - (requests - 1) = taken + 1
      BY <1>8
    <2>8. CASE Replies(c)
      <3>1. PICK reply \in Reply : outbox'[c] = Append(outbox[c], reply) /\ reply.n = n
        BY <2>2, <2>8 DEF Replies
      <3>2. /\ Len(outbox'[c]) = replies + 1
            /\ \A i \in DOMAIN outbox'[c] :
                   \/ i \in DOMAIN outbox[c] /\ outbox'[c][i] = outbox[c][i]
                   \/ i = replies + 1 /\ outbox'[c][i] = reply
        BY <1>3, <1>4, <3>1, Grown
      <3>3. Working(c)' = Working(c)
        BY <2>8, WorkingSame DEF Replies
      <3>4. Balanced(c)' /\ Taken(c)' = taken + 1
        <4>1. Sum(sent, heard, replies + 1, busy, requests - 1)
          BY <1>17
        <4> HIDE DEF Sum
        <4> QED
          BY <1>4, <1>11, <2>1, <2>3, <2>7, <3>2, <3>3, <4>1
      <3>5. ASSUME NEW i \in DOMAIN outbox'[c], NEW j \in DOMAIN outbox'[c], i < j
            PROVE  /\ i \in DOMAIN outbox[c] /\ outbox'[c][i] = outbox[c][i]
                   /\ \/ j \in DOMAIN outbox[c] /\ outbox'[c][j] = outbox[c][j]
                      \/ outbox'[c][i].n < outbox'[c][j].n
        <4>1. i \in DOMAIN outbox[c] /\ outbox'[c][i] = outbox[c][i]
          BY <1>9, <3>2, <3>5
        <4> QED
          BY <2>4, <3>1, <3>2, <4>1
      <3>6. NumbersInPlace(c)'
        <4>1. \A m \in Working(c) : m <= taken + 1
          BY <1>9
        <4>2. ASSUME NEW i \in DOMAIN outbox'[c]
              PROVE  outbox'[c][i].n <= taken + 1 /\ outbox'[c][i].n \notin Working(c)
          <5>1. CASE i \in DOMAIN outbox[c] /\ outbox'[c][i] = outbox[c][i]
            BY <1>9, <5>1
          <5>2. CASE outbox'[c][i] = reply
            BY <1>8, <2>4, <2>10, <3>1, <5>2
          <5> QED
            BY <3>2, <5>1, <5>2
        <4>3. ASSUME NEW i \in DOMAIN outbox'[c], NEW j \in DOMAIN outbox'[c], i < j
              PROVE  outbox'[c][i].n # outbox'[c][j].n
          <5>1. i \in DOMAIN outbox[c] /\ outbox'[c][i] = outbox[c][i] /\ outbox'[c][i].n \in Nat
            BY <1>9, <3>5, <4>3
          <5>2. CASE j \in DOMAIN outbox[c] /\ outbox'[c][j] = outbox[c][j]
            BY <1>9, <4>3, <5>1, <5>2
          <5>3. CASE outbox'[c][i].n < outbox'[c][j].n
            BY <5>1, <5>3
          <5> QED
            BY <3>5, <4>3, <5>2, <5>3
        <4> QED
          BY <2>5, <3>3, <3>4, <4>1, <4>2, <4>3 DEF NumbersInPlace
      <3>7. ASSUME ~peer'[c].kind.serial PROVE LoopInTurn(c)'
        <4>1. LoopInTurn(c)
          BY <1>6, <3>7
        <4>2. ASSUME NEW i \in DOMAIN outbox'[c], NEW j \in DOMAIN outbox'[c], i < j,
                     ByLoop(c, outbox'[c][i].n), ByLoop(c, outbox'[c][j].n)
              PROVE  outbox'[c][i].n < outbox'[c][j].n
          BY <3>5, <4>1, <4>2 DEF LoopInTurn
        <4> QED
          BY <1>5, <2>3, <2>6, <3>3, <4>1, <4>2 DEF LoopInTurn
      <3> QED
        BY <3>4, <3>6, <3>7
    <2>9. CASE Starts(c)
      <3>1. /\ Working(c)' = Working(c) \cup {n}
            /\ Cardinality(Working(c)') = busy + 1
        <4>1. Unanswered(c, n)' /\ SameBut(c, n)
          BY <2>2, <2>9 DEF Starts
        <4> QED
          BY <1>4, <2>4, <4>1, WorkingMore
      <3>2. outbox'[c] = outbox[c]
        BY <2>9 DEF Starts
      <3>3. Balanced(c)' /\ Taken(c)' = taken + 1
        <4>1. Sum(sent, heard, replies, busy + 1, requests - 1)
          BY <1>17
        <4> HIDE DEF Sum
        <4> QED
          BY <1>4, <1>11, <2>1, <2>3, <2>7, <3>1, <3>2, <4>1
      <3>4. NumbersInPlace(c)'
        <4>1. \A m \in Working(c)' : m <= taken + 1
          BY <1>9, <2>10, <3>1
        <4>2. ASSUME NEW i \in DOMAIN outbox[c]
              PROVE  outbox[c][i].n <= taken + 1 /\ outbox[c][i].n \notin Working(c)'
          BY <1>9, <2>4, <3>1
        <4> QED
          BY <1>9, <2>5, <3>2, <3>3, <4>1, <4>2 DEF NumbersInPlace
      <3>5. ASSUME ~peer'[c].kind.serial PROVE LoopInTurn(c)'
        <4>1. LoopInTurn(c)
          BY <1>6, <3>5
        <4>2. ~ByLoop(c, n)
          <5>1. TypeOf(c, n) \in {"forward", "cancel"}
            BY <2>1, <2>2, <2>9, <4>1 DEF LoopInTurn, Starts
          <5> QED
            BY <1>7, <2>10, <5>1
        <4> QED
          BY <1>5, <2>3, <2>6, <3>1, <3>2, <4>1, <4>2 DEF LoopInTurn
      <3> QED
        BY <3>3, <3>4, <3>5
    <2> QED
      BY <1>15, <2>8, <2>9
  <1>16. ASSUME NEW n \in Numbers, Answers(c, n)
         PROVE  Balanced(c)' /\ NumbersInPlace(c)' /\ (~peer'[c].kind.serial => LoopInTurn(c)')
    <2>1. PICK reply \in Reply : outbox'[c] = Append(outbox[c], reply) /\ reply.n = n
      BY <1>16 DEF Answers
    <2>2. /\ Len(outbox'[c]) = replies + 1
          /\ \A i \in DOMAIN outbox'[c] :
                 \/ i \in DOMAIN outbox[c] /\ outbox'[c][i] = outbox[c][i]
                 \/ i = replies + 1 /\ outbox'[c][i] = reply
      BY <1>3, <1>4, <2>1, Grown
    <2>3. /\ n \in Working(c) /\ Working(c)' = Working(c) \ {n}
          /\ Cardinality(Working(c)') = busy - 1
      BY <1>4, <1>16, WorkingLess
    <2>4. peer'[c] = peer[c] /\ inbox'[c] = inbox[c]
      BY <1>16 DEF Answers
    <2>5. Balanced(c)' /\ Taken(c)' = taken
      <3>1. Sum(sent, heard, replies + 1, busy - 1, requests)
        BY <1>17
      <3> HIDE DEF Sum
      <3> QED
        BY <1>4, <1>8, <1>11, <2>2, <2>3, <2>4, <3>1
    <2>6. ASSUME NEW i \in DOMAIN outbox'[c], NEW j \in DOMAIN outbox'[c], i < j
          PROVE  /\ i \in DOMAIN outbox[c] /\ outbox'[c][i] = outbox[c][i]
                 /\ \/ j \in DOMAIN outbox[c] /\ outbox'[c][j] = outbox[c][j]
                    \/ outbox'[c][j].n = n
      BY <1>9, <2>1, <2>2, <2>6
    <2>7. NumbersInPlace(c)'
      <3>1. ASSUME NEW i \in DOMAIN outbox'[c]
            PROVE  outbox'[c][i].n <= taken /\ outbox'[c][i].n \notin Working(c)'
        BY <1>9, <2>1, <2>2, <2>3
      <3>2. ASSUME NEW i \in DOMAIN outbox'[c], NEW j \in DOMAIN outbox'[c], i < j
            PROVE  outbox'[c][i].n # outbox'[c][j].n
        BY <1>9, <2>3, <2>6, <3>2
      <3> QED
        BY <1>9, <1>10, <2>3, <2>4, <2>5, <3>1, <3>2 DEF NumbersInPlace
    <2>8. ASSUME ~peer'[c].kind.serial PROVE LoopInTurn(c)'
      <3>1. LoopInTurn(c) /\ ~ByLoop(c, n)
        BY <1>6, <2>3, <2>8 DEF LoopInTurn
      <3>2. ASSUME NEW i \in DOMAIN outbox'[c], NEW j \in DOMAIN outbox'[c], i < j,
                   ByLoop(c, outbox'[c][i].n), ByLoop(c, outbox'[c][j].n)
            PROVE  outbox'[c][i].n < outbox'[c][j].n
        <4>1. /\ i \in DOMAIN outbox[c] /\ outbox'[c][i] = outbox[c][i]
              /\ j \in DOMAIN outbox[c] /\ outbox'[c][j] = outbox[c][j]
          BY <2>6, <3>1, <3>2
        <4> QED
          BY <3>1, <3>2, <4>1 DEF LoopInTurn
      <3> QED
        BY <1>5, <2>3, <2>4, <3>1, <3>2 DEF LoopInTurn
    <2> QED
      BY <2>5, <2>7, <2>8
  <1> QED
    BY <1>12, <1>13, <1>14, <1>15, <1>16

LEMMA LedgerInvInit == ASSUME Init PROVE LedgerInv
  <1>1. \A c \in Conns : peer[c] = Gone
    BY DEF Init
  <1> QED
    BY <1>1, RepliesInvInit DEF LedgerInv, Ledger

LEMMA LedgerInvStep == LedgerInv /\ [Next]_vars => LedgerInv'
  BY RepliesInvStep, StepMoves, LedgerKept DEF LedgerInv, RepliesInv

LEMMA LedgerAnswers == LedgerInv => RequestsAreAnswered
  <1> SUFFICES ASSUME LedgerInv, NEW c \in Conns, peer[c] # Gone
               PROVE  InOnePlace(c) /\ InOrder(c)
    BY DEF RequestsAreAnswered
  <1>1. /\ TypeInv /\ OneOpen(c) /\ Balanced(c) /\ NumbersInPlace(c)
        /\ ~peer[c].kind.serial => LoopInTurn(c)
    BY DEF LedgerInv, RepliesInv, Ledger
  <1>2. /\ peer[c].sent \in Nat
        /\ inbox[c] \in Seq(Request) /\ outbox[c] \in Seq(Reply)
        /\ DOMAIN inbox[c] = 1 .. Len(inbox[c]) /\ Len(inbox[c]) \in Nat
        /\ DOMAIN outbox[c] = 1 .. Len(outbox[c]) /\ Len(outbox[c]) \in Nat
        /\ \A i \in DOMAIN outbox[c] : outbox[c][i] \in Reply
    BY <1>1, Facts
  <1>3. Taken(c) \in Int
    BY <1>2 DEF Taken
  <1>4. \A n \in Queued(c) : n > Taken(c)
    BY <1>1, <1>2, <1>3 DEF Queued, NumbersInPlace
  <1>5. \A n \in Working(c) : n \in Nat /\ n <= Taken(c)
    BY <1>1, WorkingFacts DEF NumbersInPlace, Numbers
  <1>6. \A n \in Answering(c) : n \in Nat /\ n <= Taken(c) /\ n \notin Working(c)
    BY <1>1, <1>2 DEF Answering, NumbersInPlace, Reply, Numbers
  <1>7. Working(c) \cap Queued(c) = {} /\ Answering(c) \cap (Working(c) \cup Queued(c)) = {}
    <2>1. ASSUME NEW n \in Queued(c) PROVE n \notin Working(c) /\ n \notin Answering(c)
      BY <1>3, <1>4, <1>5, <1>6, <2>1
    <2> QED
      BY <1>6, <2>1
  <1>8. \A i, j \in DOMAIN inbox[c] : inbox[c][i].n = inbox[c][j].n => i = j
    BY <1>1, <1>2, <1>3 DEF NumbersInPlace
  <1>9. \A i, j \in DOMAIN outbox[c] : outbox[c][i].n = outbox[c][j].n => i = j
    BY <1>1, <1>2 DEF NumbersInPlace
  <1>10. InOnePlace(c)
    BY <1>1, <1>7, <1>8, <1>9 DEF InOnePlace, Balanced
  <1>11. CASE peer[c].kind.serial
    <2>1. Exchange(c)
      BY <1>1, <1>11 DEF OneOpen
    <2>2. outbox[c] # <<>> => Head(outbox[c]).n = peer[c].heard + 1
      BY <1>2, <2>1, Single DEF Exchange
    <2>3. Len(outbox[c]) <= 1
      <3>1. CASE outbox[c] = <<>>
        BY <3>1, EmptySeq
      <3>2. CASE outbox[c] # <<>>
        <4>1. Len(outbox[c]) = 1
          BY <2>1, <3>2 DEF Exchange
        <4> QED
          BY <4>1
      <3> QED
        BY <3>1, <3>2
    <2>4. \A i, j \in DOMAIN outbox[c] : ~(i < j)
      BY <1>2, <2>3
    <2> QED
      BY <1>10, <2>2, <2>4 DEF InOrder
  <1>12. CASE ~peer[c].kind.serial
    BY <1>1, <1>10, <1>12 DEF InOrder, LoopInTurn
  <1> QED
    BY <1>11, <1>12

(***************************************************************************)
(* Whatever clients share the daemon, and whether or not they wait for     *)
(* replies: while a connection is up, no request is lost and none is       *)
(* answered twice; the answers of the request loop come in the order of    *)
(* its requests, and a client that waits gets the answer it waits for.     *)
(* (sshd.go 121-146)                                                       *)
(***************************************************************************)
THEOREM RequestsAnswered == Spec => []RequestsAreAnswered
  BY LedgerInvInit, LedgerInvStep, LedgerAnswers, PTL DEF Spec
=============================================================================
