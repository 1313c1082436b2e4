-------------------------- MODULE ProxyServer_proofs --------------------------
(***************************************************************************)
(* What a visitor of a tunnel gets, for all visitors, hosts, connections,  *)
(* users, UUIDs and ports, when clients are well behaved and ask in turn.  *)
(***************************************************************************)
EXTENDS ProxyServer, Tunnel_endpoint_proofs

\* The system does not let two listeners have one port.
PortsExclusive ==
    \A c, d \in Conns, n, m \in Numbers :
        (handler[c][n].port # 0 /\ handler[c][n].port = handler[d][m].port) => c = d /\ n = m

\* The goroutine that has the port of a visitor's proxy, as long as it serves.
Serving(c, n, port) == Holding(c, n) /\ handler[c][n].port = port /\ port # 0

ServedBy(c, port) == \E n \in Numbers : Serving(c, n, port)

\* A promised visitor is on the way to the tunnel that was promised, or there,
\* unless an idle connection has taken him elsewhere.
OnItsWay(r) ==
    r.promised # NoConn =>
        /\ Lasting(r.promised)
        /\ r.pc \in {"found", "queued", "opening", "streaming", "turnedAway"}
        /\ r.pc # "turnedAway" => ServedBy(r.promised, r.port)
        /\ r.pc \in {"found", "turnedAway"} => r.conn = NoConn
        /\ r.pc = "turnedAway" => r.reused
        /\ r.pc = "queued" => r.n \in Numbers /\ Serving(r.promised, r.n, r.port)
        /\ r.pc \in {"queued", "opening"} => r.conn = r.promised
        /\ r.pc = "streaming" => r.reused \/ r.conn = r.promised

\* A stream leads to the tunnel that has its port, or is about to break.
Rooted(c, port) == c \in Conns /\ (Connected(c) => ServedBy(c, port))

VisitSound(r) ==
    /\ OnItsWay(r)
    /\ r.pc \in {"found", "queued", "opening", "streaming"} => r.port # 0
    /\ r.pc \in {"queued", "opening"} => r.conn \in Conns
    /\ r.pc = "streaming" => Rooted(r.conn, r.port)

IdleSound == \A s \in idle : Rooted(s.conn, s.port)

VisitsSound == visit \in [Visitors -> Visit] /\ \A v \in Visitors : VisitSound(visit[v])

PInv == EndpointInv /\ PortsExclusive /\ VisitsSound /\ IdleSound
----------------------------------------------------------------------------
\* What is between a visitor and the listener changes nothing in the daemon.
LEMMA TunnelStepOrStutter == PNext => [Next]_vars
  <1>1. ASSUME NEW v \in Visitors, ProxyStep(v) \/ EndStream(v) PROVE UNCHANGED vars
    BY <1>1 DEF ProxyStep, ReuseIdle, DialListener, AcceptConn, OpenChannelFails, OpenChannel,
       LocalDialFails, BreakStream, EndStream, TurnAway, UpdateVisit
  <1>2. ASSUME NEW v \in Visitors, NEW host \in Visited, Lookup(v, host) PROVE UNCHANGED vars
    BY <1>2 DEF Lookup, TurnAway, UpdateVisit
  <1>3. ASSUME NEW s \in IdleConn, CloseIdle(s) PROVE UNCHANGED vars
    BY <1>3 DEF CloseIdle
  <1> QED
    BY <1>1, <1>2, <1>3 DEF PNext, TunnelStep, CrashAll, Next

(***************************************************************************)
(* With visitors the daemon and the clients of its tunnels do what they do *)
(* without them, so that what is proved of Tunnel holds.                   *)
(***************************************************************************)
THEOREM VisitorsOnlyVisit == PSpec => Spec
  <1>1. PInit => Init
    BY DEF PInit
  <1>2. [PNext]_pvars => [Next]_vars
    BY TunnelStepOrStutter DEF pvars
  <1> QED
    BY <1>1, <1>2, PTL DEF PSpec, Spec
----------------------------------------------------------------------------
\* A step keeps the ports of goroutines, but for those of one that ends or gets a
\* free one.
LEMMA PortsMove ==
    ASSUME TypeOK, PortsExclusive, NEW c \in Conns, NEW n \in Numbers,
           NEW pc, NEW port, NEW host, Become(c, n, pc, port, host),
           port \in {0, handler[c][n].port} \/ ~Listening(port)
    PROVE  PortsExclusive'
  <1>1. /\ handler'[c][n].port = port
        /\ \A d \in Conns, m \in Numbers : (d # c \/ m # n) => handler'[d][m] = handler[d][m]
    BY DEF TypeOK, Become
  <1> SUFFICES ASSUME NEW d \in Conns, NEW e \in Conns, NEW m \in Numbers, NEW k \in Numbers,
                      handler'[d][m].port # 0, handler'[d][m].port = handler'[e][k].port
               PROVE  d = e /\ m = k
    BY DEF PortsExclusive
  <1> QED
    BY <1>1 DEF PortsExclusive, Listening

LEMMA PortsExclusiveStep ==
    ASSUME TypeOK, PortsExclusive, [Next]_vars PROVE PortsExclusive'
  <1>1. CASE UNCHANGED handler
    BY <1>1 DEF PortsExclusive
  <1>2. CASE Crash
    BY <1>2 DEF Crash, PortsExclusive, Idle
  <1>3. ASSUME NEW c \in Conns, NEW n \in Numbers, GoroutineStep(c, n) PROVE PortsExclusive'
    <2>1. ASSUME NEW pc, Goto(c, n, pc) \/ (pc = "none" /\ End(c, n)) PROVE PortsExclusive'
      BY <2>1, PortsMove DEF Goto, End
    <2>2. CASE Begin(c, n)
      <3>1. \/ /\ ~Listening(client[c].lastPort)
               /\ Become(c, n, "opened", client[c].lastPort, NoHost)
            \/ \E pc : Goto(c, n, pc)
        BY <2>2 DEF Begin
      <3> QED
        BY <2>1, <3>1, PortsMove
    <2>3. CASE AcquirePort(c, n)
      BY <2>3, PortsMove DEF AcquirePort
    <2>4. CASE RegisterHost(c, n)
      <3>1. \E pc, host : Become(c, n, pc, handler[c][n].port, host)
        BY <2>4 DEF RegisterHost, Goto
      <3> QED
        BY <3>1, PortsMove
    <2>5. CASE ~(Begin(c, n) \/ AcquirePort(c, n) \/ RegisterHost(c, n))
      <3>1. \E pc : Goto(c, n, pc) \/ (pc = "none" /\ End(c, n))
        BY <1>3, <2>5 DEF GoroutineStep, Goroutine, Refuse, NoLuck, FailForward, Opened,
           PersistPort, AssignHost, AnswerForward, StopServing, UnregisterHost, CloseListener,
           RunCancel
      <3> QED
        BY <2>1, <3>1
    <2> QED
      BY <2>2, <2>3, <2>4, <2>5
  <1>4. ASSUME NEW c \in Conns, RequestLoopStep(c) PROVE PortsExclusive'
    <2>1. CASE HandleForward(c) \/ HandleCancel(c)
      <3>1. inbox[c] # <<>> /\ \E pc : Goto(c, Head(inbox[c]).n, pc)
        BY <2>1 DEF HandleForward, HandleCancel, NextRequest
      <3>2. Head(inbox[c]).n \in Numbers
        BY <3>1, InboxHead DEF Request
      <3> QED
        BY <3>1, <3>2, PortsMove DEF Goto
    <2>2. CASE ~(HandleForward(c) \/ HandleCancel(c))
      BY <1>1, <1>4, <2>2 DEF RequestLoopStep, RequestLoop, LoadPrincipal, LoadPrincipalFails,
         HandleHint, HandleOther, HandleServerInfo, AnswerServerInfo, EndLoop
    <2> QED
      BY <2>1, <2>2
  <1>5. ASSUME NEW c \in Conns,
               \/ \E k \in Kinds : Dial(c, k)
               \/ SendNext(c) \/ SendCancel(c) \/ HearReply(c) \/ Drop(c) \/ WaiterStep(c)
        PROVE  PortsExclusive'
    BY <1>1, <1>5 DEF Dial, Handshake, SendNext, SendCancel, HearReply, Drop, WaiterStep,
       WaiterCancels
  <1> QED
    BY <1>1, <1>2, <1>3, <1>4, <1>5 DEF Next, ConnStep, vars
----------------------------------------------------------------------------
\* A tunnel that serves goes on until its connection is cancelled.
LEMMA HoldingStep ==
    ASSUME EndpointInv, NEW c \in Conns, ConnStep(c), NEW d \in Conns, ~client'[d].cancelled
    PROVE  HoldingKept(d)
  <1>1. TypeOK /\ QueueSound(c) /\ client[c] \in Client
    BY EndpointFacts
  <1>2. CASE UNCHANGED handler
    BY <1>2 DEF HoldingKept, Holding
  <1>3. ASSUME NEW n \in Numbers, NEW pc, NEW port, NEW host, Become(c, n, pc, port, host),
               \/ ~Holding(c, n)
               \/ /\ pc = "serving" /\ port = handler[c][n].port /\ host = handler[c][n].host
               \/ client'[c].cancelled
        PROVE  HoldingKept(d)
    <2>1. /\ handler'[c][n] = [pc |-> pc, port |-> port, host |-> host]
          /\ \A e \in Conns, m \in Numbers : (e # c \/ m # n) => handler'[e][m] = handler[e][m]
      BY <1>1, <1>3 DEF Become, TypeOK
    <2>2. CASE d # c
      BY <2>1, <2>2 DEF HoldingKept, Holding
    <2>3. CASE d = c
      BY <1>3, <2>1, <2>3 DEF HoldingKept, Holding
    <2> QED
      BY <2>2, <2>3
  <1>4. ASSUME NEW n \in Numbers, GoroutineStep(c, n) PROVE HoldingKept(d)
    <2>1. CASE AnswerForward(c, n)
      BY <1>3, <2>1 DEF AnswerForward, Goto
    <2>2. CASE StopServing(c, n)
      <3>1. client'[c].cancelled /\ \E pc : Goto(c, n, pc)
        BY <2>2 DEF StopServing
      <3> QED
        BY <1>3, <3>1 DEF Goto
    <2>3. CASE ~(AnswerForward(c, n) \/ StopServing(c, n))
      <3>1. ~Holding(c, n) /\ \E pc, port, host : Become(c, n, pc, port, host)
        BY <1>4, <2>3 DEF GoroutineStep, Goroutine, Refuse, Begin, AcquirePort, NoLuck,
           FailForward, Opened, PersistPort, RegisterHost, AssignHost, UnregisterHost,
           CloseListener, RunCancel, Goto, End, Holding
      <3> QED
        BY <1>3, <3>1
    <2> QED
      BY <2>1, <2>2, <2>3
  <1>5. CASE RequestLoopStep(c)
    <2>1. CASE HandleForward(c) \/ HandleCancel(c)
      <3>1. inbox[c] # <<>> /\ \E pc : Goto(c, Head(inbox[c]).n, pc)
        BY <2>1 DEF HandleForward, HandleCancel, NextRequest
      <3>2. Head(inbox[c]).n \in Numbers /\ handler[c][Head(inbox[c]).n].pc = "none"
        BY <1>1, <3>1, Inbox DEF QueueSound, InboxInOrder, Numbers
      <3> QED
        BY <1>3, <3>1, <3>2 DEF Goto, Holding
    <2>2. CASE ~(HandleForward(c) \/ HandleCancel(c))
      BY <1>2, <1>5, <2>2 DEF RequestLoopStep, RequestLoop, LoadPrincipal, LoadPrincipalFails,
         HandleHint, HandleOther, HandleServerInfo, AnswerServerInfo, EndLoop
    <2> QED
      BY <2>1, <2>2
  <1>6. CASE \/ \E k \in Kinds : Dial(c, k)
             \/ SendNext(c) \/ SendCancel(c) \/ HearReply(c) \/ Drop(c) \/ WaiterStep(c)
    BY <1>2, <1>6 DEF Dial, Handshake, SendNext, SendCancel, HearReply, Drop, WaiterStep,
       WaiterCancels
  <1> QED
    BY <1>4, <1>5, <1>6 DEF ConnStep

\* The address a client was told leads to its tunnel.
LEMMA ToldHost ==
    ASSUME EndpointInv, NEW c \in Conns, Lasting(c), NEW host \in Host, peer[c].host = host
    PROVE  Exists(proxies, host) /\ \E n \in Numbers : Serving(c, n, Get(proxies, host))
  <1>1. Told(c) /\ HandlersSound(c) /\ RoutesSound /\ TypeOK
    BY EndpointFacts DEF EndpointSound, Live, Lasting, Accepting, HasForward, Connected
  <1>2. PICK n \in Numbers : Holding(c, n) /\ handler[c][n].host = host
    BY <1>1, HostFacts DEF Told, HoldsHost
  <1>3. Registered(c, n)
    BY <1>2, HostFacts DEF Registered, Holding
  <1>4. proxies[host] = handler[c][n].port /\ handler[c][n].port # 0
    BY <1>1, <1>2, <1>3 DEF RoutesSound, HandlersSound, HandlerSound
  <1> QED
    BY <1>2, <1>4 DEF Exists, Get, Serving, Absent

LEMMA PromiseMade ==
    ASSUME EndpointInv, NEW host \in Visited, Promised(host) # NoConn
    PROVE  /\ Promised(host) \in Conns /\ Lasting(Promised(host))
           /\ Exists(proxies, host)
           /\ \E n \in Numbers : Serving(Promised(host), n, Get(proxies, host))
  <1>1. \E c \in Conns : Lasting(c) /\ peer[c].host = host
    BY DEF Promised
  <1>2. Promised(host) \in Conns /\ Lasting(Promised(host)) /\ peer[Promised(host)].host = host
    BY <1>1 DEF Promised
  <1>3. host \in Host
    BY ProxyAssumption
  <1> QED
    BY <1>2, <1>3, ToldHost
----------------------------------------------------------------------------
\* Only the tunnel that has a port serves it, and its client knows the port.
LEMMA ServedByOne ==
    ASSUME PortsExclusive, NEW c \in Conns, NEW d \in Conns, NEW port,
           ServedBy(c, port), ServedBy(d, port)
    PROVE  c = d
  BY DEF ServedBy, Serving, PortsExclusive

LEMMA ToldPort ==
    ASSUME EndpointInv, NEW c \in Conns, Connected(c), peer[c] # Gone, peer[c].port # 0
    PROVE  ServedBy(c, peer[c].port)
  <1>1. Told(c)
    BY EndpointFacts DEF EndpointSound, Live, Connected
  <1> QED
    BY <1>1 DEF Told, HoldsPort, ServedBy, Serving

LEMMA PromisedPort ==
    ASSUME EndpointInv, NEW c \in Conns, Lasting(c), NEW port, ServedBy(c, port)
    PROVE  peer[c].port = port
  <1>1. ServedBy(c, peer[c].port)
    BY ToldPort DEF Lasting
  <1>2. \A n, m \in Numbers : Holding(c, n) /\ Holding(c, m) => n = m
    BY EndpointFacts DEF QueueSound, OneForward, Forwarding, Active, Holding
  <1> QED
    BY <1>1, <1>2 DEF ServedBy, Serving
----------------------------------------------------------------------------
\* What visitors do to their visits leaves the tunnels alone.
LEMMA TunnelsKept ==
    ASSUME UNCHANGED vars
    PROVE  /\ \A c \in Conns, n \in Numbers : \A port : Serving(c, n, port) <=> Serving(c, n, port)'
           /\ \A c \in Conns : \A port : ServedBy(c, port) <=> ServedBy(c, port)'
           /\ \A c \in Conns : Lasting(c) <=> Lasting(c)'
           /\ \A c, port : Rooted(c, port) <=> Rooted(c, port)'
  <1>1. \A c \in Conns, n \in Numbers : \A port : Serving(c, n, port) <=> Serving(c, n, port)'
    BY DEF vars, Serving, Holding
  <1>2. \A c \in Conns : \A port : ServedBy(c, port) <=> ServedBy(c, port)'
    BY <1>1 DEF ServedBy, Numbers
  <1>3. \A c \in Conns : Lasting(c) <=> Lasting(c)'
    BY DEF vars, Lasting, Accepting, Running, Script, Connected
  <1>4. \A c, port : Rooted(c, port) <=> Rooted(c, port)'
    BY <1>2 DEF vars, Rooted, Connected
  <1> QED
    BY <1>1, <1>2, <1>3, <1>4

\* A sound record is still sound.
LEMMA SoundKept ==
    ASSUME UNCHANGED vars, NEW r \in Visit, VisitSound(r) PROVE VisitSound(r)'
  <1>1. OnItsWay(r)'
    BY TunnelsKept DEF VisitSound, OnItsWay, Visit
  <1> QED
    BY <1>1, TunnelsKept DEF VisitSound

\* A visitor's step: his visit becomes one that is sound.
LEMMA VisitorMoves ==
    ASSUME PInv, NEW v \in Visitors, NEW r \in Visit, VisitSound(r), UpdateVisit(v, r)
    PROVE  VisitsSound'
  <1>1. visit' = [visit EXCEPT ![v] = r] /\ visit \in [Visitors -> Visit] /\ UNCHANGED vars
    BY DEF UpdateVisit, PInv, VisitsSound
  <1>2. visit'[v] = r /\ \A w \in Visitors : w # v => visit'[w] = visit[w]
    BY <1>1
  <1>3. ASSUME NEW w \in Visitors PROVE VisitSound(visit[w])'
    <2>1. PICK q \in Visit : q = visit'[w] /\ VisitSound(q)
      BY <1>1, <1>2 DEF PInv, VisitsSound
    <2>2. VisitSound(q)'
      BY <1>1, <2>1, SoundKept
    <2> QED
      BY <2>1, <2>2
  <1> QED
    BY <1>1, <1>3 DEF VisitsSound

\* A visitor without a promise, or with an idle connection, may be turned away.
LEMMA Turned ==
    ASSUME PInv, NEW v \in Visitors, NEW promised \in Conns \cup {NoConn},
           promised # NoConn => visit[v].reused /\ Lasting(promised),
           TurnAway(v, promised)
    PROVE  VisitsSound'
  <1>1. PICK reused \in BOOLEAN : reused = visit[v].reused
    BY DEF PInv, VisitsSound, Visit
  <1>2. PICK r : r = [NoVisit EXCEPT !.pc = "turnedAway", !.reused = reused,
                                     !.promised = promised]
    OBVIOUS
  <1>3. r = [pc |-> "turnedAway", host |-> NoHost, port |-> 0, conn |-> NoConn, n |-> 0,
             reused |-> reused, promised |-> promised]
    BY <1>2 DEF NoVisit
  <1>4. r \in Visit /\ VisitSound(r)
    BY <1>1, <1>3 DEF Visit, VisitSound, OnItsWay
  <1> QED
    BY <1>1, <1>2, <1>4, VisitorMoves DEF TurnAway

LEMMA LookupVisit ==
    ASSUME PInv, NEW v \in Visitors, NEW host \in Visited, Lookup(v, host)
    PROVE  VisitsSound'
  <1>1. EndpointInv /\ proxies \in [Host -> Ports \cup {Absent}] /\ host \in Host
    BY ProxyAssumption DEF PInv, EndpointInv, PortInv, RoutingInv, TypeInv, TypeOK
  <1>2. PICK promised : promised = Promised(host)
    OBVIOUS
  <1>3. promised # NoConn => /\ promised \in Conns /\ Lasting(promised) /\ Exists(proxies, host)
                             /\ ServedBy(promised, Get(proxies, host))
    BY <1>1, <1>2, PromiseMade DEF ServedBy
  <1>4. CASE Exists(proxies, host)
    <2>1. PICK port : port = Get(proxies, host)
      OBVIOUS
    <2>2. PICK r : r = [NoVisit EXCEPT !.pc = "found", !.host = host, !.port = port,
                                       !.promised = promised]
      OBVIOUS
    <2>3. port \in Ports \cup {0}
      BY <1>1, <2>1 DEF Get, Absent
    <2>4. r = [pc |-> "found", host |-> host, port |-> port, conn |-> NoConn, n |-> 0,
               reused |-> FALSE, promised |-> promised]
      BY <2>2 DEF NoVisit
    <2>5. r \in Visit
      BY <1>3, <2>3, <2>4 DEF Visit
    <2>6. VisitSound(r)
      BY <1>1, <1>3, <1>4, <2>1, <2>4, PortFacts DEF VisitSound, OnItsWay, Exists, Get, Absent
    <2>7. UpdateVisit(v, r)
      BY <1>2, <1>4, <2>1, <2>2 DEF Lookup
    <2> QED
      BY <2>5, <2>6, <2>7, VisitorMoves
  <1>5. CASE ~Exists(proxies, host)
    BY <1>2, <1>3, <1>5, Turned DEF Lookup
  <1> QED
    BY <1>4, <1>5

LEMMA ProxyMoves ==
    ASSUME PInv, NEW v \in Visitors, ProxyStep(v) \/ EndStream(v)
    PROVE  VisitsSound'
  <1>1. PICK q : q = visit[v]
    OBVIOUS
  <1>2. /\ q \in Visit /\ OnItsWay(q) /\ EndpointInv /\ PortsExclusive
        /\ q.promised \in Conns \cup {NoConn}
        /\ q.pc \in {"found", "queued", "opening", "streaming"} => q.port # 0
        /\ q.pc \in {"queued", "opening"} => q.conn \in Conns
    BY <1>1 DEF PInv, VisitsSound, VisitSound, Visit
  <1>3. ASSUME NEW promised, promised = NoConn, TurnAway(v, promised)
        PROVE  VisitsSound'
    BY <1>3, Turned
  <1>4. ASSUME NEW pc \in {"found", "queued", "opening", "streaming"},
               NEW conn \in Conns \cup {NoConn}, NEW n \in Numbers \cup {0}, NEW reused \in BOOLEAN,
               UpdateVisit(v, [q EXCEPT !.pc = pc, !.conn = conn, !.n = n, !.reused = reused]),
               q.pc \in {"found", "queued", "opening", "streaming"},
               pc \in {"queued", "opening"} => conn \in Conns,
               q.promised # NoConn => /\ pc = "found" => conn = NoConn
                                      /\ pc = "queued" =>
                                             n \in Numbers /\ Serving(q.promised, n, q.port)
                                      /\ pc \in {"queued", "opening"} => conn = q.promised
                                      /\ pc = "streaming" => reused \/ conn = q.promised,
               pc = "streaming" => Rooted(conn, q.port)
        PROVE  VisitsSound'
    <2>1. PICK r : r = [q EXCEPT !.pc = pc, !.conn = conn, !.n = n, !.reused = reused]
      OBVIOUS
    <2>2. r = [pc |-> pc, host |-> q.host, port |-> q.port, conn |-> conn, n |-> n,
               reused |-> reused, promised |-> q.promised]
      BY <1>2, <2>1 DEF Visit
    <2>3. r \in Visit
      BY <1>2, <2>2 DEF Visit
    <2>4. OnItsWay(r)
      BY <1>2, <1>4, <2>2 DEF OnItsWay
    <2>5. VisitSound(r)
      BY <1>2, <1>4, <2>2, <2>4 DEF VisitSound
    <2> QED
      BY <1>4, <2>1, <2>3, <2>5, VisitorMoves
  <1>5. CASE ReuseIdle(v)
    <2>1. q.pc = "found"
      BY <1>1, <1>5 DEF ReuseIdle
    <2>2. PICK s \in idle :
              /\ s.port = q.port
              /\ UpdateVisit(v, [q EXCEPT !.pc = "streaming", !.conn = s.conn, !.reused = TRUE])
      BY <1>1, <1>5 DEF ReuseIdle
    <2>3. PICK conn \in Conns : conn = s.conn /\ Rooted(conn, q.port)
      BY <2>2 DEF PInv, IdleSound, Rooted
    <2>4. [q EXCEPT !.pc = "streaming", !.conn = conn, !.reused = TRUE]
              = [q EXCEPT !.pc = "streaming", !.conn = conn, !.n = q.n, !.reused = TRUE]
      BY <1>2 DEF Visit
    <2>5. q.n \in Numbers \cup {0}
      BY <1>2 DEF Visit
    <2> QED
      BY <1>4, <2>1, <2>2, <2>3, <2>4, <2>5
  <1>6. CASE DialListener(v)
    <2>1. q.pc = "found"
      BY <1>1, <1>6 DEF DialListener
    <2>2. ASSUME NEW c \in Conns, NEW n \in Numbers, handler[c][n].port = q.port,
                 UpdateVisit(v, [q EXCEPT !.pc = "queued", !.conn = c, !.n = n])
          PROVE  VisitsSound'
      <3>1. [q EXCEPT !.pc = "queued", !.conn = c, !.n = n]
                = [q EXCEPT !.pc = "queued", !.conn = c, !.n = n, !.reused = q.reused]
        BY <1>2 DEF Visit
      <3>2. q.reused \in BOOLEAN
        BY <1>2 DEF Visit
      <3>3. q.promised # NoConn => c = q.promised /\ Serving(c, n, q.port)
        BY <1>2, <2>1, <2>2 DEF OnItsWay, ServedBy, Serving, PortsExclusive
      <3> QED
        BY <1>4, <2>1, <2>2, <3>1, <3>2, <3>3
    <2>3. CASE ~Listening(q.port) /\ TurnAway(v, q.promised)
      <3>1. q.promised = NoConn
        BY <1>2, <2>1, <2>3 DEF OnItsWay, ServedBy, Serving, Listening
      <3> QED
        BY <1>3, <2>3, <3>1
    <2> QED
      BY <1>1, <1>6, <2>2, <2>3 DEF DialListener
  <1>7. ASSUME NEW pc \in {"opening", "streaming"}, q.pc \in {"queued", "opening"},
               UpdateVisit(v, [q EXCEPT !.pc = pc]), q.conn \in Conns \cup {NoConn},
               pc = "streaming" => Rooted(q.conn, q.port)
        PROVE  VisitsSound'
    <2>1. [q EXCEPT !.pc = pc]
              = [q EXCEPT !.pc = pc, !.conn = q.conn, !.n = q.n, !.reused = q.reused]
      BY <1>2 DEF Visit
    <2>2. q.n \in Numbers \cup {0} /\ q.reused \in BOOLEAN
      BY <1>2 DEF Visit
    <2>3. q.promised # NoConn => q.conn = q.promised
      BY <1>2, <1>7 DEF OnItsWay
    <2> QED
      BY <1>2, <1>4, <1>7, <2>1, <2>2, <2>3
  <1>8. q.conn \in Conns \cup {NoConn}
    BY <1>2 DEF Visit
  <1>9. CASE AcceptConn(v)
    <2>1. q.pc = "queued"
      BY <1>1, <1>9 DEF AcceptConn
    <2>2. CASE handler[q.conn][q.n].port = q.port
      BY <1>1, <1>7, <1>8, <1>9, <2>1, <2>2 DEF AcceptConn
    <2>3. CASE handler[q.conn][q.n].port # q.port
      <3>1. q.promised = NoConn
        BY <1>2, <2>1, <2>3 DEF OnItsWay, Serving
      <3> QED
        BY <1>1, <1>3, <1>9, <2>3, <3>1 DEF AcceptConn
    <2> QED
      BY <2>2, <2>3
  <1>10. CASE OpenChannel(v)
    <2>1. /\ q.pc = "opening" /\ HasForward(q.conn, q.port) /\ client[q.conn].up
          /\ UpdateVisit(v, [q EXCEPT !.pc = "streaming"])
      BY <1>1, <1>10 DEF OpenChannel, ChannelAccepted
    <2>2. Rooted(q.conn, q.port)
      BY <1>2, <2>1, ToldPort DEF HasForward, Rooted
    <2> QED
      BY <1>7, <1>8, <2>1, <2>2
  <1>11. CASE OpenChannelFails(v)
    <2>1. q.pc = "opening" /\ TurnAway(v, q.promised)
          /\ (~client[q.conn].up \/ ~HasForward(q.conn, q.port))
      BY <1>1, <1>11 DEF OpenChannelFails
    <2>2. ASSUME q.promised # NoConn PROVE FALSE
      <3>1. /\ q.conn = q.promised /\ q.promised \in Conns /\ Lasting(q.promised)
            /\ ServedBy(q.promised, q.port)
        BY <1>2, <2>1, <2>2 DEF OnItsWay
      <3>2. peer[q.promised].port = q.port
        BY <1>2, <3>1, PromisedPort
      <3> QED
        BY <2>1, <3>1, <3>2 DEF Lasting, HasForward, Connected
    <2> QED
      BY <1>3, <2>1, <2>2
  <1>12. CASE LocalDialFails(v)
    BY <1>3, <1>12 DEF LocalDialFails
  <1>13. ASSUME UpdateVisit(v, NoVisit) PROVE VisitsSound'
    <2>1. NoVisit \in Visit /\ VisitSound(NoVisit)
      BY DEF NoVisit, Visit, VisitSound, OnItsWay
    <2> QED
      BY <1>13, <2>1, VisitorMoves
  <1>14. CASE EndStream(v)
    BY <1>13, <1>14 DEF EndStream
  <1>15. CASE BreakStream(v)
    <2>1. q.pc = "streaming" /\ ~Connected(q.conn)
      BY <1>1, <1>15 DEF BreakStream
    <2>2. q.promised # NoConn => q.reused /\ Lasting(q.promised)
      BY <1>2, <2>1 DEF OnItsWay, Lasting
    <2>3. CASE UpdateVisit(v, NoVisit)
      BY <1>13, <2>3
    <2>4. CASE TurnAway(v, q.promised)
      BY <1>1, <1>2, <2>2, <2>4, Turned
    <2>5. CASE UpdateVisit(v, [q EXCEPT !.pc = "found", !.conn = NoConn, !.reused = FALSE])
      <3>1. [q EXCEPT !.pc = "found", !.conn = NoConn, !.reused = FALSE]
                = [q EXCEPT !.pc = "found", !.conn = NoConn, !.n = q.n, !.reused = FALSE]
        BY <1>2 DEF Visit
      <3>2. q.n \in Numbers \cup {0}
        BY <1>2 DEF Visit
      <3> QED
        BY <1>4, <2>1, <2>5, <3>1, <3>2
    <2> QED
      BY <1>1, <1>15, <2>3, <2>4, <2>5 DEF BreakStream
  <1> QED
    BY <1>5, <1>6, <1>9, <1>10, <1>11, <1>12, <1>14, <1>15 DEF ProxyStep

\* An idle connection was a stream.
LEMMA IdleMoves ==
    ASSUME PInv, UNCHANGED vars,
           \A s \in idle' : s \in idle \/ Rooted(s.conn, s.port)
    PROVE  IdleSound'
  BY TunnelsKept DEF PInv, IdleSound

LEMMA IdleStep ==
    ASSUME PInv,
           \/ \E v \in Visitors : ProxyStep(v) \/ EndStream(v) \/ \E host \in Visited : Lookup(v, host)
           \/ \E s \in IdleConn : CloseIdle(s)
    PROVE  IdleSound'
  <1>1. PNext
    BY DEF PNext
  <1>2. UNCHANGED vars
    BY DEF ProxyStep, ReuseIdle, DialListener, AcceptConn, OpenChannelFails, OpenChannel,
       LocalDialFails, BreakStream, EndStream, TurnAway, UpdateVisit, Lookup, CloseIdle
  <1>3. ASSUME NEW v \in Visitors, EndStream(v), visit[v].pc = "streaming",
               idle' = idle \cup {[port |-> visit[v].port, conn |-> visit[v].conn]}
        PROVE  IdleSound'
    <2>1. Rooted(visit[v].conn, visit[v].port)
      BY <1>3 DEF PInv, VisitsSound, VisitSound
    <2> QED
      BY <1>2, <1>3, <2>1, IdleMoves
  <1>4. CASE idle' \subseteq idle
    BY <1>2, <1>4, IdleMoves
  <1> QED
    BY <1>3, <1>4 DEF ProxyStep, ReuseIdle, DialListener, AcceptConn, OpenChannelFails,
       OpenChannel, LocalDialFails, BreakStream, EndStream, Lookup, CloseIdle
----------------------------------------------------------------------------
\* A connection that is cancelled or lost stays so until its slot is used again.
LEMMA CancelledStays ==
    ASSUME EndpointInv, NEW c \in Conns, ConnStep(c)
    PROVE  /\ \A d \in Conns : d # c => client'[d] = client[d]
           /\ (client[c].up /\ client[c].cancelled) => (~client'[c].up \/ client'[c].cancelled)
  <1>1. /\ client \in [Conns -> Client] /\ client[c] \in Client /\ EndsAgree(c) /\ TypeOK
    BY EndpointFacts DEF TypeOK
  <1> DEFINE Keeps(new) == (client[c].up /\ client[c].cancelled) => (~new.up \/ new.cancelled)
             Moved == /\ client'[c] = client[c] \/ Keeps(client'[c])
                      /\ \A e \in Conns : e # c => client'[e] = client[e]
  <1> SUFFICES Moved
    OBVIOUS
  <1>2. ASSUME NEW new, Update(c, new), Keeps(new) PROVE Moved
    <2>1. client'[c] = new /\ \A e \in Conns : e # c => client'[e] = client[e]
      BY <1>1, <1>2 DEF Update
    <2> HIDE DEF Keeps
    <2> QED
      BY <1>2, <2>1
  <1>3. ASSUME UNCHANGED client PROVE Moved
    BY <1>3
  <1>4. CASE RequestLoopStep(c)
    <2>1. CASE LoadPrincipalFails(c)
      <3>1. Update(c, NewClient(c, "closed", FALSE)) /\ Keeps(NewClient(c, "closed", FALSE))
        BY <2>1 DEF LoadPrincipalFails, NewClient
      <3> QED
        BY <1>2, <3>1
    <2>2. CASE EndLoop(c)
      <3> DEFINE new == [client[c] EXCEPT !.state = "closed", !.cancelled = TRUE]
      <3>1. Update(c, new) /\ Keeps(new)
        BY <1>1, <2>2 DEF EndLoop, Client
      <3> HIDE DEF new, Keeps, Moved
      <3> QED
        BY <1>2, <3>1
    <2>3. CASE ~(LoadPrincipalFails(c) \/ EndLoop(c))
      BY <1>1, <1>4, <2>3, LoopClient
    <2> QED
      BY <2>1, <2>2, <2>3
  <1>5. ASSUME NEW n \in Numbers, GoroutineStep(c, n) PROVE Moved
    <2>1. ASSUME NEW new, Update(c, new), new.cancelled = client[c].cancelled PROVE Moved
      BY <1>2, <2>1
    <2>2. CASE FailForward(c, n)
      <3> DEFINE new == [client[c] EXCEPT !.ready = SignalReady(@, "failed")]
      <3>1. Update(c, new) /\ new.cancelled = client[c].cancelled
        BY <1>1, <2>2 DEF FailForward, Client
      <3> HIDE DEF new, Moved
      <3> QED
        BY <2>1, <3>1
    <2>3. CASE Opened(c, n)
      <3> DEFINE new == [client[c] EXCEPT !.waiter = TRUE, !.lastPort = handler[c][n].port]
      <3>1. Update(c, new) /\ new.cancelled = client[c].cancelled
        BY <1>1, <2>3 DEF Opened, Client
      <3> HIDE DEF new, Moved
      <3> QED
        BY <2>1, <3>1
    <2>4. CASE AssignHost(c, n)
      <3> DEFINE new == [client[c] EXCEPT !.host = handler[c][n].host,
                                          !.ready = SignalReady(@, "ok")]
      <3>1. Update(c, new) /\ new.cancelled = client[c].cancelled
        BY <1>1, <2>4 DEF AssignHost, Client
      <3> HIDE DEF new, Moved
      <3> QED
        BY <2>1, <3>1
    <2>5. CASE RunCancel(c, n)
      <3> DEFINE new == [client[c] EXCEPT !.cancelled = TRUE]
      <3>1. Update(c, new) /\ Keeps(new)
        BY <1>1, <2>5 DEF RunCancel, Client
      <3> HIDE DEF new, Keeps, Moved
      <3> QED
        BY <1>2, <3>1
    <2>6. CASE ~(FailForward(c, n) \/ Opened(c, n) \/ AssignHost(c, n) \/ RunCancel(c, n))
      <3>1. UNCHANGED client
        BY <1>5, <2>6 DEF GoroutineStep, Goroutine, Refuse, Begin, AcquirePort, NoLuck,
           PersistPort, RegisterHost, AnswerForward, StopServing, UnregisterHost, CloseListener
      <3> QED
        BY <1>3, <3>1
    <2> QED
      BY <2>2, <2>3, <2>4, <2>5, <2>6
  <1>6. CASE Drop(c)
    <2> DEFINE new == [client[c] EXCEPT !.up = FALSE]
    <2>1. Update(c, new) /\ Keeps(new)
      BY <1>1, <1>6 DEF Drop, Client
    <2> HIDE DEF new, Keeps, Moved
    <2> QED
      BY <1>2, <2>1
  <1>7. CASE WaiterStep(c)
    <2> DEFINE new == [client[c] EXCEPT !.cancelled = TRUE]
    <2>1. Update(c, new) /\ Keeps(new)
      BY <1>1, <1>7 DEF WaiterStep, WaiterCancels, Client
    <2> HIDE DEF new, Keeps, Moved
    <2> QED
      BY <1>2, <2>1
  <1>8. ASSUME NEW k \in Kinds, Dial(c, k) PROVE Moved
    <2>1. Update(c, NewClient(c, "loading", TRUE)) /\ Keeps(NewClient(c, "loading", TRUE))
      BY <1>1, <1>8 DEF Dial, Handshake, EndsAgree
    <2> QED
      BY <1>2, <2>1
  <1>9. CASE SendNext(c) \/ SendCancel(c) \/ HearReply(c)
    BY <1>3, <1>9 DEF SendNext, SendCancel, HearReply
  <1> HIDE DEF Moved
  <1> QED
    BY <1>4, <1>5, <1>6, <1>7, <1>8, <1>9 DEF ConnStep

\* What a stream leads to stays sound while the stream lasts.
LEMMA RootedStep ==
    ASSUME EndpointInv, NEW c \in Conns, TunnelStep(c),
           NEW d \in Conns, Attached(d), NEW port, Rooted(d, port)
    PROVE  Rooted(d, port)'
  <1> SUFFICES ASSUME Connected(d)' PROVE ServedBy(d, port)'
    BY DEF Rooted
  <1>1. ConnStep(c) /\ HoldingKept(d)
    BY HoldingStep DEF TunnelStep, Connected
  <1>2. d = c => (~client[d].up => ~client'[d].up)
    BY DEF TunnelStep
  <1>3. Connected(d)
    BY <1>1, <1>2, CancelledStays DEF Connected
  <1>4. PICK n \in Numbers : Serving(d, n, port)
    BY <1>3 DEF Rooted, ServedBy
  <1>5. Serving(d, n, port)'
    BY <1>1, <1>4 DEF HoldingKept, Serving
  <1> QED
    BY <1>5 DEF ServedBy, Numbers

LEMMA TunnelMoves ==
    ASSUME PInv, NEW c \in Conns, TunnelStep(c)
    PROVE  VisitsSound' /\ IdleSound'
  <1>1. visit \in [Visitors -> Visit] /\ EndpointInv /\ ConnStep(c) /\ UNCHANGED idle
    BY DEF PInv, VisitsSound, TunnelStep, Visiting
  <1>2. ASSUME NEW v \in Visitors PROVE visit'[v] \in Visit /\ VisitSound(visit[v])'
    <2>1. PICK q : q = visit[v]
      OBVIOUS
    <2>2. PICK p : p = q.promised
      OBVIOUS
    <2>3. /\ q \in Visit /\ VisitSound(q) /\ OnItsWay(q)
          /\ p # NoConn => p \in Conns
      BY <1>1, <2>1, <2>2 DEF PInv, VisitsSound, VisitSound, Visit
    <2>4. q.pc = "streaming" => Rooted(q.conn, q.port)'
      <3>1. ASSUME q.pc = "streaming" PROVE q.conn \in Conns /\ Attached(q.conn)
        BY <2>1, <2>3, <3>1 DEF VisitSound, Rooted, Attached
      <3>2. q.pc = "streaming" => Rooted(q.conn, q.port)
        BY <2>3 DEF VisitSound
      <3> QED
        BY <1>1, <3>1, <3>2, RootedStep
    <2>5. CASE \E d \in Conns : q.promised = d /\ ~Lasting(d)'
      <3>1. visit'[v] = [q EXCEPT !.promised = NoConn]
        BY <2>1, <2>5 DEF TunnelStep, Visiting
      <3>2. PICK r : r = visit'[v]
        OBVIOUS
      <3>3. /\ r \in Visit /\ r.promised = NoConn
            /\ r.pc = q.pc /\ r.port = q.port /\ r.conn = q.conn
        BY <2>3, <3>1, <3>2 DEF Visit
      <3>4. VisitSound(r)'
        BY <2>3, <2>4, <3>3 DEF VisitSound, OnItsWay
      <3> QED
        BY <3>2, <3>3, <3>4
    <2>6. CASE ~ \E d \in Conns : q.promised = d /\ ~Lasting(d)'
      <3>1. visit'[v] = q
        BY <2>1, <2>6 DEF TunnelStep, Visiting
      <3>2. OnItsWay(q)'
        <4>1. CASE p = NoConn
          BY <2>2, <4>1 DEF OnItsWay
        <4>2. CASE p # NoConn
          <5>1. p \in Conns /\ Lasting(p)'
            BY <2>2, <2>3, <2>6, <4>2
          <5>2. HoldingKept(p)
            BY <1>1, <5>1, HoldingStep DEF Lasting, Connected
          <5>3. \A n \in Numbers : \A port : Serving(p, n, port) => Serving(p, n, port)'
            BY <5>2 DEF HoldingKept, Serving
          <5>4. \A port : ServedBy(p, port) => ServedBy(p, port)'
            BY <5>3 DEF ServedBy, Numbers
          <5> QED
            BY <2>2, <2>3, <5>1, <5>3, <5>4 DEF OnItsWay
        <4> QED
          BY <4>1, <4>2
      <3>3. VisitSound(q)'
        BY <2>3, <2>4, <3>2 DEF VisitSound
      <3> QED
        BY <2>3, <3>1, <3>3
    <2> QED
      BY <2>5, <2>6
  <1>3. VisitsSound'
    BY <1>2 DEF TunnelStep, Visiting, VisitsSound
  <1>4. ASSUME NEW s \in idle PROVE Rooted(s.conn, s.port)'
    <2>1. PICK d, port : d = s.conn /\ port = s.port /\ Rooted(d, port) /\ d \in Conns
      BY DEF PInv, IdleSound, Rooted
    <2>2. Attached(d)
      BY <2>1 DEF Attached
    <2>3. Rooted(d, port)'
      BY <1>1, <2>1, <2>2, RootedStep
    <2> QED
      BY <2>1, <2>3
  <1> QED
    BY <1>1, <1>3, <1>4 DEF IdleSound

LEMMA PInvInit == PInit => PInv
  <1> SUFFICES ASSUME PInit PROVE PInv
    OBVIOUS
  <1>1. EndpointInv
    BY EndpointInit DEF PInit
  <1>2. PortsExclusive
    BY DEF PInit, Init, SshdInit, PortsExclusive, Idle
  <1>3. NoVisit \in Visit /\ VisitSound(NoVisit)
    BY DEF NoVisit, Visit, VisitSound, OnItsWay
  <1>4. VisitsSound
    BY <1>3 DEF PInit, VisitsSound
  <1> QED
    BY <1>1, <1>2, <1>4 DEF PInv, PInit, IdleSound

LEMMA PInvStep ==
    WellBehavedClients /\ AskInTurn /\ PInv /\ [PNext]_pvars => PInv'
  <1> SUFFICES ASSUME WellBehavedClients, AskInTurn, PInv, [PNext]_pvars PROVE PInv'
    OBVIOUS
  <1>1. [Next]_vars
    BY TunnelStepOrStutter DEF pvars
  <1>2. EndpointInv'
    BY <1>1, EndpointInvStep DEF PInv
  <1>3. TypeOK
    BY DEF PInv, EndpointInv, PortInv, RoutingInv, TypeInv
  <1>4. PortsExclusive'
    BY <1>1, <1>3, PortsExclusiveStep DEF PInv
  <1>5. ASSUME UNCHANGED <<vars, visit>> PROVE VisitsSound'
    <2>1. ASSUME NEW v \in Visitors PROVE VisitSound(visit[v])'
      <3>1. PICK q \in Visit : q = visit[v] /\ VisitSound(q)
        BY DEF PInv, VisitsSound
      <3>2. VisitSound(q)' /\ visit'[v] = q
        BY <1>5, <3>1, SoundKept
      <3> QED
        BY <3>2
    <2> QED
      BY <1>5, <2>1 DEF PInv, VisitsSound
  <1>6. VisitsSound' /\ IdleSound'
    <2>1. CASE UNCHANGED pvars
      <3>1. IdleSound'
        BY <2>1, IdleMoves DEF pvars
      <3> QED
        BY <1>5, <2>1, <3>1 DEF pvars
    <2>2. CASE CrashAll
      <3>1. NoVisit \in Visit /\ VisitSound(NoVisit)'
        BY DEF NoVisit, Visit, VisitSound, OnItsWay
      <3>2. visit' = [v \in Visitors |-> NoVisit] /\ idle' = {}
        BY <2>2 DEF CrashAll
      <3>3. visit' \in [Visitors -> Visit] /\ \A v \in Visitors : visit'[v] = NoVisit
        BY <3>1, <3>2
      <3> QED
        BY <3>1, <3>2, <3>3 DEF VisitsSound, IdleSound
    <2>3. ASSUME NEW v \in Visitors, NEW host \in Visited, Lookup(v, host)
          PROVE  VisitsSound' /\ IdleSound'
      BY <2>3, LookupVisit, IdleStep
    <2>4. ASSUME NEW v \in Visitors, ProxyStep(v) \/ EndStream(v)
          PROVE  VisitsSound' /\ IdleSound'
      BY <2>4, ProxyMoves, IdleStep
    <2>5. ASSUME NEW s \in IdleConn, CloseIdle(s) PROVE VisitsSound' /\ IdleSound'
      <3>1. VisitsSound'
        BY <1>5, <2>5 DEF CloseIdle
      <3> QED
        BY <2>5, <3>1, IdleStep
    <2> QED
      BY <2>1, <2>2, <2>3, <2>4, <2>5, TunnelMoves DEF PNext
  <1> QED
    BY <1>2, <1>4, <1>6 DEF PInv

LEMMA PInvKept == PInv => PromisesAreKept
  <1> SUFFICES ASSUME PInv, NEW v \in Visitors, visit[v].promised # NoConn
               PROVE  /\ visit[v].pc = "turnedAway" => visit[v].reused
                      /\ visit[v].conn \notin {NoConn, visit[v].promised} =>
                             visit[v].reused /\ ~Connected(visit[v].conn)
    BY DEF PromisesAreKept
  <1>1. /\ visit[v].promised \in Conns /\ OnItsWay(visit[v]) /\ PortsExclusive
        /\ visit[v].pc = "streaming" => Rooted(visit[v].conn, visit[v].port)
    BY DEF PInv, VisitsSound, VisitSound, Visit
  <1>2. CASE visit[v].pc = "streaming" /\ visit[v].conn # visit[v].promised
    <2>1. visit[v].reused /\ visit[v].conn \in Conns /\ ServedBy(visit[v].promised, visit[v].port)
      BY <1>1, <1>2 DEF OnItsWay, Rooted
    <2>2. ~Connected(visit[v].conn)
      BY <1>1, <1>2, <2>1, ServedByOne DEF Rooted
    <2> QED
      BY <1>2, <2>1, <2>2
  <1>3. CASE visit[v].pc # "streaming" \/ visit[v].conn = visit[v].promised
    BY <1>1, <1>3 DEF OnItsWay
  <1> QED
    BY <1>2, <1>3

(***************************************************************************)
(* Safety: a visitor of the address that a running pgrok was told is       *)
(* served by that very tunnel while it lasts.  What the proxy server looks *)
(* up under the lock and dials after it is not stale, because a tunnel     *)
(* that serves keeps its port and its route until its connection is        *)
(* cancelled, and nobody else can have the port meanwhile.  An idle        *)
(* connection that leads elsewhere belongs to a tunnel that had the port   *)
(* before, and so to a connection that is cancelled or lost.               *)
(***************************************************************************)
THEOREM PromisesKept ==
    ASSUME WellBehavedClients, AskInTurn PROVE PSpec => []PromisesAreKept
  <1> QED
    BY PInvInit, PInvStep, PInvKept, PTL DEF PSpec
=============================================================================
