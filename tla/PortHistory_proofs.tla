-------------------------- MODULE PortHistory_proofs --------------------------
(***************************************************************************)
(* TCPPortIsKept, for all users, ports and well-behaved clients, when a    *)
(* user has one connection at a time.                                      *)
(*                                                                         *)
(* The argument: the port that the history holds stays in the database     *)
(* until there is a reason to forget it (PortInPlace), a tunnel that opens *)
(* or saves another one is such a reason (Opening), and the Principal that *)
(* a connection has loaded agrees with the database until its forward has  *)
(* begun (Snapshot).                                                       *)
(***************************************************************************)
EXTENDS PortHistory, Tunnel_endpoint_proofs

OneAtATime == \A c, d \in Conns : PrincipalOf[c] = PrincipalOf[d] => c = d

\* The connection has a forward that has not looked at the port of the last time.
Asking(c) ==
    \/ \E n \in Numbers : handler[c][n].pc = "begin"
    \/ \E i \in DOMAIN inbox[c] : inbox[c][i].type = "forward"
    \/ peer[c] # Gone /\ \E i \in Forwards(Script(c)) : i > peer[c].sent

Snapshot(c) ==
    (client[c].state # "loading" /\ Asking(c)) => client[c].lastPort = dbPort[PrincipalOf[c]]

Owed(p) == tcpTunnel[p].port # 0 /\ ~tcpTunnel[p].forgotten

PortInPlace(p) ==
    /\ tcpTunnel[p].port # 0 => tcpTunnel[p].port \in PortRange("tcpPort")
    /\ Owed(p) => dbPort[p] = tcpTunnel[p].port

Opening(c, n) == Owed(PrincipalOf[c]) =>
    /\ handler[c][n].pc # "tcpPort"
    /\ handler[c][n].pc \in {"opened", "persist"} =>
           handler[c][n].port \in {tcpTunnel[PrincipalOf[c]].port} \cup PortRange("httpPort")

HistoryInv ==
    /\ PortInv
    /\ \A p \in Principals : PortInPlace(p)
    /\ \A c \in Conns : Snapshot(c) /\ \A n \in Numbers : Opening(c, n)

LEMMA HistoryFacts ==
    ASSUME HistoryInv, NEW c \in Conns
    PROVE  /\ TypeOK /\ EndsAgree(c) /\ client[c] \in Client /\ PrincipalOf[c] \in Principals
           /\ \A n \in Numbers : handler[c][n] \in Handler
           /\ inbox[c] \in Seq(Request) /\ QueueSound(c) /\ PortSound(c)
           /\ Snapshot(c) /\ \A n \in Numbers : Opening(c, n)
  BY SshdAssumption DEF HistoryInv, PortInv, RoutingInv, TypeInv, TypeOK, Sound
----------------------------------------------------------------------------
\* The Principal of a connection.

\* Another connection is left alone, and so are the columns of other principals.
LEMMA ConnAlone ==
    ASSUME TypeOK, NEW c \in Conns, ConnStep(c)
    PROVE  /\ \A d \in Conns : d # c => /\ handler'[d] = handler[d] /\ client'[d] = client[d]
                                        /\ inbox'[d] = inbox[d] /\ peer'[d] = peer[d]
           /\ \A p \in Principals : p # PrincipalOf[c] => dbPort'[p] = dbPort[p]
  <1>1. handler \in [Conns -> [Numbers -> Handler]] /\ client \in [Conns -> Client]
        /\ inbox \in [Conns -> Seq(Request)] /\ peer \in [Conns -> Peer \cup {Gone}]
        /\ dbPort \in [Principals -> Ports \cup {0}]
    BY DEF TypeOK
  <1>2. \A d \in Conns : d # c => handler'[d] = handler[d]
    <2>1. UNCHANGED handler \/ \E n, pc, port, host : Become(c, n, pc, port, host)
      <3>1. ASSUME NEW n \in Numbers, GoroutineStep(c, n)
            PROVE  \E pc, port, host : Become(c, n, pc, port, host)
        BY <3>1 DEF GoroutineStep, Goroutine, Refuse, Begin, AcquirePort, NoLuck, FailForward,
           Opened, PersistPort, RegisterHost, AssignHost, AnswerForward, StopServing,
           UnregisterHost, CloseListener, RunCancel, Goto, End
      <3>2. CASE RequestLoopStep(c)
        BY <3>2 DEF RequestLoopStep, RequestLoop, LoadPrincipal, LoadPrincipalFails, HandleHint,
           HandleForward, HandleCancel, HandleOther, HandleServerInfo, AnswerServerInfo,
           EndLoop, Goto
      <3>3. CASE \/ \E k \in Kinds : Dial(c, k)
                 \/ SendNext(c) \/ SendCancel(c) \/ HearReply(c) \/ Drop(c) \/ WaiterStep(c)
        BY <3>3 DEF Dial, Handshake, SendNext, SendCancel, HearReply, Drop, WaiterStep,
           WaiterCancels
      <3> QED
        BY <3>1, <3>2, <3>3 DEF ConnStep
    <2> QED
      BY <1>1, <2>1 DEF Become
  <1>3. \A d \in Conns : d # c => client'[d] = client[d]
    <2>1. UNCHANGED client \/ \E fields : Update(c, fields)
      <3>1. ASSUME NEW n \in Numbers, GoroutineStep(c, n)
            PROVE  UNCHANGED client \/ \E fields : Update(c, fields)
        BY <3>1 DEF GoroutineStep, Goroutine, Refuse, Begin, AcquirePort, NoLuck, FailForward,
           Opened, PersistPort, RegisterHost, AssignHost, AnswerForward, StopServing,
           UnregisterHost, CloseListener, RunCancel
      <3>2. CASE RequestLoopStep(c)
        BY <3>2 DEF RequestLoopStep, RequestLoop, LoadPrincipal, LoadPrincipalFails, HandleHint,
           HandleForward, HandleCancel, HandleOther, HandleServerInfo, AnswerServerInfo, EndLoop
      <3>3. CASE \/ \E k \in Kinds : Dial(c, k)
                 \/ SendNext(c) \/ SendCancel(c) \/ HearReply(c) \/ Drop(c) \/ WaiterStep(c)
        BY <3>3 DEF Dial, Handshake, SendNext, SendCancel, HearReply, Drop, WaiterStep,
           WaiterCancels
      <3> QED
        BY <3>1, <3>2, <3>3 DEF ConnStep
    <2> QED
      BY <1>1, <2>1 DEF Update
  <1>4. \A d \in Conns : d # c => inbox'[d] = inbox[d]
    <2>1. UNCHANGED inbox \/ \E q : inbox' = [inbox EXCEPT ![c] = q]
      <3>1. ASSUME NEW n \in Numbers, GoroutineStep(c, n) PROVE UNCHANGED inbox
        BY <3>1 DEF GoroutineStep, Goroutine, Refuse, Begin, AcquirePort, NoLuck, FailForward,
           Opened, PersistPort, RegisterHost, AssignHost, AnswerForward, StopServing,
           UnregisterHost, CloseListener, RunCancel
      <3>2. CASE RequestLoopStep(c)
        BY <3>2 DEF RequestLoopStep, RequestLoop, LoadPrincipal, LoadPrincipalFails, HandleHint,
           HandleForward, HandleCancel, HandleOther, HandleServerInfo, AnswerServerInfo, EndLoop
      <3>3. CASE \/ \E k \in Kinds : Dial(c, k)
                 \/ SendNext(c) \/ SendCancel(c) \/ HearReply(c) \/ Drop(c) \/ WaiterStep(c)
        BY <3>3 DEF Dial, Handshake, SendNext, SendCancel, HearReply, Drop, WaiterStep,
           WaiterCancels, SendRequest
      <3> QED
        BY <3>1, <3>2, <3>3 DEF ConnStep
    <2> QED
      BY <1>1, <2>1
  <1>5. \A d \in Conns : d # c => peer'[d] = peer[d]
    <2>1. UNCHANGED peer \/ \E fields : UpdatePeer(c, fields)
      BY DEF ConnStep, GoroutineStep, RequestLoopStep, Dial, SendNext, SendCancel, HearReply,
             Drop, WaiterStep, UpdatePeer
    <2> QED
      BY <1>1, <2>1 DEF UpdatePeer
  <1>6. \A p \in Principals : p # PrincipalOf[c] => dbPort'[p] = dbPort[p]
    <2>1. UNCHANGED dbPort \/ \E port : dbPort' = [dbPort EXCEPT ![PrincipalOf[c]] = port]
      <3>1. ASSUME NEW n \in Numbers, GoroutineStep(c, n)
            PROVE  UNCHANGED dbPort \/ \E port : dbPort' = [dbPort EXCEPT ![PrincipalOf[c]] = port]
        BY <3>1 DEF GoroutineStep, Goroutine, Refuse, Begin, AcquirePort, NoLuck, FailForward,
           Opened, PersistPort, RegisterHost, AssignHost, AnswerForward, StopServing,
           UnregisterHost, CloseListener, RunCancel
      <3>2. CASE RequestLoopStep(c)
        BY <3>2 DEF RequestLoopStep, RequestLoop, LoadPrincipal, LoadPrincipalFails, HandleHint,
           HandleForward, HandleCancel, HandleOther, HandleServerInfo, AnswerServerInfo, EndLoop
      <3>3. CASE \/ \E k \in Kinds : Dial(c, k)
                 \/ SendNext(c) \/ SendCancel(c) \/ HearReply(c) \/ Drop(c) \/ WaiterStep(c)
        BY <3>3 DEF Dial, Handshake, SendNext, SendCancel, HearReply, Drop, WaiterStep,
           WaiterCancels
      <3> QED
        BY <3>1, <3>2, <3>3 DEF ConnStep
    <2> QED
      BY <1>1, <2>1
  <1> QED
    BY <1>2, <1>3, <1>4, <1>5, <1>6

LEMMA SnapshotKept ==
    ASSUME NEW c \in Conns, Snapshot(c), client'[c].lastPort = client[c].lastPort,
           dbPort'[PrincipalOf[c]] = dbPort[PrincipalOf[c]],
           client'[c].state # "loading" => client[c].state # "loading",
           Asking(c)' => Asking(c)
    PROVE  Snapshot(c)'
  BY DEF Snapshot

\* Once its forward has begun, a connection has no other to ask for.
LEMMA Asked ==
    ASSUME WellBehavedClients, TypeOK, NEW c \in Conns, QueueSound(c),
           NEW n \in Numbers, Active(c, n), handler[c][n].pc # "begin"
    PROVE  ~Asking(c)
  <1>1. ASSUME NEW m \in Numbers, handler[c][m].pc = "begin" PROVE FALSE
    BY <1>1, ForwardAlone DEF Active
  <1>2. ASSUME NEW i \in DOMAIN inbox[c], inbox[c][i].type = "forward" PROVE FALSE
    <2>1. inbox[c][i].n \in Numbers /\ n < inbox[c][i].n
      BY Inbox DEF QueueSound, InboxInOrder, Active
    <2>2. Forwarding(c, n) /\ Forwarding(c, inbox[c][i].n)
      BY <1>2, <2>1 DEF Forwarding
    <2> QED
      BY <2>1, <2>2 DEF QueueSound, OneForward, Numbers
  <1>3. ASSUME peer[c] # Gone, NEW i \in Forwards(Script(c)), i > peer[c].sent PROVE FALSE
    <2>1. peer[c] \in Peer /\ WellBehaved(peer[c].kind)
      BY <1>3 DEF TypeOK, Peer, WellBehavedClients
    <2>2. n \in Forwards(Script(c)) /\ n <= peer[c].sent
      BY <1>3 DEF QueueSound, OneForward, Forwarding
    <2>3. Forwards(Script(c)) = {i}
      BY <1>3, <2>1 DEF WellBehaved, Forwards, Script
    <2> QED
      BY <1>3, <2>1, <2>2, <2>3 DEF Peer, Numbers
  <1> QED
    BY <1>1, <1>2, <1>3 DEF Asking

LEMMA GoroutineSnapshot ==
    ASSUME WellBehavedClients, HistoryInv, NEW c \in Conns, NEW n \in Numbers, GoroutineStep(c, n)
    PROVE  Snapshot(c)'
  <1>1. /\ TypeOK /\ client[c] \in Client /\ handler \in [Conns -> [Numbers -> Handler]]
        /\ QueueSound(c) /\ Snapshot(c)
    BY HistoryFacts DEF TypeOK
  <1>2. UNCHANGED <<inbox, peer>>
    BY DEF GoroutineStep, Goroutine, Refuse, Begin, AcquirePort, NoLuck, FailForward, Opened,
           PersistPort, RegisterHost, AssignHost, AnswerForward, StopServing, UnregisterHost,
           CloseListener, RunCancel
  <1>3. \A m \in Numbers : handler'[c][m].pc = "begin" => handler[c][m].pc = "begin"
    <2>1. \E pc, port, host : pc # "begin" /\ Become(c, n, pc, port, host)
      BY DEF GoroutineStep, Goroutine, Refuse, Begin, AcquirePort, NoLuck, FailForward, Opened,
             PersistPort, RegisterHost, AssignHost, AnswerForward, StopServing, UnregisterHost,
             CloseListener, RunCancel, Goto, End
    <2> QED
      BY <1>1, <2>1 DEF Become
  <1>4. Asking(c)' => Asking(c)
    BY <1>2, <1>3 DEF Asking, Script
  <1>5. CASE Opened(c, n) \/ PersistPort(c, n)
    <2>1. ~Asking(c)
      BY <1>1, <1>5, Asked DEF Opened, PersistPort, Active
    <2> QED
      BY <1>4, <2>1 DEF Snapshot
  <1>6. CASE ~(Opened(c, n) \/ PersistPort(c, n))
    <2>1. UNCHANGED dbPort
      BY <1>6 DEF GoroutineStep, Goroutine, Refuse, Begin, AcquirePort, NoLuck, FailForward,
         RegisterHost, AssignHost, AnswerForward, StopServing, UnregisterHost, CloseListener,
         RunCancel
    <2>2. /\ client'[c].lastPort = client[c].lastPort
          /\ client'[c].state = client[c].state
      <3>1. UNCHANGED client \/ FailForward(c, n) \/ AssignHost(c, n) \/ RunCancel(c, n)
        BY <1>6 DEF GoroutineStep, Goroutine, Refuse, Begin, AcquirePort, NoLuck, PersistPort,
           RegisterHost, AnswerForward, StopServing, UnregisterHost, CloseListener
      <3>2. CASE UNCHANGED client
        BY <3>2
      <3>3. CASE FailForward(c, n) \/ AssignHost(c, n) \/ RunCancel(c, n)
        <4>1. PICK fields : /\ fields.lastPort = client[c].lastPort
                            /\ fields.state = client[c].state
                            /\ Update(c, fields)
          BY <1>1, <3>3 DEF FailForward, AssignHost, RunCancel, Client
        <4> QED
          BY <1>1, <4>1 DEF Update, TypeOK
      <3> QED
        BY <3>1, <3>2, <3>3
    <2> QED
      BY <1>1, <1>4, <2>1, <2>2, SnapshotKept
  <1> QED
    BY <1>5, <1>6

LEMMA RequestLoopSnapshot ==
    ASSUME HistoryInv, NEW c \in Conns, RequestLoopStep(c)
    PROVE  Snapshot(c)'
  <1>1. /\ TypeOK /\ client[c] \in Client /\ handler \in [Conns -> [Numbers -> Handler]]
        /\ client \in [Conns -> Client] /\ peer \in [Conns -> Peer \cup {Gone}]
        /\ QueueSound(c) /\ Snapshot(c) /\ EndsAgree(c)
    BY HistoryFacts DEF TypeOK
  <1>2. peer'[c] \in {peer[c], Gone}
    BY <1>1 DEF RequestLoopStep
  <1>3. CASE LoadPrincipal(c)
    <2>1. client'[c].lastPort = dbPort[PrincipalOf[c]] /\ UNCHANGED dbPort
      BY <1>1, <1>3 DEF LoadPrincipal, Update, Client
    <2> QED
      BY <2>1 DEF Snapshot
  <1>4. CASE LoadPrincipalFails(c)
    <2>1. inbox'[c] = <<>>
      BY <1>1, <1>4 DEF LoadPrincipalFails, TypeOK
    <2>2. \A m \in Numbers : handler'[c][m].pc = "none"
      BY <1>1, <1>4 DEF LoadPrincipalFails, QueueSound, HandlersStarted
    <2>3. ~client'[c].up
      BY <1>1, <1>4 DEF LoadPrincipalFails, Update, NewClient
    <2>4. peer'[c] = Gone
      BY <1>1, <2>3 DEF RequestLoopStep, EndsAgree
    <2> QED
      BY <2>1, <2>2, <2>4 DEF Snapshot, Asking
  <1>5. CASE ~(LoadPrincipal(c) \/ LoadPrincipalFails(c))
    <2>1. UNCHANGED dbPort
      BY <1>5 DEF RequestLoopStep, RequestLoop, HandleHint, HandleForward, HandleCancel,
         HandleOther, HandleServerInfo, AnswerServerInfo, EndLoop
    <2>2. /\ client'[c].lastPort = client[c].lastPort
          /\ client[c].state # "loading"
      <3>1. CASE UNCHANGED client
        BY <1>5, <3>1 DEF RequestLoopStep, RequestLoop, HandleHint, HandleForward, HandleCancel,
           HandleOther, HandleServerInfo, AnswerServerInfo, EndLoop, NextRequest
      <3>2. CASE ~UNCHANGED client
        <4>1. \/ HandleHint(c) \/ HandleServerInfo(c) \/ AnswerServerInfo(c) \/ EndLoop(c)
          BY <1>5, <3>2 DEF RequestLoopStep, RequestLoop, HandleForward, HandleCancel, HandleOther
        <4>2. \E protocol :
                  \/ Update(c, [client[c] EXCEPT !.protocol = protocol])
                  \/ Update(c, [client[c] EXCEPT !.protocol = protocol, !.state = "awaiting"])
                  \/ Update(c, [client[c] EXCEPT !.state = "serving"])
                  \/ Update(c, [client[c] EXCEPT !.state = "closed", !.cancelled = TRUE])
          BY <3>2, <4>1 DEF HandleHint, HandleServerInfo, AnswerServerInfo, EndLoop
        <4>3. client'[c].lastPort = client[c].lastPort
          <5>1. PICK protocol :
                  \/ Update(c, [client[c] EXCEPT !.protocol = protocol])
                  \/ Update(c, [client[c] EXCEPT !.protocol = protocol, !.state = "awaiting"])
                  \/ Update(c, [client[c] EXCEPT !.state = "serving"])
                  \/ Update(c, [client[c] EXCEPT !.state = "closed", !.cancelled = TRUE])
            BY <4>2
          <5>2. PICK fields : Update(c, fields) /\ fields.lastPort = client[c].lastPort
            <6>1. CASE \/ Update(c, [client[c] EXCEPT !.protocol = protocol])
                       \/ Update(c, [client[c] EXCEPT !.state = "serving"])
              BY <1>1, <6>1 DEF Client
            <6>2. CASE Update(c, [client[c] EXCEPT !.protocol = protocol, !.state = "awaiting"])
              <7> DEFINE new == [client[c] EXCEPT !.protocol = protocol, !.state = "awaiting"]
              <7>1. Update(c, new) /\ new.lastPort = client[c].lastPort
                BY <1>1, <6>2 DEF Client
              <7> HIDE DEF new
              <7> QED
                BY <7>1
            <6>3. CASE Update(c, [client[c] EXCEPT !.state = "closed", !.cancelled = TRUE])
              <7> DEFINE new == [client[c] EXCEPT !.state = "closed", !.cancelled = TRUE]
              <7>1. Update(c, new) /\ new.lastPort = client[c].lastPort
                BY <1>1, <6>3 DEF Client
              <7> HIDE DEF new
              <7> QED
                BY <7>1
            <6> QED
              BY <5>1, <6>1, <6>2, <6>3
          <5> QED
            BY <1>1, <5>2 DEF Update
        <4> QED
          BY <4>1, <4>3 DEF HandleHint, HandleServerInfo, AnswerServerInfo, EndLoop, NextRequest
      <3> QED
        BY <3>1, <3>2
    <2>3. CASE HandleForward(c)
      <3>1. Asking(c)
        BY <1>1, <2>3, Inbox DEF HandleForward, NextRequest, Asking
      <3> QED
        BY <1>1, <2>1, <2>2, <3>1, SnapshotKept
    <2>4. CASE ~HandleForward(c)
      <3>1. \A m \in Numbers : handler'[c][m].pc = "begin" => handler[c][m].pc = "begin"
        <4>1. UNCHANGED handler \/ \E m : Goto(c, m, "cancel")
          BY <1>5, <2>4 DEF RequestLoopStep, RequestLoop, HandleHint, HandleCancel, HandleOther,
             HandleServerInfo, AnswerServerInfo, EndLoop
        <4> QED
          BY <1>1, <4>1 DEF Goto, Become
      <3>2. inbox'[c] = inbox[c] \/ (inbox[c] # <<>> /\ inbox'[c] = Tail(inbox[c]))
        BY <1>1, <1>5, <2>4 DEF RequestLoopStep, RequestLoop, HandleHint, HandleCancel,
           HandleOther, HandleServerInfo, AnswerServerInfo, EndLoop, NextRequest, TypeOK,
           QueueSound, AwaitsInfo
      <3>3. ASSUME NEW i \in DOMAIN inbox'[c], inbox'[c][i].type = "forward"
            PROVE  \E j \in DOMAIN inbox[c] : inbox[c][j].type = "forward"
        <4>1. CASE inbox'[c] = inbox[c]
          BY <3>3, <4>1
        <4>2. CASE inbox[c] # <<>> /\ inbox'[c] = Tail(inbox[c])
          <5>1. i + 1 \in DOMAIN inbox[c] /\ inbox'[c][i] = inbox[c][i + 1]
            BY <1>1, <3>3, <4>2, InboxTail
          <5> QED
            BY <3>3, <5>1
        <4> QED
          BY <3>2, <4>1, <4>2
      <3>4. Asking(c)' => Asking(c)
        BY <1>2, <3>1, <3>3 DEF Asking, Script
      <3> QED
        BY <1>1, <2>1, <2>2, <3>4, SnapshotKept
    <2> QED
      BY <2>3, <2>4
  <1> QED
    BY <1>3, <1>4, <1>5

LEMMA ClientSnapshot ==
    ASSUME HistoryInv, NEW c \in Conns,
           \/ \E k \in Kinds : Dial(c, k)
           \/ SendNext(c) \/ SendCancel(c) \/ HearReply(c) \/ Drop(c) \/ WaiterStep(c)
    PROVE  Snapshot(c)'
  <1>1. /\ TypeOK /\ client[c] \in Client /\ peer[c] \in Peer \cup {Gone}
        /\ client \in [Conns -> Client] /\ peer \in [Conns -> Peer \cup {Gone}]
        /\ inbox \in [Conns -> Seq(Request)] /\ Snapshot(c) /\ EndsAgree(c)
    BY HistoryFacts DEF TypeOK
  <1>2. CASE \E k \in Kinds : Dial(c, k)
    <2>1. client'[c].state = "loading"
      BY <1>1, <1>2 DEF Dial, Handshake, Update, NewClient
    <2> QED
      BY <2>1 DEF Snapshot
  <1>3. CASE HearReply(c)
    <2>1. UNCHANGED <<dbPort, client, handler, inbox>> /\ peer[c] # Gone
      BY <1>1, <1>3 DEF HearReply, EndsAgree
    <2>2. peer'[c].kind = peer[c].kind /\ peer'[c].sent = peer[c].sent
      BY <1>1, <1>3, <2>1 DEF HearReply, UpdatePeer, Peer
    <2>3. Asking(c)' => Asking(c)
      BY <2>1, <2>2 DEF Asking, Script
    <2> QED
      BY <1>1, <2>1, <2>3, SnapshotKept
  <1>4. CASE WaiterStep(c)
    <2>1. UNCHANGED <<dbPort, handler, inbox, peer>>
      BY <1>4 DEF WaiterStep, WaiterCancels
    <2>2. client'[c].lastPort = client[c].lastPort /\ client'[c].state = client[c].state
      BY <1>1, <1>4 DEF WaiterStep, WaiterCancels, Update, Client
    <2> QED
      BY <1>1, <2>1, <2>2, SnapshotKept DEF Asking, Script
  <1>5. CASE Drop(c)
    <2>1. UNCHANGED <<dbPort, handler>> /\ peer'[c] = Gone
      BY <1>1, <1>5 DEF Drop, UpdatePeer
    <2>2. client'[c].lastPort = client[c].lastPort /\ client'[c].state = client[c].state
      BY <1>1, <1>5 DEF Drop, Update, Client
    <2>3. PICK received \in 0 .. Len(inbox[c]) : inbox'[c] = SubSeq(inbox[c], 1, received)
      BY <1>1, <1>5 DEF Drop
    <2>4. \A i \in DOMAIN inbox'[c] : i \in DOMAIN inbox[c] /\ inbox'[c][i] = inbox[c][i]
      <3>1. inbox[c] \in Seq(Request) /\ received \in Nat /\ received <= Len(inbox[c])
        BY <1>1, <2>3
      <3> QED
        BY <2>3, <3>1
    <2>5. Asking(c)' => Asking(c)
      BY <2>1, <2>4 DEF Asking
    <2> QED
      BY <1>1, <2>1, <2>2, <2>5, SnapshotKept
  <1>6. CASE SendNext(c) \/ SendCancel(c)
    <2>1. UNCHANGED <<dbPort, client, handler>>
      BY <1>6 DEF SendNext, SendCancel
    <2>2. peer[c] # Gone /\ peer[c] \in Peer
      BY <1>1, <1>6 DEF SendNext, SendCancel, Running, Gone
    <2>3. /\ peer'[c].kind = peer[c].kind /\ peer'[c].sent = peer[c].sent + 1
          /\ peer[c].sent \in Nat
      <3>1. CASE SendNext(c)
        BY <1>1, <2>2, <3>1 DEF SendNext, UpdatePeer, Peer
      <3>2. CASE SendCancel(c)
        BY <1>1, <2>2, <3>2 DEF SendCancel, UpdatePeer, Peer
      <3> QED
        BY <1>6, <3>1, <3>2
    <2>4. PICK step, req :
              /\ req = [n |-> peer[c].sent + 1, type |-> step.type,
                        protocol |-> step.protocol, rport |-> step.rport]
              /\ inbox'[c] = Append(inbox[c], req)
              /\ req.type = "forward" => peer[c].sent + 1 \in Forwards(Script(c))
      <3>1. CASE SendNext(c)
        <4>1. /\ peer[c].sent < Len(Script(c))
              /\ SendRequest(c, Script(c)[peer[c].sent + 1])
          BY <3>1 DEF SendNext
        <4>2. Script(c) \in Seq(Step)
          BY <2>2, TunnelAssumption DEF Script, Peer
        <4>3. peer[c].sent + 1 \in DOMAIN Script(c)
          BY <2>3, <4>1, <4>2
        <4> QED
          BY <1>1, <4>1, <4>3 DEF SendRequest, Forwards
      <3>2. CASE SendCancel(c)
        <4> DEFINE req == [n |-> peer[c].sent + 1, type |-> CancelForward.type,
                           protocol |-> CancelForward.protocol, rport |-> CancelForward.rport]
        <4>1. inbox'[c] = Append(inbox[c], req)
          BY <1>1, <3>2 DEF SendCancel, SendRequest
        <4>2. req.type # "forward"
          BY DEF CancelForward
        <4> QED
          BY <4>1, <4>2
      <3> QED
        BY <1>6, <3>1, <3>2
    <2>5. ASSUME Asking(c)' PROVE Asking(c)
      <3>1. CASE \E i \in DOMAIN inbox'[c] : inbox'[c][i].type = "forward"
        <4>1. PICK i \in DOMAIN inbox'[c] : inbox'[c][i].type = "forward"
          BY <3>1
        <4>2. inbox[c] \in Seq(Request)
          BY <1>1
        <4>3. \/ i \in DOMAIN inbox[c] /\ inbox'[c][i] = inbox[c][i]
              \/ inbox'[c][i] = req
          BY <2>4, <4>1, <4>2
        <4>4. CASE i \in DOMAIN inbox[c] /\ inbox'[c][i] = inbox[c][i]
          BY <4>1, <4>4 DEF Asking
        <4>5. CASE inbox'[c][i] = req
          BY <2>2, <2>3, <2>4, <4>1, <4>5 DEF Asking
        <4> QED
          BY <4>3, <4>4, <4>5
      <3>2. CASE peer'[c] # Gone /\ \E i \in Forwards(Script(c)') : i > peer'[c].sent
        <4>1. PICK i \in Forwards(Script(c)) : i > peer[c].sent + 1
          BY <2>3, <3>2 DEF Script
        <4>2. i \in Nat
          <5>1. Script(c) \in Seq(Step)
            BY <2>2, TunnelAssumption DEF Script, Peer
          <5> QED
            BY <4>1, <5>1 DEF Forwards
        <4>3. i > peer[c].sent
          BY <2>3, <4>1, <4>2
        <4> QED
          BY <2>2, <4>1, <4>3 DEF Asking
      <3>3. CASE \E m \in Numbers : handler'[c][m].pc = "begin"
        BY <2>1, <3>3 DEF Asking
      <3> QED
        BY <2>5, <3>1, <3>2, <3>3 DEF Asking, Forwards, Script
    <2> QED
      BY <1>1, <2>1, <2>5, SnapshotKept
  <1> QED
    BY <1>2, <1>3, <1>4, <1>5, <1>6
----------------------------------------------------------------------------
\* The history.

\* What brings a goroutine to one of the pcs that Opening speaks of.
LEMMA Moves ==
    ASSUME TypeOK, [Next]_vars, NEW e \in Conns, NEW m \in Numbers
    PROVE  \/ handler'[e][m] = handler[e][m]
           \/ handler'[e][m].pc \notin {"tcpPort", "opened", "persist"}
           \/ Begin(e, m) \/ AcquirePort(e, m)
           \/ Opened(e, m) /\ handler'[e][m].port = handler[e][m].port
  <1>1. handler \in [Conns -> [Numbers -> Handler]]
    BY DEF TypeOK
  <1>2. CASE Crash
    BY <1>2 DEF Crash, Idle
  <1>3. CASE UNCHANGED vars
    BY <1>3 DEF vars
  <1>4. ASSUME NEW c \in Conns, ConnStep(c), c # e PROVE handler'[e] = handler[e]
    BY <1>4, ConnAlone
  <1>5. ASSUME ConnStep(e)
        PROVE  \/ handler'[e][m] = handler[e][m]
               \/ handler'[e][m].pc \notin {"tcpPort", "opened", "persist"}
               \/ Begin(e, m) \/ AcquirePort(e, m)
               \/ Opened(e, m) /\ handler'[e][m].port = handler[e][m].port
    <2>1. CASE RequestLoopStep(e)
      <3>1. \/ UNCHANGED handler
            \/ \E k : \E pc \in {"refuse", "begin", "cancel"} : Goto(e, k, pc)
        BY <2>1 DEF RequestLoopStep, RequestLoop, LoadPrincipal, LoadPrincipalFails, HandleHint,
           HandleForward, HandleCancel, HandleOther, HandleServerInfo, AnswerServerInfo, EndLoop
      <3> QED
        BY <1>1, <3>1 DEF Goto, Become
    <2>2. CASE \/ \E k \in Kinds : Dial(e, k)
               \/ SendNext(e) \/ SendCancel(e) \/ HearReply(e) \/ Drop(e) \/ WaiterStep(e)
      BY <2>2 DEF Dial, Handshake, SendNext, SendCancel, HearReply, Drop, WaiterStep,
         WaiterCancels
    <2>3. ASSUME NEW n \in Numbers, Goroutine(e, n), n # m PROVE handler'[e][m] = handler[e][m]
      <3>1. \E pc, port, host : Become(e, n, pc, port, host)
        BY <2>3 DEF Goroutine, Refuse, Begin, AcquirePort, NoLuck, FailForward, Opened,
           PersistPort, RegisterHost, AssignHost, AnswerForward, StopServing, UnregisterHost,
           CloseListener, RunCancel, Goto, End
      <3> QED
        BY <1>1, <2>3, <3>1 DEF Become
    <2>4. CASE Goroutine(e, m)
      <3>1. CASE Begin(e, m) \/ AcquirePort(e, m)
        BY <3>1
      <3>2. CASE Opened(e, m)
        BY <1>1, <3>2 DEF Opened, Goto, Become
      <3>3. CASE ~(Begin(e, m) \/ AcquirePort(e, m) \/ Opened(e, m))
        <4>1. \E pc, port, host : /\ Become(e, m, pc, port, host)
                                  /\ pc \notin {"tcpPort", "opened", "persist"}
          <5>1. \/ RegisterHost(e, m) \/ StopServing(e, m) \/ FailForward(e, m) \/ End(e, m)
                \/ \E pc \in {"failed", "register", "answer", "serving", "closing"} :
                       Goto(e, m, pc)
            BY <2>4, <3>3 DEF Goroutine, Refuse, NoLuck, PersistPort, AssignHost, AnswerForward,
               UnregisterHost, CloseListener, RunCancel
          <5>2. CASE RegisterHost(e, m)
            <6>1. \E pc \in {"failed", "assign", "answer"} : \E port, host :
                      Become(e, m, pc, port, host)
              BY <5>2 DEF RegisterHost, Goto
            <6> QED
              BY <6>1
          <5>3. CASE StopServing(e, m)
            BY <5>3 DEF StopServing, Goto
          <5>4. CASE FailForward(e, m)
            BY <5>4 DEF FailForward, Goto, End
          <5>5. CASE \/ End(e, m)
                     \/ \E pc \in {"failed", "register", "answer", "serving", "closing"} :
                            Goto(e, m, pc)
            BY <5>5 DEF End, Goto
          <5> QED
            BY <5>1, <5>2, <5>3, <5>4, <5>5
        <4> QED
          BY <1>1, <4>1 DEF Become
      <3> QED
        BY <3>1, <3>2, <3>3
    <2> QED
      BY <1>5, <2>1, <2>2, <2>3, <2>4 DEF ConnStep, GoroutineStep
  <1> QED
    BY <1>2, <1>3, <1>4, <1>5 DEF Next

LEMMA Recorded ==
    ASSUME RecordPort, NEW p \in Principals
    PROVE  \/ /\ tcpTunnel'[p].port = dbPort[p]
              /\ \E c \in Conns, n \in Numbers : PrincipalOf[c] = p /\ Given(c, n)
           \/ /\ tcpTunnel'[p].port = tcpTunnel[p].port
              /\ Owed(p)' =>
                     /\ Owed(p)
                     /\ dbPort'[p] \notin PortRange("httpPort")
                     /\ \A c \in Conns, n \in Numbers : PrincipalOf[c] = p => ~FindsTaken(c, n)
  BY DEF RecordPort, Owed

\* A goroutine that begins owes its user the port of the last time.
LEMMA BeginFacts ==
    ASSUME HistoryInv, NEW c \in Conns, NEW n \in Numbers, Begin(c, n), Owed(PrincipalOf[c])
    PROVE  \/ handler'[c][n].pc \notin {"tcpPort", "opened"}
           \/ /\ handler'[c][n].pc = "opened"
              /\ handler'[c][n].port = tcpTunnel[PrincipalOf[c]].port
           \/ FindsTaken(c, n)
  <1> DEFINE port == tcpTunnel[PrincipalOf[c]].port
  <1>1. /\ handler \in [Conns -> [Numbers -> Handler]]
        /\ PrincipalOf[c] \in Principals /\ QueueSound(c) /\ Snapshot(c)
    BY HistoryFacts DEF TypeOK
  <1>2. PortInPlace(PrincipalOf[c])
    BY <1>1 DEF HistoryInv
  <1>3. handler[c][n].pc = "begin" /\ client[c].lastPort = port
    BY <1>1, <1>2 DEF Begin, Snapshot, Asking, QueueSound, HandlersStarted, PortInPlace
  <1>4. InTCPRange(port)
    BY <1>2, SshdAssumption DEF PortInPlace, Owed, PortRange, InTCPRange
  <1>5. CASE Become(c, n, "opened", port, NoHost)
    BY <1>1, <1>5 DEF Become
  <1>6. CASE Goto(c, n, "tcpPort")
    <2>1. handler'[c][n].pc = "tcpPort"
      BY <1>1, <1>6 DEF Goto, Become
    <2> QED
      BY <1>3, <1>4, <2>1 DEF FindsTaken
  <1>7. CASE Goto(c, n, "httpPort") \/ Goto(c, n, "failed")
    BY <1>1, <1>7 DEF Goto, Become
  <1> QED
    BY <1>3, <1>4, <1>5, <1>6, <1>7 DEF Begin

LEMMA PlaceStep ==
    ASSUME HistoryInv, HNext, NEW p \in Principals
    PROVE  PortInPlace(p)'
  <1>1. TypeOK /\ PortInPlace(p)
    BY DEF HistoryInv, PortInv, RoutingInv, TypeInv
  <1>2. ASSUME NEW c \in Conns, NEW n \in Numbers, PersistPort(c, n), dbPort'[p] # dbPort[p]
        PROVE  /\ PrincipalOf[c] = p /\ handler[c][n].pc = "persist"
               /\ dbPort'[p] = handler[c][n].port
               /\ \A d \in Conns, m \in Numbers : ~Given(d, m)
    <2>1. /\ handler[c][n].pc = "persist" /\ Goto(c, n, "register")
          /\ dbPort' = [dbPort EXCEPT ![PrincipalOf[c]] = client[c].lastPort]
      BY <1>2 DEF PersistPort
    <2>2. PrincipalOf[c] = p /\ dbPort'[p] = client[c].lastPort
      BY <1>1, <1>2, <2>1 DEF TypeOK
    <2>3. client[c].lastPort = handler[c][n].port
      BY <2>1, HistoryFacts DEF PortSound, PortKnown
    <2>4. \A d \in Conns, m \in Numbers : ~Given(d, m)
      BY <1>1, <2>1 DEF Given, Goto, Become, TypeOK
    <2> QED
      BY <2>1, <2>2, <2>3, <2>4
  <1>3. dbPort'[p] = dbPort[p] \/ \E c \in Conns, n \in Numbers : PersistPort(c, n)
    BY ColumnStep DEF HNext
  <1>4. CASE \E c \in Conns, n \in Numbers : PrincipalOf[c] = p /\ Given(c, n)
    <2>1. dbPort'[p] = dbPort[p]
      BY <1>2, <1>3, <1>4
    <2>2. dbPort[p] \in PortRange("tcpPort")
      BY <1>4 DEF Given
    <2>3. tcpTunnel'[p].port = dbPort[p]
      BY <1>4 DEF HNext, RecordPort
    <2> QED
      BY <2>1, <2>2, <2>3 DEF PortInPlace, PortRange
  <1>5. CASE ~\E c \in Conns, n \in Numbers : PrincipalOf[c] = p /\ Given(c, n)
    <2>1. /\ tcpTunnel'[p].port = tcpTunnel[p].port
          /\ Owed(p)' => Owed(p) /\ dbPort'[p] \notin PortRange("httpPort")
      BY <1>5, Recorded DEF HNext
    <2>2. ASSUME Owed(p)' PROVE dbPort'[p] = tcpTunnel[p].port
      <3>1. Owed(p) /\ dbPort[p] = tcpTunnel[p].port
        BY <1>1, <2>1, <2>2 DEF PortInPlace
      <3>2. ASSUME NEW c \in Conns, NEW n \in Numbers, PersistPort(c, n), dbPort'[p] # dbPort[p]
            PROVE  dbPort'[p] = tcpTunnel[p].port
        <4>1. /\ PrincipalOf[c] = p /\ handler[c][n].pc = "persist"
              /\ dbPort'[p] = handler[c][n].port
          BY <1>2, <3>2
        <4>2. Opening(c, n)
          BY HistoryFacts
        <4> QED
          BY <2>1, <2>2, <3>1, <4>1, <4>2 DEF Opening
      <3> QED
        BY <1>3, <3>1, <3>2
    <2> QED
      BY <1>1, <2>1, <2>2 DEF PortInPlace, PortRange
  <1> QED
    BY <1>4, <1>5

LEMMA OpeningStep ==
    ASSUME OneAtATime, HistoryInv, PortInv', HNext, NEW e \in Conns, NEW m \in Numbers
    PROVE  Opening(e, m)'
  <1> DEFINE p == PrincipalOf[e]
  <1>1. /\ TypeOK /\ p \in Principals /\ Opening(e, m) /\ [Next]_vars
        /\ handler \in [Conns -> [Numbers -> Handler]]
    BY HistoryFacts DEF TypeOK, HNext
  <1>2. CASE \E c \in Conns, n \in Numbers : PrincipalOf[c] = p /\ Given(c, n)
    <2>1. PICK n \in Numbers : handler'[e][n].pc = "serving"
      BY <1>2 DEF OneAtATime, Given
    <2>2. OneForward(e)'
      BY DEF PortInv, RoutingInv, Sound, QueueSound
    <2>3. handler'[e][m].pc \notin {"tcpPort", "opened", "persist"}
      BY <2>1, <2>2 DEF OneForward, Forwarding, Active
    <2> QED
      BY <2>3 DEF Opening
  <1>3. CASE ~\E c \in Conns, n \in Numbers : PrincipalOf[c] = p /\ Given(c, n)
    <2>1. /\ tcpTunnel'[p].port = tcpTunnel[p].port
          /\ Owed(p)' => Owed(p) /\ ~FindsTaken(e, m)
      BY <1>1, <1>3, Recorded DEF HNext
    <2> SUFFICES ASSUME Owed(p)', handler'[e][m].pc \in {"tcpPort", "opened", "persist"}
                 PROVE  /\ handler'[e][m].pc # "tcpPort"
                        /\ handler'[e][m].port \in {tcpTunnel[p].port} \cup PortRange("httpPort")
      BY <2>1 DEF Opening, PortRange
    <2>2. /\ Owed(p) /\ ~FindsTaken(e, m) /\ handler[e][m].pc # "tcpPort"
          /\ handler[e][m].pc \in {"opened", "persist"} =>
                 handler[e][m].port \in {tcpTunnel[p].port} \cup PortRange("httpPort")
      BY <1>1, <2>1 DEF Opening
    <2>3. CASE handler'[e][m] = handler[e][m]
      BY <2>2, <2>3
    <2>4. CASE Begin(e, m)
      <3>1. handler'[e][m].pc # "persist"
        BY <1>1, <2>4 DEF Begin, Goto, Become
      <3> QED
        BY <2>2, <2>4, <3>1, BeginFacts
    <2>5. CASE AcquirePort(e, m)
      BY <1>1, <2>2, <2>5 DEF AcquirePort, Become
    <2>6. CASE Opened(e, m) /\ handler'[e][m].port = handler[e][m].port
      BY <1>1, <2>2, <2>6 DEF Opened, Goto, Become
    <2> QED
      BY <1>1, <2>3, <2>4, <2>5, <2>6, Moves
  <1> QED
    BY <1>2, <1>3

LEMMA SnapshotStep ==
    ASSUME WellBehavedClients, OneAtATime, HistoryInv, Next, NEW d \in Conns
    PROVE  Snapshot(d)'
  <1>1. CASE Crash
    BY <1>1 DEF Crash, Snapshot, Asking, Idle
  <1>2. ASSUME NEW c \in Conns, ConnStep(c) PROVE Snapshot(d)'
    <2>1. CASE c = d
      BY <1>2, <2>1, GoroutineSnapshot, RequestLoopSnapshot, ClientSnapshot DEF ConnStep
    <2>2. CASE c # d
      <3>1. TypeOK /\ Snapshot(d) /\ PrincipalOf[d] # PrincipalOf[c] /\ PrincipalOf[d] \in Principals
        BY <2>2, HistoryFacts DEF OneAtATime
      <3>2. /\ handler'[d] = handler[d] /\ client'[d] = client[d]
            /\ inbox'[d] = inbox[d] /\ peer'[d] = peer[d]
            /\ dbPort'[PrincipalOf[d]] = dbPort[PrincipalOf[d]]
        BY <1>2, <2>2, <3>1, ConnAlone
      <3> QED
        BY <3>1, <3>2 DEF Snapshot, Asking, Script
    <2> QED
      BY <2>1, <2>2
  <1> QED
    BY <1>1, <1>2 DEF Next

LEMMA HistoryInit == ASSUME HInit PROVE HistoryInv
  <1>1. PortInv
    BY PortInvInit DEF HInit
  <1>2. \A p \in Principals : tcpTunnel[p].port = 0
    BY DEF HInit
  <1>3. ASSUME NEW c \in Conns PROVE ~Asking(c) /\ PrincipalOf[c] \in Principals
    BY SshdAssumption DEF HInit, Init, SshdInit, Asking, Idle
  <1> QED
    BY <1>1, <1>2, <1>3 DEF HistoryInv, PortInPlace, Owed, Snapshot, Opening

LEMMA HistoryStep ==
    ASSUME WellBehavedClients, OneAtATime, HistoryInv, [HNext]_hvars
    PROVE  HistoryInv'
  <1>1. CASE HNext
    <2>1. PortInv'
      BY <1>1, PortInvStep DEF HistoryInv, HNext
    <2> QED
      BY <1>1, <2>1, PlaceStep, OpeningStep, SnapshotStep DEF HistoryInv, HNext
  <1>2. CASE UNCHANGED hvars
    <2>1. PortInv'
      BY <1>2, PortInvStep DEF HistoryInv, hvars
    <2> QED
      BY <1>2, <2>1 DEF HistoryInv, hvars, vars, PortInPlace, Owed, Snapshot, Asking, Opening,
         Script, PortRange
  <1> QED
    BY <1>1, <1>2

(***************************************************************************)
(* For well behaved clients and a user with one connection at a time, a    *)
(* TCP tunnel that begins while the port of the user's last one is free    *)
(* listens on it, unless an HTTP tunnel has saved its port since or a TCP  *)
(* tunnel has found the port taken.  (client.go 84-93, 195-207)            *)
(***************************************************************************)
THEOREM TCPPortKept == ASSUME WellBehavedClients, OneAtATime PROVE HSpec => TCPPortIsKept
  <1> DEFINE Kept == \A c \in Conns, n \in Numbers :
                         ~tcpTunnel[PrincipalOf[c]].forgotten => ~MissesPort(c, n)
  <1>1. HInit => HistoryInv
    BY HistoryInit
  <1>2. HistoryInv /\ [HNext]_hvars => HistoryInv'
    BY HistoryStep
  <1>3. HistoryInv /\ [HNext]_hvars => [Kept]_hvars
    <2> SUFFICES ASSUME HistoryInv, HNext, NEW c \in Conns, NEW n \in Numbers,
                        ~tcpTunnel[PrincipalOf[c]].forgotten, MissesPort(c, n)
                 PROVE  FALSE
      OBVIOUS
    <2>1. Owed(PrincipalOf[c])
      BY DEF MissesPort, Owed
    <2>2. Begin(c, n)
      <3>1. TypeOK /\ [Next]_vars
        BY HistoryFacts DEF HNext
      <3> QED
        BY <3>1, Moves DEF MissesPort, AcquirePort, Opened
    <2> QED
      BY <2>1, <2>2, BeginFacts DEF MissesPort, FindsTaken
  <1> QED
    BY <1>1, <1>2, <1>3, PTL DEF HSpec, TCPPortIsKept
=============================================================================
