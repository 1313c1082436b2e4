------------------------ MODULE Tunnel_routing_proofs ------------------------
(***************************************************************************)
(* RoutesAreOwned, for all connections, principals, ports and well-behaved *)
(* clients, and that Tunnel implements HostRegistry.                       *)
(*                                                                         *)
(* The argument: a connection has one forward, whose goroutine therefore   *)
(* is the only one to write c.host, and no request changes c.protocol      *)
(* after it began (QueueSound).  So what the goroutine reads when it ends  *)
(* is what it registered (HandlersSound), and it removes just that         *)
(* (RoutesSound).                                                          *)
(***************************************************************************)
EXTENDS TunnelRegistry, Tunnel_proofs

----------------------------------------------------------------------------
\* The requests of a connection.

\* What a client has sent is the same, or the client is gone.
PeerKept(c) ==
    peer'[c] # Gone => /\ peer[c] # Gone
                       /\ peer'[c].kind = peer[c].kind
                       /\ peer'[c].sent = peer[c].sent
                       /\ Running(c)' => Running(c)

\* The requests of c that wait or have a goroutine are the same, or fewer.
LEMMA QueueKept ==
    ASSUME NEW c \in Conns, QueueSound(c), PeerKept(c), inbox'[c] = inbox[c],
           client'[c].protocol = client[c].protocol,
           client'[c].state = "loading" => client[c].state = "loading",
           client'[c].state = "awaiting" => client[c].state = "awaiting" \/ NextRequest(c, "info"),
           \A m \in Numbers : /\ handler'[c][m].pc # "none" => handler[c][m].pc # "none"
                              /\ Active(c, m)' => Active(c, m)
    PROVE  QueueSound(c)'
  <1>1. InboxInOrder(c)'
    BY DEF QueueSound, InboxInOrder, PeerKept
  <1>2. HandlersStarted(c)'
    BY DEF QueueSound, HandlersStarted, PeerKept
  <1>3. peer'[c] # Gone => Script(c)' = Script(c)
    BY DEF PeerKept, Script
  <1>4. \A m \in Numbers : Forwarding(c, m)' => Forwarding(c, m)
    BY DEF Forwarding
  <1>5. OneForward(c)'
    BY <1>3, <1>4 DEF QueueSound, OneForward, PeerKept
  <1>6. Expected(c)' = Expected(c)
    BY DEF Expected
  <1>7. ProtocolSettled(c)'
    <2>1. Running(c)' => peer'[c] # Gone
      BY DEF Running, Gone
    <2>2. Running(c)' => /\ Running(c)
                         /\ Script(c)' = Script(c) /\ peer'[c].sent = peer[c].sent
      BY <1>3, <2>1 DEF PeerKept
    <2> QED
      BY <1>6, <2>2 DEF QueueSound, ProtocolSettled
  <1>8. AwaitsInfo(c)'
    BY DEF QueueSound, AwaitsInfo, NextRequest
  <1> QED
    BY <1>1, <1>2, <1>5, <1>7, <1>8 DEF QueueSound

LEMMA Inbox ==
    ASSUME TypeOK, NEW c \in Conns
    PROVE  /\ inbox[c] \in Seq(Request)
           /\ Len(inbox[c]) \in Nat
           /\ DOMAIN inbox[c] = 1 .. Len(inbox[c])
           /\ \A i \in DOMAIN inbox[c] : inbox[c][i] \in Request /\ inbox[c][i].n \in Numbers
           /\ inbox[c] # <<>> => 1 \in DOMAIN inbox[c] /\ Head(inbox[c]) = inbox[c][1]
  <1>1. inbox[c] \in Seq(Request)
    BY DEF TypeOK
  <1>2. \A i \in DOMAIN inbox[c] : inbox[c][i] \in Request
    BY <1>1
  <1>3. /\ Len(inbox[c]) \in Nat
        /\ DOMAIN inbox[c] = 1 .. Len(inbox[c])
        /\ inbox[c] # <<>> => 1 \in DOMAIN inbox[c] /\ Head(inbox[c]) = inbox[c][1]
    BY <1>1
  <1>4. \A i \in DOMAIN inbox[c] : inbox[c][i].n \in Numbers
    BY <1>2 DEF Request
  <1> QED
    BY <1>1, <1>2, <1>3, <1>4

LEMMA InboxTail ==
    ASSUME TypeOK, NEW c \in Conns, inbox[c] # <<>>
    PROVE  \A i \in DOMAIN Tail(inbox[c]) :
               /\ i \in Nat \ {0}
               /\ i + 1 \in DOMAIN inbox[c]
               /\ Tail(inbox[c])[i] = inbox[c][i + 1]
  BY Inbox

\* The request loop has taken the head of the queue.
LEMMA QueuePopped ==
    ASSUME TypeOK, NEW c \in Conns, QueueSound(c), PeerKept(c),
           inbox[c] # <<>>, inbox'[c] = Tail(inbox[c]),
           client'[c].protocol = Expected(c), client'[c].state = "serving",
           \A m \in Numbers :
               /\ handler'[c][m].pc # "none" =>
                      handler[c][m].pc # "none" \/ m = Head(inbox[c]).n
               /\ Active(c, m)' =>
                      \/ Active(c, m)
                      \/ m = Head(inbox[c]).n /\ Head(inbox[c]).type = "forward"
    PROVE  QueueSound(c)'
  <1> DEFINE q == inbox[c]
             rest == Tail(inbox[c])
  <1>1. /\ \A i \in DOMAIN rest : i \in Nat \ {0} /\ i + 1 \in DOMAIN q /\ rest[i] = q[i + 1]
        /\ 1 \in DOMAIN q /\ Head(q) = q[1]
        /\ \A i \in DOMAIN q : q[i].n \in Numbers
    BY Inbox, InboxTail
  <1>2. \A i \in DOMAIN rest : q[1].n < rest[i].n
    BY <1>1 DEF QueueSound, InboxInOrder
  <1>3. peer'[c] # Gone => Script(c)' = Script(c)
    BY DEF PeerKept, Script
  <1>4. InboxInOrder(c)'
    <2> SUFFICES ASSUME NEW i \in DOMAIN rest
                 PROVE  /\ \A j \in DOMAIN rest : i < j => rest[i].n < rest[j].n
                        /\ \A n \in Numbers : handler'[c][n].pc # "none" => n < rest[i].n
                        /\ rest[i].type = "hint" => rest[i].n = 1
                        /\ peer'[c] # Gone => rest[i].n <= peer'[c].sent
      BY DEF InboxInOrder
    <2>1. i \in Nat \ {0} /\ i + 1 \in DOMAIN q /\ rest[i] = q[i + 1]
      BY <1>1
    <2>2. ASSUME NEW j \in DOMAIN rest, i < j PROVE rest[i].n < rest[j].n
      <3>1. j \in Nat \ {0} /\ j + 1 \in DOMAIN q /\ rest[j] = q[j + 1] /\ i + 1 < j + 1
        BY <1>1, <2>1, <2>2
      <3> QED
        BY <2>1, <3>1 DEF QueueSound, InboxInOrder
    <2>3. ASSUME NEW n \in Numbers, handler'[c][n].pc # "none" PROVE n < rest[i].n
      <3>1. CASE n = q[1].n
        BY <1>2, <3>1
      <3>2. CASE handler[c][n].pc # "none"
        BY <2>1, <3>2 DEF QueueSound, InboxInOrder
      <3> QED
        BY <1>1, <2>3, <3>1, <3>2
    <2>4. rest[i].type = "hint" => rest[i].n = 1
      BY <2>1 DEF QueueSound, InboxInOrder
    <2>5. peer'[c] # Gone => rest[i].n <= peer'[c].sent
      BY <2>1 DEF QueueSound, InboxInOrder, PeerKept
    <2> QED
      BY <2>2, <2>3, <2>4, <2>5
  <1>5. HandlersStarted(c)'
    <2>1. peer[c] # Gone => q[1].n <= peer[c].sent
      BY <1>1 DEF QueueSound, InboxInOrder
    <2> QED
      BY <1>1, <2>1 DEF QueueSound, HandlersStarted, PeerKept
  <1>6. ASSUME NEW m \in Numbers, Forwarding(c, m)' PROVE Forwarding(c, m)
    <2>1. CASE Active(c, m)'
      BY <1>1, <2>1 DEF Forwarding
    <2>2. CASE \E i \in DOMAIN rest : rest[i].type = "forward" /\ rest[i].n = m
      BY <1>1, <2>2 DEF Forwarding
    <2> QED
      BY <1>6, <2>1, <2>2 DEF Forwarding
  <1>7. OneForward(c)'
    BY <1>3, <1>6 DEF QueueSound, OneForward, PeerKept
  <1>8. \A i \in DOMAIN rest : rest[i].type # "hint"
    BY <1>1, <1>2, <1>4 DEF InboxInOrder, Numbers
  <1>9. Expected(c)' = Expected(c)
    <2>1. rest # <<>> => Head(rest).type # "hint"
      <3>1. rest \in Seq(Request)
        BY InboxHead
      <3>2. rest # <<>> => Head(rest) = rest[1] /\ 1 \in DOMAIN rest
        BY <3>1
      <3> QED
        BY <1>8, <3>2
    <2> QED
      BY <2>1 DEF Expected
  <1>10. ProtocolSettled(c)'
    <2>1. \A i \in DOMAIN rest : rest[i].type = "info" => rest[i].protocol \in {"", Expected(c)}
      BY <1>1 DEF QueueSound, ProtocolSettled
    <2> QED
      <3>1. Running(c)' => peer'[c] # Gone
        BY DEF Running, Gone
      <3>2. Running(c)' => /\ Running(c)
                           /\ Script(c)' = Script(c) /\ peer'[c].sent = peer[c].sent
        BY <1>3, <3>1 DEF PeerKept
      <3> QED
        BY <1>9, <2>1, <3>2 DEF QueueSound, ProtocolSettled
  <1>11. AwaitsInfo(c)'
    BY DEF AwaitsInfo
  <1> QED
    BY <1>4, <1>5, <1>7, <1>10, <1>11 DEF QueueSound

\* The transport is lost, and with it requests from the end of the queue.
LEMMA QueueCut ==
    ASSUME TypeOK, NEW c \in Conns, QueueSound(c), peer'[c] = Gone,
           NEW k \in 0 .. Len(inbox[c]), inbox'[c] = SubSeq(inbox[c], 1, k),
           client'[c].protocol = client[c].protocol,
           client'[c].state = client[c].state, client[c].state = "awaiting" => k # 0,
           \A m \in Numbers : handler'[c][m] = handler[c][m]
    PROVE  QueueSound(c)'
  <1> DEFINE q == inbox[c]
             kept == SubSeq(inbox[c], 1, k)
  <1>1. /\ q \in Seq(Request) /\ Len(q) \in Nat /\ DOMAIN q = 1 .. Len(q)
        /\ q # <<>> => 1 \in DOMAIN q /\ Head(q) = q[1]
    BY Inbox
  <1>2. /\ kept \in Seq(Request) /\ Len(kept) = k /\ DOMAIN kept = 1 .. k
        /\ \A i \in 1 .. k : kept[i] = q[i]
    BY <1>1
  <1>3. kept # <<>> => Head(kept) = kept[1] /\ 1 \in DOMAIN kept
    BY <1>2
  <1> HIDE DEF kept
  <1>4. \A i \in DOMAIN kept : i \in DOMAIN q /\ kept[i] = q[i]
    BY <1>1, <1>2
  <1>5. inbox'[c] = kept
    BY DEF kept
  <1>6. InboxInOrder(c)'
    BY <1>4, <1>5 DEF QueueSound, InboxInOrder
  <1>7. HandlersStarted(c)'
    BY DEF QueueSound, HandlersStarted
  <1>8. \A m \in Numbers : Forwarding(c, m)' => Forwarding(c, m)
    BY <1>4, <1>5 DEF Forwarding, Active
  <1>9. OneForward(c)'
    BY <1>8 DEF QueueSound, OneForward
  <1>10. ProtocolSettled(c)'
    <2>1. ~Running(c)'
      BY DEF Running, Gone
    <2>2. kept # <<>> => q # <<>> /\ Head(kept) = Head(q)
      BY <1>1, <1>3, <1>4
    <2>3. ASSUME NEW i \in DOMAIN kept, kept[i].type = "info"
          PROVE  kept[i].protocol \in {"", Expected(c)'}
      <3>1. kept # <<>>
        BY <1>2, <2>3
      <3>2. Expected(c)' = Expected(c)
        BY <1>5, <2>2, <3>1 DEF Expected
      <3> QED
        BY <1>4, <2>3, <3>2 DEF QueueSound, ProtocolSettled
    <2> QED
      BY <1>5, <2>1, <2>3 DEF ProtocolSettled
  <1>11. AwaitsInfo(c)'
    <2>1. k # 0 => kept # <<>> /\ Head(kept) = Head(q)
      BY <1>1, <1>2, <1>3, <1>4
    <2> QED
      BY <1>5, <2>1 DEF QueueSound, AwaitsInfo
  <1> QED
    BY <1>6, <1>7, <1>9, <1>10, <1>11 DEF QueueSound

\* A connection that has just been set up, or has never been.
LEMMA QueueEmpty ==
    ASSUME NEW c \in Conns, inbox'[c] = <<>>, client'[c].protocol = "http", client'[c].state # "awaiting",
           \A m \in Numbers : handler'[c][m].pc = "none",
           peer'[c] # Gone => peer'[c].sent = 0
    PROVE  QueueSound(c)'
  <1>1. DOMAIN inbox'[c] = {}
    OBVIOUS
  <1>2. InboxInOrder(c)' /\ HandlersStarted(c)'
    BY <1>1 DEF InboxInOrder, HandlersStarted
  <1>3. OneForward(c)'
    BY <1>1 DEF OneForward, Forwarding, Active
  <1>4. ProtocolSettled(c)'
    <2>1. Expected(c)' = "http"
      BY DEF Expected
    <2>2. Running(c)' => peer'[c].sent = 0
      BY DEF Running, Gone
    <2>3. Running(c)' => ProtocolAfter(Script(c), peer[c].sent)' = "http"
      BY <2>2 DEF ProtocolAfter
    <2> QED
      BY <1>1, <2>1, <2>3 DEF ProtocolSettled
  <1> QED
    BY <1>2, <1>3, <1>4 DEF QueueSound, AwaitsInfo

LEMMA Appended ==
    ASSUME NEW S, NEW q \in Seq(S), NEW e \in S
    PROVE  /\ DOMAIN Append(q, e) = 1 .. Len(q) + 1
           /\ \A i \in DOMAIN q : Append(q, e)[i] = q[i]
           /\ Append(q, e)[Len(q) + 1] = e
           /\ Append(q, e) # <<>>
           /\ Head(Append(q, e)) = Append(q, e)[1]
  <1>1. DOMAIN Append(q, e) = 1 .. Len(q) + 1 /\ DOMAIN q = 1 .. Len(q)
    BY AppendProperties, LenProperties
  <1>2. /\ Append(q, e) # <<>>
        /\ Append(q, e) \in Seq(S)
        /\ \A i \in 1 .. Len(q) : Append(q, e)[i] = q[i]
        /\ Append(q, e)[Len(q) + 1] = e
    BY AppendProperties
  <1>3. Head(Append(q, e)) = Append(q, e)[1]
    BY <1>2, HeadTailProperties
  <1> QED
    BY <1>1, <1>2, <1>3

\* A well-behaved client has sent one more request.
LEMMA QueueGrows ==
    ASSUME TypeOK, WellBehavedClients, NEW c \in Conns, QueueSound(c), peer[c] # Gone,
           NEW req \in Request, req.n = peer[c].sent + 1,
           inbox'[c] = Append(inbox[c], req), peer'[c] # Gone,
           peer'[c].kind = peer[c].kind, peer'[c].sent = peer[c].sent + 1,
           \/ /\ Running(c) /\ peer[c].sent < Len(Script(c))
              /\ req.type = Script(c)[peer[c].sent + 1].type
              /\ req.protocol = Script(c)[peer[c].sent + 1].protocol
           \/ req.type = "cancel" /\ ~Running(c)',
           client'[c] = client[c],
           \A m \in Numbers : handler'[c][m] = handler[c][m]
    PROVE  QueueSound(c)'
  <1> DEFINE q == inbox[c]
             longer == Append(q, req)
             sent == peer[c].sent
             script == Script(c)
             scripted == /\ Running(c) /\ sent < Len(script)
                         /\ req.type = script[sent + 1].type
                         /\ req.protocol = script[sent + 1].protocol
  <1>1. /\ q \in Seq(Request) /\ Len(q) \in Nat /\ DOMAIN q = 1 .. Len(q)
        /\ \A i \in DOMAIN q : q[i].n \in Numbers
        /\ q # <<>> => 1 \in DOMAIN q /\ Head(q) = q[1]
    BY Inbox
  <1>2. /\ DOMAIN longer = 1 .. Len(q) + 1
        /\ \A i \in DOMAIN q : longer[i] = q[i]
        /\ longer[Len(q) + 1] = req
        /\ longer # <<>> /\ Head(longer) = longer[1]
    BY <1>1, Appended
  <1>3. /\ sent \in Nat /\ script \in Seq(Step) /\ Len(script) \in Nat
        /\ DOMAIN script = 1 .. Len(script)
        /\ peer[c].kind \in Kinds
    BY PeerFacts DEF Peer
  <1>4. WellBehaved(peer[c].kind)
    BY <1>3 DEF WellBehavedClients
  <1>5. Script(c)' = script /\ peer[c].kind.script = script
    BY DEF Script
  <1>6. inbox'[c] = longer /\ peer'[c].sent = sent + 1 /\ req.n = sent + 1
    OBVIOUS
  <1>7. scripted \/ (req.type = "cancel" /\ ~Running(c)')
    BY Zenon
  <1>8. \A i \in DOMAIN q : q[i].n <= sent
    BY DEF QueueSound, InboxInOrder
  <1>9. \A m \in Numbers : handler'[c][m].pc # "none" => m <= sent
    BY DEF QueueSound, HandlersStarted
  <1>10. /\ \A m \in Numbers : Forwarding(c, m) => m \in Forwards(script) /\ m <= sent
         /\ Running(c) => Expected(c) = ProtocolAfter(script, sent)
    BY DEF QueueSound, OneForward, ProtocolSettled
  <1>11. Running(c) <=> peer[c].status = "running"
    BY DEF Running
  <1> HIDE DEF longer, sent, script
  <1>12. \A i \in DOMAIN longer : i \in DOMAIN q \/ i = Len(q) + 1
    BY <1>1, <1>2
  <1>13. scripted => sent + 1 \in DOMAIN script
    BY <1>3
  <1>14. ASSUME scripted
         PROVE  /\ req.type = "hint" => sent = 0
                /\ req.type = "forward" => Forwards(script) = {sent + 1}
                /\ req.type = "info" => req.protocol \in {"", ProtocolAfter(script, sent + 1)}
    <2> DEFINE i == sent + 1
    <2>1. i \in DOMAIN script /\ req.type = script[i].type /\ req.protocol = script[i].protocol
      BY <1>13, <1>14
    <2>2. i = 1 => sent = 0
      BY <1>3
    <2> HIDE DEF i
    <2>3. /\ req.type = "hint" => sent = 0
          /\ req.type = "forward" => Forwards(script) = {i}
          /\ req.type = "info" => req.protocol \in {"", ProtocolAfter(script, i)}
      BY <1>4, <1>5, <2>1, <2>2 DEF WellBehaved
    <2> QED
      BY <2>3 DEF i
  <1>15. req.type = "hint" => sent = 0
    BY <1>7, <1>14
  <1>16. req.type = "forward" => Forwards(script) = {sent + 1}
    BY <1>7, <1>14
  <1>17. req.type = "info" => req.protocol \in {"", ProtocolAfter(script, sent + 1)}
    BY <1>7, <1>14
  <1>18. InboxInOrder(c)'
    <2>1. ASSUME NEW i \in DOMAIN longer
          PROVE  /\ \A n \in Numbers : handler'[c][n].pc # "none" => n < longer[i].n
                 /\ longer[i].type = "hint" => longer[i].n = 1
                 /\ longer[i].n <= sent + 1
      <3>1. CASE i \in DOMAIN q
        <4>1. longer[i] = q[i] /\ q[i].n \in Nat /\ q[i].n <= sent
          BY <1>1, <1>2, <1>8, <3>1 DEF Numbers
        <4>2. /\ \A n \in Numbers : handler'[c][n].pc # "none" => n < q[i].n
              /\ q[i].type = "hint" => q[i].n = 1
          BY <3>1 DEF QueueSound, InboxInOrder
        <4> QED
          BY <1>3, <4>1, <4>2
      <3>2. CASE i = Len(q) + 1
        <4>1. longer[i] = req
          BY <1>2, <3>2
        <4>2. \A n \in Numbers : handler'[c][n].pc # "none" => n < sent + 1
          BY <1>3, <1>9 DEF Numbers
        <4> QED
          BY <1>3, <1>6, <1>15, <4>1, <4>2
      <3> QED
        BY <1>12, <3>1, <3>2
    <2>2. ASSUME NEW i \in DOMAIN longer, NEW j \in DOMAIN longer, i < j
          PROVE  longer[i].n < longer[j].n
      <3>1. i \in DOMAIN q
        BY <1>1, <1>2, <2>2
      <3>2. CASE j \in DOMAIN q
        BY <1>2, <2>2, <3>1, <3>2 DEF QueueSound, InboxInOrder
      <3>3. CASE j = Len(q) + 1
        <4>1. q[i].n \in Nat /\ q[i].n <= sent /\ longer[i] = q[i]
          BY <1>1, <1>2, <1>8, <3>1 DEF Numbers
        <4> QED
          BY <1>2, <1>3, <1>6, <3>3, <4>1
      <3> QED
        BY <1>12, <3>2, <3>3
    <2> QED
      BY <1>6, <2>1, <2>2 DEF InboxInOrder
  <1>19. HandlersStarted(c)'
    <2>1. \A m \in Numbers : handler'[c][m].pc # "none" => m <= sent + 1
      BY <1>3, <1>9 DEF Numbers
    <2> QED
      BY <1>6, <2>1 DEF QueueSound, HandlersStarted
  <1>20. ASSUME NEW m \in Numbers, Forwarding(c, m)'
         PROVE  Forwarding(c, m) \/ (m = sent + 1 /\ req.type = "forward")
    <2>1. CASE Active(c, m)'
      <3>1. Active(c, m)
        BY <2>1 DEF Active
      <3> QED
        BY <3>1 DEF Forwarding
    <2>2. ASSUME NEW i \in DOMAIN longer, longer[i].type = "forward" /\ longer[i].n = m
          PROVE  Forwarding(c, m) \/ (m = sent + 1 /\ req.type = "forward")
      <3>2. CASE i \in DOMAIN q
        BY <1>2, <2>2, <3>2 DEF Forwarding
      <3>3. CASE i = Len(q) + 1
        BY <1>2, <1>6, <2>2, <3>3
      <3> QED
        BY <1>12, <3>2, <3>3
    <2> QED
      BY <1>6, <1>20, <2>1, <2>2 DEF Forwarding
  <1>21. OneForward(c)'
    <2>1. ASSUME NEW m \in Numbers, Forwarding(c, m)
          PROVE  req.type # "forward" /\ m \in Forwards(script) /\ m <= sent
      <3>1. m \in Forwards(script) /\ m <= sent /\ m # sent + 1
        BY <1>3, <1>10, <2>1 DEF Numbers
      <3> QED
        BY <1>16, <3>1
    <2>2. ASSUME NEW n \in Numbers, Forwarding(c, n)', NEW m \in Numbers, Forwarding(c, m)'
          PROVE  m = n
      BY <1>20, <2>1, <2>2 DEF QueueSound, OneForward
    <2>3. ASSUME NEW n \in Numbers, Forwarding(c, n)'
          PROVE  n \in Forwards(script) /\ n <= sent + 1
      <3>1. CASE Forwarding(c, n)
        BY <1>3, <2>1, <3>1 DEF Numbers
      <3>2. CASE n = sent + 1 /\ req.type = "forward"
        BY <1>3, <1>16, <3>2
      <3> QED
        BY <1>20, <2>3, <3>1, <3>2
    <2> QED
      BY <1>5, <1>6, <2>2, <2>3 DEF OneForward
  <1>22. q # <<>> => Expected(c)' = Expected(c) /\ sent > 0
    <2> SUFFICES ASSUME q # <<>> PROVE Expected(c)' = Expected(c) /\ sent > 0
      OBVIOUS
    <2>1. Head(longer) = Head(q)
      BY <1>1, <1>2
    <2>2. q[1].n \in Numbers /\ q[1].n <= sent
      BY <1>1, <1>8
    <2> QED
      BY <1>2, <1>3, <1>6, <2>1, <2>2 DEF Expected, Numbers
  <1>23. ASSUME scripted PROVE Expected(c)' = ProtocolAfter(script, sent + 1)
    <2>1. sent > 0 => ProtocolAfter(script, sent + 1) = ProtocolAfter(script, sent)
      BY <1>3 DEF ProtocolAfter
    <2>2. Expected(c) = ProtocolAfter(script, sent)
      BY <1>10, <1>23
    <2>3. CASE q # <<>>
      BY <1>22, <2>1, <2>2, <2>3
    <2>4. CASE q = <<>>
      <3>1. Head(longer) = req
        <4>1. Len(q) = 0
          BY <2>4
        <4> QED
          BY <1>2, <4>1
      <3>2. Expected(c) = client[c].protocol
        BY <2>4 DEF Expected
      <3>3. Expected(c)' = IF req.type = "hint" /\ req.protocol \in {"tcp", "http"}
                           THEN req.protocol ELSE client[c].protocol
        BY <1>2, <1>6, <3>1 DEF Expected
      <3>4. CASE sent > 0
        BY <1>15, <2>1, <2>2, <3>2, <3>3, <3>4
      <3>5. CASE sent = 0
        <4>1. client[c].protocol = "http"
          BY <2>2, <3>2, <3>5 DEF ProtocolAfter
        <4>2. 1 \in DOMAIN script /\ req.type = script[1].type /\ req.protocol = script[1].protocol
          BY <1>13, <1>23, <3>5
        <4> QED
          BY <3>3, <3>5, <4>1, <4>2 DEF ProtocolAfter
      <3> QED
        BY <1>3, <3>4, <3>5
    <2> QED
      BY <2>3, <2>4
  <1>24. ProtocolSettled(c)'
    <2>1. Running(c)' => Expected(c)' = ProtocolAfter(script, sent + 1)
      BY <1>7, <1>23
    <2>2. ASSUME NEW i \in DOMAIN longer, longer[i].type = "info"
          PROVE  longer[i].protocol \in {"", Expected(c)'}
      <3>1. CASE i \in DOMAIN q
        <4>1. q # <<>> /\ longer[i] = q[i]
          BY <1>1, <1>2, <3>1
        <4> QED
          BY <1>22, <2>2, <3>1, <4>1 DEF QueueSound, ProtocolSettled
      <3>2. CASE i = Len(q) + 1
        <4>1. longer[i] = req /\ scripted
          BY <1>2, <1>7, <2>2, <3>2
        <4> QED
          BY <1>17, <1>23, <2>2, <4>1
      <3> QED
        BY <1>12, <3>1, <3>2
    <2> QED
      BY <1>5, <1>6, <2>1, <2>2 DEF ProtocolSettled
  <1>25. AwaitsInfo(c)'
    <2>1. q # <<>> => Head(longer) = Head(q)
      BY <1>1, <1>2
    <2> QED
      BY <1>2, <1>6, <2>1 DEF QueueSound, AwaitsInfo
  <1> QED
    BY <1>18, <1>19, <1>21, <1>24, <1>25 DEF QueueSound
----------------------------------------------------------------------------
\* What a step does not touch.

LEMMA ConnectionKept ==
    ASSUME NEW c \in Conns, QueueSound(c), HandlersSound(c),
           peer'[c] = peer[c], inbox'[c] = inbox[c], client'[c] = client[c],
           \A m \in Numbers : handler'[c][m] = handler[c][m]
    PROVE  QueueSound(c)' /\ HandlersSound(c)'
  <1>1. PeerKept(c)
    BY DEF PeerKept, Running
  <1>2. QueueSound(c)'
    BY <1>1, QueueKept DEF Active
  <1>3. \A m \in Numbers : HandlerSound(c, m) <=> HandlerSound(c, m)'
    BY DEF HandlerSound, Registered, MainHost, Alternatives
  <1>4. HandlersSound(c)'
    BY <1>3 DEF HandlersSound, MainHost, Alternatives
  <1> QED
    BY <1>2, <1>4

LEMMA RegistrationsKept ==
    ASSUME RoutesSound, UNCHANGED proxies,
           \A c \in Conns, n \in Numbers :
               /\ Registered(c, n)' <=> Registered(c, n)
               /\ Registered(c, n) => /\ handler'[c][n].host = handler[c][n].host
                                      /\ handler'[c][n].port = handler[c][n].port
    PROVE  RoutesSound'
  BY DEF RoutesSound, Exists, Get

\* The goroutine of a forward is the only one that has to do with its host.
LEMMA ForwardAlone ==
    ASSUME NEW c \in Conns, NEW n \in Numbers, QueueSound(c), Active(c, n)
    PROVE  \A m \in Numbers : Active(c, m) => m = n
  BY DEF QueueSound, OneForward, Forwarding

\* Nothing races with the goroutine of a forward.
LEMMA Reads ==
    ASSUME TypeOK, NEW c \in Conns, NEW n \in Numbers, QueueSound(c), Active(c, n)
    PROVE  /\ ProtocolReads(c) = {client[c].protocol}
           /\ handler[c][n].pc # "assign" => HostReads(c) = {client[c].host}
  <1>1. WritesProtocol(c) \subseteq {client[c].protocol}
    <2> SUFFICES ASSUME inbox[c] # <<>>
                 PROVE  \/ Head(inbox[c]).type \notin {"hint", "info"}
                        \/ /\ Head(inbox[c]).type = "info"
                           /\ Head(inbox[c]).protocol \in {"", client[c].protocol}
      BY DEF WritesProtocol
    <2>1. /\ 1 \in DOMAIN inbox[c] /\ Head(inbox[c]) = inbox[c][1]
      BY Inbox
    <2>2. inbox[c][1].n # 1
      <3>1. n < inbox[c][1].n
        BY <2>1 DEF QueueSound, InboxInOrder, Active
      <3> QED
        BY <3>1 DEF Numbers
    <2>3. inbox[c][1].type # "hint"
      BY <2>1, <2>2 DEF QueueSound, InboxInOrder
    <2>4. Expected(c) = client[c].protocol
      BY <2>1, <2>3 DEF Expected
    <2> QED
      BY <2>1, <2>3, <2>4 DEF QueueSound, ProtocolSettled
  <1>2. ProtocolReads(c) = {client[c].protocol}
    BY <1>1 DEF ProtocolReads
  <1>3. ASSUME handler[c][n].pc # "assign"
        PROVE  HostReads(c) = {client[c].host}
    <2>1. \A m \in Numbers : handler[c][m].pc # "assign"
      BY <1>3, ForwardAlone DEF Active
    <2> QED
      BY <2>1 DEF HostReads
  <1> QED
    BY <1>2, <1>3

\* A goroutine that serves no forward has nothing open.
LEMMA InactiveSound ==
    ASSUME NEW c \in Conns, NEW n \in Numbers, ~Active(c, n),
           handler[c][n].port = 0, handler[c][n].host = NoHost
    PROVE  HandlerSound(c, n)
  BY DEF HandlerSound, Active, Registered

\* The goroutine (c, n) of a forward has made a step.
LEMMA ForwardStep ==
    ASSUME NEW c \in Conns, NEW n \in Numbers, Active(c, n), NEW new,
           \A d \in Conns : QueueSound(d) /\ HandlersSound(d),
           HandlerBecomes(c, n, new), UNCHANGED <<peer, inbox>>,
           client'[c].protocol = client[c].protocol,
           client'[c].state = client[c].state,
           client'[c].host \in {MainHost(c)} \cup Alternatives(c),
           \A d \in Conns : d # c => client'[d] = client[d],
           HandlerSound(c, n)'
    PROVE  \A d \in Conns : QueueSound(d)' /\ HandlersSound(d)'
  <1>1. ASSUME NEW d \in Conns, d # c PROVE QueueSound(d)' /\ HandlersSound(d)'
    BY <1>1, ConnectionKept DEF HandlerBecomes
  <1>2. QueueSound(c)'
    <2>1. PeerKept(c)
      BY DEF PeerKept, Running
    <2>2. \A m \in Numbers : /\ handler'[c][m].pc # "none" => handler[c][m].pc # "none"
                             /\ Active(c, m)' => Active(c, m)
      BY DEF HandlerBecomes, Active
    <2> QED
      BY <2>1, <2>2, QueueKept
  <1>3. ASSUME NEW m \in Numbers, m # n PROVE HandlerSound(c, m)'
    <2>1. ~Active(c, m) /\ handler'[c][m] = handler[c][m]
      BY <1>3, ForwardAlone DEF HandlerBecomes
    <2>2. handler[c][m].port = 0 /\ handler[c][m].host = NoHost
      BY <2>1 DEF HandlersSound, HandlerSound, Active
    <2> QED
      BY <2>1, <2>2 DEF HandlerSound, Active, Registered
  <1>4. HandlersSound(c)'
    BY <1>3 DEF HandlersSound, MainHost, Alternatives
  <1> QED
    BY <1>1, <1>2, <1>4

\* It neither registered its host nor removed it.
LEMMA UnroutedStep ==
    ASSUME Sound, NEW c \in Conns, NEW n \in Numbers, Active(c, n), NEW new,
           HandlerBecomes(c, n, new), UNCHANGED <<peer, inbox, proxies>>,
           client'[c].protocol = client[c].protocol,
           client'[c].state = client[c].state,
           client'[c].host \in {MainHost(c)} \cup Alternatives(c),
           \A d \in Conns : d # c => client'[d] = client[d],
           HandlerSound(c, n)',
           Registered(c, n)' <=> Registered(c, n),
           Registered(c, n) => new.host = handler[c][n].host /\ new.port = handler[c][n].port
    PROVE  Sound'
  <1>1. \A d \in Conns : QueueSound(d)' /\ HandlersSound(d)'
    BY ForwardStep DEF Sound
  <1>2. RoutesSound'
    BY RegistrationsKept DEF Sound, HandlerBecomes, Registered
  <1> QED
    BY <1>1, <1>2 DEF Sound

\* The goroutine of a cancel, or of a forward that is refused, has ended.
LEMMA OtherGoroutineEnds ==
    ASSUME Sound, NEW c \in Conns, NEW n \in Numbers, ~Active(c, n), handler[c][n].pc # "none",
           HandlerBecomes(c, n, [pc |-> "none", port |-> 0, host |-> NoHost]),
           UNCHANGED <<peer, inbox, proxies>>,
           client'[c].protocol = client[c].protocol,
           client'[c].state = client[c].state,
           client'[c].host = client[c].host,
           \A d \in Conns : d # c => client'[d] = client[d]
    PROVE  Sound'
  <1>1. ASSUME NEW d \in Conns, d # c PROVE QueueSound(d)' /\ HandlersSound(d)'
    BY <1>1, ConnectionKept DEF Sound, HandlerBecomes
  <1>2. QueueSound(c)'
    <2>1. PeerKept(c)
      BY DEF PeerKept, Running
    <2>2. \A m \in Numbers : /\ handler'[c][m].pc # "none" => handler[c][m].pc # "none"
                             /\ Active(c, m)' => Active(c, m)
      BY DEF HandlerBecomes, Active
    <2> QED
      BY <2>1, <2>2, QueueKept DEF Sound
  <1>3. HandlerSound(c, n)'
    BY DEF HandlerBecomes, HandlerSound, Registered
  <1>4. ASSUME NEW m \in Numbers, m # n PROVE HandlerSound(c, m)'
    <2>1. HandlerSound(c, m) /\ handler'[c][m] = handler[c][m]
      BY <1>4 DEF Sound, HandlersSound, HandlerBecomes
    <2> QED
      BY <2>1 DEF HandlerSound, Registered, MainHost, Alternatives
  <1>5. HandlersSound(c)'
    BY <1>3, <1>4 DEF Sound, HandlersSound, MainHost, Alternatives
  <1>6. RoutesSound'
    BY RegistrationsKept DEF Sound, HandlerBecomes, Registered, Active
  <1> QED
    BY <1>1, <1>2, <1>5, <1>6 DEF Sound

LEMMA LastPort == ASSUME TypeOK, NEW c \in Conns PROVE client[c].lastPort \in Nat
  <1>1. client[c] \in Client
    BY DEF TypeOK
  <1>2. client[c].lastPort \in Ports \cup {0}
    BY <1>1 DEF Client
  <1>3. \A port \in Ports \cup {0} : port \in Nat
    BY PortFacts
  <1> QED
    BY <1>2, <1>3

\* The goroutine (c, n) has registered a host that was free.
LEMMA RouteAdded ==
    ASSUME proxies \in [Host -> Ports \cup {Absent}], Sound,
           NEW c \in Conns, NEW n \in Numbers, NEW new, ~Registered(c, n),
           HandlerBecomes(c, n, new), Registered(c, n)',
           NEW used \in Host, ~Exists(proxies, used), NEW port, port # 0,
           proxies' = [proxies EXCEPT ![used] = port],
           handler'[c][n].host = used, handler'[c][n].port = port
    PROVE  RoutesSound'
  <1>1. ASSUME NEW d \in Conns, NEW m \in Numbers, d # c \/ m # n, Registered(d, m)'
        PROVE  /\ Registered(d, m) /\ handler'[d][m] = handler[d][m]
               /\ handler[d][m].host # used
               /\ proxies'[handler[d][m].host] = handler[d][m].port
    <2>1. Registered(d, m) /\ handler'[d][m] = handler[d][m]
      BY <1>1 DEF HandlerBecomes, Registered
    <2>2. proxies[handler[d][m].host] = handler[d][m].port /\ handler[d][m].port # 0
      BY <2>1 DEF Sound, RoutesSound, HandlersSound, HandlerSound
    <2>3. handler[d][m].host # used
      BY <2>2 DEF Exists, Get, Absent
    <2>4. handler[d][m].host \in Host
      BY <2>1, HostFacts DEF Sound, HandlersSound, HandlerSound
    <2> QED
      BY <2>1, <2>2, <2>3, <2>4
  <1>2. ASSUME NEW host \in Host, Exists(proxies, host)'
        PROVE  \E d \in Conns, m \in Numbers :
                   Registered(d, m)' /\ handler'[d][m].host = host
    <2>1. CASE host = used
      BY <2>1
    <2>2. CASE host # used
      <3>1. Exists(proxies, host)
        BY <1>2, <2>2 DEF Exists, Get
      <3>2. PICK d \in Conns, m \in Numbers : Registered(d, m) /\ handler[d][m].host = host
        BY <3>1 DEF Sound, RoutesSound
      <3> QED
        BY <3>2 DEF HandlerBecomes, Registered
    <2> QED
      BY <2>1, <2>2
  <1>3. ASSUME NEW d \in Conns, NEW m \in Numbers, Registered(d, m)'
        PROVE  (proxies[handler[d][m].host] = handler[d][m].port)'
    BY <1>1, <1>3
  <1>4. ASSUME NEW d \in Conns, NEW e \in Conns, NEW m \in Numbers, NEW k \in Numbers,
               Registered(d, m)', Registered(e, k)', (handler[d][m].host = handler[e][k].host)'
        PROVE  d = e /\ m = k
    BY <1>1, <1>4 DEF Sound, RoutesSound
  <1>5. (\A host \in Host : Exists(proxies, host) =>
             \E d \in Conns, m \in Numbers : Registered(d, m) /\ handler[d][m].host = host)'
    BY <1>2
  <1>6. (\A d, e \in Conns, m, k \in Numbers :
            (Registered(d, m) /\ Registered(e, k) /\ handler[d][m].host = handler[e][k].host)
                => d = e /\ m = k)'
    BY <1>4
  <1> QED
    BY <1>3, <1>5, <1>6 DEF RoutesSound

\* The goroutine (c, n) has removed the route it had registered.
LEMMA RouteRemoved ==
    ASSUME proxies \in [Host -> Ports \cup {Absent}], Sound,
           NEW c \in Conns, NEW n \in Numbers, NEW new, Registered(c, n),
           HandlerBecomes(c, n, new), ~Registered(c, n)',
           proxies' = Remove(proxies, handler[c][n].host)
    PROVE  RoutesSound'
  <1> DEFINE gone == handler[c][n].host
  <1>1. ASSUME NEW d \in Conns, NEW m \in Numbers, Registered(d, m)'
        PROVE  /\ Registered(d, m) /\ handler'[d][m] = handler[d][m]
               /\ handler[d][m].host # gone
    BY <1>1 DEF HandlerBecomes, Registered, Sound, RoutesSound
  <1>2. ASSUME NEW host \in Host, Exists(proxies, host)'
        PROVE  \E d \in Conns, m \in Numbers :
                   Registered(d, m)' /\ handler'[d][m].host = host
    <2>1. host # gone /\ Exists(proxies, host)
      BY <1>2 DEF Exists, Get, Remove, Absent
    <2>2. PICK d \in Conns, m \in Numbers : Registered(d, m) /\ handler[d][m].host = host
      BY <2>1 DEF Sound, RoutesSound
    <2>3. d # c \/ m # n
      BY <2>1, <2>2
    <2> QED
      BY <2>2, <2>3 DEF HandlerBecomes, Registered
  <1>3. ASSUME NEW d \in Conns, NEW m \in Numbers, Registered(d, m)'
        PROVE  (proxies[handler[d][m].host] = handler[d][m].port)'
    <2>1. handler[d][m].host \in Host
      BY <1>1, <1>3, HostFacts DEF Sound, HandlersSound, HandlerSound
    <2>2. proxies[handler[d][m].host] = handler[d][m].port
      BY <1>1, <1>3 DEF Sound, RoutesSound
    <2> QED
      BY <1>1, <1>3, <2>1, <2>2 DEF Remove
  <1>4. ASSUME NEW d \in Conns, NEW e \in Conns, NEW m \in Numbers, NEW k \in Numbers,
               Registered(d, m)', Registered(e, k)', (handler[d][m].host = handler[e][k].host)'
        PROVE  d = e /\ m = k
    BY <1>1, <1>4 DEF Sound, RoutesSound
  <1> QED
    BY <1>2, <1>3, <1>4 DEF RoutesSound

LEMMA GoroutineRouting ==
    ASSUME TypeInv, Sound, NEW c \in Conns, NEW n \in Numbers, GoroutineStep(c, n)
    PROVE  Sound'
  <1> DEFINE h == handler[c][n]
  <1> USE HostFacts, PortFacts
  <1>1. TypeOK /\ h \in Handler /\ client[c] \in Client
    BY DEF TypeInv, TypeOK
  <1>2. UNCHANGED <<peer, inbox>>
    BY DEF GoroutineStep, Goroutine, Refuse, Begin, AcquirePort, NoLuck, FailForward, Opened,
           PersistPort, RegisterHost, AssignHost, AnswerForward, StopServing, UnregisterHost,
           CloseListener, RunCancel
  <1>3. /\ QueueSound(c) /\ HandlerSound(c, n) /\ RoutesSound
        /\ client[c].host \in {MainHost(c)} \cup Alternatives(c)
    BY DEF Sound, HandlersSound
  <1>4. Active(c, n) => /\ ProtocolReads(c) = {client[c].protocol}
                        /\ h.pc # "assign" => HostReads(c) = {client[c].host}
    BY <1>1, <1>3, Reads
  <1>5. ASSUME UNCHANGED client
        PROVE  /\ client'[c].protocol = client[c].protocol
               /\ client'[c].state = client[c].state
               /\ client'[c].host = client[c].host
               /\ \A d \in Conns : d # c => client'[d] = client[d]
    BY <1>5
  <1>6. CASE Refuse(c, n)
    <2>1. HandlerBecomes(c, n, [pc |-> "none", port |-> 0, host |-> NoHost])
      BY <1>1, <1>6, HandlerUpdate DEF Refuse, End, TypeOK, Handler
    <2>2. UNCHANGED <<client, proxies>> /\ h.pc = "refuse"
      BY <1>6 DEF Refuse
    <2> QED
      BY <1>2, <1>5, <2>1, <2>2, OtherGoroutineEnds DEF Active
  <1>7. CASE RunCancel(c, n)
    <2>1. HandlerBecomes(c, n, [pc |-> "none", port |-> 0, host |-> NoHost])
      BY <1>1, <1>7, HandlerUpdate DEF RunCancel, End, TypeOK, Handler
    <2> DEFINE fields == [client[c] EXCEPT !.cancelled = TRUE]
    <2>2. /\ fields \in Client /\ fields.protocol = client[c].protocol
          /\ fields.state = client[c].state /\ fields.host = client[c].host
      BY <1>1 DEF Client
    <2>3. ClientBecomes(c, fields)
      BY <1>1, <1>7, <2>2, ClientUpdate DEF RunCancel, TypeOK
    <2>4. UNCHANGED proxies /\ h.pc = "cancel"
      BY <1>7 DEF RunCancel
    <2> HIDE DEF fields
    <2> QED
      BY <1>2, <2>1, <2>2, <2>3, <2>4, OtherGoroutineEnds DEF Active, ClientBecomes
  <1>8. CASE Begin(c, n)
    <2>1. h.pc = "begin" /\ UNCHANGED <<client, proxies>>
      BY <1>8 DEF Begin
    <2>2. PICK protocol \in ProtocolReads(c) :
              \/ /\ Become(c, n, "opened", client[c].lastPort, NoHost)
                 /\ InTCPRange(client[c].lastPort)
              \/ Goto(c, n, "tcpPort") \/ Goto(c, n, "httpPort") \/ Goto(c, n, "failed")
      BY <1>8 DEF Begin
    <2>3. client[c].lastPort \in Nat
      BY <1>1, LastPort
    <2>4. InTCPRange(client[c].lastPort) => client[c].lastPort # 0
      <3>1. PortStart \in Nat /\ PortStart # 0
        BY SshdAssumption
      <3> QED
        BY <2>3, <3>1 DEF InTCPRange
    <2>5. h.port = 0 /\ h.host = NoHost
      BY <1>3, <2>1 DEF HandlerSound
    <2>6. PICK new : /\ HandlerBecomes(c, n, new) /\ new.host = NoHost
                     /\ \/ new.pc = "opened" /\ new.port # 0
                        \/ new.pc \in {"tcpPort", "httpPort"} /\ new.port = 0
                        \/ new.pc = "failed"
      <3>1. CASE Become(c, n, "opened", client[c].lastPort, NoHost) /\ InTCPRange(client[c].lastPort)
        <4>1. HandlerBecomes(c, n, [pc |-> "opened", port |-> client[c].lastPort, host |-> NoHost])
          BY <1>1, <3>1, HandlerUpdate DEF TypeOK, Handler, Client
        <4> QED
          BY <2>4, <3>1, <4>1
      <3>2. CASE Goto(c, n, "tcpPort") \/ Goto(c, n, "httpPort") \/ Goto(c, n, "failed")
        <4>1. \/ HandlerBecomes(c, n, [pc |-> "tcpPort", port |-> h.port, host |-> h.host])
              \/ HandlerBecomes(c, n, [pc |-> "httpPort", port |-> h.port, host |-> h.host])
              \/ HandlerBecomes(c, n, [pc |-> "failed", port |-> h.port, host |-> h.host])
          BY <1>1, <3>2, HandlerUpdate DEF Goto, TypeOK, Handler
        <4> QED
          BY <2>5, <4>1
      <3> QED
        BY <2>2, <3>1, <3>2
    <2>7. HandlerSound(c, n)' /\ ~Registered(c, n)'
      BY <2>6 DEF HandlerBecomes, HandlerSound, Registered
    <2> QED
      BY <1>2, <1>3, <1>5, <2>1, <2>6, <2>7, UnroutedStep DEF Active, Registered
  <1>9. CASE AcquirePort(c, n)
    <2>1. h.pc \in {"tcpPort", "httpPort"} /\ UNCHANGED <<client, proxies>>
      BY <1>9 DEF AcquirePort
    <2>2. PICK port \in PortRange(h.pc) : Become(c, n, "opened", port, NoHost)
      BY <1>9 DEF AcquirePort
    <2>3. port \in Ports
      BY DEF PortRange, Ports
    <2> DEFINE new == [pc |-> "opened", port |-> port, host |-> NoHost]
    <2>4. HandlerBecomes(c, n, new)
      BY <1>1, <2>2, <2>3, HandlerUpdate DEF TypeOK, Handler
    <2>5. HandlerSound(c, n)' /\ ~Registered(c, n)'
      BY <2>3, <2>4 DEF HandlerBecomes, HandlerSound, Registered
    <2> QED
      BY <1>2, <1>3, <1>5, <2>1, <2>4, <2>5, UnroutedStep DEF Active, Registered
  <1>10. CASE NoLuck(c, n)
    <2>1. h.pc \in {"tcpPort", "httpPort"} /\ UNCHANGED <<client, proxies>>
      BY <1>10 DEF NoLuck
    <2> DEFINE new == [pc |-> "failed", port |-> h.port, host |-> h.host]
    <2>2. HandlerBecomes(c, n, new)
      BY <1>1, <1>10, HandlerUpdate DEF NoLuck, Goto, TypeOK, Handler
    <2>3. HandlerSound(c, n)' /\ ~Registered(c, n)'
      BY <1>3, <2>1, <2>2 DEF HandlerBecomes, HandlerSound, Registered
    <2> QED
      BY <1>2, <1>3, <1>5, <2>1, <2>2, <2>3, UnroutedStep DEF Active, Registered
  <1>11. CASE FailForward(c, n)
    <2>1. h.pc = "failed" /\ UNCHANGED proxies
      BY <1>11 DEF FailForward
    <2>2. PICK new : HandlerBecomes(c, n, new) /\ new.host = NoHost
                     /\ (new.pc = "closing" \/ (new.pc = "none" /\ new.port = 0))
      <3>1. h.host = NoHost
        BY <1>3, <2>1 DEF HandlerSound
      <3>2. \/ HandlerBecomes(c, n, [pc |-> "none", port |-> 0, host |-> NoHost])
            \/ HandlerBecomes(c, n, [pc |-> "closing", port |-> h.port, host |-> h.host])
        BY <1>1, <1>11, HandlerUpdate DEF FailForward, Goto, End, TypeOK, Handler
      <3> QED
        BY <3>1, <3>2
    <2> DEFINE fields == [client[c] EXCEPT !.ready = SignalReady(@, "failed")]
    <2>3. /\ fields \in Client /\ fields.protocol = client[c].protocol
          /\ fields.state = client[c].state /\ fields.host = client[c].host
      BY <1>1 DEF Client, SignalReady
    <2>4. ClientBecomes(c, fields)
      BY <1>1, <1>11, <2>3, ClientUpdate DEF FailForward, TypeOK
    <2> HIDE DEF fields
    <2>5. HandlerSound(c, n)' /\ ~Registered(c, n)'
      BY <2>2 DEF HandlerBecomes, HandlerSound, Registered
    <2> QED
      BY <1>2, <1>3, <2>1, <2>2, <2>3, <2>4, <2>5, UnroutedStep
         DEF Active, Registered, ClientBecomes
  <1>12. CASE Opened(c, n)
    <2>1. h.pc = "opened" /\ UNCHANGED proxies
      BY <1>12 DEF Opened
    <2>2. PICK new : HandlerBecomes(c, n, new) /\ new.host = h.host /\ new.port = h.port
                     /\ new.pc \in {"persist", "register"}
      <3>1. \/ HandlerBecomes(c, n, [pc |-> "persist", port |-> h.port, host |-> h.host])
            \/ HandlerBecomes(c, n, [pc |-> "register", port |-> h.port, host |-> h.host])
        BY <1>1, <1>12, HandlerUpdate DEF Opened, Goto, TypeOK, Handler
      <3> QED
        BY <3>1
    <2> DEFINE fields == [client[c] EXCEPT !.waiter = TRUE, !.lastPort = h.port]
    <2>3. /\ fields \in Client /\ fields.protocol = client[c].protocol
          /\ fields.state = client[c].state /\ fields.host = client[c].host
      BY <1>1 DEF Client, Handler
    <2>4. ClientBecomes(c, fields)
      BY <1>1, <1>12, <2>3, ClientUpdate DEF Opened, TypeOK
    <2> HIDE DEF fields
    <2>5. HandlerSound(c, n)' /\ ~Registered(c, n)'
      BY <1>3, <2>1, <2>2 DEF HandlerBecomes, HandlerSound, Registered
    <2> QED
      BY <1>2, <1>3, <2>1, <2>2, <2>3, <2>4, <2>5, UnroutedStep
         DEF Active, Registered, ClientBecomes
  <1>13. CASE PersistPort(c, n)
    <2>1. h.pc = "persist" /\ UNCHANGED <<client, proxies>>
      BY <1>13 DEF PersistPort
    <2> DEFINE new == [pc |-> "register", port |-> h.port, host |-> h.host]
    <2>2. HandlerBecomes(c, n, new)
      BY <1>1, <1>13, HandlerUpdate DEF PersistPort, Goto, TypeOK, Handler
    <2>3. HandlerSound(c, n)' /\ ~Registered(c, n)'
      BY <1>3, <2>1, <2>2 DEF HandlerBecomes, HandlerSound, Registered
    <2> QED
      BY <1>2, <1>3, <1>5, <2>1, <2>2, <2>3, UnroutedStep DEF Active, Registered
  <1>14. CASE AssignHost(c, n)
    <2>1. h.pc = "assign" /\ UNCHANGED proxies
      BY <1>14 DEF AssignHost
    <2> DEFINE new == [pc |-> "answer", port |-> h.port, host |-> h.host]
    <2>2. HandlerBecomes(c, n, new)
      BY <1>1, <1>14, HandlerUpdate DEF AssignHost, Goto, TypeOK, Handler
    <2>3. /\ Registered(c, n) /\ client[c].protocol = "http"
          /\ h.host \in {MainHost(c)} \cup Alternatives(c) /\ h.port # 0
      BY <1>3, <2>1 DEF HandlerSound, Registered
    <2> DEFINE fields == [client[c] EXCEPT !.host = h.host, !.ready = SignalReady(@, "ok")]
    <2>4. /\ fields \in Client /\ fields.protocol = client[c].protocol
          /\ fields.state = client[c].state /\ fields.host = h.host
      BY <1>1, <2>3 DEF Client, SignalReady
    <2>5. ClientBecomes(c, fields)
      BY <1>1, <1>14, <2>4, ClientUpdate DEF AssignHost, TypeOK
    <2> HIDE DEF fields
    <2>6. HandlerSound(c, n)' /\ Registered(c, n)'
      BY <2>2, <2>3, <2>4, <2>5
         DEF HandlerBecomes, ClientBecomes, HandlerSound, Registered, MainHost, Alternatives
    <2> QED
      BY <1>2, <2>1, <2>2, <2>3, <2>4, <2>5, <2>6, UnroutedStep DEF Active, ClientBecomes
  <1>15. CASE AnswerForward(c, n)
    <2>1. h.pc = "answer" /\ UNCHANGED <<client, proxies>>
      BY <1>15 DEF AnswerForward
    <2> DEFINE new == [pc |-> "serving", port |-> h.port, host |-> h.host]
    <2>2. HandlerBecomes(c, n, new)
      BY <1>1, <1>15, HandlerUpdate DEF AnswerForward, Goto, TypeOK, Handler
    <2>3. HandlerSound(c, n)' /\ (Registered(c, n)' <=> Registered(c, n))
      BY <1>3, <2>1, <2>2 DEF HandlerBecomes, HandlerSound, Registered, MainHost, Alternatives
    <2> QED
      BY <1>2, <1>3, <1>5, <2>1, <2>2, <2>3, UnroutedStep DEF Active
  <1>16. CASE StopServing(c, n)
    <2>1. h.pc = "serving" /\ UNCHANGED <<client, proxies>>
      BY <1>16 DEF StopServing
    <2>2. Goto(c, n, IF client[c].protocol = "http" THEN "unregister" ELSE "closing")
      BY <1>4, <1>16, <2>1 DEF StopServing, Active
    <2>3. PICK new : HandlerBecomes(c, n, new) /\ new.host = h.host /\ new.port = h.port
                     /\ new.pc = IF client[c].protocol = "http" THEN "unregister" ELSE "closing"
      <3> DEFINE pc == IF client[c].protocol = "http" THEN "unregister" ELSE "closing"
      <3>1. HandlerBecomes(c, n, [pc |-> pc, port |-> h.port, host |-> h.host])
        BY <1>1, <2>2, HandlerUpdate DEF Goto, TypeOK, Handler
      <3> QED
        BY <3>1
    <2>4. HandlerSound(c, n)' /\ (Registered(c, n)' <=> Registered(c, n))
      BY <1>3, <2>1, <2>3 DEF HandlerBecomes, HandlerSound, Registered, MainHost, Alternatives
    <2> QED
      BY <1>2, <1>3, <1>5, <2>1, <2>3, <2>4, UnroutedStep DEF Active
  <1>17. CASE CloseListener(c, n)
    <2>1. h.pc = "closing" /\ UNCHANGED <<client, proxies>>
      BY <1>17 DEF CloseListener
    <2> DEFINE new == [pc |-> "none", port |-> 0, host |-> NoHost]
    <2>2. HandlerBecomes(c, n, new)
      BY <1>1, <1>17, HandlerUpdate DEF CloseListener, End, TypeOK, Handler
    <2>3. HandlerSound(c, n)' /\ ~Registered(c, n)'
      BY <2>2 DEF HandlerBecomes, HandlerSound, Registered
    <2> QED
      BY <1>2, <1>3, <1>5, <2>1, <2>2, <2>3, UnroutedStep DEF Active, Registered
  <1>18. CASE RegisterHost(c, n)
    <2>1. h.pc = "register" /\ UNCHANGED client
      BY <1>18 DEF RegisterHost
    <2>2. Active(c, n) /\ ~Registered(c, n) /\ h.port # 0 /\ h.host = NoHost
      BY <1>3, <2>1 DEF Active, Registered, HandlerSound
    <2>3. CASE ProtocolReads(c) # {"http"} /\ Goto(c, n, "answer") /\ UNCHANGED proxies
      <3> DEFINE new == [pc |-> "answer", port |-> h.port, host |-> h.host]
      <3>1. HandlerBecomes(c, n, new)
        BY <1>1, <2>3, HandlerUpdate DEF Goto, TypeOK, Handler
      <3>2. client[c].protocol # "http"
        BY <1>4, <2>2, <2>3
      <3>3. HandlerSound(c, n)' /\ ~Registered(c, n)'
        BY <2>1, <2>2, <3>1, <3>2 DEF HandlerBecomes, HandlerSound, Registered
      <3> QED
        BY <1>2, <1>3, <1>5, <2>1, <2>2, <2>3, <3>1, <3>3, UnroutedStep
    <2>4. ASSUME NEW alternative \in Alternatives(c), client[c].protocol = "http",
                 proxies' = Set(proxies, client[c].host, alternative, h.port),
                 LET used == SetHost(proxies, client[c].host, alternative)
                 IN  Become(c, n, IF used = NoHost THEN "failed" ELSE "assign", h.port, used)
          PROVE  Sound'
      <3> DEFINE used == SetHost(proxies, client[c].host, alternative)
                 pc == IF used = NoHost THEN "failed" ELSE "assign"
                 new == [pc |-> pc, port |-> h.port, host |-> used]
      <3>1. used \in {MainHost(c), NoHost} \cup Alternatives(c)
        BY <1>3 DEF SetHost
      <3>2. used \in Host \cup {NoHost}
        BY <3>1
      <3>3. HandlerBecomes(c, n, new)
        BY <1>1, <2>4, <3>2, HandlerUpdate DEF TypeOK, Handler
      <3>4. CASE used = NoHost
        <4>1. UNCHANGED proxies
          BY <2>4, <3>4 DEF Set
        <4>2. HandlerSound(c, n)' /\ ~Registered(c, n)'
          BY <3>3, <3>4 DEF HandlerBecomes, HandlerSound, Registered
        <4> QED
          BY <1>2, <1>3, <1>5, <2>1, <2>2, <3>3, <4>1, <4>2, UnroutedStep
      <3>5. CASE used # NoHost
        <4>1. used \in Host /\ ~Exists(proxies, used)
          BY <3>2, <3>5 DEF SetHost
        <4>2. proxies' = [proxies EXCEPT ![used] = h.port]
          BY <2>4, <3>5 DEF Set
        <4>3. handler'[c][n] = new /\ new.pc = "assign" /\ new.host = used /\ new.port = h.port
          BY <3>3, <3>5 DEF HandlerBecomes
        <4>4. HandlerSound(c, n)' /\ Registered(c, n)'
          BY <2>1, <2>2, <2>4, <3>1, <3>5, <4>3
             DEF HandlerSound, Registered, MainHost, Alternatives
        <4>7. (\A d \in Conns : QueueSound(d) /\ HandlersSound(d)) /\ RoutesSound
          BY DEF Sound
        <4> HIDE DEF new, used, pc
        <4>5. \A d \in Conns : QueueSound(d)' /\ HandlersSound(d)'
          BY <1>2, <1>3, <1>5, <2>1, <2>2, <3>3, <4>4, <4>7, ForwardStep
        <4>6. RoutesSound'
          BY <1>1, <2>2, <3>3, <4>1, <4>2, <4>3, <4>4, RouteAdded DEF Sound, TypeOK
        <4> QED
          BY <4>5, <4>6 DEF Sound
      <3> QED
        BY <3>4, <3>5
    <2> QED
      BY <1>4, <1>18, <2>1, <2>2, <2>3, <2>4 DEF RegisterHost
  <1>19. CASE UnregisterHost(c, n)
    <2>1. h.pc = "unregister" /\ UNCHANGED client
      BY <1>19 DEF UnregisterHost
    <2>2. Registered(c, n) /\ h.host = client[c].host /\ Active(c, n)
      BY <1>3, <2>1 DEF HandlerSound, Registered, Active
    <2>3. proxies' = Remove(proxies, h.host)
      BY <1>4, <1>19, <2>1, <2>2 DEF UnregisterHost
    <2> DEFINE new == [pc |-> "closing", port |-> h.port, host |-> h.host]
    <2>4. HandlerBecomes(c, n, new)
      BY <1>1, <1>19, HandlerUpdate DEF UnregisterHost, Goto, TypeOK, Handler
    <2>5. HandlerSound(c, n)' /\ ~Registered(c, n)'
      BY <2>4 DEF HandlerBecomes, HandlerSound, Registered
    <2>6. \A d \in Conns : QueueSound(d)' /\ HandlersSound(d)'
      BY <1>2, <1>3, <1>5, <2>1, <2>2, <2>4, <2>5, ForwardStep DEF Sound
    <2>7. RoutesSound'
      BY <1>1, <1>3, <2>2, <2>3, <2>4, <2>5, RouteRemoved DEF TypeOK
    <2> QED
      BY <2>6, <2>7 DEF Sound
  <1> QED
    BY <1>6, <1>7, <1>8, <1>9, <1>10, <1>11, <1>12, <1>13, <1>14, <1>15, <1>16, <1>17,
       <1>18, <1>19 DEF GoroutineStep, Goroutine
----------------------------------------------------------------------------
\* The request loop, the client, and the transport.

\* A step of connection c that neither starts nor ends a goroutine.
LEMMA ConnectionStep ==
    ASSUME Sound, NEW c \in Conns, QueueSound(c)', UNCHANGED <<handler, proxies>>,
           \A d \in Conns : d # c => /\ peer'[d] = peer[d] /\ inbox'[d] = inbox[d]
                                     /\ client'[d] = client[d],
           client'[c].host \in {MainHost(c)} \cup Alternatives(c),
           \A m \in Numbers : Active(c, m) => /\ client'[c].host = client[c].host
                                              /\ client'[c].protocol = client[c].protocol
    PROVE  Sound'
  <1>1. ASSUME NEW d \in Conns, d # c PROVE QueueSound(d)' /\ HandlersSound(d)'
    BY <1>1, ConnectionKept DEF Sound
  <1>2. ASSUME NEW m \in Numbers PROVE HandlerSound(c, m)'
    <2>1. HandlerSound(c, m) /\ handler'[c][m] = handler[c][m]
      BY DEF Sound, HandlersSound
    <2>2. CASE Active(c, m)
      BY <2>1, <2>2 DEF HandlerSound, Registered, MainHost, Alternatives
    <2>3. CASE ~Active(c, m)
      BY <2>1, <2>3 DEF HandlerSound, Active, Registered
    <2> QED
      BY <2>2, <2>3
  <1>3. HandlersSound(c)'
    BY <1>2 DEF HandlersSound, MainHost, Alternatives
  <1>4. RoutesSound'
    BY RegistrationsKept DEF Sound, Registered
  <1> QED
    BY <1>1, <1>3, <1>4 DEF Sound

LEMMA RequestLoopRouting ==
    ASSUME TypeInv, Sound, NEW c \in Conns, RequestLoopStep(c)
    PROVE  Sound'
  <1> DEFINE req == Head(inbox[c])
  <1> USE HostFacts, PortFacts
  <1>1. TypeOK /\ client[c] \in Client
    BY DEF TypeInv, TypeOK
  <1>2. /\ QueueSound(c) /\ HandlersSound(c) /\ RoutesSound
        /\ client[c].host \in {MainHost(c)} \cup Alternatives(c)
    BY DEF Sound, HandlersSound
  <1>3. ASSUME NEW fields \in Client, Update(c, fields), fields.up = client[c].up
        PROVE  /\ UNCHANGED peer /\ PeerKept(c) /\ client'[c] = fields
               /\ \A d \in Conns : d # c => client'[d] = client[d]
    <2>1. ClientBecomes(c, fields)
      BY <1>1, <1>3, ClientUpdate DEF TypeOK
    <2>2. UNCHANGED peer
      BY <1>3, <2>1 DEF RequestLoopStep, ClientBecomes
    <2> QED
      BY <2>1, <2>2 DEF ClientBecomes, PeerKept, Running
  <1>4. UNCHANGED client => UNCHANGED peer /\ PeerKept(c)
    BY DEF RequestLoopStep, PeerKept, Running
  <1>5. ASSUME inbox[c] # <<>>, inbox' = [inbox EXCEPT ![c] = Tail(@)]
        PROVE  inbox'[c] = Tail(inbox[c]) /\ \A d \in Conns : d # c => inbox'[d] = inbox[d]
    BY <1>1, <1>5 DEF TypeOK
  <1>6. inbox[c] # <<>> => 1 \in DOMAIN inbox[c] /\ req = inbox[c][1] /\ req.n \in Numbers
    BY <1>1, Inbox
  <1>7. inbox[c] # <<>> => \A m \in Numbers : handler[c][m].pc # "none" => m < req.n
    BY <1>2, <1>6 DEF QueueSound, InboxInOrder
  <1>8. inbox[c] # <<>> /\ req.type # "hint" => Expected(c) = client[c].protocol
    BY DEF Expected
  <1>9. CASE LoadPrincipal(c)
    <2> DEFINE fields == [client[c] EXCEPT !.state = "serving",
                                           !.lastPort = dbPort[PrincipalOf[c]]]
    <2>1. /\ fields \in Client /\ fields.up = client[c].up /\ fields.state = "serving"
          /\ fields.protocol = client[c].protocol /\ fields.host = client[c].host
      BY <1>1, SshdAssumption DEF Client, TypeOK
    <2>2. Update(c, fields) /\ UNCHANGED <<proxies, handler, inbox>>
      BY <1>9 DEF LoadPrincipal
    <2> HIDE DEF fields
    <2>3. QueueSound(c)'
      BY <1>2, <1>3, <2>1, <2>2, QueueKept DEF Active
    <2> QED
      BY <1>2, <1>3, <2>1, <2>2, <2>3, ConnectionStep
  <1>10. CASE LoadPrincipalFails(c)
    <2> DEFINE fields == NewClient(c, "closed", FALSE)
    <2>1. /\ fields \in Client /\ fields.state = "closed" /\ fields.protocol = "http"
          /\ fields.host = MainHost(c) /\ fields.up = FALSE
      BY DEF NewClient, Client, Protocols
    <2>2. ClientBecomes(c, fields)
      BY <1>1, <1>10, <2>1, ClientUpdate DEF LoadPrincipalFails, TypeOK
    <2>3. /\ inbox' = [inbox EXCEPT ![c] = <<>>] /\ UNCHANGED <<proxies, handler>>
          /\ client[c].state = "loading"
      BY <1>10 DEF LoadPrincipalFails
    <2>4. inbox'[c] = <<>> /\ \A d \in Conns : d # c => inbox'[d] = inbox[d]
      BY <1>1, <2>3 DEF TypeOK
    <2>5. peer' = IF client[c].up THEN [peer EXCEPT ![c] = Gone] ELSE peer
      BY <2>1, <2>2 DEF RequestLoopStep, ClientBecomes
    <2>6. peer'[c] = Gone /\ \A d \in Conns : d # c => peer'[d] = peer[d]
      BY <1>1, <2>5 DEF TypeInv, EndsAgree, TypeOK
    <2>7. \A m \in Numbers : handler[c][m].pc = "none"
      BY <1>2, <2>3 DEF QueueSound, HandlersStarted
    <2> HIDE DEF fields
    <2>8. QueueSound(c)'
      BY <2>1, <2>2, <2>3, <2>4, <2>6, <2>7, QueueEmpty DEF ClientBecomes
    <2> QED
      BY <2>1, <2>2, <2>3, <2>4, <2>6, <2>7, <2>8, ConnectionStep DEF ClientBecomes, Active
  <1>11. CASE HandleHint(c)
    <2>1. /\ inbox[c] # <<>> /\ req.type = "hint" /\ client[c].state = "serving"
          /\ inbox' = [inbox EXCEPT ![c] = Tail(@)] /\ UNCHANGED <<proxies, handler>>
      BY <1>11 DEF HandleHint, NextRequest
    <2>2. \A m \in Numbers : handler[c][m].pc = "none"
      <3>1. req.n = 1
        BY <1>2, <1>6, <2>1 DEF QueueSound, InboxInOrder
      <3> QED
        BY <1>7, <2>1, <3>1 DEF Numbers
    <2> DEFINE fields == [client[c] EXCEPT !.protocol = req.protocol]
    <2>3. CASE req.protocol \in {"tcp", "http"} /\ Update(c, fields)
      <3>1. /\ fields \in Client /\ fields.up = client[c].up /\ fields.state = "serving"
            /\ fields.protocol = req.protocol /\ fields.host = client[c].host
        BY <1>1, <2>1, <2>3 DEF Client, Protocols
      <3>2. Expected(c) = req.protocol
        BY <2>1, <2>3 DEF Expected
      <3> HIDE DEF fields
      <3>3. QueueSound(c)'
        BY <1>1, <1>2, <1>3, <1>5, <2>1, <2>2, <2>3, <3>1, <3>2, QueuePopped DEF Active
      <3> QED
        BY <1>2, <1>3, <1>5, <2>1, <2>2, <2>3, <3>1, <3>3, ConnectionStep DEF Active
    <2>4. CASE req.protocol \notin {"tcp", "http"} /\ UNCHANGED client
      <3>1. Expected(c) = client[c].protocol
        BY <2>4 DEF Expected
      <3>2. QueueSound(c)'
        BY <1>1, <1>2, <1>4, <1>5, <2>1, <2>2, <2>4, <3>1, QueuePopped DEF Active
      <3> QED
        BY <1>2, <1>4, <1>5, <2>1, <2>4, <3>2, ConnectionStep
    <2> QED
      BY <1>11, <2>3, <2>4 DEF HandleHint
  <1>12. CASE HandleOther(c)
    <2>1. /\ inbox[c] # <<>> /\ req.type = "keepalive" /\ client[c].state = "serving"
          /\ inbox' = [inbox EXCEPT ![c] = Tail(@)] /\ UNCHANGED <<client, proxies, handler>>
      BY <1>12 DEF HandleOther, NextRequest
    <2>2. QueueSound(c)'
      BY <1>1, <1>2, <1>4, <1>5, <1>8, <2>1, QueuePopped DEF Active
    <2> QED
      BY <1>2, <1>4, <1>5, <2>1, <2>2, ConnectionStep
  <1>13. CASE HandleServerInfo(c)
    <2> DEFINE protocol == IF req.protocol = "" THEN client[c].protocol ELSE req.protocol
               serving == [client[c] EXCEPT !.protocol = protocol]
               awaiting == [client[c] EXCEPT !.protocol = protocol, !.state = "awaiting"]
    <2>1. /\ inbox[c] # <<>> /\ req.type = "info" /\ client[c].state = "serving"
          /\ NextRequest(c, "info") /\ UNCHANGED <<proxies, handler>>
      BY <1>13 DEF HandleServerInfo, NextRequest
    <2>2. protocol = client[c].protocol
      BY <1>2, <1>6, <1>8, <2>1 DEF QueueSound, ProtocolSettled
    <2>3. /\ serving \in Client /\ serving.up = client[c].up /\ serving.state = "serving"
          /\ serving.host = client[c].host /\ serving.protocol = client[c].protocol
      BY <1>1, <2>1, <2>2 DEF Client
    <2>4. /\ awaiting \in Client /\ awaiting.up = client[c].up /\ awaiting.state = "awaiting"
          /\ awaiting.host = client[c].host /\ awaiting.protocol = client[c].protocol
      BY <1>1, <2>2 DEF Client
    <2>5. CASE Update(c, serving) /\ inbox' = [inbox EXCEPT ![c] = Tail(@)]
      <3> HIDE DEF serving
      <3>1. QueueSound(c)'
        BY <1>1, <1>2, <1>3, <1>5, <1>8, <2>1, <2>3, <2>5, QueuePopped DEF Active
      <3> QED
        BY <1>2, <1>3, <1>5, <2>1, <2>3, <2>5, <3>1, ConnectionStep
    <2>6. CASE Update(c, awaiting) /\ UNCHANGED inbox
      <3> HIDE DEF awaiting
      <3>1. QueueSound(c)'
        BY <1>2, <1>3, <2>1, <2>4, <2>6, QueueKept DEF Active
      <3> QED
        BY <1>2, <1>3, <2>1, <2>4, <2>6, <3>1, ConnectionStep
    <2> QED
      BY <1>13, <2>5, <2>6 DEF HandleServerInfo
  <1>14. CASE AnswerServerInfo(c)
    <2> DEFINE fields == [client[c] EXCEPT !.state = "serving"]
    <2>1. /\ fields \in Client /\ fields.up = client[c].up /\ fields.state = "serving"
          /\ fields.host = client[c].host /\ fields.protocol = client[c].protocol
      BY <1>1 DEF Client
    <2>2. /\ Update(c, fields) /\ inbox' = [inbox EXCEPT ![c] = Tail(@)]
          /\ UNCHANGED <<proxies, handler>> /\ client[c].state = "awaiting"
      BY <1>14 DEF AnswerServerInfo
    <2>3. inbox[c] # <<>> /\ req.type = "info"
      BY <1>2, <2>2 DEF QueueSound, AwaitsInfo
    <2> HIDE DEF fields
    <2>4. QueueSound(c)'
      BY <1>1, <1>2, <1>3, <1>5, <1>8, <2>1, <2>2, <2>3, QueuePopped DEF Active
    <2> QED
      BY <1>2, <1>3, <1>5, <2>1, <2>2, <2>3, <2>4, ConnectionStep
  <1>15. CASE EndLoop(c)
    <2> DEFINE fields == [client[c] EXCEPT !.state = "closed", !.cancelled = TRUE]
    <2>1. /\ fields \in Client /\ fields.up = client[c].up /\ fields.state = "closed"
          /\ fields.host = client[c].host /\ fields.protocol = client[c].protocol
      BY <1>1 DEF Client
    <2>2. Update(c, fields) /\ UNCHANGED <<proxies, handler, inbox>>
      BY <1>15 DEF EndLoop
    <2> HIDE DEF fields
    <2>3. QueueSound(c)'
      BY <1>2, <1>3, <2>1, <2>2, QueueKept DEF Active
    <2> QED
      BY <1>2, <1>3, <2>1, <2>2, <2>3, ConnectionStep
  <1>16. CASE HandleForward(c) \/ HandleCancel(c)
    <2> DEFINE h == handler[c][req.n]
    <2>1. /\ inbox[c] # <<>> /\ req.type \in {"forward", "cancel"}
          /\ client[c].state = "serving" /\ inbox' = [inbox EXCEPT ![c] = Tail(@)]
          /\ UNCHANGED <<client, proxies>>
      BY <1>16 DEF HandleForward, HandleCancel, NextRequest
    <2>2. PICK pc \in {"refuse", "begin", "cancel"} :
              Goto(c, req.n, pc) /\ (pc = "begin" => req.type = "forward")
      BY <1>16 DEF HandleForward, HandleCancel, NextRequest
    <2>3. req.n \in Numbers /\ h \in Handler
      BY <1>1, <1>6, <2>1 DEF TypeOK
    <2>4. h.pc = "none"
      BY <1>7, <2>1, <2>3 DEF Numbers
    <2>5. h.port = 0 /\ h.host = NoHost
      BY <1>2, <2>3, <2>4 DEF HandlersSound, HandlerSound
    <2>6. PICK new : /\ HandlerBecomes(c, req.n, new)
                     /\ new.pc = pc /\ new.port = 0 /\ new.host = NoHost
      <3>1. HandlerBecomes(c, req.n, [pc |-> pc, port |-> h.port, host |-> h.host])
        BY <1>1, <2>2, <2>3, HandlerUpdate DEF Goto, TypeOK, Handler
      <3> QED
        BY <2>5, <3>1
    <2>7. QueueSound(c)'
      <3>1. \A m \in Numbers :
                /\ handler'[c][m].pc # "none" => handler[c][m].pc # "none" \/ m = req.n
                /\ Active(c, m)' => \/ Active(c, m)
                                    \/ m = req.n /\ req.type = "forward"
        BY <2>2, <2>6 DEF HandlerBecomes, Active
      <3>2. client'[c].protocol = Expected(c)
        BY <1>8, <2>1
      <3> QED
        BY <1>1, <1>2, <1>4, <1>5, <2>1, <3>1, <3>2, QueuePopped
    <2>8. HandlersSound(c)'
      <3>1. ASSUME NEW m \in Numbers PROVE HandlerSound(c, m)'
        <4>1. CASE m = req.n
          BY <2>2, <2>6, <4>1 DEF HandlerBecomes, HandlerSound, Registered
        <4>2. CASE m # req.n
          <5>1. HandlerSound(c, m) /\ handler'[c][m] = handler[c][m]
            BY <1>2, <2>6, <4>2 DEF HandlersSound, HandlerBecomes
          <5> QED
            BY <2>1, <5>1 DEF HandlerSound, Registered, MainHost, Alternatives
        <4> QED
          BY <4>1, <4>2
      <3> QED
        BY <1>2, <2>1, <3>1 DEF HandlersSound, MainHost, Alternatives
    <2>9. ASSUME NEW d \in Conns, d # c PROVE QueueSound(d)' /\ HandlersSound(d)'
      BY <1>4, <1>5, <2>1, <2>6, <2>9, ConnectionKept DEF Sound, HandlerBecomes
    <2>10. RoutesSound'
      BY <1>2, <2>1, <2>2, <2>4, <2>6, RegistrationsKept DEF HandlerBecomes, Registered
    <2> QED
      BY <2>7, <2>8, <2>9, <2>10 DEF Sound
  <1> QED
    BY <1>9, <1>10, <1>11, <1>12, <1>13, <1>14, <1>15, <1>16 DEF RequestLoopStep, RequestLoop

\* A well-behaved client has sent a request.
LEMMA SendRouting ==
    ASSUME TypeInv, Sound, WellBehavedClients, NEW c \in Conns, peer[c] # Gone,
           NEW step \in Content, NEW new \in Peer,
           new.kind = peer[c].kind, new.sent = peer[c].sent + 1,
           \/ /\ Running(c) /\ peer[c].sent < Len(Script(c))
              /\ step.type = Script(c)[peer[c].sent + 1].type
              /\ step.protocol = Script(c)[peer[c].sent + 1].protocol
           \/ step.type = "cancel" /\ new.status # "running",
           peer[c].sent <= Len(Script(c)), SendRequest(c, step), UpdatePeer(c, new),
           UNCHANGED <<proxies, client, handler>>
    PROVE  Sound'
  <1>1. TypeOK /\ QueueSound(c) /\ client[c].host \in {MainHost(c)} \cup Alternatives(c)
    BY DEF TypeInv, Sound, HandlersSound
  <1>2. PeerBecomes(c, new)
    BY <1>1, PeerUpdate DEF TypeOK
  <1>3. /\ peer'[c] = new /\ new # Gone
        /\ \A d \in Conns : d # c => peer'[d] = peer[d]
    BY <1>2 DEF PeerBecomes, Peer, Gone
  <1> DEFINE req == [n |-> peer[c].sent + 1, type |-> step.type,
                     protocol |-> step.protocol, rport |-> step.rport]
  <1>4. req \in Request
    <2>1. peer[c].sent \in Nat /\ Len(Script(c)) \in Nat /\ Len(Script(c)) < MaxRequests
      BY <1>1, PeerFacts DEF Peer
    <2>2. peer[c].sent + 1 \in Numbers
      BY <2>1, SshdAssumption DEF Numbers
    <2> QED
      BY <2>2 DEF Request, Content
  <1>5. /\ req.n = peer[c].sent + 1 /\ req.type = step.type /\ req.protocol = step.protocol
        /\ inbox' = [inbox EXCEPT ![c] = Append(@, req)]
    BY DEF SendRequest
  <1> HIDE DEF req
  <1>6. inbox'[c] = Append(inbox[c], req) /\ \A d \in Conns : d # c => inbox'[d] = inbox[d]
    BY <1>1, <1>5 DEF TypeOK
  <1>7. new.status # "running" => ~Running(c)'
    BY <1>3 DEF Running
  <1>8. \/ /\ Running(c) /\ peer[c].sent < Len(Script(c))
           /\ req.type = Script(c)[peer[c].sent + 1].type
           /\ req.protocol = Script(c)[peer[c].sent + 1].protocol
        \/ req.type = "cancel" /\ ~Running(c)'
    BY <1>5, <1>7
  <1>9. client'[c] = client[c] /\ \A m \in Numbers : handler'[c][m] = handler[c][m]
    OBVIOUS
  <1>10. peer'[c] # Gone /\ peer'[c].kind = peer[c].kind /\ peer'[c].sent = peer[c].sent + 1
    BY <1>3
  <1>11. req.n = peer[c].sent + 1
    BY <1>5
  <1>12. QueueSound(c)'
    BY <1>1, <1>4, <1>6, <1>8, <1>9, <1>10, <1>11, QueueGrows
  <1> QED
    BY <1>1, <1>3, <1>6, <1>12, ConnectionStep

LEMMA ClientStepRouting ==
    ASSUME TypeInv, Sound, WellBehavedClients, NEW c \in Conns,
           \/ \E k \in Kinds : Dial(c, k)
           \/ SendNext(c) \/ SendCancel(c) \/ HearReply(c) \/ Drop(c)
           \/ WaiterStep(c)
    PROVE  Sound'
  <1> USE HostFacts, PortFacts
  <1>1. TypeOK /\ client[c] \in Client /\ EndsAgree(c)
    BY DEF TypeInv, TypeOK
  <1>2. QueueSound(c) /\ client[c].host \in {MainHost(c)} \cup Alternatives(c)
    BY DEF Sound, HandlersSound
  <1>3. ASSUME NEW k \in Kinds, Dial(c, k) PROVE Sound'
    <2> DEFINE fields == NewClient(c, "loading", TRUE)
    <2>1. /\ fields \in Client /\ fields.state = "loading" /\ fields.protocol = "http"
          /\ fields.host = MainHost(c)
      BY DEF NewClient, Client, Protocols
    <2>2. NewPeer(k) \in Peer /\ NewPeer(k).sent = 0
      BY DEF NewPeer, Peer
    <2>3. PeerBecomes(c, NewPeer(k))
      BY <1>1, <1>3, <2>2, PeerUpdate DEF Dial, TypeOK
    <2>4. ClientBecomes(c, fields)
      BY <1>1, <1>3, <2>1, ClientUpdate DEF Dial, Handshake, TypeOK
    <2>5. /\ inbox' = [inbox EXCEPT ![c] = <<>>] /\ UNCHANGED <<proxies, handler>>
          /\ \A m \in Numbers : handler[c][m].pc = "none"
      BY <1>3 DEF Dial, Handshake
    <2>6. inbox'[c] = <<>> /\ \A d \in Conns : d # c => inbox'[d] = inbox[d]
      BY <1>1, <2>5 DEF TypeOK
    <2> HIDE DEF fields
    <2>7. QueueSound(c)'
      BY <2>1, <2>2, <2>3, <2>4, <2>5, <2>6, QueueEmpty DEF ClientBecomes, PeerBecomes
    <2> QED
      BY <2>1, <2>3, <2>4, <2>5, <2>6, <2>7, ConnectionStep
         DEF ClientBecomes, PeerBecomes, Active
  <1>4. CASE SendNext(c)
    <2>1. peer[c] # Gone
      BY <1>4, RunningFacts DEF SendNext
    <2>2. /\ peer[c] \in Peer /\ Script(c) \in Seq(Step) /\ Len(Script(c)) \in Nat
          /\ peer[c].sent \in Nat
      BY <1>1, <2>1, PeerFacts DEF Peer
    <2>3. peer[c].sent < Len(Script(c)) /\ Running(c)
      BY <1>4 DEF SendNext
    <2> DEFINE step == Script(c)[peer[c].sent + 1]
    <2>4. step \in Step
      BY <2>2, <2>3
    <2>5. step \in Content
      BY <2>4 DEF Step, Content
    <2> DEFINE new == [peer[c] EXCEPT !.sent = @ + 1]
    <2>6. new \in Peer /\ new.kind = peer[c].kind /\ new.sent = peer[c].sent + 1
      BY <2>2 DEF Peer
    <2>7. /\ SendRequest(c, step) /\ UpdatePeer(c, new)
          /\ UNCHANGED <<proxies, client, handler>>
      BY <1>4 DEF SendNext
    <2>8. step = Script(c)[peer[c].sent + 1]
      OBVIOUS
    <2>9. peer[c].sent <= Len(Script(c))
      BY <2>2, <2>3
    <2> HIDE DEF step, new
    <2> QED
      BY <2>1, <2>3, <2>5, <2>6, <2>7, <2>8, <2>9, SendRouting
  <1>5. CASE SendCancel(c)
    <2>1. peer[c] # Gone
      BY <1>5, RunningFacts DEF SendCancel
    <2>2. peer[c].sent <= Len(Script(c))
      BY <1>1, <1>5, <2>1 DEF SendCancel, EndsAgree, Running
    <2>3. CancelForward \in Content /\ CancelForward.type = "cancel"
      BY DEF CancelForward, Content
    <2> DEFINE sent == peer[c].sent + 1
               new == [peer[c] EXCEPT !.status = "abandoned", !.sent = sent]
    <2>4. peer[c] \in Peer /\ sent \in Nat /\ sent = peer[c].sent + 1
      BY <1>1, <2>1, PeerFacts DEF Peer
    <2>5. /\ SendRequest(c, CancelForward) /\ UpdatePeer(c, new)
          /\ UNCHANGED <<proxies, client, handler>>
      BY <1>5 DEF SendCancel
    <2> HIDE DEF sent
    <2>6. new \in Peer
      BY <2>4 DEF Peer
    <2>7. new.kind = peer[c].kind /\ new.status # "running"
      BY <2>4 DEF Peer
    <2>8. new.sent = peer[c].sent + 1
      BY <2>4 DEF Peer
    <2> HIDE DEF new
    <2> QED
      BY <2>1, <2>2, <2>3, <2>5, <2>6, <2>7, <2>8, SendRouting
  <1>6. CASE HearReply(c)
    <2> DEFINE reply == Head(outbox[c])
               new == [peer[c] EXCEPT
                          !.heard  = peer[c].heard + 1,
                          !.status = StatusAfter(c, reply.ok),
                          !.host   = IF reply.host # NoHost THEN reply.host ELSE peer[c].host,
                          !.port   = IF reply.port # 0 THEN reply.port ELSE peer[c].port]
    <2>1. peer[c] # Gone /\ peer[c] \in Peer
      BY <1>1, <1>6, PeerFacts DEF HearReply, EndsAgree
    <2>2. peer' = [peer EXCEPT ![c] = new] /\ UNCHANGED <<proxies, client, handler, inbox>>
      BY <1>6 DEF HearReply, UpdatePeer
    <2>3. /\ new.kind = peer[c].kind /\ new.sent = peer[c].sent
          /\ new.status = StatusAfter(c, reply.ok)
      BY <2>1 DEF Peer
    <2>4. StatusAfter(c, reply.ok) = "running" => Running(c)
      BY DEF StatusAfter, Running
    <2> HIDE DEF new, reply
    <2>5. peer'[c] = new /\ \A d \in Conns : d # c => peer'[d] = peer[d]
      BY <1>1, <2>2 DEF TypeOK
    <2>6. PeerKept(c)
      BY <2>1, <2>3, <2>4, <2>5 DEF PeerKept, Running
    <2>7. QueueSound(c)'
      BY <1>2, <2>2, <2>6, QueueKept DEF Active
    <2> QED
      BY <1>2, <2>2, <2>5, <2>7, ConnectionStep
  <1>7. CASE Drop(c)
    <2> DEFINE fields == [client[c] EXCEPT !.up = FALSE]
    <2>1. /\ fields \in Client /\ fields.state = client[c].state
          /\ fields.protocol = client[c].protocol /\ fields.host = client[c].host
      BY <1>1 DEF Client
    <2>2. ClientBecomes(c, fields)
      BY <1>1, <1>7, <2>1, ClientUpdate DEF Drop, TypeOK
    <2>3. PICK k \in (IF client[c].state = "awaiting" THEN 1 ELSE 0) .. Len(inbox[c]) :
              inbox' = [inbox EXCEPT ![c] = SubSeq(@, 1, k)]
      BY <1>7 DEF Drop
    <2>4. k \in 0 .. Len(inbox[c]) /\ (client[c].state = "awaiting" => k # 0)
      BY <1>1, <2>3, Inbox
    <2>5. /\ inbox'[c] = SubSeq(inbox[c], 1, k)
          /\ \A d \in Conns : d # c => inbox'[d] = inbox[d]
      BY <1>1, <2>3 DEF TypeOK
    <2>6. PeerBecomes(c, Gone) /\ UNCHANGED <<proxies, handler>>
      BY <1>1, <1>7, PeerUpdate DEF Drop, TypeOK
    <2> HIDE DEF fields
    <2>7. QueueSound(c)'
      BY <1>1, <1>2, <2>1, <2>2, <2>4, <2>5, <2>6, QueueCut DEF ClientBecomes, PeerBecomes
    <2> QED
      BY <1>2, <2>1, <2>2, <2>5, <2>6, <2>7, ConnectionStep DEF ClientBecomes, PeerBecomes
  <1>8. CASE WaiterStep(c)
    <2> DEFINE fields == [client[c] EXCEPT !.cancelled = TRUE]
    <2>1. /\ fields \in Client /\ fields.state = client[c].state
          /\ fields.protocol = client[c].protocol /\ fields.host = client[c].host
      BY <1>1 DEF Client
    <2>2. ClientBecomes(c, fields)
      BY <1>1, <1>8, <2>1, ClientUpdate DEF WaiterStep, WaiterCancels, TypeOK
    <2>3. UNCHANGED <<peer, inbox, proxies, handler>>
      BY <1>8 DEF WaiterStep, WaiterCancels
    <2> HIDE DEF fields
    <2>4. QueueSound(c)'
      BY <1>2, <2>1, <2>2, <2>3, QueueKept DEF ClientBecomes, PeerKept, Running, Active
    <2> QED
      BY <1>2, <2>1, <2>2, <2>3, <2>4, ConnectionStep DEF ClientBecomes
  <1> QED
    BY <1>3, <1>4, <1>5, <1>6, <1>7, <1>8

LEMMA CrashRouting == ASSUME Crash PROVE Sound'
  <1>1. /\ handler' = [c \in Conns |-> [n \in Numbers |-> Idle]]
        /\ inbox' = [c \in Conns |-> <<>>] /\ peer' = [c \in Conns |-> Gone]
        /\ client' = [c \in Conns |-> NewClient(c, "closed", FALSE)]
        /\ proxies' = NewCluster(Host)
    BY DEF Crash
  <1>2. \A c \in Conns, n \in Numbers :
            handler'[c][n].pc = "none" /\ handler'[c][n].port = 0 /\ handler'[c][n].host = NoHost
    BY <1>1 DEF Idle
  <1>3. ASSUME NEW c \in Conns PROVE QueueSound(c)'
    <2>1. /\ client'[c].protocol = "http" /\ client'[c].state # "awaiting"
          /\ inbox'[c] = <<>> /\ peer'[c] = Gone
      BY <1>1 DEF NewClient
    <2> QED
      BY <1>2, <2>1, QueueEmpty
  <1>4. ASSUME NEW c \in Conns PROVE HandlersSound(c)'
    <2>1. client'[c].host = MainHost(c)
      BY <1>1 DEF NewClient
    <2> QED
      BY <1>2, <2>1 DEF HandlersSound, HandlerSound, Registered, MainHost, Alternatives
  <1>5. RoutesSound'
    BY <1>1, <1>2 DEF RoutesSound, Registered, NewCluster, Exists, Get
  <1> QED
    BY <1>3, <1>4, <1>5 DEF Sound

LEMMA InitRouting == Init => Sound
  <1> SUFFICES ASSUME Init PROVE Sound
    OBVIOUS
  <1> USE DEF Init, SshdInit
  <1>1. ASSUME NEW c \in Conns
        PROVE  /\ inbox[c] = <<>> /\ peer[c] = Gone
               /\ client[c].protocol = "http" /\ client[c].state # "awaiting"
               /\ client[c].host = MainHost(c)
               /\ \A n \in Numbers : /\ handler[c][n].pc = "none"
                                     /\ handler[c][n].port = 0
                                     /\ handler[c][n].host = NoHost
    BY DEF NewClient, Idle
  <1>2. ASSUME NEW c \in Conns PROVE QueueSound(c)
    <2>1. DOMAIN inbox[c] = {}
      BY <1>1
    <2>2. ~Running(c)
      BY <1>1 DEF Running, Gone
    <2> QED
      BY <1>1, <2>1, <2>2 DEF QueueSound, InboxInOrder, HandlersStarted, OneForward,
         Forwarding, Active, ProtocolSettled, AwaitsInfo
  <1>3. ASSUME NEW c \in Conns PROVE HandlersSound(c)
    BY <1>1 DEF HandlersSound, HandlerSound, Registered
  <1>4. RoutesSound
    BY <1>1 DEF RoutesSound, Registered, NewCluster, Exists, Get
  <1> QED
    BY <1>2, <1>3, <1>4 DEF Sound

LEMMA StutterRouting == ASSUME Sound, UNCHANGED vars PROVE Sound'
  <1>1. UNCHANGED <<proxies, client, handler, inbox, peer>>
    BY DEF vars
  <1>2. \A c \in Conns : QueueSound(c)' /\ HandlersSound(c)'
    BY <1>1, ConnectionKept DEF Sound
  <1>3. RoutesSound'
    BY <1>1, RegistrationsKept DEF Sound, Registered
  <1> QED
    BY <1>2, <1>3 DEF Sound

LEMMA SoundRoutes == TypeInv /\ Sound => RoutesAreOwned
  <1> SUFFICES ASSUME TypeInv, Sound, NEW host \in Host, Exists(proxies, host)
               PROVE  \E c \in Conns, n \in Numbers :
                          Serves(c, n, host) /\ host \in {MainHost(c)} \cup Alternatives(c)
    BY DEF RoutesAreOwned
  <1>1. PICK c \in Conns, n \in Numbers : Registered(c, n) /\ handler[c][n].host = host
    BY DEF Sound, RoutesSound
  <1>2. /\ proxies[host] = handler[c][n].port /\ handler[c][n].port # 0
        /\ host \in {MainHost(c)} \cup Alternatives(c)
    BY <1>1 DEF Sound, RoutesSound, HandlersSound, HandlerSound
  <1> QED
    BY <1>1, <1>2 DEF Serves

LEMMA RoutingStep == WellBehavedClients /\ RoutingInv /\ [Next]_vars => RoutingInv'
  <1> SUFFICES ASSUME WellBehavedClients, RoutingInv, [Next]_vars PROVE RoutingInv'
    OBVIOUS
  <1>1. TypeInv /\ Sound /\ Next => Sound'
    BY GoroutineRouting, RequestLoopRouting, ClientStepRouting, CrashRouting
       DEF Next, ConnStep
  <1> QED
    BY <1>1, StutterRouting, NextType DEF RoutingInv

\* When clients are well behaved, no route outlives its listener or leads to
\* another principal's, with any number of connections, users and ports, and
\* wherever transports are lost or pgrokd crashes.
THEOREM RoutesOwned == ASSUME WellBehavedClients PROVE Spec => []RoutesAreOwned
  <1>1. Init => RoutingInv
    BY InitType, InitRouting DEF RoutingInv
  <1>2. RoutingInv /\ [Next]_vars => RoutingInv'
    BY RoutingStep
  <1>3. RoutingInv => RoutesAreOwned
    BY SoundRoutes DEF RoutingInv
  <1> QED
    BY <1>1, <1>2, <1>3, PTL DEF Spec
----------------------------------------------------------------------------
\* The implementation of HostRegistry.

\* What a step of connection c may do to its requests and its host.
LEMMA SettledKept ==
    ASSUME NEW c \in Conns, HostSettled(c), client'[c].host = client[c].host,
           \A m \in Numbers : Active(c, m)' =>
               \/ \E i \in DOMAIN inbox[c] : inbox[c][i].type = "forward"
               \/ /\ Active(c, m)
                  /\ handler[c][m].pc \in Settled => handler'[c][m].pc \in Settled,
           \A i \in DOMAIN inbox'[c] : inbox'[c][i].type = "forward" =>
               \E j \in DOMAIN inbox[c] : inbox[c][j].type = "forward",
           peer'[c] # Gone => /\ peer[c] # Gone
                              /\ peer'[c].kind = peer[c].kind
                              /\ peer'[c].sent = peer[c].sent
    PROVE  HostSettled(c)'
  <1> SUFFICES ASSUME client[c].host # MainHost(c)
               PROVE  /\ \A m \in Numbers : Active(c, m)' => handler'[c][m].pc \in Settled
                      /\ \A i \in DOMAIN inbox'[c] : inbox'[c][i].type # "forward"
                      /\ peer'[c] # Gone => \A i \in Forwards(Script(c)') : i <= peer'[c].sent
    BY DEF HostSettled, MainHost, Settled, Forwards
  <1> QED
    BY DEF HostSettled, Script

\* Nothing of connection c changes.
LEMMA SettledFrame ==
    ASSUME NEW c \in Conns, HostSettled(c), client'[c] = client[c],
           peer'[c] = peer[c], inbox'[c] = inbox[c],
           \A m \in Numbers : handler'[c][m] = handler[c][m]
    PROVE  HostSettled(c)'
  BY SettledKept DEF Active

\* A connection that starts, or is closed, has the stable host.
LEMMA SettledFresh ==
    ASSUME NEW c \in Conns, client'[c].host = MainHost(c)
    PROVE  HostSettled(c)'
  BY DEF HostSettled, MainHost
----------------------------------------------------------------------------
\* HostSettled is inductive.

\* The goroutine of request n of connection c moves, and c.host stays.
LEMMA MoveSettled ==
    ASSUME NEW c \in Conns, NEW n \in Numbers, NEW new,
           \A d \in Conns : HostSettled(d),
           HandlerBecomes(c, n, new), UNCHANGED <<peer, inbox>>,
           client'[c].host = client[c].host,
           \A d \in Conns : d # c => client'[d] = client[d],
           new.pc \notin {"none", "refuse", "cancel"} =>
               Active(c, n) /\ (handler[c][n].pc \in Settled => new.pc \in Settled)
    PROVE  \A d \in Conns : HostSettled(d)'
  <1>1. \A m \in Numbers : Active(c, m)' =>
            Active(c, m) /\ (handler[c][m].pc \in Settled => handler'[c][m].pc \in Settled)
    BY DEF HandlerBecomes, Active
  <1>2. HostSettled(c)'
    BY <1>1, SettledKept
  <1>3. ASSUME NEW d \in Conns, d # c PROVE HostSettled(d)'
    BY <1>3, SettledFrame DEF HandlerBecomes
  <1> QED
    BY <1>2, <1>3

LEMMA AssignSettled ==
    ASSUME RegistryInv, WellBehavedClients, NEW c \in Conns, NEW n \in Numbers,
           AssignHost(c, n), UNCHANGED peer
    PROVE  \A d \in Conns : HostSettled(d)'
  <1>1. TypeOK /\ EndsAgree(c) /\ QueueSound(c) /\ handler[c][n] \in Handler
    BY DEF RegistryInv, RoutingInv, TypeInv, TypeOK, Sound
  <1>2. Active(c, n) /\ handler[c][n].pc = "assign"
    BY DEF AssignHost, Active
  <1> DEFINE new == [pc |-> "answer", port |-> handler[c][n].port, host |-> handler[c][n].host]
  <1>3. HandlerBecomes(c, n, new) /\ UNCHANGED <<inbox, peer>>
    BY <1>1, HandlerUpdate DEF AssignHost, Goto, TypeOK, Handler
  <1>4. \A d \in Conns : d # c => client'[d] = client[d]
    BY <1>1 DEF AssignHost, Update, TypeOK
  <1>5. \A m \in Numbers : Forwarding(c, m) => m = n
    BY <1>1, <1>2 DEF QueueSound, OneForward, Forwarding
  <1>6. \A m \in Numbers : Active(c, m)' => handler'[c][m].pc \in Settled
    BY <1>3, <1>5 DEF HandlerBecomes, Active, Forwarding, Settled
  <1>7. \A i \in DOMAIN inbox[c] : inbox[c][i].type # "forward"
    <2> SUFFICES ASSUME NEW i \in DOMAIN inbox[c], inbox[c][i].type = "forward" PROVE FALSE
      OBVIOUS
    <2>1. inbox[c][i].n \in Numbers
      BY <1>1, Inbox
    <2>2. inbox[c][i].n = n
      BY <1>5, <2>1 DEF Forwarding
    <2>3. n < inbox[c][i].n
      BY <1>1, <1>2 DEF QueueSound, InboxInOrder
    <2> QED
      BY <2>2, <2>3 DEF Numbers
  <1>8. peer[c] # Gone => \A i \in Forwards(Script(c)) : i <= peer[c].sent
    <2> SUFFICES ASSUME peer[c] # Gone, NEW i \in Forwards(Script(c)) PROVE i <= peer[c].sent
      OBVIOUS
    <2>1. n \in Forwards(Script(c)) /\ n <= peer[c].sent
      BY <1>1, <1>2 DEF QueueSound, OneForward, Forwarding
    <2>2. WellBehaved(peer[c].kind)
      BY <1>1, PeerFacts DEF WellBehavedClients, Peer
    <2>3. i = n
      BY <2>1, <2>2 DEF WellBehaved, Forwards, Script
    <2> QED
      BY <2>1, <2>3
  <1>9. HostSettled(c)'
    BY <1>3, <1>6, <1>7, <1>8 DEF HostSettled, Script
  <1>10. ASSUME NEW d \in Conns, d # c PROVE HostSettled(d)'
    BY <1>3, <1>4, <1>10, SettledFrame DEF HandlerBecomes, RegistryInv
  <1> QED
    BY <1>9, <1>10

LEMMA GoroutineSettled ==
    ASSUME RegistryInv, WellBehavedClients, NEW c \in Conns, NEW n \in Numbers,
           GoroutineStep(c, n)
    PROVE  \A d \in Conns : HostSettled(d)'
  <1> DEFINE h == handler[c][n]
  <1> USE HostFacts, PortFacts
  <1>1. /\ TypeOK /\ h \in Handler /\ client[c] \in Client
        /\ \A d \in Conns : HostSettled(d)
    BY DEF RegistryInv, RoutingInv, TypeInv, TypeOK
  <1>2. UNCHANGED <<peer, inbox>>
    BY DEF GoroutineStep, Goroutine, Refuse, Begin, AcquirePort, NoLuck, FailForward, Opened,
           PersistPort, RegisterHost, AssignHost, AnswerForward, StopServing, UnregisterHost,
           CloseListener, RunCancel
  <1>3. CASE AssignHost(c, n)
    BY <1>2, <1>3, AssignSettled
  <1>4. CASE ~AssignHost(c, n)
    <2>1. /\ client'[c].host = client[c].host
          /\ \A d \in Conns : d # c => client'[d] = client[d]
      <3>1. UNCHANGED client \/ FailForward(c, n) \/ Opened(c, n) \/ RunCancel(c, n)
        BY <1>4 DEF GoroutineStep, Goroutine, Refuse, Begin, AcquirePort, NoLuck, PersistPort,
           RegisterHost, AnswerForward, StopServing, UnregisterHost, CloseListener
      <3>2. CASE UNCHANGED client
        BY <3>2
      <3>3. CASE FailForward(c, n) \/ Opened(c, n) \/ RunCancel(c, n)
        <4>1. PICK fields : fields.host = client[c].host /\ Update(c, fields)
          BY <1>1, <3>3 DEF FailForward, Opened, RunCancel, Client
        <4> QED
          BY <1>1, <4>1 DEF Update, TypeOK
      <3> QED
        BY <3>1, <3>2, <3>3
    <2>2. /\ handler'[c][n].pc \notin {"none", "refuse", "cancel"} =>
                 Active(c, n) /\ (h.pc \in Settled => handler'[c][n].pc \in Settled)
          /\ \A d \in Conns, m \in Numbers : (d # c \/ m # n) => handler'[d][m] = handler[d][m]
      <3>1. ASSUME NEW pc, NEW port, NEW host, Become(c, n, pc, port, host)
            PROVE  /\ handler'[c][n].pc = pc
                   /\ \A d \in Conns, m \in Numbers :
                          (d # c \/ m # n) => handler'[d][m] = handler[d][m]
        BY <1>1, <3>1 DEF Become, TypeOK
      <3>2. \E pc, port, host :
                /\ Become(c, n, pc, port, host)
                /\ pc \notin {"none", "refuse", "cancel"} =>
                       Active(c, n) /\ (h.pc \in Settled => pc \in Settled)
        BY <1>4 DEF GoroutineStep, Goroutine, Refuse, Begin, AcquirePort, NoLuck, FailForward,
           Opened, PersistPort, RegisterHost, AnswerForward, StopServing, UnregisterHost,
           CloseListener, RunCancel, Goto, End, Active, Settled
      <3> QED
        BY <3>1, <3>2
    <2>3. \A m \in Numbers : Active(c, m)' =>
              Active(c, m) /\ (handler[c][m].pc \in Settled => handler'[c][m].pc \in Settled)
      BY <2>2 DEF Active
    <2>4. HostSettled(c)'
      BY <1>1, <1>2, <2>1, <2>3, SettledKept
    <2>5. ASSUME NEW d \in Conns, d # c PROVE HostSettled(d)'
      BY <1>1, <1>2, <2>1, <2>2, <2>5, SettledFrame
    <2> QED
      BY <2>4, <2>5
  <1> QED
    BY <1>3, <1>4

LEMMA RequestLoopSettled ==
    ASSUME RegistryInv, NEW c \in Conns, RequestLoopStep(c)
    PROVE  \A d \in Conns : HostSettled(d)'
  <1> DEFINE req == Head(inbox[c])
  <1>1. /\ TypeOK /\ client[c] \in Client /\ EndsAgree(c) /\ QueueSound(c)
        /\ \A d \in Conns : HostSettled(d)
    BY DEF RegistryInv, RoutingInv, TypeInv, TypeOK, Sound
  <1>2. inbox[c] # <<>> => inbox[c][1] = req /\ 1 \in DOMAIN inbox[c] /\ req.n \in Numbers
    BY <1>1, Inbox
  <1>3. UNCHANGED client \/ \E fields : Update(c, fields)
    BY DEF RequestLoopStep, RequestLoop, LoadPrincipal, LoadPrincipalFails, HandleHint,
       HandleForward, HandleCancel, HandleOther, HandleServerInfo, AnswerServerInfo, EndLoop
  <1>4. \A d \in Conns : d # c => client'[d] = client[d]
    BY <1>1, <1>3 DEF Update, TypeOK
  <1>5. client'[c].host \in {client[c].host, MainHost(c)}
    <2>1. ASSUME NEW fields, Update(c, fields), fields.host \in {client[c].host, MainHost(c)}
          PROVE  client'[c].host \in {client[c].host, MainHost(c)}
      BY <1>1, <2>1 DEF Update, TypeOK
    <2>2. CASE LoadPrincipal(c)
      <3> DEFINE fields == [client[c] EXCEPT !.state = "serving",
                                             !.lastPort = dbPort[PrincipalOf[c]]]
      <3>1. Update(c, fields)
        BY <2>2 DEF LoadPrincipal
      <3>2. fields.host = client[c].host
        BY <1>1 DEF Client
      <3> HIDE DEF fields
      <3> QED
        BY <2>1, <3>1, <3>2
    <2>3. CASE LoadPrincipalFails(c)
      <3> DEFINE fields == NewClient(c, "closed", FALSE)
      <3>1. Update(c, fields)
        BY <2>3 DEF LoadPrincipalFails
      <3>2. fields.host = MainHost(c)
        BY DEF NewClient
      <3> HIDE DEF fields
      <3> QED
        BY <2>1, <3>1, <3>2
    <2>4. CASE HandleHint(c)
      <3>1. UNCHANGED client \/ \E p : Update(c, [client[c] EXCEPT !.protocol = p])
        BY <2>4 DEF HandleHint
      <3>2. ASSUME NEW p PROVE [client[c] EXCEPT !.protocol = p].host = client[c].host
        BY <1>1 DEF Client
      <3> QED
        BY <2>1, <3>1, <3>2
    <2>5. CASE HandleServerInfo(c)
      <3>1. \E p : \/ Update(c, [client[c] EXCEPT !.protocol = p])
                  \/ Update(c, [client[c] EXCEPT !.protocol = p, !.state = "awaiting"])
        BY <2>5 DEF HandleServerInfo
      <3>2. ASSUME NEW p
            PROVE  /\ [client[c] EXCEPT !.protocol = p].host = client[c].host
                   /\ [client[c] EXCEPT !.protocol = p, !.state = "awaiting"].host
                          = client[c].host
        BY <1>1 DEF Client
      <3> QED
        BY <2>1, <3>1, <3>2
    <2>6. CASE AnswerServerInfo(c)
      <3> DEFINE fields == [client[c] EXCEPT !.state = "serving"]
      <3>1. Update(c, fields)
        BY <2>6 DEF AnswerServerInfo
      <3>2. fields.host = client[c].host
        BY <1>1 DEF Client
      <3> HIDE DEF fields
      <3> QED
        BY <2>1, <3>1, <3>2
    <2>7. CASE EndLoop(c)
      <3> DEFINE fields == [client[c] EXCEPT !.state = "closed", !.cancelled = TRUE]
      <3>1. Update(c, fields)
        BY <2>7 DEF EndLoop
      <3>2. fields.host = client[c].host
        BY <1>1 DEF Client
      <3> HIDE DEF fields
      <3> QED
        BY <2>1, <3>1, <3>2
    <2>8. CASE HandleForward(c) \/ HandleCancel(c) \/ HandleOther(c)
      BY <2>8 DEF HandleForward, HandleCancel, HandleOther
    <2> QED
      BY <2>2, <2>3, <2>4, <2>5, <2>6, <2>7, <2>8 DEF RequestLoopStep, RequestLoop
  <1>6. UNCHANGED peer \/ peer' = [peer EXCEPT ![c] = Gone]
    BY DEF RequestLoopStep
  <1>7. peer'[c] # Gone => peer'[c] = peer[c]
    BY <1>1, <1>6 DEF TypeOK
  <1>8. \/ UNCHANGED inbox
        \/ inbox[c] # <<>> /\ inbox' = [inbox EXCEPT ![c] = Tail(@)]
        \/ inbox' = [inbox EXCEPT ![c] = <<>>]
    BY <1>1 DEF RequestLoopStep, RequestLoop, NextRequest, TypeOK, LoadPrincipal, LoadPrincipalFails, HandleHint,
       HandleForward, HandleCancel, HandleOther, HandleServerInfo, AnswerServerInfo, EndLoop
  <1>9. \A i \in DOMAIN inbox'[c] : inbox'[c][i].type = "forward" =>
            \E j \in DOMAIN inbox[c] : inbox[c][j].type = "forward"
    <2>1. CASE UNCHANGED inbox
      BY <2>1
    <2>2. CASE inbox[c] # <<>> /\ inbox' = [inbox EXCEPT ![c] = Tail(@)]
      <3>1. inbox'[c] = Tail(inbox[c])
        BY <1>1, <2>2 DEF TypeOK
      <3> QED
        BY <1>1, <2>2, <3>1, InboxTail
    <2>3. CASE inbox' = [inbox EXCEPT ![c] = <<>>]
      <3>1. inbox'[c] = <<>>
        BY <1>1, <2>3 DEF TypeOK
      <3> QED
        BY <3>1
    <2> QED
      BY <1>8, <2>1, <2>2, <2>3
  <1>10. /\ \A m \in Numbers : Active(c, m)' =>
                \/ \E i \in DOMAIN inbox[c] : inbox[c][i].type = "forward"
                \/ /\ Active(c, m)
                   /\ handler[c][m].pc \in Settled => handler'[c][m].pc \in Settled
         /\ \A d \in Conns : d # c => \A m \in Numbers : handler'[d][m] = handler[d][m]
    <2>1. CASE UNCHANGED handler
      BY <2>1 DEF Active
    <2>2. CASE HandleForward(c)
      <3>1. \E i \in DOMAIN inbox[c] : inbox[c][i].type = "forward"
        BY <1>2, <2>2 DEF HandleForward, NextRequest
      <3>2. \A d \in Conns : d # c => handler'[d] = handler[d]
        BY <1>1, <2>2 DEF HandleForward, Goto, Become, TypeOK
      <3> QED
        BY <3>1, <3>2
    <2>3. CASE HandleCancel(c)
      <3>1. inbox[c] # <<>> /\ Goto(c, req.n, "cancel")
        BY <2>3 DEF HandleCancel, NextRequest
      <3>2. /\ handler'[c][req.n].pc = "cancel"
            /\ \A d \in Conns, m \in Numbers :
                   (d # c \/ m # req.n) => handler'[d][m] = handler[d][m]
        BY <1>1, <1>2, <3>1 DEF Goto, Become, TypeOK
      <3> QED
        BY <3>2 DEF Active
    <2> QED
      BY <2>1, <2>2, <2>3
         DEF RequestLoopStep, RequestLoop, LoadPrincipal, LoadPrincipalFails, HandleHint,
             HandleOther, HandleServerInfo, AnswerServerInfo, EndLoop
  <1>11. \A d \in Conns : d # c => peer'[d] = peer[d] /\ inbox'[d] = inbox[d]
    BY <1>1, <1>6, <1>8 DEF TypeOK
  <1>12. HostSettled(c)'
    <2>1. CASE client'[c].host = client[c].host
      BY <1>1, <1>7, <1>9, <1>10, <2>1, SettledKept
    <2> QED
      BY <1>5, <2>1, SettledFresh
  <1>13. ASSUME NEW d \in Conns, d # c PROVE HostSettled(d)'
    BY <1>1, <1>4, <1>10, <1>11, <1>13, SettledFrame
  <1> QED
    BY <1>12, <1>13

LEMMA SendSettled ==
    ASSUME RegistryInv, NEW c \in Conns, peer[c] # Gone, NEW step \in Content, NEW new,
           new.kind = peer[c].kind, new.sent = peer[c].sent + 1,
           step.type = "forward" =>
               /\ peer[c].sent + 1 \in DOMAIN Script(c)
               /\ Script(c)[peer[c].sent + 1].type = "forward",
           peer[c].sent < MaxRequests,
           SendRequest(c, step), UpdatePeer(c, new), UNCHANGED <<client, handler>>
    PROVE  \A d \in Conns : HostSettled(d)'
  <1>1. TypeOK /\ \A d \in Conns : HostSettled(d)
    BY DEF RegistryInv, RoutingInv, TypeInv
  <1>2. peer[c].sent \in Nat /\ peer[c] \in Peer
    BY <1>1, PeerFacts DEF Peer
  <1> DEFINE req == [n |-> peer[c].sent + 1, type |-> step.type,
                     protocol |-> step.protocol, rport |-> step.rport]
  <1>3. /\ peer'[c] = new /\ inbox'[c] = Append(inbox[c], req)
        /\ \A d \in Conns : d # c => peer'[d] = peer[d] /\ inbox'[d] = inbox[d]
    BY <1>1 DEF UpdatePeer, SendRequest, TypeOK
  <1>4. req \in Request
    <2>1. peer[c].sent + 1 \in Numbers
      BY <1>2, SshdAssumption DEF Numbers
    <2> QED
      BY <2>1 DEF Content, Request
  <1>5. inbox[c] \in Seq(Request)
    BY <1>1 DEF TypeOK
  <1>6. /\ DOMAIN Append(inbox[c], req) = 1 .. Len(inbox[c]) + 1
        /\ DOMAIN inbox[c] = 1 .. Len(inbox[c]) /\ Len(inbox[c]) \in Nat
        /\ \A i \in DOMAIN inbox[c] : Append(inbox[c], req)[i] = inbox[c][i]
        /\ Append(inbox[c], req)[Len(inbox[c]) + 1] = req
    BY <1>1, <1>4, <1>5, Appended, Inbox
  <1> HIDE DEF req
  <1>7. ASSUME client[c].host # MainHost(c)
        PROVE  /\ \A m \in Numbers : Active(c, m)' => handler'[c][m].pc \in Settled
               /\ \A i \in DOMAIN inbox'[c] : inbox'[c][i].type # "forward"
               /\ \A i \in Forwards(Script(c)') : i <= peer'[c].sent
    <2>1. /\ \A m \in Numbers : Active(c, m) => handler[c][m].pc \in Settled
          /\ \A i \in DOMAIN inbox[c] : inbox[c][i].type # "forward"
          /\ \A i \in Forwards(Script(c)) : i <= peer[c].sent
      BY <1>1, <1>7 DEF HostSettled
    <2>2. step.type # "forward"
      BY <1>2, <2>1 DEF Forwards
    <2>3. req.type # "forward"
      BY <2>2 DEF req
    <2>4. \A i \in DOMAIN inbox'[c] : inbox'[c][i].type # "forward"
      <3> SUFFICES ASSUME NEW i \in 1 .. Len(inbox[c]) + 1
                   PROVE  Append(inbox[c], req)[i].type # "forward"
        BY <1>3, <1>6
      <3>1. i \in DOMAIN inbox[c] \/ i = Len(inbox[c]) + 1
        BY <1>6
      <3> QED
        BY <1>6, <2>1, <2>3, <3>1
    <2>5. Script(c)' = Script(c)
      BY <1>3 DEF Script
    <2>6. \A i \in Forwards(Script(c)) : i <= peer[c].sent + 1
      <3>1. Forwards(Script(c)) \subseteq Nat
        <4>1. peer[c].kind \in Kinds
          BY <1>2 DEF Peer
        <4>2. Script(c) \in Seq(Step)
          BY <4>1, TunnelAssumption DEF Script
        <4> QED
          BY <4>2 DEF Forwards
      <3> QED
        BY <1>2, <2>1, <3>1
    <2> QED
      BY <1>3, <2>1, <2>4, <2>5, <2>6 DEF Active
  <1>8. HostSettled(c)'
    BY <1>7 DEF HostSettled, MainHost, Settled, Forwards
  <1>9. ASSUME NEW d \in Conns, d # c PROVE HostSettled(d)'
    BY <1>1, <1>3, <1>9, SettledFrame
  <1> QED
    BY <1>8, <1>9

LEMMA ClientStepSettled ==
    ASSUME RegistryInv, NEW c \in Conns,
           \/ \E k \in Kinds : Dial(c, k)
           \/ SendNext(c) \/ SendCancel(c) \/ HearReply(c) \/ Drop(c)
           \/ WaiterStep(c)
    PROVE  \A d \in Conns : HostSettled(d)'
  <1>1. /\ TypeOK /\ client[c] \in Client /\ EndsAgree(c) /\ QueueSound(c)
        /\ \A d \in Conns : HostSettled(d)
    BY DEF RegistryInv, RoutingInv, TypeInv, TypeOK, Sound
  <1>2. peer[c] # Gone => /\ peer[c] \in Peer /\ peer[c].sent \in Nat
                          /\ DOMAIN Script(c) = 1 .. Len(Script(c))
                          /\ Len(Script(c)) \in Nat /\ Len(Script(c)) < MaxRequests
    BY <1>1, PeerFacts DEF Peer
  <1>3. ASSUME NEW k \in Kinds, Dial(c, k) PROVE \A d \in Conns : HostSettled(d)'
    <2>1. /\ UNCHANGED handler /\ Update(c, NewClient(c, "loading", TRUE))
          /\ inbox' = [inbox EXCEPT ![c] = <<>>] /\ UpdatePeer(c, NewPeer(k))
      BY <1>3 DEF Dial, Handshake
    <2>2. client'[c].host = MainHost(c)
      BY <1>1, <2>1 DEF Update, NewClient, TypeOK
    <2>3. \A d \in Conns : d # c => /\ client'[d] = client[d] /\ inbox'[d] = inbox[d]
                                    /\ peer'[d] = peer[d]
      BY <1>1, <2>1 DEF Update, UpdatePeer, TypeOK
    <2> QED
      BY <1>1, <2>1, <2>2, <2>3, SettledFresh, SettledFrame
  <1>4. CASE SendNext(c)
    <2>1. peer[c] # Gone
      BY <1>4, RunningFacts DEF SendNext
    <2> DEFINE step == Script(c)[peer[c].sent + 1]
               new == [peer[c] EXCEPT !.sent = @ + 1]
    <2>2. peer[c].sent + 1 \in DOMAIN Script(c) /\ peer[c].sent < MaxRequests
      BY <1>2, <1>4, <2>1, SshdAssumption DEF SendNext
    <2>3. step \in Content
      <3>1. Script(c) \in Seq(Step)
        BY <1>1, <2>1, PeerFacts
      <3>2. step \in Step
        BY <2>2, <3>1
      <3> QED
        BY <3>2 DEF Step, Content
    <2>4. new.kind = peer[c].kind /\ new.sent = peer[c].sent + 1
      BY <1>2, <2>1 DEF Peer
    <2>5. SendRequest(c, step) /\ UpdatePeer(c, new) /\ UNCHANGED <<client, handler>>
      BY <1>4 DEF SendNext
    <2>6. step.type = "forward" => Script(c)[peer[c].sent + 1].type = "forward"
      OBVIOUS
    <2> HIDE DEF step, new
    <2> QED
      BY <2>1, <2>2, <2>3, <2>4, <2>5, <2>6, SendSettled
  <1>5. CASE SendCancel(c)
    <2>1. peer[c] # Gone
      BY <1>5, RunningFacts DEF SendCancel
    <2>2. peer[c].sent <= Len(Script(c))
      BY <1>1, <1>5, <2>1 DEF SendCancel, EndsAgree, Running
    <2>3. peer[c].sent < MaxRequests
      <3>1. MaxRequests \in Nat
        BY SshdAssumption
      <3> QED
        BY <1>2, <2>1, <2>2, <3>1
    <2>4. CancelForward \in Content /\ CancelForward.type = "cancel"
      BY DEF CancelForward, Content
    <2> DEFINE sent == peer[c].sent + 1
               new == [peer[c] EXCEPT !.status = "abandoned", !.sent = sent]
    <2>5. SendRequest(c, CancelForward) /\ UpdatePeer(c, new) /\ UNCHANGED <<client, handler>>
      BY <1>5 DEF SendCancel
    <2>6. sent = peer[c].sent + 1
      OBVIOUS
    <2> HIDE DEF sent
    <2>7. new.kind = peer[c].kind /\ new.sent = peer[c].sent + 1
      BY <1>2, <2>1, <2>6 DEF Peer
    <2> HIDE DEF new
    <2> QED
      BY <2>1, <2>3, <2>4, <2>5, <2>7, SendSettled
  <1>6. CASE HearReply(c)
    <2>1. PICK new : /\ UpdatePeer(c, new) /\ UNCHANGED <<client, handler, inbox>>
                     /\ new.kind = peer[c].kind /\ new.sent = peer[c].sent
      <3>1. peer[c] # Gone
        BY <1>1, <1>6 DEF HearReply, EndsAgree
      <3>2. PICK status, heard, host, port :
                UpdatePeer(c, [peer[c] EXCEPT !.heard = heard, !.status = status,
                                              !.host = host, !.port = port])
        BY <1>6 DEF HearReply
      <3>3. UNCHANGED <<client, handler, inbox>>
        BY <1>6 DEF HearReply
      <3>4. /\ [peer[c] EXCEPT !.heard = heard, !.status = status,
                               !.host = host, !.port = port].kind = peer[c].kind
            /\ [peer[c] EXCEPT !.heard = heard, !.status = status,
                               !.host = host, !.port = port].sent = peer[c].sent
        BY <1>2, <3>1 DEF Peer
      <3> QED
        BY <3>2, <3>3, <3>4
    <2>2. peer[c] # Gone
      BY <1>1, <1>6 DEF HearReply, EndsAgree
    <2>3. peer'[c] = new /\ \A d \in Conns : d # c => peer'[d] = peer[d]
      BY <1>1, <2>1 DEF UpdatePeer, TypeOK
    <2>4. HostSettled(c)'
      BY <1>1, <2>1, <2>2, <2>3, SettledKept DEF Active
    <2> QED
      BY <1>1, <2>1, <2>3, <2>4, SettledFrame
  <1>7. CASE Drop(c)
    <2>1. PICK k \in (IF client[c].state = "awaiting" THEN 1 ELSE 0) .. Len(inbox[c]) :
              inbox' = [inbox EXCEPT ![c] = SubSeq(@, 1, k)]
      BY <1>7 DEF Drop
    <2>2. /\ inbox'[c] = SubSeq(inbox[c], 1, k) /\ k \in 0 .. Len(inbox[c])
          /\ \A d \in Conns : d # c => inbox'[d] = inbox[d]
      BY <1>1, <2>1, Inbox DEF TypeOK
    <2>3. \A i \in DOMAIN inbox'[c] : i \in DOMAIN inbox[c] /\ inbox'[c][i] = inbox[c][i]
      <3>1. inbox[c] \in Seq(Request)
        BY <1>1, Inbox
      <3> QED
        BY <2>2, <3>1
    <2>4. UNCHANGED handler /\ peer'[c] = Gone /\ \A d \in Conns : d # c => peer'[d] = peer[d]
      BY <1>1, <1>7 DEF Drop, UpdatePeer, TypeOK
    <2>5. client'[c].host = client[c].host /\ \A d \in Conns : d # c => client'[d] = client[d]
      <3>1. Update(c, [client[c] EXCEPT !.up = FALSE])
        BY <1>7 DEF Drop
      <3> QED
        BY <1>1, <3>1 DEF Update, Client, TypeOK
    <2>6. HostSettled(c)'
      BY <1>1, <2>3, <2>4, <2>5, SettledKept DEF Active
    <2> QED
      BY <1>1, <2>2, <2>4, <2>5, <2>6, SettledFrame
  <1>8. CASE WaiterStep(c)
    <2>1. UNCHANGED <<peer, inbox, handler>> /\ Update(c, [client[c] EXCEPT !.cancelled = TRUE])
      BY <1>8 DEF WaiterStep, WaiterCancels
    <2>2. client'[c].host = client[c].host /\ \A d \in Conns : d # c => client'[d] = client[d]
      BY <1>1, <2>1 DEF Update, Client, TypeOK
    <2>3. HostSettled(c)'
      BY <1>1, <2>1, <2>2, SettledKept DEF Active
    <2> QED
      BY <1>1, <2>1, <2>2, <2>3, SettledFrame
  <1> QED
    BY <1>3, <1>4, <1>5, <1>6, <1>7, <1>8

LEMMA RegistryInvInit == ASSUME Init PROVE RegistryInv
  <1>1. RoutingInv
    BY InitType, InitRouting DEF RoutingInv
  <1>2. \A c \in Conns : client[c].host = MainHost(c)
    BY DEF Init, SshdInit, NewClient
  <1> QED
    BY <1>1, <1>2 DEF RegistryInv, HostSettled

LEMMA RegistryInvStep == WellBehavedClients /\ RegistryInv /\ [Next]_vars => RegistryInv'
  <1> SUFFICES ASSUME WellBehavedClients, RegistryInv, [Next]_vars PROVE RegistryInv'
    OBVIOUS
  <1>1. RoutingInv'
    BY RoutingStep DEF RegistryInv
  <1>2. CASE Crash
    <2>1. \A c \in Conns : client'[c].host = MainHost(c)
      BY <1>2 DEF Crash, NewClient
    <2> QED
      BY <1>1, <2>1, SettledFresh DEF RegistryInv
  <1>3. ASSUME NEW c \in Conns, ConnStep(c) PROVE \A d \in Conns : HostSettled(d)'
    BY <1>3, GoroutineSettled, RequestLoopSettled, ClientStepSettled DEF ConnStep
  <1>4. CASE UNCHANGED vars
    BY <1>1, <1>4, SettledFrame DEF vars, RegistryInv
  <1> QED
    BY <1>1, <1>2, <1>3, <1>4 DEF Next, RegistryInv
----------------------------------------------------------------------------
\* What the refinement mapping shows, in a state that satisfies RegistryInv.

Holds(c, n, host) == Registered(c, n) /\ handler[c][n].host = host

Mapped ==
    /\ \A c \in Conns, n \in Numbers : Registered(c, n) =>
           /\ RouteNow[handler[c][n].host] = c
           /\ PhaseNow[c] = IF handler[c][n].pc = "unregister" THEN "ending" ELSE "live"
    /\ \A host \in Host :
           (\A c \in Conns, n \in Numbers : ~Holds(c, n, host)) => RouteNow[host] = NoHost
    /\ \A c \in Conns : (\A n \in Numbers : ~Registered(c, n)) => PhaseNow[c] = "out"

LEMMA MappedHolds == RegistryInv => Mapped
  <1> SUFFICES ASSUME RegistryInv PROVE Mapped
    OBVIOUS
  <1> USE DEF RegistryInv, RoutingInv, Sound
  <1>1. ASSUME NEW c \in Conns, NEW n \in Numbers, Registered(c, n)
        PROVE  /\ RouteNow[handler[c][n].host] = c
               /\ PhaseNow[c] = IF handler[c][n].pc = "unregister" THEN "ending" ELSE "live"
    <2> DEFINE host == handler[c][n].host
    <2>1. /\ host \in Host /\ proxies[host] = handler[c][n].port /\ handler[c][n].port # 0
      BY <1>1, HostFacts DEF RoutesSound, HandlersSound, HandlerSound
    <2>2. Serves(c, n, host) /\ Exists(proxies, host)
      BY <2>1 DEF Serves, Exists, Get, Absent
    <2>3. \A d \in Conns : (\E m \in Numbers : Registered(d, m) /\ Serves(d, m, host)) => d = c
      BY <1>1 DEF RoutesSound, Serves
    <2>4. Holder(host) = c
      BY <1>1, <2>2, <2>3 DEF Holder
    <2>5. RouteNow[host] = c
      BY <2>1, <2>2, <2>4 DEF RouteNow
    <2>6. \A m \in Numbers : Registered(c, m) => m = n
      BY <1>1, ForwardAlone DEF Active, Registered
    <2> QED
      BY <1>1, <2>5, <2>6 DEF PhaseNow
  <1>2. ASSUME NEW host \in Host, \A c \in Conns, n \in Numbers : ~Holds(c, n, host)
        PROVE  RouteNow[host] = NoHost
    BY <1>2 DEF RoutesSound, Holds, RouteNow
  <1>3. ASSUME NEW c \in Conns, \A n \in Numbers : ~Registered(c, n) PROVE PhaseNow[c] = "out"
    BY <1>3 DEF PhaseNow
  <1> QED
    BY <1>1, <1>2, <1>3 DEF Mapped

\* Registrations are the same, and the tunnels that are ending.
LEMMA SameRegistrations ==
    ASSUME Mapped, Mapped',
           \A c \in Conns, n \in Numbers :
               /\ Registered(c, n)' <=> Registered(c, n)
               /\ Registered(c, n) =>
                      /\ handler'[c][n].host = handler[c][n].host
                      /\ handler'[c][n].pc = "unregister" <=> handler[c][n].pc = "unregister"
    PROVE  UNCHANGED <<RouteNow, PhaseNow>>
  <1>1. ASSUME NEW host \in Host PROVE RouteNow'[host] = RouteNow[host]
    <2>1. CASE \A c \in Conns, n \in Numbers : ~Holds(c, n, host)
      <3>1. \A c \in Conns, n \in Numbers : ~Holds(c, n, host)'
        BY <2>1 DEF Holds
      <3> QED
        BY <2>1, <3>1 DEF Mapped
    <2>2. ASSUME NEW c \in Conns, NEW n \in Numbers, Holds(c, n, host)
          PROVE  RouteNow'[host] = RouteNow[host]
      BY <2>2 DEF Mapped, Holds
    <2> QED
      BY <2>1, <2>2
  <1>2. ASSUME NEW c \in Conns PROVE PhaseNow'[c] = PhaseNow[c]
    <2>1. CASE \A n \in Numbers : ~Registered(c, n)
      BY <2>1 DEF Mapped
    <2>2. ASSUME NEW n \in Numbers, Registered(c, n) PROVE PhaseNow'[c] = PhaseNow[c]
      BY <2>2 DEF Mapped
    <2> QED
      BY <2>1, <2>2
  <1>3. RouteNow' = [host \in Host |-> RouteNow'[host]] /\ RouteNow = [host \in Host |-> RouteNow[host]]
    BY DEF RouteNow
  <1>4. PhaseNow' = [c \in Conns |-> PhaseNow'[c]] /\ PhaseNow = [c \in Conns |-> PhaseNow[c]]
    BY DEF PhaseNow
  <1>5. RouteNow' = RouteNow
    BY <1>1, <1>3
  <1>6. PhaseNow' = PhaseNow
    BY <1>2, <1>4
  <1> QED
    BY <1>5, <1>6

\* The goroutine (c, n) moves, and no other.
OthersSame(c, n) ==
    \A d \in Conns, m \in Numbers : (d # c \/ m # n) => handler'[d][m] = handler[d][m]

LEMMA MappedFunctions ==
    /\ RouteNow = [host \in Host |-> RouteNow[host]]
    /\ PhaseNow = [c \in Conns |-> PhaseNow[c]]
    /\ RouteNow' = [host \in Host |-> RouteNow'[host]]
    /\ PhaseNow' = [c \in Conns |-> PhaseNow'[c]]
  BY DEF RouteNow, PhaseNow

\* The goroutine (c, n) has registered a host that was free.
LEMMA Claims ==
    ASSUME Mapped, Mapped', Sound, NEW c \in Conns, NEW n \in Numbers, OthersSame(c, n),
           Active(c, n), ~Registered(c, n), NEW used \in Host,
           handler'[c][n].pc = "assign", handler'[c][n].host = used,
           \A d \in Conns, m \in Numbers : ~Holds(d, m, used),
           \/ used = MainHost(c)
           \/ /\ used \in Alternatives(c)
              /\ \E d \in Conns, m \in Numbers : Holds(d, m, MainHost(c))
    PROVE  Registry!Claim(c, used)
  <1>1. \A m \in Numbers : ~Registered(c, m)
    BY ForwardAlone DEF Sound, Active, Registered
  <1>2. Registered(c, n)' /\ Holds(c, n, used)'
    BY HostFacts DEF Registered, Holds
  <1>3. \A d \in Conns, m \in Numbers : (d # c \/ m # n) =>
            /\ Registered(d, m)' <=> Registered(d, m)
            /\ \A host \in Host : Holds(d, m, host)' <=> Holds(d, m, host)
    BY DEF OthersSame, Registered, Holds
  <1>4. PhaseNow[c] = "out" /\ RouteNow[used] = NoHost
    BY <1>1 DEF Mapped
  <1>5. Registry!Allowed(c, used)
    <2>1. CASE used = MainHost(c)
      BY <2>1 DEF Registry!Allowed
    <2>2. CASE used \in Alternatives(c) /\ \E d \in Conns, m \in Numbers : Holds(d, m, MainHost(c))
      <3>1. PICK d \in Conns, m \in Numbers : Holds(d, m, MainHost(c))
        BY <2>2
      <3>2. d # c /\ d # NoHost
        BY <1>1, <3>1, RegistryAssumption DEF Holds
      <3>3. RouteNow[MainHost(c)] = d
        BY <3>1 DEF Mapped, Holds
      <3> QED
        BY <2>2, <3>2, <3>3 DEF Registry!Allowed
    <2> QED
      BY <2>1, <2>2
  <1>6. RouteNow'[used] = c /\ PhaseNow'[c] = "live"
    BY <1>2 DEF Mapped
  <1>7. ASSUME NEW host \in Host, host # used PROVE RouteNow'[host] = RouteNow[host]
    <2>1. CASE \A d \in Conns, m \in Numbers : ~Holds(d, m, host)
      <3>1. \A d \in Conns, m \in Numbers : ~Holds(d, m, host)'
        BY <1>2, <1>3, <1>7, <2>1 DEF Holds
      <3> QED
        BY <2>1, <3>1 DEF Mapped
    <2>2. ASSUME NEW d \in Conns, NEW m \in Numbers, Holds(d, m, host)
          PROVE  RouteNow'[host] = RouteNow[host]
      <3>1. Holds(d, m, host)'
        BY <1>1, <1>3, <2>2 DEF Holds
      <3> QED
        BY <2>2, <3>1 DEF Mapped, Holds
    <2> QED
      BY <2>1, <2>2
  <1>8. ASSUME NEW d \in Conns, d # c PROVE PhaseNow'[d] = PhaseNow[d]
    <2>1. \A m \in Numbers : handler'[d][m] = handler[d][m]
      BY <1>8 DEF OthersSame
    <2> QED
      BY <2>1 DEF PhaseNow, Registered
  <1>9. RouteNow' = [RouteNow EXCEPT ![used] = c] /\ PhaseNow' = [PhaseNow EXCEPT ![c] = "live"]
    <2>1. RouteNow' = [RouteNow EXCEPT ![used] = c]
      BY <1>6, <1>7, MappedFunctions
    <2>2. PhaseNow' = [PhaseNow EXCEPT ![c] = "live"]
      BY <1>6, <1>8, MappedFunctions
    <2> QED
      BY <2>1, <2>2
  <1> QED
    BY <1>4, <1>5, <1>9 DEF Registry!Claim

LEMMA Finishes ==
    ASSUME Mapped, Mapped', Sound, NEW c \in Conns, NEW n \in Numbers, OthersSame(c, n),
           Registered(c, n), handler[c][n].pc = "serving",
           handler'[c][n].pc = "unregister", handler'[c][n].host = handler[c][n].host
    PROVE  Registry!Finish(c)
  <1>1. Registered(c, n)' /\ \A d \in Conns, m \in Numbers : Registered(d, m)' <=> Registered(d, m)
    BY DEF Registered, OthersSame
  <1>2. PhaseNow[c] = "live" /\ PhaseNow'[c] = "ending"
    BY <1>1 DEF Mapped
  <1>3. ASSUME NEW d \in Conns, d # c PROVE PhaseNow'[d] = PhaseNow[d]
    <2>1. \A m \in Numbers : handler'[d][m] = handler[d][m]
      BY <1>3 DEF OthersSame
    <2> QED
      BY <2>1 DEF PhaseNow, Registered
  <1>4. ASSUME NEW host \in Host PROVE RouteNow'[host] = RouteNow[host]
    <2>1. CASE \A d \in Conns, m \in Numbers : ~Holds(d, m, host)
      <3>1. \A d \in Conns, m \in Numbers : ~Holds(d, m, host)'
        BY <1>1, <2>1 DEF Holds, OthersSame
      <3> QED
        BY <2>1, <3>1 DEF Mapped
    <2>2. ASSUME NEW d \in Conns, NEW m \in Numbers, Holds(d, m, host)
          PROVE  RouteNow'[host] = RouteNow[host]
      <3>1. Holds(d, m, host)'
        BY <1>1, <2>2 DEF Holds, OthersSame
      <3> QED
        BY <2>2, <3>1 DEF Mapped, Holds
    <2> QED
      BY <2>1, <2>2
  <1>5. RouteNow' = RouteNow
    BY <1>4, MappedFunctions
  <1>6. PhaseNow' = [PhaseNow EXCEPT ![c] = "ending"]
    BY <1>2, <1>3, MappedFunctions
  <1> QED
    BY <1>2, <1>5, <1>6 DEF Registry!Finish

LEMMA Releases ==
    ASSUME Mapped, Mapped', Sound, NEW c \in Conns, NEW n \in Numbers, OthersSame(c, n),
           Registered(c, n), handler[c][n].pc = "unregister", ~Registered(c, n)'
    PROVE  Registry!Release(c)
  <1>1. \A m \in Numbers : Registered(c, m) => m = n
    BY ForwardAlone DEF Sound, Active, Registered
  <1>2. \A m \in Numbers : ~Registered(c, m)'
    BY <1>1 DEF OthersSame, Registered
  <1>3. PhaseNow[c] = "ending" /\ PhaseNow'[c] = "out"
    BY <1>2 DEF Mapped
  <1>4. ASSUME NEW d \in Conns, d # c PROVE PhaseNow'[d] = PhaseNow[d]
    <2>1. \A m \in Numbers : handler'[d][m] = handler[d][m]
      BY <1>4 DEF OthersSame
    <2> QED
      BY <2>1 DEF PhaseNow, Registered
  <1>5. ASSUME NEW host \in Host
        PROVE  RouteNow'[host] = IF RouteNow[host] = c THEN NoHost ELSE RouteNow[host]
    <2>1. CASE \A d \in Conns, m \in Numbers : ~Holds(d, m, host)
      <3>1. \A d \in Conns, m \in Numbers : ~Holds(d, m, host)'
        BY <1>2, <2>1 DEF Holds, OthersSame, Registered
      <3> QED
        BY <2>1, <3>1 DEF Mapped
    <2>2. CASE Holds(c, n, host)
      <3>1. \A d \in Conns, m \in Numbers : ~Holds(d, m, host)'
        BY <1>2, <2>2 DEF Holds, OthersSame, Registered, Sound, RoutesSound
      <3>2. RouteNow[host] = c
        BY <2>2 DEF Mapped, Holds
      <3> QED
        BY <3>1, <3>2 DEF Mapped
    <2>3. ASSUME NEW d \in Conns, NEW m \in Numbers, Holds(d, m, host), d # c
          PROVE  RouteNow'[host] = IF RouteNow[host] = c THEN NoHost ELSE RouteNow[host]
      <3>1. Holds(d, m, host)' /\ handler'[d][m] = handler[d][m]
        BY <2>3 DEF Holds, OthersSame, Registered
      <3>2. RouteNow[host] = d /\ RouteNow'[host] = d
        BY <2>3, <3>1 DEF Mapped, Holds
      <3> QED
        BY <2>3, <3>2
    <2> QED
      BY <1>1, <2>1, <2>2, <2>3 DEF Holds
  <1>6. RouteNow' = [host \in Host |-> IF RouteNow[host] = c THEN NoHost ELSE RouteNow[host]]
    BY <1>5, MappedFunctions
  <1>7. PhaseNow' = [PhaseNow EXCEPT ![c] = "out"]
    BY <1>3, <1>4, MappedFunctions
  <1> QED
    BY <1>3, <1>6, <1>7 DEF Registry!Release
----------------------------------------------------------------------------
\* Every step of Tunnel is a step of the registry, or none.

\* RegisterHost asks for the stable host; it fails, or it is given a free host,
\* the stable one unless another tunnel has that.
LEMMA Registration ==
    ASSUME RegistryInv, NEW c \in Conns, NEW n \in Numbers, RegisterHost(c, n)
    PROVE  \/ handler'[c][n].host = NoHost
           \/ /\ handler'[c][n].pc = "assign" /\ handler'[c][n].host \in Host
              /\ \A d \in Conns, m \in Numbers : ~Holds(d, m, handler'[c][n].host)
              /\ \/ handler'[c][n].host = MainHost(c)
                 \/ /\ handler'[c][n].host \in Alternatives(c)
                    /\ \E d \in Conns, m \in Numbers :
                           d # c /\ Holds(d, m, MainHost(c)) /\ Serves(d, m, MainHost(c))
  <1> USE HostFacts
  <1>1. /\ TypeOK /\ handler[c][n] \in Handler /\ QueueSound(c) /\ HandlerSound(c, n)
        /\ RoutesSound /\ HostSettled(c) /\ \A d \in Conns : HandlersSound(d)
    BY DEF RegistryInv, RoutingInv, TypeInv, TypeOK, Sound, HandlersSound
  <1>2. handler[c][n].pc = "register" /\ Active(c, n) /\ ~Registered(c, n)
    BY DEF RegisterHost, Active, Registered
  <1>3. client[c].host = MainHost(c)
    BY <1>1, <1>2 DEF HostSettled, Settled
  <1>4. HostReads(c) = {MainHost(c)}
    BY <1>1, <1>2, <1>3, Reads
  <1>5. ASSUME NEW pc, NEW port, NEW host, Become(c, n, pc, port, host)
        PROVE  handler'[c][n].pc = pc /\ handler'[c][n].host = host
    BY <1>1, <1>5 DEF Become, TypeOK
  <1>6. CASE Goto(c, n, "answer")
    BY <1>1, <1>2, <1>5, <1>6 DEF Goto, HandlerSound
  <1>7. ASSUME NEW alternative \in Alternatives(c),
               LET used == SetHost(proxies, MainHost(c), alternative)
               IN  Become(c, n, IF used = NoHost THEN "failed" ELSE "assign",
                          handler[c][n].port, used)
        PROVE  \/ handler'[c][n].host = NoHost
               \/ /\ handler'[c][n].pc = "assign" /\ handler'[c][n].host \in Host
                  /\ \A d \in Conns, m \in Numbers : ~Holds(d, m, handler'[c][n].host)
                  /\ \/ handler'[c][n].host = MainHost(c)
                     \/ /\ handler'[c][n].host \in Alternatives(c)
                        /\ \E d \in Conns, m \in Numbers :
                               d # c /\ Holds(d, m, MainHost(c)) /\ Serves(d, m, MainHost(c))
    <2> DEFINE used == SetHost(proxies, MainHost(c), alternative)
    <2>1. handler'[c][n].host = used /\ (used # NoHost => handler'[c][n].pc = "assign")
      BY <1>5, <1>7
    <2>2. CASE used # NoHost
      <3>1. ~Exists(proxies, used) /\ used \in Host
        BY <1>7, <2>2 DEF SetHost
      <3>2. \A d \in Conns, m \in Numbers : ~Holds(d, m, used)
        <4> SUFFICES ASSUME NEW d \in Conns, NEW m \in Numbers, Holds(d, m, used) PROVE FALSE
          OBVIOUS
        <4>1. proxies[used] = handler[d][m].port /\ handler[d][m].port # 0
          BY <1>1 DEF RoutesSound, HandlersSound, HandlerSound, Holds
        <4> QED
          BY <3>1, <4>1 DEF Exists, Get, Absent
      <3>3. \/ used = MainHost(c)
            \/ used \in Alternatives(c) /\ Exists(proxies, MainHost(c))
        BY <1>7, <2>2 DEF SetHost
      <3>4. ASSUME Exists(proxies, MainHost(c))
            PROVE  \E d \in Conns, m \in Numbers :
                       d # c /\ Holds(d, m, MainHost(c)) /\ Serves(d, m, MainHost(c))
        <4>1. PICK d \in Conns, m \in Numbers : Holds(d, m, MainHost(c))
          BY <1>1, <3>4 DEF RoutesSound, Holds
        <4>2. Serves(d, m, MainHost(c))
          BY <1>1, <4>1 DEF RoutesSound, HandlersSound, HandlerSound, Holds, Serves
        <4>3. \A k \in Numbers : ~Registered(c, k)
          BY <1>1, <1>2, ForwardAlone DEF Active, Registered
        <4> QED
          BY <4>1, <4>2, <4>3 DEF Holds
      <3> HIDE DEF used
      <3> QED
        BY <2>1, <2>2, <3>1, <3>2, <3>3, <3>4
    <2> HIDE DEF used
    <2> QED
      BY <2>1, <2>2
  <1> QED
    BY <1>4, <1>6, <1>7 DEF RegisterHost

LEMMA GoroutineRefines ==
    ASSUME RegistryInv, Mapped, Mapped', NEW c \in Conns, NEW n \in Numbers,
           GoroutineStep(c, n)
    PROVE  Registry!Next \/ UNCHANGED <<RouteNow, PhaseNow>>
  <1> USE HostFacts
  <1>1. /\ TypeOK /\ Sound /\ handler[c][n] \in Handler
        /\ QueueSound(c) /\ HandlerSound(c, n)
    BY DEF RegistryInv, RoutingInv, TypeInv, TypeOK, Sound, HandlersSound
  <1>2. ASSUME NEW pc, NEW port, NEW host, Become(c, n, pc, port, host)
        PROVE  /\ handler'[c][n].pc = pc /\ handler'[c][n].host = host
               /\ OthersSame(c, n)
    BY <1>1, <1>2 DEF Become, TypeOK, OthersSame
  <1>3. \E pc, port, host : Become(c, n, pc, port, host)
    BY DEF GoroutineStep, Goroutine, Refuse, Begin, AcquirePort, NoLuck, FailForward,
           Opened, PersistPort, RegisterHost, AssignHost, AnswerForward, StopServing,
           UnregisterHost, CloseListener, RunCancel, Goto, End
  <1>4. OthersSame(c, n)
    BY <1>2, <1>3
  <1>5. ASSUME Registered(c, n)' <=> Registered(c, n),
               Registered(c, n) =>
                   /\ handler'[c][n].host = handler[c][n].host
                   /\ handler'[c][n].pc = "unregister" <=> handler[c][n].pc = "unregister"
        PROVE  UNCHANGED <<RouteNow, PhaseNow>>
    BY <1>4, <1>5, SameRegistrations DEF OthersSame, Registered
  <1>6. CASE RegisterHost(c, n)
    <2>1. handler[c][n].pc = "register" /\ Active(c, n) /\ ~Registered(c, n)
      BY <1>6 DEF RegisterHost, Active, Registered
    <2>2. CASE handler'[c][n].host = NoHost
      BY <1>5, <2>1, <2>2 DEF Registered
    <2>3. CASE handler'[c][n].host # NoHost
      BY <1>1, <1>4, <1>6, <2>1, <2>3, Registration, Claims DEF Registry!Next
    <2> QED
      BY <2>2, <2>3
  <1>7. CASE StopServing(c, n)
    <2>1. handler[c][n].pc = "serving" /\ Active(c, n)
      BY <1>7 DEF StopServing, Active
    <2>2. /\ handler'[c][n].pc = IF client[c].protocol = "http" THEN "unregister" ELSE "closing"
          /\ handler'[c][n].host = handler[c][n].host
      BY <1>1, <1>2, <1>7, <2>1, Reads DEF StopServing, Goto
    <2>3. handler[c][n].host # NoHost <=> client[c].protocol = "http"
      BY <1>1, <2>1 DEF HandlerSound
    <2>4. CASE Registered(c, n)
      BY <1>1, <1>4, <2>1, <2>2, <2>3, <2>4, Finishes DEF Registry!Next, Registered
    <2>5. CASE ~Registered(c, n)
      BY <1>5, <2>1, <2>2, <2>3, <2>5 DEF Registered
    <2> QED
      BY <2>4, <2>5
  <1>8. CASE UnregisterHost(c, n)
    <2>1. handler[c][n].pc = "unregister" /\ Goto(c, n, "closing")
      BY <1>8 DEF UnregisterHost
    <2>2. Registered(c, n) /\ ~Registered(c, n)'
      BY <1>1, <1>2, <2>1 DEF Goto, Registered, HandlerSound
    <2> QED
      BY <1>1, <1>4, <2>1, <2>2, Releases DEF Registry!Next
  <1>9. CASE AssignHost(c, n) \/ AnswerForward(c, n)
    <2>1. /\ handler[c][n].pc \in {"assign", "answer"}
          /\ \E pc \in {"answer", "serving"} : Goto(c, n, pc)
      BY <1>9 DEF AssignHost, AnswerForward
    <2>2. handler'[c][n].pc \in {"answer", "serving"} /\ handler'[c][n].host = handler[c][n].host
      BY <1>2, <2>1 DEF Goto
    <2> QED
      BY <1>5, <2>1, <2>2 DEF Registered
  <1>10. CASE ~(\/ RegisterHost(c, n) \/ StopServing(c, n) \/ UnregisterHost(c, n)
                \/ AssignHost(c, n) \/ AnswerForward(c, n))
    <2> DEFINE Early == {"none", "refuse", "begin", "tcpPort", "httpPort", "failed", "opened",
                         "persist", "register", "closing", "cancel"}
    <2>1. handler[c][n].pc \in Early /\ \E pc \in Early : \E port, host : Become(c, n, pc, port, host)
      <3>1. CASE Refuse(c, n) \/ CloseListener(c, n) \/ RunCancel(c, n)
        BY <3>1 DEF Refuse, CloseListener, RunCancel, End
      <3>2. CASE Begin(c, n)
        BY <3>2 DEF Begin, Goto
      <3>3. CASE AcquirePort(c, n) \/ NoLuck(c, n)
        BY <3>3 DEF AcquirePort, NoLuck, Goto
      <3>4. CASE FailForward(c, n)
        BY <3>4 DEF FailForward, End, Goto
      <3>5. CASE Opened(c, n) \/ PersistPort(c, n)
        BY <3>5 DEF Opened, PersistPort, Goto
      <3> QED
        BY <1>10, <3>1, <3>2, <3>3, <3>4, <3>5 DEF GoroutineStep, Goroutine
    <2>2. handler'[c][n].pc \notin {"assign", "answer", "serving", "unregister"}
      BY <1>2, <2>1
    <2> QED
      BY <1>5, <2>1, <2>2 DEF Registered
  <1> QED
    BY <1>6, <1>7, <1>8, <1>9, <1>10

LEMMA StepRefines ==
    ASSUME RegistryInv, Mapped, Mapped', [Next]_vars
    PROVE  Registry!Next \/ UNCHANGED <<RouteNow, PhaseNow>>
  <1>1. TypeOK /\ \A c \in Conns : QueueSound(c)
    BY DEF RegistryInv, RoutingInv, TypeInv, Sound
  <1>2. CASE Crash
    <2>1. \A c \in Conns, n \in Numbers : ~Registered(c, n)' /\ \A host : ~Holds(c, n, host)'
      BY <1>2 DEF Crash, Idle, Registered, Holds
    <2>2. /\ RouteNow' = [host \in Host |-> NoHost]
          /\ PhaseNow' = [c \in Conns |-> "out"]
      BY <2>1, MappedFunctions DEF Mapped
    <2> QED
      BY <2>2 DEF Registry!Next, Registry!Restart
  <1>3. ASSUME NEW c \in Conns, RequestLoopStep(c) PROVE UNCHANGED <<RouteNow, PhaseNow>>
    <2>1. CASE UNCHANGED handler
      BY <2>1, SameRegistrations DEF Registered
    <2>2. CASE HandleForward(c) \/ HandleCancel(c)
      <3>1. inbox[c] # <<>> /\ \E pc \in {"refuse", "begin", "cancel"} : Goto(c, Head(inbox[c]).n, pc)
        BY <2>2 DEF HandleForward, HandleCancel, NextRequest
      <3>2. /\ 1 \in DOMAIN inbox[c] /\ Head(inbox[c]).n \in Numbers
            /\ inbox[c][1] = Head(inbox[c])
        BY <1>1, <3>1, Inbox
      <3>0. PICK k \in Numbers : k = Head(inbox[c]).n
        BY <3>2
      <3>3. handler[c][k].pc = "none"
        <4>1. ~(k < k)
          BY DEF Numbers
        <4> QED
          BY <1>1, <3>0, <3>2, <4>1 DEF QueueSound, InboxInOrder
      <3>4. handler'[c][k].pc \in {"refuse", "begin", "cancel"} /\ OthersSame(c, k)
        BY <1>1, <3>0, <3>1 DEF Goto, Become, TypeOK, OthersSame
      <3>5. ~Registered(c, k) /\ ~Registered(c, k)'
        BY <3>3, <3>4 DEF Registered
      <3> QED
        BY <3>4, <3>5, SameRegistrations DEF OthersSame, Registered
    <2> QED
      BY <1>3, <2>1, <2>2
         DEF RequestLoopStep, RequestLoop, LoadPrincipal, LoadPrincipalFails, HandleHint,
             HandleOther, HandleServerInfo, AnswerServerInfo, EndLoop
  <1>4. UNCHANGED handler => UNCHANGED <<RouteNow, PhaseNow>>
    BY SameRegistrations DEF Registered
  <1>5. ASSUME NEW c \in Conns, ConnStep(c)
        PROVE  Registry!Next \/ UNCHANGED <<RouteNow, PhaseNow>>
    BY <1>3, <1>4, <1>5, GoroutineRefines
       DEF ConnStep, Dial, Handshake, SendNext, SendCancel, HearReply, Drop, WaiterStep,
           WaiterCancels
  <1> QED
    BY <1>2, <1>4, <1>5 DEF Next, vars

\* The daemon implements the registry of hosts: whatever its goroutines
\* interleave and wherever transports are lost or pgrokd crashes, a host is
\* taken, held and given back by one tunnel of its user.
THEOREM RegistryImplemented == ASSUME WellBehavedClients PROVE Spec => ImplementsRegistry
  <1>1. Init => RegistryInv
    BY RegistryInvInit
  <1>2. RegistryInv /\ [Next]_vars => RegistryInv'
    BY RegistryInvStep
  <1>3. RegistryInv => Mapped
    BY MappedHolds
  <1>4. RegistryInv /\ Init => Registry!Init
    <2> SUFFICES ASSUME RegistryInv, Init PROVE Registry!Init
      OBVIOUS
    <2>1. \A c \in Conns, n \in Numbers : ~Registered(c, n) /\ \A host : ~Holds(c, n, host)
      BY DEF Init, SshdInit, Idle, Registered, Holds
    <2>2. /\ RouteNow = [host \in Host |-> NoHost]
          /\ PhaseNow = [c \in Conns |-> "out"]
      BY <2>1, MappedHolds, MappedFunctions DEF Mapped
    <2> QED
      BY <2>2 DEF Registry!Init
  <1>5. RegistryInv /\ Mapped /\ Mapped' /\ [Next]_vars => [Registry!Next]_(Registry!vars)
    BY StepRefines DEF Registry!vars
  <1> QED
    BY <1>1, <1>2, <1>3, <1>4, <1>5, PTL DEF Spec, ImplementsRegistry, Registry!Spec

\* A user with one tunnel has the subdomain: the alternative is given only while
\* another tunnel of the same user has it.
THEOREM SubdomainStable == ASSUME WellBehavedClients PROVE Spec => SubdomainIsStable
  <1> DEFINE Stable ==
        \A c \in Conns, n \in Numbers :
            (handler[c][n].pc = "register" /\ handler'[c][n].host \in Alternatives(c)) =>
                \E d \in Conns, m \in Numbers : d # c /\ Serves(d, m, MainHost(c))
  <1>1. RegistryInv /\ [Next]_vars => Stable
    <2> SUFFICES ASSUME RegistryInv, [Next]_vars, NEW c \in Conns, NEW n \in Numbers,
                        handler[c][n].pc = "register", handler'[c][n].host \in Alternatives(c)
                 PROVE  \E d \in Conns, m \in Numbers : d # c /\ Serves(d, m, MainHost(c))
      OBVIOUS
    <2>1. /\ TypeOK /\ \A d \in Conns : QueueSound(d)
          /\ handler[c][n].host = NoHost /\ handler'[c][n].host # NoHost
      BY HostFacts
         DEF RegistryInv, RoutingInv, TypeInv, Sound, HandlersSound, HandlerSound
    <2>2. MainHost(c) \notin Alternatives(c)
      BY SshdAssumption DEF MainHost, Alternatives
    <2>3. CASE RegisterHost(c, n)
      BY <2>1, <2>2, <2>3, Registration
    <2>4. ~Crash /\ ~UNCHANGED handler
      <3>1. Crash => handler'[c][n].host = NoHost
        BY DEF Crash, Idle
      <3>2. UNCHANGED handler => handler'[c][n].host = NoHost
        BY <2>1
      <3> QED
        BY <2>1, <3>1, <3>2
    <2>5. ASSUME NEW d \in Conns, NEW m \in Numbers, NEW pc, NEW port, NEW host,
                 Become(d, m, pc, port, host)
          PROVE  d = c /\ m = n /\ host # NoHost
      BY <2>1, <2>5 DEF Become, TypeOK
    <2>6. ASSUME NEW d \in Conns, RequestLoopStep(d) PROVE FALSE
      <3>1. HandleForward(d) \/ HandleCancel(d)
        BY <2>4, <2>6
           DEF RequestLoopStep, RequestLoop, LoadPrincipal, LoadPrincipalFails, HandleHint,
               HandleOther, HandleServerInfo, AnswerServerInfo, EndLoop
      <3>2. inbox[d] # <<>> /\ \E pc : Goto(d, Head(inbox[d]).n, pc)
        BY <3>1 DEF HandleForward, HandleCancel, NextRequest
      <3>3. /\ 1 \in DOMAIN inbox[d] /\ Head(inbox[d]).n \in Numbers
            /\ inbox[d][1] = Head(inbox[d])
        BY <2>1, <3>2, Inbox
      <3>4. d = c /\ Head(inbox[d]).n = n
        BY <2>5, <3>2, <3>3 DEF Goto
      <3>5. ~(n < n)
        BY DEF Numbers
      <3> QED
        BY <2>1, <3>3, <3>4, <3>5 DEF QueueSound, InboxInOrder
    <2>7. ASSUME NEW d \in Conns, NEW m \in Numbers, GoroutineStep(d, m), ~RegisterHost(d, m)
          PROVE  FALSE
      <3>1. \E pc, port : Become(d, m, pc, port, NoHost) \/ Become(d, m, pc, port, handler[d][m].host)
        BY <2>7
           DEF GoroutineStep, Goroutine, Refuse, Begin, AcquirePort, NoLuck, FailForward,
               Opened, PersistPort, AssignHost, AnswerForward, StopServing,
               UnregisterHost, CloseListener, RunCancel, Goto, End
      <3> QED
        BY <2>1, <2>5, <3>1
    <2>8. ASSUME NEW d \in Conns, NEW m \in Numbers, RegisterHost(d, m) PROVE d = c /\ m = n
      <3>1. \E pc, port, host : Become(d, m, pc, port, host)
        BY <2>8 DEF RegisterHost, Goto
      <3> QED
        BY <2>5, <3>1
    <2>9. \A d \in Conns : ConnStep(d) => RegisterHost(c, n)
      BY <2>4, <2>6, <2>7, <2>8
         DEF ConnStep, Dial, Handshake, SendNext, SendCancel, HearReply, Drop, WaiterStep,
             WaiterCancels
    <2> QED
      BY <2>3, <2>4, <2>9 DEF Next, vars
  <1> QED
    BY <1>1, RegistryInvInit, RegistryInvStep, PTL DEF Spec, SubdomainIsStable
=============================================================================
