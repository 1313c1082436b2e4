--------------------------- MODULE TunnelInvariant ---------------------------
(***************************************************************************)
(* The inductive invariants behind TypeOK and RoutesAreOwned.              *)
(***************************************************************************)
EXTENDS TunnelProperties

\* The two ends of a connection agree on whether it is up, and a client sends
\* no more than its script and one cancel.
EndsAgree(c) ==
    /\ client[c].up <=> peer[c] # Gone
    /\ outbox[c] # <<>> => client[c].up
    /\ peer[c] # Gone =>
           /\ peer[c].sent <= Len(Script(c)) + 1
           /\ peer[c].status # "abandoned" => peer[c].sent <= Len(Script(c))

HostsAssigned(c) ==
    \A n \in Numbers : handler[c][n].pc = "assign" => handler[c][n].host # NoHost

TypeInv == TypeOK /\ \A c \in Conns : EndsAgree(c) /\ HostsAssigned(c)
----------------------------------------------------------------------------
\* What follows holds when every client is well behaved.

WellBehavedClients == \A k \in Kinds : WellBehaved(k)

\* pgrok asks "server-info" once its forward is granted (tryConnect of http.go);
\* the OpenSSH client never asks.
AskInTurn ==
    \A k \in Kinds : \A i \in DOMAIN k.script : k.script[i].type = "info" =>
        k.serial /\ \E j \in Forwards(k.script) : j < i

\* The goroutine of a forward that was accepted.
Active(c, n) == handler[c][n].pc \notin {"none", "refuse", "cancel"}

\* The goroutine's host is in the cluster.
Registered(c, n) ==
    /\ handler[c][n].pc \in {"assign", "answer", "serving", "unregister"}
    /\ handler[c][n].host # NoHost

\* Requests wait in the order of their numbers, which are above those of the
\* requests that have a goroutine already; a hint is the first request.
InboxInOrder(c) ==
    \A i \in DOMAIN inbox[c] :
        /\ \A j \in DOMAIN inbox[c] : i < j => inbox[c][i].n < inbox[c][j].n
        /\ \A n \in Numbers : handler[c][n].pc # "none" => n < inbox[c][i].n
        /\ inbox[c][i].type = "hint" => inbox[c][i].n = 1
        /\ peer[c] # Gone => inbox[c][i].n <= peer[c].sent

\* Goroutines serve requests that were sent, and none is started before the
\* principal is loaded.
HandlersStarted(c) ==
    \A n \in Numbers : handler[c][n].pc # "none" =>
        /\ client[c].state # "loading"
        /\ peer[c] # Gone => n <= peer[c].sent

\* A connection has one forward at most: a request yet to be served, or the
\* goroutine that serves it.
Forwarding(c, n) ==
    \/ Active(c, n)
    \/ \E i \in DOMAIN inbox[c] : inbox[c][i].type = "forward" /\ inbox[c][i].n = n

OneForward(c) ==
    \A n \in Numbers : Forwarding(c, n) =>
        /\ \A m \in Numbers : Forwarding(c, m) => m = n
        /\ peer[c] # Gone => n \in Forwards(Script(c)) /\ n <= peer[c].sent

\* c.protocol once the hint at the head of the inbox has been served.
Expected(c) ==
    IF /\ inbox[c] # <<>>
       /\ Head(inbox[c]).type = "hint" /\ Head(inbox[c]).protocol \in {"tcp", "http"}
    THEN Head(inbox[c]).protocol ELSE client[c].protocol

\* No request changes the protocol under a forward.
ProtocolSettled(c) ==
    /\ \A i \in DOMAIN inbox[c] : inbox[c][i].type = "info" =>
           inbox[c][i].protocol \in {"", Expected(c)}
    /\ Running(c) => Expected(c) = ProtocolAfter(Script(c), peer[c].sent)

\* The request loop awaits ready only while it serves a "server-info".
AwaitsInfo(c) ==
    client[c].state = "awaiting" => inbox[c] # <<>> /\ Head(inbox[c]).type = "info"

QueueSound(c) ==
    InboxInOrder(c) /\ HandlersStarted(c) /\ OneForward(c) /\ ProtocolSettled(c) /\ AwaitsInfo(c)

\* What the goroutine (c, n) has opened, and what it has registered.
HandlerSound(c, n) ==
    /\ handler[c][n].pc \in {"none", "refuse", "begin", "tcpPort", "httpPort", "cancel"}
           => handler[c][n].port = 0 /\ handler[c][n].host = NoHost
    /\ handler[c][n].pc \in {"opened", "persist", "register"}
           => handler[c][n].port # 0 /\ handler[c][n].host = NoHost
    /\ handler[c][n].pc = "failed" => handler[c][n].host = NoHost
    /\ handler[c][n].pc \in {"assign", "unregister"} => handler[c][n].host # NoHost
    /\ handler[c][n].pc \in {"answer", "serving"} =>
           (handler[c][n].host # NoHost <=> client[c].protocol = "http")
    /\ handler[c][n].pc \in {"answer", "serving", "unregister"} =>
           (handler[c][n].host # NoHost => handler[c][n].host = client[c].host)
    /\ Registered(c, n) =>
           /\ handler[c][n].host \in {MainHost(c)} \cup Alternatives(c)
           /\ handler[c][n].port # 0
           /\ client[c].protocol = "http"

HandlersSound(c) ==
    /\ client[c].host \in {MainHost(c)} \cup Alternatives(c)
    /\ \A n \in Numbers : HandlerSound(c, n)

\* A route is the registration of exactly one goroutine.
RoutesSound ==
    /\ \A host \in Host : Exists(proxies, host) =>
           \E c \in Conns, n \in Numbers :
               Registered(c, n) /\ handler[c][n].host = host
    /\ \A c \in Conns, n \in Numbers :
           Registered(c, n) => proxies[handler[c][n].host] = handler[c][n].port
    /\ \A c, d \in Conns, n, m \in Numbers :
           (Registered(c, n) /\ Registered(d, m) /\ handler[c][n].host = handler[d][m].host)
               => c = d /\ n = m

Sound ==
    /\ \A c \in Conns : QueueSound(c) /\ HandlersSound(c)
    /\ RoutesSound

RoutingInv == TypeInv /\ Sound
=============================================================================
