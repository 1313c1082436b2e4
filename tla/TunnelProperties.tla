-------------------------- MODULE TunnelProperties --------------------------
(***************************************************************************)
(* What the daemon owes the clients of its tunnels.                        *)
(***************************************************************************)
EXTENDS Tunnel, FiniteSets

(***************************************************************************)
(* The clients the daemon is written for: they ask for one forward over a  *)
(* connection and say its protocol before that, or never (then it is       *)
(* "http").                                                                *)
(***************************************************************************)
Forwards(script) == {i \in DOMAIN script : script[i].type = "forward"}

\* c.protocol once the first i requests of the script have been served.
ProtocolAfter(script, i) ==
    IF 1 \in DOMAIN script /\ i > 0 /\ script[1].type = "hint"
           /\ script[1].protocol \in {"tcp", "http"}
    THEN script[1].protocol ELSE "http"

WellBehaved(k) ==
    \A i \in DOMAIN k.script :
        /\ k.script[i].type = "hint" => i = 1
        /\ k.script[i].type = "forward" => Forwards(k.script) = {i}
        /\ k.script[i].type = "info" =>
               \/ k.script[i].protocol = ""
               \/ k.script[i].protocol = ProtocolAfter(k.script, i)
----------------------------------------------------------------------------
\* Every variable keeps its type, ports stay below the exclusive ends of their
\* ranges, and the request loop stays on a request that waits for ready.
\* (client.go 26-36, 233-247, 271)
TypeOK ==
    /\ dbPort \in [Principals -> Ports \cup {0}]
    /\ proxies \in [Host -> Ports \cup {Absent}]
    /\ client \in [Conns -> Client]
    /\ handler \in [Conns -> [Numbers -> Handler]]
    /\ inbox \in [Conns -> Seq(Request)]
    /\ outbox \in [Conns -> Seq(Reply)]
    /\ peer \in [Conns -> Peer \cup {Gone}]
    /\ \A c \in Conns : client[c].state = "awaiting" => inbox[c] # <<>>

(***************************************************************************)
(* A route of the cluster leads to a listener that is open, of a tunnel of *)
(* the very principal whose host it is, registered under that host: no     *)
(* route outlives its listener, to be inherited by the next tunnel that    *)
(* gets the port.  (client.go 210-230, cluster.go 35-68)                   *)
(***************************************************************************)
Serves(c, n, host) ==
    /\ handler[c][n].port # 0
    /\ handler[c][n].host = host
    /\ handler[c][n].port = proxies[host]

RoutesAreOwned ==
    \A host \in Host : Exists(proxies, host) =>
        \E c \in Conns, n \in Numbers :
            Serves(c, n, host) /\ host \in {MainHost(c)} \cup Alternatives(c)

(***************************************************************************)
(* The address a client was told works: while the connection is up and not *)
(* cancelled, the host leads to this connection's own listener, and the    *)
(* port is one of its own listeners.  (client.go 249-294: the answer to    *)
(* "server-info" comes from state the forward's goroutine wrote.)          *)
(***************************************************************************)
ReportedEndpointServed ==
    \A c \in Conns : (peer[c] # Gone /\ ~client[c].cancelled) =>
        /\ peer[c].port # 0 => \E n \in Numbers : handler[c][n].port = peer[c].port
        /\ peer[c].host # NoHost => \E n \in Numbers : Serves(c, n, peer[c].host)

(***************************************************************************)
(* Every request of a connection that is up gets one answer: those sent    *)
(* are heard, on their way back, with a goroutine that has yet to answer,  *)
(* or queued, and each is in one place only.  Goroutines overtake each     *)
(* other and the loop, but the replies of the loop itself stay in order,   *)
(* and for a client that waits for each reply, as pgrok does, all do.      *)
(* (sshd.go 121-146, client.go 38-53, 77, 101, 215, 226, 249-294)          *)
(***************************************************************************)
Unanswered(c, n) == handler[c][n].pc \notin {"none", "serving", "unregister", "closing"}

Working(c)   == {n \in Numbers : Unanswered(c, n)}
Queued(c)    == {inbox[c][i].n : i \in DOMAIN inbox[c]}
Answering(c) == {outbox[c][i].n : i \in DOMAIN outbox[c]}

InOnePlace(c) ==
    /\ peer[c].sent = peer[c].heard + Len(outbox[c]) + Cardinality(Working(c)) + Len(inbox[c])
    /\ Working(c) \cap Queued(c) = {}
    /\ Answering(c) \cap (Working(c) \cup Queued(c)) = {}
    /\ \A i, j \in DOMAIN inbox[c] : inbox[c][i].n = inbox[c][j].n => i = j
    /\ \A i, j \in DOMAIN outbox[c] : outbox[c][i].n = outbox[c][j].n => i = j

ByLoop(c, n) == n \in DOMAIN Script(c) /\ Script(c)[n].type # "forward"

InOrder(c) ==
    /\ \A i, j \in DOMAIN outbox[c] :
           (i < j /\ ByLoop(c, outbox[c][i].n) /\ ByLoop(c, outbox[c][j].n))
               => outbox[c][i].n < outbox[c][j].n
    /\ (peer[c].kind.serial /\ outbox[c] # <<>>) => Head(outbox[c]).n = peer[c].heard + 1

RequestsAreAnswered == \A c \in Conns : peer[c] # Gone => InOnePlace(c) /\ InOrder(c)

(***************************************************************************)
(* Once nothing of a principal is connected or still closing, its          *)
(* subdomain is free.  (integration-tests/main_test.go 374: "The initial   *)
(* subdomain should be free to allocate again")                            *)
(***************************************************************************)
Disconnected(c) ==
    /\ client[c].state = "closed"
    /\ \A n \in Numbers : handler[c][n].pc = "none"

SubdomainFreed ==
    \A p \in Principals :
        (\A c \in Conns : PrincipalOf[c] = p => Disconnected(c))
            => ~Exists(proxies, <<p, Subdomain>>)

(***************************************************************************)
(* The port saved for a principal is one that a tunnel of that principal   *)
(* has open at the moment it is saved, although the goroutine that saves   *)
(* it reads it from the shared Principal.  (client.go 195-207)             *)
(***************************************************************************)
SavedPortIsHeld ==
    [][\A p \in Principals : dbPort'[p] # dbPort[p] =>
          \E c \in Conns, n \in Numbers :
              PrincipalOf[c] = p /\ handler'[c][n].port = dbPort'[p]]_vars

(***************************************************************************)
(* A tunnel gets an alternative host only while another tunnel of its      *)
(* principal has the subdomain: a user with one tunnel always gets the     *)
(* stable one.  (README.md 14, cluster.go 39-46)                           *)
(***************************************************************************)
SubdomainIsStable ==
    [][\A c \in Conns, n \in Numbers :
          (handler[c][n].pc = "register" /\ handler'[c][n].host \in Alternatives(c)) =>
              \E d \in Conns, m \in Numbers : d # c /\ Serves(d, m, MainHost(c))]_vars

(***************************************************************************)
(* A lost connection gives back its ports and routes: all its goroutines   *)
(* end, and so does the request loop, but for one case.  A loop that waits *)
(* for ready is not interrupted by the loss, for ready is no child of the  *)
(* connection's context; it goes on when a forward signals ready, and it   *)
(* stays for ever when no forward of the connection has come to listen:    *)
(* none was asked for before, or it was refused.                           *)
(* (sshd.go 101-111, client.go 76-79, 190-193, 227-230, 271)               *)
(***************************************************************************)
Stuck(c) ==
    client[c].state = "awaiting" /\ client[c].ready = "pending" /\ ~client[c].waiter


(***************************************************************************)
(* A client that was told its forward is cancelled gets rid of it, and of  *)
(* the ports behind it.  (sshd.go 133-138, client.go 227)                  *)
(***************************************************************************)
CancelReleases ==
    \A c \in Conns :
        (peer[c] # Gone /\ peer[c].heard > Len(Script(c)))
            ~> \A n \in Numbers : handler[c][n].port = 0

(***************************************************************************)
(* pgrok is never left without an answer: its exchange ends, live or with  *)
(* an error, unless the connection is lost.  (client.go 271: the request   *)
(* loop waits for ready, which another goroutine signals)                  *)
(***************************************************************************)
Connecting(c) ==
    peer[c] # Gone /\ peer[c].kind.serial /\ Running(c) /\ peer[c].heard < Len(Script(c))

PgrokSettles == \A c \in Conns : Connecting(c) ~> ~Connecting(c)
=============================================================================
