-------------------------------- MODULE Sshd --------------------------------
(***************************************************************************)
(* The SSH daemon of pgrokd: internal/sshd/sshd.go and client.go.          *)
(*                                                                         *)
(* Three kinds of goroutine share a connection's Client: the request loop  *)
(* of Start, which serves "hint" and "server-info" itself; one goroutine   *)
(* per "tcpip-forward", "cancel-tcpip-forward"; and the waiter that        *)
(* cancels the connection's context when the transport is gone.  One       *)
(* action is one stretch of code between two accesses to shared state.     *)
(*                                                                         *)
(* A host is <<p, Subdomain>>, the principal's own subdomain, or <<p, u>>, *)
(* the alternative made with the UUID u; a UUID may repeat, so the error   *)
(* of Cluster.Set can happen.  Garbled is what a torn read of the string   *)
(* c.host returns.  A port that is free here may be another process's.     *)
(*                                                                         *)
(* The definitions marked "Faulty" are no part of the model: they are      *)
(* plausible mistakes, each of which breaks a property of TunnelProperties *)
(* when it takes the place of the definition after it.                     *)
(***************************************************************************)
EXTENDS Cluster, Sequences

CONSTANTS
    Principals,
    UUIDs,
    Subdomain, Garbled,
    Conns,                  \* connection slots, used again after a disconnect
    PrincipalOf,            \* the principal whose token each slot presents
    MaxRequests,            \* bound on the requests sent over one connection
    PortStart, PortEnd,     \* proxy.tcp.port_start and port_end
    HTTPStart, HTTPEnd      \* 15000 and 20000 in the code

ASSUME SshdAssumption ==
    /\ PrincipalOf \in [Conns -> Principals]
    /\ MaxRequests \in Nat
    /\ PortStart \in Nat \ {0} /\ PortEnd \in Nat
    /\ HTTPStart \in Nat \ {0} /\ HTTPEnd \in Nat
    /\ PortStart < PortEnd /\ HTTPStart < HTTPEnd
    /\ Subdomain \notin UUIDs
    /\ NoHost \notin (Principals \X (UUIDs \cup {Subdomain})) \cup {Garbled}
    /\ Garbled \notin Principals \X (UUIDs \cup {Subdomain})

VARIABLES
    dbPort,     \* principals.last_tcp_port in the database
    proxies,    \* the Cluster
    client,     \* per connection, the Client and the state of its request loop
    handler,    \* handler[c][n]: the goroutine serving request n of connection c
    inbox,      \* global requests the connection has received, in order
    outbox      \* replies on their way to the peer

sshdVars == <<dbPort, proxies, client, handler, inbox, outbox>>

Host     == (Principals \X (UUIDs \cup {Subdomain})) \cup {Garbled}
MainHost(c) == <<PrincipalOf[c], Subdomain>>
Alternatives(c) == {<<PrincipalOf[c], u>> : u \in UUIDs}

Numbers  == 1 .. MaxRequests
Protocols == {"http", "tcp", "other"}
Ports    == (PortStart .. PortEnd - 1) \cup (HTTPStart .. HTTPEnd - 1)

\* protocol "" is a "server-info" without a payload
Request  == [n : Numbers, type : {"hint", "forward", "cancel", "info", "keepalive"},
             protocol : Protocols \cup {""}, rport : Nat]
Reply    == [n : Numbers, ok : BOOLEAN, port : Ports \cup {0}, host : Host \cup {NoHost}]

Client   == [state : {"closed", "loading", "serving", "awaiting"},
             up : BOOLEAN, cancelled : BOOLEAN, waiter : BOOLEAN,
             lastPort : Ports \cup {0}, protocol : Protocols, host : Host,
             ready : {"pending", "ok", "failed"}]
Handler  == [pc : {"none", "refuse", "begin", "tcpPort", "httpPort", "failed",
                   "opened", "persist", "register", "assign", "answer",
                   "serving", "unregister", "closing", "cancel"},
             port : Ports \cup {0}, host : Host \cup {NoHost}]

NewClient(c, state, up) ==
    [state |-> state, up |-> up, cancelled |-> FALSE, waiter |-> FALSE,
     lastPort |-> 0, protocol |-> "http", host |-> MainHost(c), ready |-> "pending"]

Idle == [pc |-> "none", port |-> 0, host |-> NoHost]

SshdInit ==
    /\ dbPort = [p \in Principals |-> 0]
    /\ proxies = NewCluster(Host)
    /\ client = [c \in Conns |-> NewClient(c, "closed", FALSE)]
    /\ handler = [c \in Conns |-> [n \in Numbers |-> Idle]]
    /\ inbox = [c \in Conns |-> <<>>]
    /\ outbox = [c \in Conns |-> <<>>]

----------------------------------------------------------------------------
\* Helpers

Listening(port) ==
    \E c \in Conns, n \in Numbers : handler[c][n].port = port

\* A reply is lost, and req.Reply's error ignored, once the transport is down.
Answer(c, n, ok, port, host) ==
    outbox' = IF client[c].up
              THEN [outbox EXCEPT ![c] = Append(@,
                       [n |-> n, ok |-> ok, port |-> port, host |-> host])]
              ELSE outbox

Update(c, fields) == client' = [client EXCEPT ![c] = fields]

Become(c, n, pc, port, host) ==
    handler' = [handler EXCEPT ![c][n] = [pc |-> pc, port |-> port, host |-> host]]

Goto(c, n, pc) == Become(c, n, pc, handler[c][n].port, handler[c][n].host)

End(c, n) == Become(c, n, "none", 0, NoHost)

\* signalReady is a CancelCauseFunc: only the first call sets the cause.
SignalReady(ready, cause) == IF ready = "pending" THEN cause ELSE ready

NextRequest(c, type) ==
    /\ client[c].state = "serving"
    /\ inbox[c] # <<>>
    /\ Head(inbox[c]).type = type

\* What the request loop is about to assign to c.protocol.
WritesProtocol(c) ==
    IF inbox[c] = <<>> \/ client[c].state # "serving" THEN {}
    ELSE LET req == Head(inbox[c])
         IN  IF \/ req.type = "hint" /\ req.protocol \in {"tcp", "http"}
                \/ req.type = "info" /\ req.protocol # ""
             THEN {req.protocol}
             ELSE {}

(***************************************************************************)
(* c.protocol and c.host are strings that goroutines read while another    *)
(* writes them, with no lock: a data race.  A reader gets the old string,  *)
(* the new one, or the pointer of one with the length of the other.  Old   *)
(* and new are the reads before and after the write; the torn string is    *)
(* neither "tcp" nor "http", and as a host it is Garbled.                  *)
(***************************************************************************)
ProtocolReads(c) ==
    {client[c].protocol}
        \cup (IF WritesProtocol(c) \ {client[c].protocol} = {} THEN {} ELSE {"other"})

HostReads(c) ==
    {client[c].host}
        \cup (IF \E m \in Numbers : /\ handler[c][m].pc = "assign"
                                    /\ handler[c][m].host # client[c].host
              THEN {Garbled} ELSE {})
----------------------------------------------------------------------------
\* The connection's goroutine, from the handshake to the request loop

Handshake(c) ==
    /\ client[c].state = "closed"
    /\ \A n \in Numbers : handler[c][n].pc = "none"
    /\ Update(c, NewClient(c, "loading", TRUE))
    /\ inbox' = [inbox EXCEPT ![c] = <<>>]
    /\ outbox' = [outbox EXCEPT ![c] = <<>>]
    /\ UNCHANGED <<dbPort, proxies, handler>>

LoadPrincipal(c) ==
    /\ client[c].state = "loading"
    /\ Update(c, [client[c] EXCEPT !.state = "serving",
                                   !.lastPort = dbPort[PrincipalOf[c]]])
    /\ UNCHANGED <<dbPort, proxies, handler, inbox, outbox>>

LoadPrincipalFails(c) ==
    /\ client[c].state = "loading"
    /\ Update(c, NewClient(c, "closed", FALSE))
    /\ inbox' = [inbox EXCEPT ![c] = <<>>]
    /\ outbox' = [outbox EXCEPT ![c] = <<>>]
    /\ UNCHANGED <<dbPort, proxies, handler>>

\* Faulty: a denied hint is answered again as a granted one.
HandleHintFallingThrough(c) ==
    /\ NextRequest(c, "hint")
    /\ LET protocol == Head(inbox[c]).protocol
           reply(ok) == [n |-> Head(inbox[c]).n, ok |-> ok, port |-> 0, host |-> NoHost]
           replies == IF protocol = "other" THEN <<reply(FALSE), reply(TRUE)>>
                                            ELSE <<reply(TRUE)>>
       IN  /\ Update(c, [client[c] EXCEPT !.protocol = protocol])
           /\ outbox' = IF client[c].up THEN [outbox EXCEPT ![c] = @ \o replies] ELSE outbox
    /\ inbox' = [inbox EXCEPT ![c] = Tail(@)]
    /\ UNCHANGED <<dbPort, proxies, handler>>

HandleHint(c) ==
    /\ NextRequest(c, "hint")
    /\ LET req == Head(inbox[c])
       IN  \/ /\ req.protocol \in {"tcp", "http"}
              /\ Update(c, [client[c] EXCEPT !.protocol = req.protocol])
              /\ Answer(c, req.n, TRUE, 0, NoHost)
           \/ /\ req.protocol \notin {"tcp", "http"}
              /\ UNCHANGED client
              /\ Answer(c, req.n, FALSE, 0, NoHost)
    /\ inbox' = [inbox EXCEPT ![c] = Tail(@)]
    /\ UNCHANGED <<dbPort, proxies, handler>>

\* "go client.handleTCPIPForward": the goroutine's own steps are below.
HandleForward(c) ==
    /\ NextRequest(c, "forward")
    /\ Goto(c, Head(inbox[c]).n, IF Head(inbox[c]).rport # 0 THEN "refuse" ELSE "begin")
    /\ inbox' = [inbox EXCEPT ![c] = Tail(@)]
    /\ UNCHANGED <<dbPort, proxies, client, outbox>>

HandleCancel(c) ==
    /\ NextRequest(c, "cancel")
    /\ Goto(c, Head(inbox[c]).n, "cancel")
    /\ inbox' = [inbox EXCEPT ![c] = Tail(@)]
    /\ UNCHANGED <<dbPort, proxies, client, outbox>>

HandleOther(c) ==
    /\ NextRequest(c, "keepalive")
    /\ Answer(c, Head(inbox[c]).n, FALSE, 0, NoHost)
    /\ inbox' = [inbox EXCEPT ![c] = Tail(@)]
    /\ UNCHANGED <<dbPort, proxies, client, handler>>

\* The loop stays on an "http" request until ready is signalled ("awaiting").
HandleServerInfo(c) ==
    /\ NextRequest(c, "info")
    /\ LET asked == Head(inbox[c]).protocol
           protocol == IF asked = "" THEN client[c].protocol ELSE asked
       IN  \/ /\ protocol = "tcp"
              /\ Update(c, [client[c] EXCEPT !.protocol = protocol])
              /\ Answer(c, Head(inbox[c]).n, TRUE, client[c].lastPort, NoHost)
              /\ inbox' = [inbox EXCEPT ![c] = Tail(@)]
           \/ /\ protocol = "http"
              /\ Update(c, [client[c] EXCEPT !.protocol = protocol, !.state = "awaiting"])
              /\ UNCHANGED <<inbox, outbox>>
           \/ /\ protocol = "other"
              /\ Update(c, [client[c] EXCEPT !.protocol = protocol])
              /\ Answer(c, Head(inbox[c]).n, FALSE, 0, NoHost)
              /\ inbox' = [inbox EXCEPT ![c] = Tail(@)]
    /\ UNCHANGED <<dbPort, proxies, handler>>

AnswerServerInfo(c) ==
    /\ client[c].state = "awaiting"
    /\ client[c].ready # "pending"
    /\ IF client[c].ready = "failed"
       THEN Answer(c, Head(inbox[c]).n, FALSE, 0, NoHost)
       ELSE \E host \in HostReads(c) : Answer(c, Head(inbox[c]).n, TRUE, 0, host)
    /\ Update(c, [client[c] EXCEPT !.state = "serving"])
    /\ inbox' = [inbox EXCEPT ![c] = Tail(@)]
    /\ UNCHANGED <<dbPort, proxies, handler>>


\* The channel of requests is closed and drained: the deferred cancel runs.
EndLoop(c) ==
    /\ client[c].state = "serving"
    /\ ~client[c].up
    /\ inbox[c] = <<>>
    /\ Update(c, [client[c] EXCEPT !.state = "closed", !.cancelled = TRUE])
    /\ UNCHANGED <<dbPort, proxies, handler, inbox, outbox>>

\* The goroutine that waits for serverConn to end; it runs beside the loop,
\* which may be stuck in "awaiting".
WaiterCancels(c) ==
    /\ client[c].waiter
    /\ ~client[c].up
    /\ ~client[c].cancelled
    /\ Update(c, [client[c] EXCEPT !.cancelled = TRUE])
    /\ UNCHANGED <<dbPort, proxies, handler, inbox, outbox>>
----------------------------------------------------------------------------
\* The goroutine of one "tcpip-forward" request

\* A remote port other than 0 is refused; ready is not signalled.
Refuse(c, n) ==
    /\ handler[c][n].pc = "refuse"
    /\ End(c, n)
    /\ Answer(c, n, FALSE, 0, NoHost)
    /\ UNCHANGED <<dbPort, proxies, client, inbox>>

\* Faulty: leaves out the first port.
InTCPRangeAfterStart(port) == PortStart < port /\ port < PortEnd

InTCPRange(port) == PortStart <= port /\ port < PortEnd

\* The switch on c.protocol; a TCP tunnel first tries the port of the last time,
\* which another process may have even when no tunnel listens there.
Begin(c, n) ==
    /\ handler[c][n].pc = "begin"
    /\ LET last == client[c].lastPort
           reuse == InTCPRange(last) /\ ~Listening(last)
       IN  \E protocol \in ProtocolReads(c) :
               \/ protocol = "tcp" /\ reuse /\ Become(c, n, "opened", last, NoHost)
               \/ protocol = "tcp" /\ Goto(c, n, "tcpPort")
               \/ protocol = "http" /\ Goto(c, n, "httpPort")
               \/ protocol = "other" /\ Goto(c, n, "failed")
    /\ UNCHANGED <<dbPort, proxies, client, inbox, outbox>>

\* Faulty: takes the exclusive end of a range for a port of it.
PortRangeInclusive(pc) == IF pc = "tcpPort" THEN PortStart .. PortEnd ELSE HTTPStart .. HTTPEnd

PortRange(pc) == IF pc = "tcpPort" THEN PortStart .. PortEnd - 1
                                   ELSE HTTPStart .. HTTPEnd - 1

\* acquireAvailablePort: one of at most 100 random attempts finds a free port.
AcquirePort(c, n) ==
    /\ handler[c][n].pc \in {"tcpPort", "httpPort"}
    /\ \E port \in PortRange(handler[c][n].pc) :
           /\ ~Listening(port)
           /\ Become(c, n, "opened", port, NoHost)
    /\ UNCHANGED <<dbPort, proxies, client, inbox, outbox>>

\* Every attempt failed: no port is free, other processes hold the ones it drew,
\* or it drew the busy ones all the time.
NoLuck(c, n) ==
    /\ handler[c][n].pc \in {"tcpPort", "httpPort"}
    /\ Goto(c, n, "failed")
    /\ UNCHANGED <<dbPort, proxies, client, inbox, outbox>>

\* No port, or no host in the cluster; the deferred Close runs if it listens.
FailForward(c, n) ==
    /\ handler[c][n].pc = "failed"
    /\ Answer(c, n, FALSE, 0, NoHost)
    /\ Update(c, [client[c] EXCEPT !.ready = SignalReady(@, "failed")])
    /\ IF handler[c][n].port = 0 THEN End(c, n) ELSE Goto(c, n, "closing")
    /\ UNCHANGED <<dbPort, proxies, inbox>>

\* Starts the waiter and, for a new port, remembers it in the connection's Principal.
Opened(c, n) ==
    /\ handler[c][n].pc = "opened"
    /\ LET port == handler[c][n].port
       IN  /\ Update(c, [client[c] EXCEPT !.waiter = TRUE, !.lastPort = port])
           /\ Goto(c, n, IF client[c].lastPort # port THEN "persist" ELSE "register")
    /\ UNCHANGED <<dbPort, proxies, inbox, outbox>>

\* UpdatePrincipalLastTCPPort under the connection's context; it re-reads
\* c.principal.LastTCPPort.  An error is only logged.
PersistPort(c, n) ==
    /\ handler[c][n].pc = "persist"
    /\ \/ /\ ~client[c].cancelled
          /\ dbPort' = [dbPort EXCEPT ![PrincipalOf[c]] = client[c].lastPort]
       \/ UNCHANGED dbPort
    /\ Goto(c, n, "register")
    /\ UNCHANGED <<proxies, client, inbox, outbox>>

\* Only a tunnel that is "http" at this moment enters the cluster.
RegisterHost(c, n) ==
    /\ handler[c][n].pc = "register"
    /\ \/ \E host \in HostReads(c), alternative \in Alternatives(c) :
             LET used == SetHost(proxies, host, alternative)
             IN  /\ "http" \in ProtocolReads(c)
                 /\ proxies' = Set(proxies, host, alternative, handler[c][n].port)
                 /\ Become(c, n, IF used = NoHost THEN "failed" ELSE "assign",
                           handler[c][n].port, used)
       \/ /\ ProtocolReads(c) # {"http"}
          /\ Goto(c, n, "answer")
          /\ UNCHANGED proxies
    /\ UNCHANGED <<dbPort, client, inbox, outbox>>

\* Faulty: forgets to signal ready.
AssignHostSilently(c, n) ==
    /\ handler[c][n].pc = "assign"
    /\ Update(c, [client[c] EXCEPT !.host = handler[c][n].host])
    /\ Goto(c, n, "answer")
    /\ UNCHANGED <<dbPort, proxies, inbox, outbox>>

AssignHost(c, n) ==
    /\ handler[c][n].pc = "assign"
    /\ Update(c, [client[c] EXCEPT !.host = handler[c][n].host,
                                   !.ready = SignalReady(@, "ok")])
    /\ Goto(c, n, "answer")
    /\ UNCHANGED <<dbPort, proxies, inbox, outbox>>

AnswerForward(c, n) ==
    /\ handler[c][n].pc = "answer"
    /\ Answer(c, n, TRUE, handler[c][n].port, NoHost)
    /\ Goto(c, n, "serving")
    /\ UNCHANGED <<dbPort, proxies, client, inbox>>

\* Faulty: closes the listener before it removes the route.
StopServingClosedFirst(c, n) ==
    /\ handler[c][n].pc = "serving"
    /\ client[c].cancelled
    /\ \E protocol \in ProtocolReads(c) :
           Become(c, n, IF protocol = "http" THEN "unregister" ELSE "closing",
                  0, handler[c][n].host)
    /\ UNCHANGED <<dbPort, proxies, client, inbox, outbox>>

\* Faulty: does not wait for ctx.
StopServingAtOnce(c, n) ==
    /\ handler[c][n].pc = "serving"
    /\ Goto(c, n, "unregister")
    /\ UNCHANGED <<dbPort, proxies, client, inbox, outbox>>

\* ctx is done; c.protocol is read again to decide whether to unregister.
StopServing(c, n) ==
    /\ handler[c][n].pc = "serving"
    /\ client[c].cancelled
    /\ \E protocol \in ProtocolReads(c) :
           Goto(c, n, IF protocol = "http" THEN "unregister" ELSE "closing")
    /\ UNCHANGED <<dbPort, proxies, client, inbox, outbox>>

\* Faulty: removes the subdomain instead of the host in use.
UnregisterSubdomain(c, n) ==
    /\ handler[c][n].pc = "unregister"
    /\ proxies' = Remove(proxies, MainHost(c))
    /\ Goto(c, n, "closing")
    /\ UNCHANGED <<dbPort, client, inbox, outbox>>

UnregisterHost(c, n) ==
    /\ handler[c][n].pc = "unregister"
    /\ \E host \in HostReads(c) : proxies' = Remove(proxies, host)
    /\ Goto(c, n, "closing")
    /\ UNCHANGED <<dbPort, client, inbox, outbox>>

\* Faulty: saves the port when the listener is gone.
CloseListenerAndSave(c, n) ==
    /\ handler[c][n].pc = "closing"
    /\ End(c, n)
    /\ dbPort' = [dbPort EXCEPT ![PrincipalOf[c]] = client[c].lastPort]
    /\ UNCHANGED <<proxies, client, inbox, outbox>>

CloseListener(c, n) ==
    /\ handler[c][n].pc = "closing"
    /\ End(c, n)
    /\ UNCHANGED <<dbPort, proxies, client, inbox, outbox>>

\* Faulty: grants the request and does nothing.
RunCancelWithoutEffect(c, n) ==
    /\ handler[c][n].pc = "cancel"
    /\ Answer(c, n, TRUE, 0, NoHost)
    /\ End(c, n)
    /\ UNCHANGED <<dbPort, proxies, client, inbox>>

\* The goroutine of one "cancel-tcpip-forward": it cancels the context of the
\* whole connection.
RunCancel(c, n) ==
    /\ handler[c][n].pc = "cancel"
    /\ Update(c, [client[c] EXCEPT !.cancelled = TRUE])
    /\ Answer(c, n, TRUE, 0, NoHost)
    /\ End(c, n)
    /\ UNCHANGED <<dbPort, proxies, inbox>>
----------------------------------------------------------------------------
RequestLoop(c) ==
    \/ LoadPrincipal(c) \/ LoadPrincipalFails(c)
    \/ HandleHint(c) \/ HandleForward(c) \/ HandleCancel(c) \/ HandleOther(c)
    \/ HandleServerInfo(c) \/ AnswerServerInfo(c) \/ EndLoop(c)

Goroutine(c, n) ==
    \/ Refuse(c, n) \/ Begin(c, n) \/ AcquirePort(c, n) \/ NoLuck(c, n)
    \/ FailForward(c, n) \/ Opened(c, n) \/ PersistPort(c, n)
    \/ RegisterHost(c, n) \/ AssignHost(c, n) \/ AnswerForward(c, n)
    \/ StopServing(c, n) \/ UnregisterHost(c, n) \/ CloseListener(c, n)
    \/ RunCancel(c, n)
=============================================================================
