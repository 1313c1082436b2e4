----------------------------- MODULE ProxyServer -----------------------------
(***************************************************************************)
(* The visitors of the tunnels: pgrokd/cli/proxy_server.go composed with   *)
(* Tunnel, and the streams of client.go 126-189 and pgrok/cli/http.go      *)
(* 206-238 that carry their requests.                                      *)
(*                                                                         *)
(* A visitor's request looks its host up in the cluster, and the proxy it  *)
(* gets dials the port of that proxy, later, when the port may be closed   *)
(* or somebody else's.  The goroutine that accepts opens a channel to the  *)
(* client of the connection, which dials the local program; bytes are      *)
(* copied until either side ends or the connection's context is cancelled. *)
(*                                                                         *)
(* The proxies share http.DefaultTransport, whose idle connections are     *)
(* known by the port they lead to: a request takes one before it dials,    *)
(* though it may lead into a stream of the port's previous tunnel that has *)
(* not been closed yet.  Idle connections of one port and tunnel count as  *)
(* one in the set idle, so taking one may leave an equal one behind.       *)
(*                                                                         *)
(* promised is history: the connection of a running pgrok that was told    *)
(* the very host the visitor asks for, for as long as that connection is   *)
(* up and not cancelled.                                                   *)
(***************************************************************************)
EXTENDS Tunnel

CONSTANTS
    Visitors,
    Visited,        \* the hosts visitors ask for
    NoConn

ASSUME ProxyAssumption == Visited \subseteq Host /\ NoConn \notin Conns

VARIABLES
    visit,      \* per visitor, its request and the stream that carries it
    idle        \* connections the proxies keep, each with its stream

pvars == <<vars, visit, idle>>

IdleConn == [port : Ports, conn : Conns]

Visit == [pc : {"idle", "found", "queued", "opening", "streaming", "turnedAway"},
          host : Visited \cup {NoHost}, port : Ports \cup {0},
          conn : Conns \cup {NoConn}, n : Numbers \cup {0},
          reused : BOOLEAN, promised : Conns \cup {NoConn}]

NoVisit == [pc |-> "idle", host |-> NoHost, port |-> 0,
            conn |-> NoConn, n |-> 0, reused |-> FALSE, promised |-> NoConn]

PInit == Init /\ visit = [v \in Visitors |-> NoVisit] /\ idle = {}

UpdateVisit(v, fields) == visit' = [visit EXCEPT ![v] = fields] /\ UNCHANGED vars

\* The visitor gets an answer that no client of a tunnel gave.
TurnAway(v, promised) ==
    UpdateVisit(v, [NoVisit EXCEPT !.pc = "turnedAway", !.reused = visit[v].reused,
                                   !.promised = promised])

\* The client was told the port, and the channel that is opened names it.
HasForward(c, port) ==
    /\ peer[c] # Gone /\ Running(c)
    /\ peer[c].port = port

\* pgrok accepts channels when its exchange is over, OpenSSH at once.
Accepting(c) == peer[c].kind.serial => peer[c].heard = Len(Script(c))

Connected(c) == client[c].up /\ ~client[c].cancelled

Lasting(c) ==
    /\ peer[c] # Gone /\ Running(c) /\ peer[c].port # 0
    /\ Accepting(c) /\ Connected(c)

Promised(host) ==
    LET live == {c \in Conns : Lasting(c) /\ peer[c].host = host}
    IN  IF live = {} THEN NoConn ELSE CHOOSE c \in live : TRUE
----------------------------------------------------------------------------
Lookup(v, host) ==
    /\ visit[v].pc = "idle"
    /\ IF Exists(proxies, host)
       THEN UpdateVisit(v, [NoVisit EXCEPT !.pc = "found", !.host = host,
                                !.port = Get(proxies, host), !.promised = Promised(host)])
       ELSE TurnAway(v, Promised(host))
    /\ UNCHANGED idle

\* proxy.ServeHTTP takes an idle connection to the port, whoever listens there now,
ReuseIdle(v) ==
    /\ visit[v].pc = "found"
    /\ \E s \in idle :
           /\ s.port = visit[v].port
           /\ UpdateVisit(v, [visit[v] EXCEPT !.pc = "streaming", !.conn = s.conn,
                                              !.reused = TRUE])
           /\ idle' \in {idle, idle \ {s}}

\* or dials whoever listens on the port now.
DialListener(v) ==
    /\ visit[v].pc = "found"
    /\ \A s \in idle : s.port # visit[v].port
    /\ \/ \E c \in Conns, n \in Numbers :
              /\ handler[c][n].port = visit[v].port
              /\ UpdateVisit(v, [visit[v] EXCEPT !.pc = "queued", !.conn = c, !.n = n])
       \/ ~Listening(visit[v].port) /\ TurnAway(v, visit[v].promised)
    /\ UNCHANGED idle

\* listener.Accept; closing the listener resets what waits in its queue.
AcceptConn(v) ==
    /\ visit[v].pc = "queued"
    /\ IF handler[visit[v].conn][visit[v].n].port = visit[v].port
       THEN UpdateVisit(v, [visit[v] EXCEPT !.pc = "opening"])
       ELSE TurnAway(v, visit[v].promised)
    /\ UNCHANGED idle

\* OpenChannel gives an error: the transport is gone, or the client does not
\* know the port (yet, or any more).
OpenChannelFails(v) ==
    /\ visit[v].pc = "opening"
    /\ ~client[visit[v].conn].up \/ ~HasForward(visit[v].conn, visit[v].port)
    /\ TurnAway(v, visit[v].promised)
    /\ UNCHANGED idle

\* The client accepts the channel,
ChannelAccepted(v) ==
    /\ visit[v].pc = "opening"
    /\ client[visit[v].conn].up
    /\ HasForward(visit[v].conn, visit[v].port) /\ Accepting(visit[v].conn)

\* and dials the local program,
OpenChannel(v) ==
    /\ ChannelAccepted(v)
    /\ UpdateVisit(v, [visit[v] EXCEPT !.pc = "streaming"])
    /\ UNCHANGED idle

\* which does not listen: pgrok closes the channel and goes on.
LocalDialFails(v) ==
    /\ ChannelAccepted(v)
    /\ TurnAway(v, NoConn)
    /\ UNCHANGED idle

\* Either side has had enough; after an answer the connection may be kept.
EndStream(v) ==
    /\ visit[v].pc \in {"streaming", "turnedAway"}
    /\ UpdateVisit(v, NoVisit)
    /\ \/ UNCHANGED idle
       \/ /\ visit[v].pc = "streaming"
          /\ idle' = idle \cup {[port |-> visit[v].port, conn |-> visit[v].conn]}

\* Faulty: the stream's context is not the connection's.
StreamOutlivesContext(v) ==
    /\ visit[v].pc = "streaming"
    /\ ~client[visit[v].conn].up
    /\ UpdateVisit(v, NoVisit)
    /\ UNCHANGED idle

(***************************************************************************)
(* streamCtx is done with the connection's context, or a copy meets the    *)
(* end.  The visitor's answer is cut off, or there is none and the proxy   *)
(* says so; but the transport tries again when the connection was an idle  *)
(* one and the request can be sent twice.                                  *)
(***************************************************************************)
BreakStream(v) ==
    /\ visit[v].pc = "streaming"
    /\ ~Connected(visit[v].conn)
    /\ \/ UpdateVisit(v, NoVisit)
       \/ TurnAway(v, visit[v].promised)
       \/ /\ visit[v].reused
          /\ UpdateVisit(v, [visit[v] EXCEPT !.pc = "found", !.conn = NoConn,
                                             !.reused = FALSE])
    /\ UNCHANGED idle

\* An idle connection is closed: by its age, by the local program,
CloseIdle(s) ==
    /\ s \in idle
    /\ idle' = idle \ {s}
    /\ UNCHANGED <<vars, visit>>

\* or because its stream ends with the connection's context.
BreakIdle(s) == ~Connected(s.conn) /\ CloseIdle(s)
----------------------------------------------------------------------------
\* Forget the promises of the connections that end with this step.
Attached(c) == (\E v \in Visitors : visit[v].conn = c) \/ (\E s \in idle : s.conn = c)

Visiting ==
    /\ UNCHANGED idle
    /\ visit' = [v \in Visitors |->
           IF \E c \in Conns : visit[v].promised = c /\ ~Lasting(c)'
           THEN [visit[v] EXCEPT !.promised = NoConn] ELSE visit[v]]

\* A slot is used again when the streams of its last connection are gone.
TunnelStep(c) ==
    /\ ConnStep(c)
    /\ Attached(c) /\ ~client[c].up => ~client'[c].up
    /\ Visiting

\* The proxy server is part of the process that crashes.
CrashAll == Crash /\ visit' = [v \in Visitors |-> NoVisit] /\ idle' = {}

ProxyStep(v) ==
    \/ ReuseIdle(v) \/ DialListener(v) \/ AcceptConn(v)
    \/ OpenChannelFails(v) \/ OpenChannel(v) \/ LocalDialFails(v)
    \/ BreakStream(v)

PNext ==
    \/ \E c \in Conns : TunnelStep(c)
    \/ \E v \in Visitors :
           ProxyStep(v) \/ EndStream(v) \/ \E host \in Visited : Lookup(v, host)
    \/ \E s \in IdleConn : CloseIdle(s)
    \/ CrashAll

PSpec == PInit /\ [][PNext]_pvars

\* The goroutines of the proxy and of streams run; visitors, local programs and
\* what else the daemon does may take as long as they like.
PFairSpec ==
    /\ PSpec
    /\ \A v \in Visitors : WF_pvars(ProxyStep(v))
    /\ \A s \in IdleConn : WF_pvars(BreakIdle(s))
----------------------------------------------------------------------------
(***************************************************************************)
(* A visitor of the address a running pgrok was told is served by that     *)
(* very tunnel while it lasts, or turned away by its local program; the    *)
(* daemon does not turn him away and a tunnel that has got hold of the     *)
(* port does not get him, with one exception: an idle connection may take  *)
(* him into a stream of an earlier tunnel of the port, of a connection     *)
(* that is cancelled or lost by then, and that stream may break on him.    *)
(* (proxy_server.go 19-25: the proxy is used after the lock on the cluster *)
(* is released; cluster.go 50-61: the proxies share a transport)           *)
(***************************************************************************)
PromisesAreKept ==
    \A v \in Visitors : visit[v].promised # NoConn =>
        /\ visit[v].pc = "turnedAway" => visit[v].reused
        /\ visit[v].conn \notin {NoConn, visit[v].promised} =>
               visit[v].reused /\ ~Connected(visit[v].conn)

(***************************************************************************)
(* No stream outlives its tunnel, neither one that carries a visitor nor   *)
(* an idle one: not when the transport is lost, and not when the forward   *)
(* is cancelled over a transport that stays.  (client.go 177-186)          *)
(***************************************************************************)
Stranded(v) ==
    /\ visit[v].conn # NoConn
    /\ \/ ~client[visit[v].conn].up
       \/ visit[v].pc = "streaming" /\ client[visit[v].conn].cancelled

StreamsEnd ==
    /\ \A v \in Visitors : Stranded(v) ~> visit[v].conn = NoConn
    /\ \A s \in IdleConn : (s \in idle /\ ~Connected(s.conn)) ~> s \notin idle
=============================================================================
