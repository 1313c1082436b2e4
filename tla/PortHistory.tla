---------------------------- MODULE PortHistory ----------------------------
(***************************************************************************)
(* Tunnel with a history variable: for each principal, the port that the   *)
(* latest TCP tunnel was given, provided the database had saved it by      *)
(* then, and whether there is a reason to forget it since: the port of an  *)
(* HTTP tunnel was saved, or a TCP tunnel began and found it taken.  The   *)
(* port of the range of TCP tunnels tells such a tunnel from an HTTP one.  *)
(***************************************************************************)
EXTENDS Tunnel

VARIABLE tcpTunnel

hvars == <<vars, tcpTunnel>>

Given(c, n) ==
    /\ handler[c][n].pc = "answer" /\ handler'[c][n].pc = "serving"
    /\ handler[c][n].port \in PortRange("tcpPort")
    /\ dbPort[PrincipalOf[c]] = handler[c][n].port

\* net.Listen on the port of the last time gives an error.
FindsTaken(c, n) ==
    /\ handler[c][n].pc = "begin" /\ handler'[c][n].pc = "tcpPort"
    /\ InTCPRange(client[c].lastPort)

RecordPort ==
    tcpTunnel' = [p \in Principals |->
        IF \E c \in Conns, n \in Numbers : PrincipalOf[c] = p /\ Given(c, n)
        THEN [port |-> dbPort[p], forgotten |-> FALSE]
        ELSE [port |-> tcpTunnel[p].port,
              forgotten |->
                  \/ tcpTunnel[p].forgotten
                  \/ dbPort'[p] \in PortRange("httpPort")
                  \/ \E c \in Conns, n \in Numbers : PrincipalOf[c] = p /\ FindsTaken(c, n)]]

HInit == Init /\ tcpTunnel = [p \in Principals |-> [port |-> 0, forgotten |-> FALSE]]
HNext == Next /\ RecordPort
HSpec == HInit /\ [][HNext]_hvars

HFairSpec ==
    /\ HSpec
    /\ \A c \in Conns :
        /\ WF_hvars(RequestLoopStep(c) /\ RecordPort)
        /\ WF_hvars(WaiterStep(c) /\ RecordPort)
        /\ WF_hvars(PgrokStep(c) /\ RecordPort)
        /\ \A n \in Numbers : WF_hvars(GoroutineStep(c, n) /\ RecordPort)

\* A TCP tunnel begins on another port than the principal's previous one, which
\* no tunnel has and which the daemon does not find taken by another process.
MissesPort(c, n) ==
    LET port == tcpTunnel[PrincipalOf[c]].port
    IN  /\ handler[c][n].pc = "begin"
        /\ client[c].protocol = "tcp"
        /\ handler'[c][n].pc \in {"opened", "tcpPort"}
        /\ port # 0 /\ ~Listening(port) /\ ~FindsTaken(c, n)
        /\ handler'[c][n].port # port

(***************************************************************************)
(* README.md 110: "The assigned TCP port on the server side is             *)
(* semi-stable, such that the same port number is used when still          *)
(* available."  A TCP tunnel that begins while the principal's previous    *)
(* TCP port is free listens on that port.  (client.go 84-93, 195-207)      *)
(***************************************************************************)
TCPPortIsStable == [][\A c \in Conns, n \in Numbers : ~MissesPort(c, n)]_hvars

(***************************************************************************)
(* What does hold: for a user with one connection at a time, only an HTTP  *)
(* tunnel, or a TCP tunnel that found the port taken, makes the daemon     *)
(* forget the port of the last TCP tunnel; losses, crashes and failing     *)
(* updates do not.  (client.go 84-93, 195-207)                             *)
(***************************************************************************)
TCPPortIsKept ==
    [][\A c \in Conns, n \in Numbers :
          ~tcpTunnel[PrincipalOf[c]].forgotten => ~MissesPort(c, n)]_hvars
=============================================================================
