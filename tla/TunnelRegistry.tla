--------------------------- MODULE TunnelRegistry ---------------------------
(***************************************************************************)
(* Tunnel implements HostRegistry, for well behaved clients.  A tunnel is  *)
(* a connection; it is live from Cluster.Set to the end of its context,    *)
(* and ending until Cluster.Remove.                                        *)
(***************************************************************************)
EXTENDS TunnelInvariant

ASSUME RegistryAssumption == NoHost \notin Conns

\* A route that no goroutine has registered, or not with that port, is not one
\* that a registry knows.
Holder(host) ==
    IF \E c \in Conns, n \in Numbers : Registered(c, n) /\ Serves(c, n, host)
    THEN CHOOSE c \in Conns : \E n \in Numbers : Registered(c, n) /\ Serves(c, n, host)
    ELSE Garbled

RouteNow == [host \in Host |-> IF Exists(proxies, host) THEN Holder(host) ELSE NoHost]

PhaseNow ==
    [c \in Conns |->
        IF ~\E n \in Numbers : Registered(c, n) THEN "out"
        ELSE IF \E n \in Numbers : Registered(c, n) /\ handler[c][n].pc = "unregister"
             THEN "ending" ELSE "live"]

Registry == INSTANCE HostRegistry WITH
    Tunnels <- Conns,
    Hosts   <- Host,
    Nobody  <- NoHost,
    Main    <- [c \in Conns |-> MainHost(c)],
    Others  <- [c \in Conns |-> Alternatives(c)],
    route   <- RouteNow,
    phase   <- PhaseNow

(***************************************************************************)
(* The daemon keeps the promise of HostRegistry: whatever its goroutines   *)
(* interleave, a host is taken, held and freed by one tunnel of its user,  *)
(* and a route leaves the cluster only when its own tunnel has ended.      *)
(* (client.go 210-230, cluster.go 35-68)                                   *)
(***************************************************************************)
ImplementsRegistry == Registry!Spec
----------------------------------------------------------------------------
(***************************************************************************)
(* Set is only ever asked for the stable host: a connection has it until   *)
(* its forward has been assigned another, and then no forward is to come.  *)
(***************************************************************************)
Settled == {"answer", "serving", "unregister", "closing"}

HostSettled(c) ==
    client[c].host # MainHost(c) =>
        /\ \A n \in Numbers : Active(c, n) => handler[c][n].pc \in Settled
        /\ \A i \in DOMAIN inbox[c] : inbox[c][i].type # "forward"
        /\ peer[c] # Gone => \A i \in Forwards(Script(c)) : i <= peer[c].sent

RegistryInv == RoutingInv /\ \A c \in Conns : HostSettled(c)
=============================================================================
