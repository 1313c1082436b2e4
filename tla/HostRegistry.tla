---------------------------- MODULE HostRegistry ----------------------------
(***************************************************************************)
(* What the daemon promises about host names, without goroutines, ports or *)
(* messages: a tunnel takes a free host of its user, the stable one unless *)
(* another tunnel has it, holds it for as long as it lives, and gives back *)
(* that host and no other.  TunnelRegistry shows that Tunnel implements it.*)
(***************************************************************************)
CONSTANTS
    Tunnels,
    Hosts,
    Nobody,         \* none of Tunnels
    Main,           \* for each tunnel, the stable host of its user
    Others          \* for each tunnel, the hosts it may get instead

VARIABLES
    route,          \* the tunnel each host leads to
    phase           \* where each tunnel is in its life

vars == <<route, phase>>

Init ==
    /\ route = [h \in Hosts |-> Nobody]
    /\ phase = [t \in Tunnels |-> "out"]

Allowed(t, h) ==
    \/ h = Main[t]
    \/ h \in Others[t] /\ route[Main[t]] \notin {t, Nobody}

Claim(t, h) ==
    /\ phase[t] = "out"
    /\ route[h] = Nobody /\ Allowed(t, h)
    /\ route' = [route EXCEPT ![h] = t]
    /\ phase' = [phase EXCEPT ![t] = "live"]

\* The tunnel is lost or cancelled; visitors still find it.
Finish(t) ==
    /\ phase[t] = "live"
    /\ phase' = [phase EXCEPT ![t] = "ending"]
    /\ UNCHANGED route

Release(t) ==
    /\ phase[t] = "ending"
    /\ route' = [h \in Hosts |-> IF route[h] = t THEN Nobody ELSE route[h]]
    /\ phase' = [phase EXCEPT ![t] = "out"]

\* The registry is not persistent.
Restart == route' = [h \in Hosts |-> Nobody] /\ phase' = [t \in Tunnels |-> "out"]

Next ==
    \/ \E t \in Tunnels : Finish(t) \/ Release(t) \/ \E h \in Hosts : Claim(t, h)
    \/ Restart

Spec == Init /\ [][Next]_vars
=============================================================================
