------------------------------ MODULE Cluster ------------------------------
(***************************************************************************)
(* The routing table of the reverse proxy: reverseproxy.Cluster.           *)
(*                                                                         *)
(* A cluster maps a host name to the reverse proxy that forwards to one    *)
(* port of the loopback interface, so a proxy is that port; Absent stands  *)
(* for a host the map has no entry for.  Every method runs under           *)
(* proxiesLock, hence the operators below are one atomic step each for the *)
(* modules that use them.                                                  *)
(***************************************************************************)
EXTENDS Naturals

CONSTANT NoHost     \* what Set returns when it gives an error instead of a host

Absent == 0

NewCluster(hosts) == [h \in hosts |-> Absent]

Get(proxies, host) == proxies[host]

Exists(proxies, host) == Get(proxies, host) # Absent

(***************************************************************************)
(* Set(host, alternative, forward) has two results: the host it used and   *)
(* the map it leaves behind.                                               *)
(***************************************************************************)
\* Faulty: does not look whether the host is taken.
SetTakesAny(proxies, host, alternative) == host

SetHost(proxies, host, alternative) ==
    IF ~Exists(proxies, host) THEN host
    ELSE IF ~Exists(proxies, alternative) THEN alternative
    ELSE NoHost

Set(proxies, host, alternative, forward) ==
    LET used == SetHost(proxies, host, alternative)
    IN  IF used = NoHost THEN proxies ELSE [proxies EXCEPT ![used] = forward]

\* Faulty: leaves the route behind.
RemoveNothing(proxies, host) == proxies

Remove(proxies, host) == [proxies EXCEPT ![host] = Absent]
=============================================================================
