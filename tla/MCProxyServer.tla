---------------------------- MODULE MCProxyServer ----------------------------
(***************************************************************************)
(* Small instances of ProxyServer.                                         *)
(***************************************************************************)
EXTENDS ProxyServer, TunnelProperties, MCClients, TLC

CONSTANTS p1, p2, c1, c2, u1, v1

EachAUser == c1 :> p1 @@ c2 :> p2

OneHost == {<<p1, Subdomain>>}

\* What a closed connection leaves in its Client is read by nothing any more.
View == <<dbPort, proxies, handler, inbox, outbox, peer, visit, idle,
          [c \in Conns |-> IF Disconnected(c) THEN NewClient(c, "closed", FALSE)
                                             ELSE client[c]]>>
=============================================================================
