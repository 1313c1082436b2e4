------------------------------ MODULE MCTunnel ------------------------------
(***************************************************************************)
(* Small instances of Tunnel.                                              *)
(***************************************************************************)
EXTENDS TunnelRegistry, MCClients, TLC

CONSTANTS p1, c1, c2, u1, u2

OneUser   == [c \in Conns |-> p1]

\* The connections of one principal are interchangeable.
Symmetry == Permutations(Conns)

\* What a closed connection leaves in its Client is read by nothing any more:
\* Handshake makes a new one.
View == <<dbPort, proxies, handler, inbox, outbox, peer,
          [c \in Conns |-> IF Disconnected(c) THEN NewClient(c, "closed", FALSE)
                                             ELSE client[c]]>>
=============================================================================
