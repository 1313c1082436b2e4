--------------------------- MODULE MCPortHistory ---------------------------
(***************************************************************************)
(* One principal, one connection at a time.                                *)
(***************************************************************************)
EXTENDS PortHistory, TunnelProperties, MCClients

CONSTANTS p1, c1, u1

Owner == [c \in Conns |-> p1]
=============================================================================
