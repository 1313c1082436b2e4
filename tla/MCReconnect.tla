---------------------------- MODULE MCReconnect ----------------------------
(***************************************************************************)
(* Two instances of pgrokd over one database, and a pgrok.                 *)
(***************************************************************************)
EXTENDS Reconnect

CONSTANTS i1, i2, k1
=============================================================================
