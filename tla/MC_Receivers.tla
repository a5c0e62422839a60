---------------------------- MODULE MC_Receivers ----------------------------
(* Instantiates Receivers: two client connections.                         *)
EXTENDS Receivers

CONSTANTS c1, c2

MCConns == {c1, c2}
=============================================================================
