------------------------------ MODULE MCConeNat ------------------------------
(***************************************************************************)
(* Two LAN endpoints that use the same port, the last but one of the port  *)
(* space, so that the search passes the wrap.                              *)
(***************************************************************************)
EXTENDS ConeNat

MCSrcPort == [lan \in Lan |-> PortSize - 2]
=============================================================================
