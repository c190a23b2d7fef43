-------------------------------- MODULE MCOms --------------------------------
(* The order manager on small instances. *)
EXTENDS Oms
=============================================================================
