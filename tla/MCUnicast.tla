----------------------------- MODULE MCUnicast ------------------------------
(***************************************************************************)
(* Model checking of Unicast: four sequence numbers, so that they go round *)
(* while copies wait at B and in a window of three; a packet is sent twice *)
(* at most.                                                                *)
(***************************************************************************)
EXTENDS Unicast
=============================================================================
