-------------------------- MODULE MCDedicatedSlot ---------------------------
(***************************************************************************)
(* Model checking of DedicatedSlot: a link is outdated after two steps of  *)
(* time, one packet waits at B.                                            *)
(***************************************************************************)
EXTENDS DedicatedSlot
=============================================================================
