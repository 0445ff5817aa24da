------------------------------ MODULE MCTimers ------------------------------
(***************************************************************************)
(* Model checking of Timers: the keep-alive timer and another one, and an  *)
(* event queue that two events fill.                                       *)
(***************************************************************************)
EXTENDS Timers
=============================================================================
