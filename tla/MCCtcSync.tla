----------------------------- MODULE MCCtcSync ------------------------------
(***************************************************************************)
(* Model checking of CtcSync: frames of 5, 4 and 3 slots, so that after 60 *)
(* slots every coincidence has occurred; a bell and two binary digits, so  *)
(* that the number they carry comes round after 60 slots as well.  The     *)
(* node is the destination of a flow and has one more unicast link.        *)
(***************************************************************************)
EXTENDS CtcSync

MCSlotframeSize == <<5, 4, 3>>
MCNodeLink == {[sf |-> 1, timeslot |-> 0], [sf |-> 3, timeslot |-> 0],
               [sf |-> 2, timeslot |-> 2], [sf |-> 2, timeslot |-> 3]}

\* Power is the exponentiation of the standard modules.
ASSUME PowersOfBase == \A k \in DOMAIN Power : Power[k] = Base ^ k
=============================================================================
