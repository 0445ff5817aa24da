---------------------------- MODULE MCSlotEngine ----------------------------
(***************************************************************************)
(* Model checking of SlotEngine: two slotframes, a fixed link in the       *)
(* longer one and one that comes and goes in the shorter one; 8 values of  *)
(* the lower word and 3 of the upper one, so that the ASN carries and, at  *)
(* 24, comes back to zero in step with both slotframes; a clock that wraps *)
(* every 8 slots; slots that may last until the next one begins.           *)
(***************************************************************************)
EXTENDS SlotEngine

MCSlotframeSize == <<2, 3>>
MCFixedLink == {[sf |-> 2, timeslot |-> 0]}
MCLink == MCFixedLink \cup {[sf |-> 1, timeslot |-> 1]}
MCNetworkShift == {-2}
=============================================================================
