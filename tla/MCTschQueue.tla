---------------------------- MODULE MCTschQueue -----------------------------
(***************************************************************************)
(* Model checking of TschQueue.  The links of the Orchestra schedules:     *)
(* one shared slot for broadcast and for neighbours without a link;        *)
(* beacons in a slot of their own (ORCHESTRA_WITH_EBSF) or in the shared   *)
(* slot as well (the minimal schedule).                                    *)
(***************************************************************************)
EXTENDS TschQueue, TLC

OwnBeaconSlot  == [d \in Dest |-> IF d = EB THEN "advertising_only" ELSE "normal"]
SharedBeaconSlot == [d \in Dest |-> IF d = BC THEN "advertising" ELSE "normal"]

CommonShared == {BC}
AllShared    == Dest \ {EB}

BeaconAndCommon == {EB, BC}
CommonOnly      == {BC}

Symmetry == Permutations(Block)
=============================================================================
