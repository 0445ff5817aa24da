----------------------------- MODULE MCTschLock -----------------------------
(***************************************************************************)
(* Model checking of TschLock: three link blocks, so that one can be       *)
(* scheduled, one removed and one added, and that they can run out; two    *)
(* neighbours, one in transmission while the other comes or goes.          *)
(***************************************************************************)
EXTENDS TschLock
=============================================================================
