----------------------------- MODULE MCIsrRing ------------------------------
(***************************************************************************)
(* Model checking of IsrRing: a ring of four slots, as input_ringbuf has   *)
(* in the firmware, and two items that can be told apart.                  *)
(***************************************************************************)
EXTENDS IsrRing

B == INSTANCE Bitwise

\* The wrap-around operators of RingBufIndex are the "& mask" of the C code,
\* for every power of two up to the size of the largest ring of the firmware.
ASSUME MaskIsWrapAround ==
    \A mask \in {1, 3, 7, 15} : \A p, g \in 0 .. mask :
        /\ Plus1(p, mask) = B!&(p + 1, mask)
        /\ ringbufindex_elements([put_ptr |-> p, get_ptr |-> g], mask)
             = B!&((p + 256) - g, mask)
=============================================================================
