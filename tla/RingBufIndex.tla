---------------------------- MODULE RingBufIndex ----------------------------
(***************************************************************************)
(* core/lib/ringbufindex.c: the pair of indices every TSCH queue is built  *)
(* on (input_ringbuf, dequeued_ringbuf and one tx_ringbuf per neighbour).  *)
(*                                                                         *)
(* A ring is a record of its two indices; "mask" is size - 1 for a size    *)
(* that is a power of two.  For such a size the C expression "x & mask"    *)
(* is a wrap-around: it is written here as a conditional so that the       *)
(* arithmetic stays linear, and MCIsrRing checks both against the bitwise  *)
(* operator.  One slot is always left unused: a ring of size mask + 1      *)
(* holds at most mask elements.                                            *)
(***************************************************************************)
EXTENDS Naturals

Ring(mask) == [put_ptr : 0 .. mask, get_ptr : 0 .. mask]

ringbufindex_init == [put_ptr |-> 0, get_ptr |-> 0]

\* (i + 1) & mask
Plus1(i, mask) == IF i = mask THEN 0 ELSE i + 1

\* (put_ptr - get_ptr) & mask
ringbufindex_elements(r, mask) ==
    IF r.put_ptr >= r.get_ptr THEN r.put_ptr - r.get_ptr
                              ELSE (r.put_ptr + mask + 1) - r.get_ptr

\* Fault: all the slots are thought usable, so that "full" looks like "empty".
ringbufindex_full_fault(r, mask) == ringbufindex_elements(r, mask) > mask

ringbufindex_full(r, mask)  == ringbufindex_elements(r, mask) = mask
ringbufindex_empty(r, mask) == ringbufindex_elements(r, mask) = 0

\* Fault: the index before the increment, as ringbufindex_get returns it.
ringbufindex_peek_put_fault(r, mask) == r.put_ptr

\* Fault: the mask is forgotten.
ringbufindex_peek_put_unmasked(r, mask) == r.put_ptr + 1

\* The slot the next element goes to; the C returns -1 when the ring is full
\* and the callers test for it, here the callers guard with ~full.
ringbufindex_peek_put(r, mask) == Plus1(r.put_ptr, mask)

\* Commits the element; a put on a full ring changes nothing (returns 0).
ringbufindex_put(r, mask) ==
    IF ringbufindex_full(r, mask) THEN r
    ELSE [r EXCEPT !.put_ptr = Plus1(r.put_ptr, mask)]

\* The slot of the oldest element, for a ring that is not empty.
ringbufindex_peek_get(r, mask) == Plus1(r.get_ptr, mask)

\* Removes the oldest element; a get on an empty ring changes nothing.  The
\* value ringbufindex_get returns (the index before the increment, not that
\* of the element removed) is left out: no reachable caller uses it.
ringbufindex_get(r, mask) ==
    IF ringbufindex_empty(r, mask) THEN r
    ELSE [r EXCEPT !.get_ptr = Plus1(r.get_ptr, mask)]

\* The slot indices in use, oldest first: index of the i-th element, i >= 1.
SlotOf(r, i, mask) ==
    IF r.get_ptr + i <= mask THEN r.get_ptr + i
                             ELSE r.get_ptr + i - (mask + 1)
=============================================================================
