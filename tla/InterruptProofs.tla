-------------------------- MODULE InterruptProofs --------------------------
(***************************************************************************)
(* Proofs about what the slot interrupt shares with the processes: the     *)
(* mailboxes that it fills (IsrRing), for every ring size and every set of *)
(* items, and the callback timers that it sets (Timers), for every set of  *)
(* timers and every length of the event queue.                             *)
(***************************************************************************)
EXTENDS IsrRing, Timers, Facts, SequenceTheorems

(***************************************************************************)
(* The mailboxes.  Arithmetic of the indices.                              *)
(***************************************************************************)

\* A ring never holds more than Mask elements.
LEMMA ElementsBound ==
    ASSUME NEW rb \in Ring(Mask)
    PROVE  ringbufindex_elements(rb, Mask) \in 0 .. Mask
  BY MaskAssumption DEF Ring, ringbufindex_elements

\* The slots of the elements are slots.
LEMMA SlotOfType ==
    ASSUME NEW rb \in Ring(Mask), NEW i \in 1 .. Mask
    PROVE  SlotOf(rb, i, Mask) \in Slot
  BY MaskAssumption DEF Ring, SlotOf, Slot

\* The indices stay in range.
LEMMA IndexType ==
    ASSUME NEW rb \in Ring(Mask)
    PROVE  /\ ringbufindex_peek_put(rb, Mask) \in Slot
           /\ ringbufindex_peek_get(rb, Mask) \in Slot
           /\ ringbufindex_put(rb, Mask) \in Ring(Mask)
           /\ ringbufindex_get(rb, Mask) \in Ring(Mask)
  BY MaskAssumption DEF Ring, Slot, ringbufindex_peek_put,
     ringbufindex_peek_get, ringbufindex_put, ringbufindex_get, Plus1

\* Committing adds one element behind the others, in the slot of peek_put.
LEMMA PutAppends ==
    ASSUME NEW rb \in Ring(Mask), ~ringbufindex_full(rb, Mask)
    PROVE  /\ ringbufindex_elements(ringbufindex_put(rb, Mask), Mask)
                = ringbufindex_elements(rb, Mask) + 1
           /\ \A i \in 1 .. Mask :
                SlotOf(ringbufindex_put(rb, Mask), i, Mask) = SlotOf(rb, i, Mask)
           /\ SlotOf(rb, ringbufindex_elements(rb, Mask) + 1, Mask)
                = ringbufindex_peek_put(rb, Mask)
  BY MaskAssumption, ElementsBound DEF Ring, ringbufindex_elements,
     ringbufindex_full, ringbufindex_put, ringbufindex_peek_put, Plus1, SlotOf

\* Removing drops the first element and moves the others up by one.
LEMMA GetDropsFirst ==
    ASSUME NEW rb \in Ring(Mask), ~ringbufindex_empty(rb, Mask)
    PROVE  /\ ringbufindex_elements(ringbufindex_get(rb, Mask), Mask)
                = ringbufindex_elements(rb, Mask) - 1
           /\ \A i \in 1 .. ringbufindex_elements(rb, Mask) - 1 :
                SlotOf(ringbufindex_get(rb, Mask), i, Mask)
                  = SlotOf(rb, i + 1, Mask)
           /\ ringbufindex_get(rb, Mask).get_ptr
                = ringbufindex_peek_get(rb, Mask)
  BY MaskAssumption, ElementsBound DEF Ring, ringbufindex_elements,
     ringbufindex_empty, ringbufindex_get, ringbufindex_peek_get, Plus1, SlotOf

\* The slot peek_put names belongs to no element.
LEMMA PutSlotIsFree ==
    ASSUME NEW rb \in Ring(Mask), ~ringbufindex_full(rb, Mask),
           NEW i \in 1 .. ringbufindex_elements(rb, Mask)
    PROVE  SlotOf(rb, i, Mask) # ringbufindex_peek_put(rb, Mask)
  BY MaskAssumption, ElementsBound DEF Ring, ringbufindex_elements,
     ringbufindex_full, ringbufindex_peek_put, Plus1, SlotOf

\* Nor is it the slot that was removed last, which is where get_ptr points.
LEMMA PutSlotIsNotLastRemoved ==
    ASSUME NEW rb \in Ring(Mask), ~ringbufindex_full(rb, Mask)
    PROVE  ringbufindex_peek_put(rb, Mask) # rb.get_ptr
  BY MaskAssumption DEF Ring, ringbufindex_elements, ringbufindex_full,
     ringbufindex_peek_put, Plus1

\* Nor the slot of the oldest element, which is where the process looks.
LEMMA PutSlotIsNotFirst ==
    ASSUME NEW rb \in Ring(Mask), ~ringbufindex_empty(rb, Mask)
    PROVE  ringbufindex_peek_put(rb, Mask) # ringbufindex_peek_get(rb, Mask)
  BY MaskAssumption DEF Ring, ringbufindex_elements, ringbufindex_empty,
     ringbufindex_peek_put, ringbufindex_peek_get, Plus1

(***************************************************************************)
(* The inductive invariant.  The three properties do not carry themselves: *)
(* what makes them hold is that the process, from its look at the ring to  *)
(* its last use of the slot, stands on the oldest element or on the one    *)
(* just removed, and that peek_put names neither.                          *)
(***************************************************************************)

GetIndexHolds ==
    /\ proc \in {"copy", "get"} =>
          /\ ~ringbufindex_empty(ring, Mask)
          /\ get_index = ringbufindex_peek_get(ring, Mask)
    /\ proc = "use" => get_index = ring.get_ptr

IInv == TypeOK /\ ReservationHolds /\ GetIndexHolds /\ CopyIntact

\* What the process looks at is never the reserved slot.
LEMMA IInvNoSlotShared == IInv => NoSlotShared
<1> SUFFICES ASSUME IInv, isr # "idle", proc \in {"copy", "get", "use"}
             PROVE  put_index # get_index
  BY DEF NoSlotShared
<1>1. ring \in Ring(Mask) /\ ~ringbufindex_full(ring, Mask)
      /\ put_index = ringbufindex_peek_put(ring, Mask)
  BY DEF IInv, TypeOK, ReservationHolds
<1>2. CASE proc \in {"copy", "get"}
  BY <1>1, <1>2, PutSlotIsNotFirst DEF IInv, GetIndexHolds
<1>3. CASE proc = "use"
  BY <1>1, <1>3, PutSlotIsNotLastRemoved DEF IInv, GetIndexHolds
<1> QED  BY <1>2, <1>3

\* A get makes room: a ring that was not full is not full after it, and the
\* slot to put to does not move.
LEMMA GetKeepsRoom ==
    ASSUME NEW rb \in Ring(Mask), ~ringbufindex_full(rb, Mask)
    PROVE  /\ ~ringbufindex_full(ringbufindex_get(rb, Mask), Mask)
           /\ ringbufindex_peek_put(ringbufindex_get(rb, Mask), Mask)
                = ringbufindex_peek_put(rb, Mask)
  BY MaskAssumption DEF Ring, ringbufindex_elements, ringbufindex_full,
     ringbufindex_empty, ringbufindex_get, ringbufindex_peek_put, Plus1

\* A put leaves the oldest element and the last removed one where they are.
LEMMA PutKeepsFirst ==
    ASSUME NEW rb \in Ring(Mask)
    PROVE  /\ ringbufindex_put(rb, Mask).get_ptr = rb.get_ptr
           /\ ringbufindex_peek_get(ringbufindex_put(rb, Mask), Mask)
                = ringbufindex_peek_get(rb, Mask)
           /\ ~ringbufindex_empty(rb, Mask)
                => ~ringbufindex_empty(ringbufindex_put(rb, Mask), Mask)
  BY MaskAssumption DEF Ring, ringbufindex_elements, ringbufindex_full,
     ringbufindex_empty, ringbufindex_put, ringbufindex_peek_get, Plus1

LEMMA InitIInv == Init => IInv
<1> SUFFICES ASSUME Init PROVE IInv
  OBVIOUS
<1>1. ringbufindex_init \in Ring(Mask) /\ 0 \in Slot
  BY MaskAssumption DEF Ring, Slot, ringbufindex_init
<1>2. TypeOK
  BY <1>1 DEF Init, TypeOK
<1>3. ReservationHolds /\ GetIndexHolds /\ CopyIntact
  BY DEF Init, ReservationHolds, GetIndexHolds, CopyIntact
<1> QED  BY <1>2, <1>3 DEF IInv

\* Every step of the interrupt keeps the invariant.
LEMMA LinkOperationIInv == IInv /\ LinkOperation => IInv'
<1> SUFFICES ASSUME IInv, LinkOperation PROVE IInv'
  OBVIOUS
<1> USE DEF TypeOK, ReservationHolds, GetIndexHolds, CopyIntact, IsrReturn,
            procVars, pollVars
<1>0. ring \in Ring(Mask)
  BY DEF IInv
<1>1. CASE ReserveSlot
  BY <1>0, <1>1, IndexType DEF IInv, ReserveSlot
<1>2. ASSUME NEW v \in Item, FillSlot(v) PROVE IInv'
  <2>1. (TypeOK /\ ReservationHolds /\ GetIndexHolds)'
    BY <1>2 DEF IInv, FillSlot
  <2>2. CopyIntact'
    <3>1. proc' \in {"get", "use"} => proc \in {"get", "use"} /\ put_index # get_index
      BY <1>2, IInvNoSlotShared DEF FillSlot, NoSlotShared
    <3> QED  BY <1>2, <3>1 DEF IInv, FillSlot
  <2> QED  BY <2>1, <2>2 DEF IInv
<1>3. CASE AbandonSlot
  BY <1>3 DEF IInv, AbandonSlot
<1>4. CASE CommitSlot
  <2>1. proc' = proc \/ proc' = "run"
    BY <1>4 DEF CommitSlot
  <2>2. TypeOK'
    BY <1>0, <1>4, <2>1, IndexType DEF IInv, CommitSlot, process_poll
  <2>3. GetIndexHolds'
    BY <1>0, <1>4, <2>1, PutKeepsFirst DEF IInv, CommitSlot
  <2> QED  BY <1>4, <2>1, <2>2, <2>3 DEF IInv, CommitSlot
<1> QED  BY <1>1, <1>2, <1>3, <1>4 DEF LinkOperation

\* So does every step of the main loop and of the scheduler.
LEMMA MainLoopIInv == IInv /\ (MainLoop \/ SynchPost) => IInv'
  BY DEF IInv, TypeOK, ReservationHolds, GetIndexHolds, CopyIntact, MainLoop,
     StartPoll, CallPolled, GoToSleep, SynchPost, isrVars, procVars, pollVars

\* And every step of the process that drains the ring.
LEMMA ProcessPendingIInv == IInv /\ ProcessPending => IInv'
<1> SUFFICES ASSUME IInv, ProcessPending PROVE IInv'
  OBVIOUS
<1> USE DEF TypeOK, ReservationHolds, GetIndexHolds, CopyIntact, isrVars,
            procVars, pollVars
<1>0. ring \in Ring(Mask)
  BY DEF IInv
<1>1. CASE PeekGet
  BY <1>0, <1>1, IndexType DEF IInv, PeekGet
<1>2. CASE Drained
  BY <1>2 DEF IInv, Drained
<1>3. CASE CopyItem
  BY <1>3 DEF IInv, CopyItem
<1>4. CASE RemoveItem
  <2>1. TypeOK'
    BY <1>0, <1>4, IndexType DEF IInv, RemoveItem
  <2>2. ReservationHolds'
    BY <1>0, <1>4, GetKeepsRoom DEF IInv, RemoveItem
  <2>3. GetIndexHolds'
    BY <1>0, <1>4, GetDropsFirst DEF IInv, RemoveItem
  <2> QED  BY <1>4, <2>1, <2>2, <2>3 DEF IInv, RemoveItem
<1>5. CASE UseItem
  BY <1>5 DEF IInv, UseItem
<1> QED  BY <1>1, <1>2, <1>3, <1>4, <1>5 DEF ProcessPending

LEMMA NextIInv == IInv /\ [Next]_vars => IInv'
<1>1. IInv /\ UNCHANGED vars => IInv'
  BY DEF vars, IInv, TypeOK, ReservationHolds, GetIndexHolds, CopyIntact
<1> QED
  BY <1>1, LinkOperationIInv, MainLoopIInv, ProcessPendingIInv DEF Next

\* The invariant holds in every reachable state.
THEOREM Invariance == Spec => []IInv
  BY InitIInv, NextIInv, PTL DEF Spec

\* Every variable keeps its type, in particular both indices stay on the ring.
THEOREM TypeCorrect == Spec => []TypeOK
<1>1. IInv => TypeOK
  BY DEF IInv
<1> QED  BY <1>1, Invariance, PTL

\* The interrupt never fills the slot the process looks at, even after the
\* removal (the late parse of a beacon in tsch_rx_process_pending).
THEOREM NoSlotSharing == Spec => []NoSlotShared
  BY Invariance, IInvNoSlotShared, PTL

\* What was read is still in the slot at the last look.
THEOREM CopiesIntact == Spec => []CopyIntact
<1>1. IInv => CopyIntact
  BY DEF IInv
<1> QED  BY <1>1, Invariance, PTL

\* The put at the end of a timeslot cannot fail.
THEOREM ReservationsHold == Spec => []ReservationHolds
<1>1. IInv => ReservationHolds
  BY DEF IInv
<1> QED  BY <1>1, Invariance, PTL

(***************************************************************************)
(* No lost wake-up, as a state: while an item waits, either the process is *)
(* in its drain loop or both flags that lead the main loop to it are up    *)
(* (poll_requested may already be taken by the scan under way), and the    *)
(* CPU only sleeps with poll_requested down.                               *)
(***************************************************************************)

Draining == proc \in {"loop", "copy", "get", "use"}

PollPending == needspoll /\ (poll_requested \/ proc = "scan")

WakeInv ==
    /\ ~ringbufindex_empty(ring, Mask) => Draining \/ PollPending
    /\ proc = "asleep" => ~poll_requested

LEMMA InitWake == Init => WakeInv
<1> SUFFICES ASSUME Init PROVE WakeInv
  OBVIOUS
<1>1. ringbufindex_empty(ring, Mask) /\ proc = "run"
  BY DEF Init, ringbufindex_init, ringbufindex_empty, ringbufindex_elements
<1> QED  BY <1>1 DEF WakeInv

\* The interrupt raises both flags with each commit, and a handler that leaves
\* poll_requested up leaves no CPU asleep.
LEMMA LinkOperationWake == WakeInv /\ LinkOperation => WakeInv'
  BY DEF WakeInv, Draining, PollPending, LinkOperation, ReserveSlot, FillSlot,
     AbandonSlot, CommitSlot, process_poll, IsrReturn, pollVars

\* The main loop clears each flag only on its way to the process.
LEMMA MainLoopWake == WakeInv /\ (MainLoop \/ SynchPost) => WakeInv'
  BY DEF WakeInv, Draining, PollPending, MainLoop, StartPoll, CallPolled,
     GoToSleep, SynchPost, pollVars

\* The process leaves its loop only when it finds the ring empty.
LEMMA ProcessPendingWake == WakeInv /\ ProcessPending => WakeInv'
  BY DEF WakeInv, Draining, PollPending, ProcessPending, PeekGet, Drained,
     CopyItem, RemoveItem, UseItem, pollVars

LEMMA NextWake == WakeInv /\ [Next]_vars => WakeInv'
<1>1. WakeInv /\ UNCHANGED vars => WakeInv'
  BY DEF vars, WakeInv, Draining, PollPending
<1> QED
  BY <1>1, LinkOperationWake, MainLoopWake, ProcessPendingWake DEF Next

\* The CPU never sleeps on a frame that waits, whatever the moment the
\* interrupt commits it at.
THEOREM NeverAsleepOnItem == Spec => []AsleepOnlyWhenEmpty
<1>1. WakeInv => AsleepOnlyWhenEmpty
  BY DEF WakeInv, Draining, PollPending, AsleepOnlyWhenEmpty
<1> QED  BY <1>1, InitWake, NextWake, PTL DEF Spec

(***************************************************************************)
(* Refinement: Contents is a bounded first-in first-out queue.  A commit   *)
(* appends, a removal takes the head, and every other step, the filling of *)
(* the reserved slot included, changes nothing an observer of the queue    *)
(* can see.                                                                *)
(***************************************************************************)

\* The length and the elements of the queue.
LEMMA ContentsFacts ==
    ASSUME TypeOK
    PROVE  /\ Contents \in Seq(Item)
           /\ Len(Contents) = ringbufindex_elements(ring, Mask)
           /\ \A i \in 1 .. ringbufindex_elements(ring, Mask) :
                Contents[i] = array[SlotOf(ring, i, Mask)]
<1> DEFINE n == ringbufindex_elements(ring, Mask)
<1>1. ring \in Ring(Mask) /\ array \in [Slot -> Item]
  BY DEF TypeOK
<1>2. n \in 0 .. Mask
  BY <1>1, ElementsBound
<1>3. n \in Nat /\ 1 .. n \subseteq 1 .. Mask
  BY <1>2, MaskAssumption
<1>4. \A i \in 1 .. n : array[SlotOf(ring, i, Mask)] \in Item
  BY <1>1, <1>3, SlotOfType
<1> HIDE DEF n
<1>5. Contents = [i \in 1 .. n |-> array[SlotOf(ring, i, Mask)]]
  BY DEF Contents, n
<1>6. Contents \in [1 .. n -> Item]
  BY <1>4, <1>5
<1>7. Contents \in Seq(Item) /\ Len(Contents) = n
  BY <1>3, <1>6
<1> QED  BY <1>5, <1>7 DEF n

\* An empty ring is the empty queue.
LEMMA InitRefines == Init => Contents = <<>>
<1> SUFFICES ASSUME Init PROVE Contents = <<>>
  OBVIOUS
<1>1. TypeOK
  BY InitIInv DEF IInv
<1>2. ringbufindex_elements(ring, Mask) = 0
  BY DEF Init, ringbufindex_init, ringbufindex_elements
<1> QED  BY <1>1, <1>2, ContentsFacts

\* Filling the reserved slot does not touch the queue.
LEMMA FillRefines ==
    ASSUME IInv, NEW v \in Item, FillSlot(v)
    PROVE  Contents' = Contents
<1> DEFINE n == ringbufindex_elements(ring, Mask)
<1>1. /\ ring \in Ring(Mask) /\ array \in [Slot -> Item]
      /\ ~ringbufindex_full(ring, Mask)
      /\ put_index = ringbufindex_peek_put(ring, Mask)
  BY DEF IInv, TypeOK, ReservationHolds, FillSlot
<1>2. ring' = ring /\ array' = [array EXCEPT ![put_index] = v]
  BY DEF FillSlot
<1>3. \A i \in 1 .. n : SlotOf(ring, i, Mask) # put_index
  BY <1>1, PutSlotIsFree
<1>4. n \in 0 .. Mask
  BY <1>1, ElementsBound
<1>5. \A i \in 1 .. n : SlotOf(ring, i, Mask) \in Slot
  BY <1>1, <1>4, SlotOfType, MaskAssumption
<1>6. \A i \in 1 .. n : array'[SlotOf(ring, i, Mask)] = array[SlotOf(ring, i, Mask)]
  BY <1>1, <1>2, <1>3, <1>5
<1> QED  BY <1>2, <1>6 DEF Contents

\* A commit appends the item of the reserved slot.
LEMMA CommitRefines ==
    ASSUME IInv, CommitSlot
    PROVE  \E v \in Item : Fifo!Put(v)
<1> DEFINE n == ringbufindex_elements(ring, Mask)
           v == array[put_index]
<1>1. /\ TypeOK /\ ring \in Ring(Mask) /\ array \in [Slot -> Item]
      /\ put_index \in Slot
      /\ ~ringbufindex_full(ring, Mask)
      /\ put_index = ringbufindex_peek_put(ring, Mask)
  BY DEF IInv, TypeOK, ReservationHolds, CommitSlot
<1>2. ring' = ringbufindex_put(ring, Mask) /\ array' = array
  BY DEF CommitSlot
<1>3. TypeOK'
  BY LinkOperationIInv DEF LinkOperation, IInv
<1>4. n \in 0 .. Mask /\ n # Mask
  BY <1>1, ElementsBound DEF ringbufindex_full
<1>5. /\ ringbufindex_elements(ring, Mask)' = n + 1
      /\ \A i \in 1 .. Mask : SlotOf(ring, i, Mask)' = SlotOf(ring, i, Mask)
      /\ SlotOf(ring, n + 1, Mask) = put_index
  BY <1>1, <1>2, PutAppends
<1>6. /\ Contents \in Seq(Item) /\ Len(Contents) = n
      /\ \A i \in 1 .. n : Contents[i] = array[SlotOf(ring, i, Mask)]
  BY <1>1, ContentsFacts
<1>7. Contents' = [i \in 1 .. (n + 1) |-> array[SlotOf(ring, i, Mask)]]
  <2>1. Contents' = [i \in 1 .. (n + 1) |-> array'[SlotOf(ring, i, Mask)']]
    BY <1>5 DEF Contents, SlotOf
  <2>2. \A i \in 1 .. (n + 1) : i \in 1 .. Mask
    BY <1>4, MaskAssumption
  <2> QED  BY <1>2, <1>5, <2>1, <2>2
<1>8. v \in Item
  BY <1>1
<1> HIDE DEF n, v
<1>9. Contents' = Append(Contents, v)
  <2>1. n \in Nat
    BY <1>4, MaskAssumption
  <2>2. /\ Append(Contents, v) \in Seq(Item)
        /\ Len(Append(Contents, v)) = n + 1
        /\ \A i \in 1 .. n : Append(Contents, v)[i] = Contents[i]
        /\ Append(Contents, v)[n + 1] = v
    BY <1>6, <1>8, AppendProperties
  <2>3. \A i \in 1 .. (n + 1) :
          array[SlotOf(ring, i, Mask)] = Append(Contents, v)[i]
    BY <1>5, <1>6, <2>1, <2>2 DEF v
  <2>4. \A i \in 1 .. (n + 1) : Append(Contents, v)[i] \in Item
    BY <2>2, <2>1, ElementOfSeq
  <2>5. Contents' \in [1 .. (n + 1) -> Item]
    BY <1>7, <2>3, <2>4
  <2>6. Contents' \in Seq(Item) /\ Len(Contents') = n + 1
    BY <2>1, <2>5
  <2>7. \A i \in 1 .. (n + 1) : Contents'[i] = Append(Contents, v)[i]
    BY <1>7, <2>3
  <2> QED  BY <2>2, <2>6, <2>7, SeqEqual
<1>10. Len(Contents) < Mask
  BY <1>4, <1>6, MaskAssumption
<1> QED  BY <1>8, <1>9, <1>10 DEF Fifo!Put

\* A removal takes the head of the queue.
LEMMA RemoveRefines ==
    ASSUME IInv, RemoveItem
    PROVE  Fifo!Get
<1> DEFINE n == ringbufindex_elements(ring, Mask)
<1>1. /\ TypeOK /\ ring \in Ring(Mask) /\ array \in [Slot -> Item]
      /\ ~ringbufindex_empty(ring, Mask)
  BY DEF IInv, TypeOK, GetIndexHolds, RemoveItem
<1>2. ring' = ringbufindex_get(ring, Mask) /\ array' = array
  BY DEF RemoveItem
<1>3. n \in 0 .. Mask /\ n # 0
  BY <1>1, ElementsBound DEF ringbufindex_empty
<1>4. /\ ringbufindex_elements(ring, Mask)' = n - 1
      /\ \A i \in 1 .. (n - 1) :
           SlotOf(ring, i, Mask)' = SlotOf(ring, i + 1, Mask)
  BY <1>1, <1>2, GetDropsFirst
<1>5. /\ Contents \in Seq(Item) /\ Len(Contents) = n
      /\ \A i \in 1 .. n : Contents[i] = array[SlotOf(ring, i, Mask)]
  BY <1>1, ContentsFacts
<1>6. Contents' = [i \in 1 .. (n - 1) |-> array[SlotOf(ring, i + 1, Mask)]]
  <2>1. Contents' = [i \in 1 .. (n - 1) |-> array'[SlotOf(ring, i, Mask)']]
    BY <1>4 DEF Contents, SlotOf
  <2> QED  BY <1>2, <1>4, <2>1
<1> HIDE DEF n
<1>7. n \in Nat \ {0}
  BY <1>3, MaskAssumption
<1>8. Contents # <<>>
  BY <1>5, <1>7
<1>9. /\ Tail(Contents) \in Seq(Item) /\ Len(Tail(Contents)) = n - 1
      /\ \A i \in 1 .. (n - 1) : Tail(Contents)[i] = Contents[i + 1]
  BY <1>5, <1>7, <1>8, HeadTailProperties
<1>10. \A i \in 1 .. (n - 1) : Contents'[i] = Tail(Contents)[i]
  BY <1>5, <1>6, <1>7, <1>9
<1>11. \A i \in 1 .. (n - 1) : Tail(Contents)[i] \in Item
  BY <1>7, <1>9, ElementOfSeq
<1>12. Contents' \in [1 .. (n - 1) -> Item]
  BY <1>6, <1>10, <1>11
<1>13. Contents' \in Seq(Item) /\ Len(Contents') = n - 1
  BY <1>7, <1>12
<1>14. Contents' = Tail(Contents)
  BY <1>9, <1>10, <1>13, SeqEqual
<1> QED  BY <1>8, <1>14 DEF Fifo!Get

\* Every step of the mailbox is a step of the queue or a stutter.
LEMMA NextRefines == IInv /\ [Next]_vars => [Fifo!Next]_Contents
<1> SUFFICES ASSUME IInv, [Next]_vars PROVE [Fifo!Next]_Contents
  OBVIOUS
<1>1. ASSUME UNCHANGED <<ring, array>> PROVE Contents' = Contents
  BY <1>1 DEF Contents, SlotOf, ringbufindex_elements
<1>2. CASE UNCHANGED vars
  BY <1>1, <1>2 DEF vars
<1>3. ASSUME NEW v \in Item, FillSlot(v) PROVE Contents' = Contents
  BY <1>3, FillRefines
<1>4. CASE CommitSlot
  BY <1>4, CommitRefines DEF Fifo!Next
<1>5. CASE RemoveItem
  BY <1>5, RemoveRefines DEF Fifo!Next
<1>6. CASE ReserveSlot \/ AbandonSlot
  BY <1>1, <1>6 DEF ReserveSlot, AbandonSlot
<1>7. CASE MainLoop \/ SynchPost
  BY <1>1, <1>7 DEF MainLoop, StartPoll, CallPolled, GoToSleep, SynchPost
<1>8. CASE PeekGet \/ Drained \/ CopyItem \/ UseItem
  BY <1>1, <1>8 DEF PeekGet, Drained, CopyItem, UseItem
<1> QED
  BY <1>2, <1>3, <1>4, <1>5, <1>6, <1>7, <1>8
     DEF Next, LinkOperation, ProcessPending

\* The lock-free mailbox implements a bounded first-in first-out queue:
\* nothing committed by the interrupt is lost, duplicated, reordered or
\* overwritten before the process has removed it.
THEOREM RingRefinesFifo == Spec => RingIsFifo
<1>1. Init => Fifo!Init
  BY InitRefines DEF Fifo!Init
<1> QED  BY <1>1, Invariance, NextRefines, PTL DEF Spec, RingIsFifo, Fifo!Spec

----------------------------------------------------------------------------
(***************************************************************************)
(* The timers.  Their invariant: the sequences that the two lists stand    *)
(* for, where an operation is in them, and what it has done so far.        *)
(***************************************************************************)

\* The timers of a list in their order.
Order == Seq(Timer)

\* The element at a place; before the first and behind the last there is none.
At(s, i) == IF i \in 1 .. Len(s) THEN s[i] ELSE NULL

\* The list is the sequence s, in which no timer is twice.
Chain(list, s) ==
    /\ IsInjective(s)
    /\ list.head = At(s, 1)
    /\ \A i \in 1 .. Len(s) : list.next[s[i]] = At(s, i + 1)

\* A walk that has come to l and has not passed t.
Walked(s, t) ==
    \E k \in 1 .. Len(s) + 1 : l = At(s, k) /\ \A j \in 1 .. k - 1 : s[j] # t

\* The same, with r the place before.
WalkedBehind(s, t) ==
    \E k \in 1 .. Len(s) + 1 :
        l = At(s, k) /\ r = At(s, k - 1) /\ \A j \in 1 .. k - 1 : s[j] # t

QueuedUpTo(n) == {events[(fevent + i) % NumEvents] : i \in 0 .. n - 1}

\* The process: where it is in timerlist, of which s is the order, and what it has
\* done to it: at most one timer is pending and not in the list, or the reverse.
TimerlistInv(s) ==
    /\ Chain(timerlist, s)
    /\ pc \notin {"pushed", "seek", "unlink"} => pending = ToSet(s)
    /\ pc = "search" => item \in ToSet(s) /\ Walked(s, item)
    /\ pc = "push" => item \notin ToSet(s)
    /\ pc = "pushed" => /\ item \notin ToSet(s) /\ pending = ToSet(s) \cup {item}
                        /\ timerlist.next[item] = timerlist.head
    /\ pc = "seek" => /\ pending \ {item} = ToSet(s) \ {item}
                      /\ \/ l = NULL /\ item \notin ToSet(s)
                         \/ \E k \in 1 .. Len(s) : l = s[k] /\ \A j \in 1 .. k : s[j] # item
    /\ pc = "scan" => \E k \in 1 .. Len(s) + 1 : l = At(s, k) /\ r = At(s, k - 1)
    /\ pc \in {"post", "posted", "clear", "unlink"} =>
           \E k \in 1 .. Len(s) : l = s[k] /\ r = At(s, k - 1)
    /\ pc = "unlink" => pending = ToSet(s) \ {l}

\* The same of ctimer_list, of which c is the order, and the timers to be called
\* back.
CtimerListInv(c) ==
    /\ Chain(ctimer_list, c)
    /\ op = "set" /\ pc # "idle" => item \in owed
    /\ pc \in {"idle", "scan", "post", "posted", "clear", "unlink", "take", "find"} =>
           ToSet(c) = owed
    /\ pc \in {"search", "push", "pushed"} => ToSet(c) \cup {item} = owed
    /\ pc = "seek" => ToSet(c) \ {item} = owed
    /\ pc = "find" /\ item \in Timer => Walked(c, item)
    /\ pc = "remove" =>
         /\ WalkedBehind(c, item)
         /\ op = "set" => ToSet(c) \cup {item} = owed
         /\ op = "stop" => ToSet(c) \ {item} = owed
         /\ op = "call" => ToSet(c) = owed
    /\ pc \in {"append", "tail", "link", "callback"} => ToSet(c) = owed \ {item}
    /\ pc \in {"tail", "link"} => ctimer_list.next[item] = NULL
    /\ pc = "tail" => \E k \in 1 .. Len(c) : l = c[k]
    /\ pc = "link" => l = At(c, Len(c))

\* What is to be called back has its timer or its event.
EventsInv ==
    /\ pc \in {"post", "posted"} => nevents < NumEvents
    /\ pc = "take" => nevents > 0
    /\ pc = "posted" => events[snum] = l
    /\ pc \in {"clear", "unlink"} => l \in Queued
    /\ CASE pc \in {"search", "push", "pushed"} -> owed \subseteq pending \cup {item} \cup Queued
         [] pc = "take" -> owed \subseteq pending \cup {item} \cup QueuedUpTo(nevents - 1)
         [] pc \in {"find", "callback"} \/ (pc = "remove" /\ op = "call") ->
                owed \subseteq pending \cup {item} \cup Queued
         [] OTHER -> owed \subseteq pending \cup Queued

\* Which operation has which steps.
OpInv ==
    /\ pc \in {"search", "push", "pushed", "append", "tail", "link"} => op = "set"
    /\ pc = "seek" => op = "stop"
    /\ pc = "remove" => op \in {"set", "stop", "call"}
    /\ pc \in {"take", "find", "callback"} => op = "call"
    /\ pc \in {"search", "push", "pushed", "remove", "append", "tail", "link", "seek", "find", "callback"}
           => item \in Timer

TimersTyped ==
    /\ ctimer_list \in List /\ timerlist \in List
    /\ pending \subseteq Timer /\ expired \subseteq Timer /\ owed \subseteq Timer
    /\ events \in [0 .. NumEvents - 1 -> Timer \cup {Leave, NULL}]
    /\ fevent \in 0 .. NumEvents - 1 /\ nevents \in 0 .. NumEvents
    /\ joined \in {"yes", "left", "joining"}
    /\ op \in {"none", "set", "stop", "scan", "call"}
    /\ pc \in {"idle", "search", "push", "pushed", "remove", "append", "tail", "link", "seek",
               "scan", "post", "posted", "clear", "unlink", "take", "find", "callback"}
    /\ item \in Timer \cup {Leave, NULL}
    /\ l \in Timer \cup {NULL} /\ r \in Timer \cup {NULL}

Holds(s, c) == TimersTyped /\ OpInv /\ EventsInv /\ TimerlistInv(s) /\ CtimerListInv(c)

TimersInv == \E s, c \in Order : Holds(s, c)

----------------------------------------------------------------------------
(***************************************************************************)
(* Lists and the sequences that they stand for                             *)
(***************************************************************************)

\* The assumption about the constants, in parts.
LEMMA NullFacts ==
  /\ NULL \notin Timer /\ Leave \notin Timer /\ NULL # Leave
  /\ keepalive_timer \in Timer /\ NumEvents \in Nat \ {0}
BY TimersAssumption

\* The elements of an order and the places next to its ends.
LEMMA AtFacts ==
  ASSUME NEW s \in Order, NEW i \in Int
  PROVE  /\ Len(s) \in Nat
         /\ i \in 1 .. Len(s) => At(s, i) = s[i] /\ s[i] \in Timer /\ s[i] # NULL /\ s[i] \in ToSet(s)
         /\ i \notin 1 .. Len(s) => At(s, i) = NULL
         /\ At(s, i) \in Timer \cup {NULL}
<1>1. Len(s) \in Nat /\ DOMAIN s = 1 .. Len(s) /\ \A j \in 1 .. Len(s) : s[j] \in Timer
  BY DEF Order
<1> QED  BY <1>1, NullFacts DEF At, ToSet

\* The elements as a set.
LEMMA OrderSet ==
  ASSUME NEW s \in Order
  PROVE  /\ ToSet(s) \subseteq Timer
         /\ \A t : t \in ToSet(s) <=> \E i \in 1 .. Len(s) : s[i] = t
<1>1. Len(s) \in Nat /\ DOMAIN s = 1 .. Len(s) /\ \A j \in 1 .. Len(s) : s[j] \in Timer
  BY DEF Order
<1> QED  BY <1>1 DEF ToSet

\* No timer has two places.
LEMMA PlaceUnique ==
  ASSUME NEW s \in Order, IsInjective(s), NEW i \in 1 .. Len(s), NEW j \in 1 .. Len(s), s[i] = s[j]
  PROVE  i = j
<1>1. DOMAIN s = 1 .. Len(s)
  BY DEF Order
<1> QED  BY <1>1 DEF IsInjective

\* An assignment to the head.
LEMMA SetHeadFacts ==
  ASSUME NEW list \in List, NEW n \in Timer \cup {NULL}
  PROVE  /\ SetNext(list, NULL, n) \in List
         /\ SetNext(list, NULL, n).head = n
         /\ \A t \in Timer : SetNext(list, NULL, n).next[t] = list.next[t]
<1>1. list = [head |-> list.head, next |-> list.next] /\ list.head \in Timer \cup {NULL}
      /\ list.next \in [Timer -> Timer \cup {NULL}]
  BY DEF List
<1>2. SetNext(list, NULL, n) = [list EXCEPT !.head = n]
  BY DEF SetNext
<1>3. SetNext(list, NULL, n) = [head |-> n, next |-> list.next]
  BY <1>1, <1>2
<1> QED  BY <1>1, <1>3 DEF List

\* An assignment to the pointer of a timer.
LEMMA SetLinkFacts ==
  ASSUME NEW list \in List, NEW p \in Timer, NEW n \in Timer \cup {NULL}
  PROVE  /\ SetNext(list, p, n) \in List
         /\ SetNext(list, p, n).head = list.head
         /\ SetNext(list, p, n).next[p] = n
         /\ \A t \in Timer \ {p} : SetNext(list, p, n).next[t] = list.next[t]
<1>1. list = [head |-> list.head, next |-> list.next] /\ list.head \in Timer \cup {NULL}
      /\ list.next \in [Timer -> Timer \cup {NULL}]
  BY DEF List
<1>2. SetNext(list, p, n) = [list EXCEPT !.next[p] = n]
  BY NullFacts DEF SetNext
<1>3. SetNext(list, p, n) = [head |-> list.head, next |-> [list.next EXCEPT ![p] = n]]
  BY <1>1, <1>2
<1> QED  BY <1>1, <1>3 DEF List

\* The head and the elements of a list.
LEMMA ChainFacts ==
  ASSUME NEW list \in List, NEW s \in Order, Chain(list, s)
  PROVE  /\ list.head = At(s, 1)
         /\ \A i \in 1 .. Len(s) : list.next[s[i]] = At(s, i + 1)
         /\ IsInjective(s)
BY DEF Chain

\* Assignments elsewhere do not change the list.
LEMMA ChainKept ==
  ASSUME NEW list \in List, NEW new \in List, NEW s \in Order, Chain(list, s),
         new.head = list.head, \A t \in ToSet(s) : new.next[t] = list.next[t]
  PROVE  Chain(new, s)
<1>1. \A i \in 1 .. Len(s) : s[i] \in ToSet(s)
  BY AtFacts
<1> QED  BY <1>1 DEF Chain

\* The pointer of a timer that is not in the list.
LEMMA OffChain ==
  ASSUME NEW list \in List, NEW s \in Order, Chain(list, s), NEW t \in Timer \ ToSet(s),
         NEW n \in Timer \cup {NULL}
  PROVE  /\ SetNext(list, t, n) \in List /\ Chain(SetNext(list, t, n), s)
         /\ SetNext(list, t, n).next[t] = n /\ SetNext(list, t, n).head = list.head
<1>1. t \in Timer /\ t # NULL /\ t \notin ToSet(s) /\ ToSet(s) \subseteq Timer
  BY NullFacts, OrderSet
<1> DEFINE new == SetNext(list, t, n)
<1>2. /\ new \in List /\ new.head = list.head /\ new.next[t] = n
      /\ \A u \in Timer \ {t} : new.next[u] = list.next[u]
  BY <1>1, SetLinkFacts
<1> HIDE DEF new
<1>3. \A u \in ToSet(s) : new.next[u] = list.next[u]
  BY <1>1, <1>2
<1>4. Chain(new, s)
  BY <1>2, <1>3, ChainKept
<1> QED  BY <1>2, <1>4 DEF new

\* One timer is taken out behind the one before it.
LEMMA UnlinkedChain ==
  ASSUME NEW list \in List, NEW s \in Order, Chain(list, s), NEW k \in 1 .. Len(s)
  PROVE  /\ Unlinked(list, At(s, k - 1), s[k]) \in List
         /\ RemoveAt(s, k) \in Order
         /\ Chain(Unlinked(list, At(s, k - 1), s[k]), RemoveAt(s, k))
         /\ ToSet(RemoveAt(s, k)) = ToSet(s) \ {s[k]}
         /\ Unlinked(list, At(s, k - 1), s[k]).next[s[k]] = NULL
<1> DEFINE p == At(s, k - 1)
           t == s[k]
           mid == SetNext(list, p, list.next[t])
           new == Unlinked(list, p, t)
           q == RemoveAt(s, k)
<1>1. Len(s) \in Nat /\ t \in Timer /\ t # NULL /\ p \in Timer \cup {NULL}
      /\ t \in ToSet(s)
  BY AtFacts
<1>2. list.next[t] = At(s, k + 1) /\ list.next[t] \in Timer \cup {NULL}
  BY ChainFacts, AtFacts
<1>3. /\ mid \in List
      /\ p = NULL => mid.head = At(s, k + 1) /\ \A u \in Timer : mid.next[u] = list.next[u]
      /\ p # NULL => /\ mid.head = list.head /\ mid.next[p] = At(s, k + 1)
                     /\ \A u \in Timer \ {p} : mid.next[u] = list.next[u]
  <2> HIDE DEF p, t
  <2>1. CASE p = NULL
    BY <1>1, <1>2, <2>1, SetHeadFacts
  <2>2. CASE p # NULL
    <3>1. p \in Timer
      BY <1>1, <2>2
    <3> QED  BY <1>2, <2>2, <3>1, SetLinkFacts
  <2> QED  BY <2>1, <2>2
<1>4. new = SetNext(mid, t, NULL)
  BY DEF Unlinked
<1>5. /\ new \in List /\ new.head = mid.head /\ new.next[t] = NULL
      /\ \A u \in Timer \ {t} : new.next[u] = mid.next[u]
  <2> HIDE DEF mid, new, t
  <2>1. NULL \in Timer \cup {NULL} /\ t \in Timer /\ mid \in List /\ new = SetNext(mid, t, NULL)
    BY <1>1, <1>3, <1>4
  <2> QED  BY <2>1, SetLinkFacts
<1>6. /\ q \in Order /\ Len(q) = Len(s) - 1 /\ IsInjective(q) /\ ToSet(q) = ToSet(s) \ {t}
      /\ \A i \in 1 .. Len(s) - 1 : q[i] = s[IF i < k THEN i ELSE i + 1]
  <2>1. s \in Seq(Timer) /\ IsInjective(s)
    BY ChainFacts DEF Order
  <2> QED  BY <2>1, RemoveAtFacts DEF Order
<1>7. p = NULL <=> k = 1
  BY <1>1, AtFacts, NullFacts
<1>8. new.head = At(q, 1)
  <2>1. CASE k = 1
    <3>1. new.head = At(s, 2)
      BY <1>3, <1>5, <1>7, <2>1
    <3>2. At(q, 1) = At(s, 2)
      <4> HIDE DEF q
      <4> QED  BY <1>1, <1>6, <2>1 DEF At
    <3> QED  BY <3>1, <3>2
  <2>2. CASE k # 1
    <3>1. new.head = At(s, 1)
      BY <1>3, <1>5, <1>7, <2>2, ChainFacts
    <3>2. At(q, 1) = At(s, 1)
      <4> HIDE DEF q
      <4> QED  BY <1>1, <1>6, <2>2 DEF At
    <3> QED  BY <3>1, <3>2
  <2> QED  BY <2>1, <2>2
<1>9. ASSUME NEW i \in 1 .. Len(q)
      PROVE  new.next[q[i]] = At(q, i + 1)
  <2>1. i \in 1 .. Len(s) - 1 /\ i \in Int /\ k \in Int /\ k \in 1 .. Len(s)
    BY <1>1, <1>6
  <2>2. PICK j \in 1 .. Len(s) : j = IF i < k THEN i ELSE i + 1
    BY <2>1
  <2>3. q[i] = s[j] /\ j # k /\ s[j] \in Timer
    BY <1>6, <2>1, <2>2, AtFacts
  <2>4. s[j] # t
    BY <2>2, <2>3, PlaceUnique, ChainFacts
  <2>5. new.next[q[i]] = mid.next[s[j]]
    BY <1>5, <2>3, <2>4
  <2>6. CASE j = k - 1
    <3>1. p = s[j] /\ p # NULL
      BY <2>2, <2>6, AtFacts
    <3>2. mid.next[s[j]] = At(s, k + 1)
      BY <1>3, <3>1
    <3>3. i = k - 1
      BY <2>1, <2>2, <2>6
    <3>4. At(q, i + 1) = At(s, k + 1)
      <4> HIDE DEF q
      <4> QED  BY <1>1, <1>6, <3>3, <2>1 DEF At
    <3> QED  BY <2>5, <3>2, <3>4
  <2>7. CASE j # k - 1
    <3>1. p # s[j]
      <4>1. CASE k = 1
        BY <4>1, <1>7, <2>3, NullFacts
      <4>2. CASE k # 1
        <5>1. k - 1 \in 1 .. Len(s) /\ p = s[k - 1]
          BY <2>1, <4>2, AtFacts
        <5> QED  BY <5>1, <2>7, PlaceUnique, ChainFacts
      <4> QED  BY <4>1, <4>2
    <3>2. mid.next[s[j]] = At(s, j + 1)
      BY <1>3, <2>3, <3>1, ChainFacts
    <3>3. At(q, i + 1) = At(s, j + 1)
      <4> HIDE DEF q
      <4> QED  BY <1>1, <1>6, <2>1, <2>2, <2>7, <2>3 DEF At
    <3> QED  BY <2>5, <3>2, <3>3
  <2> QED  BY <2>6, <2>7
<1>10. Chain(new, q)
  <2> HIDE DEF new, q
  <2> QED  BY <1>6, <1>8, <1>9 DEF Chain
<1> QED  BY <1>5, <1>6, <1>10

\* A timer is linked behind the last one.
LEMMA LinkedChain ==
  ASSUME NEW list \in List, NEW s \in Order, Chain(list, s), NEW t \in Timer \ ToSet(s),
         list.next[t] = NULL
  PROVE  /\ SetNext(list, At(s, Len(s)), t) \in List
         /\ Append(s, t) \in Order /\ ToSet(Append(s, t)) = ToSet(s) \cup {t}
         /\ Chain(SetNext(list, At(s, Len(s)), t), Append(s, t))
<1> DEFINE p == At(s, Len(s))
           new == SetNext(list, p, t)
           q == Append(s, t)
<1>1. /\ Len(s) \in Nat /\ t \in Timer /\ t # NULL /\ t \notin ToSet(s) /\ p \in Timer \cup {NULL}
      /\ \A i \in 1 .. Len(s) : s[i] \in Timer /\ s[i] \in ToSet(s)
      /\ p = NULL <=> Len(s) = 0
      /\ Len(s) # 0 => p = s[Len(s)]
  BY AtFacts, NullFacts
<1>2. /\ new \in List
      /\ p = NULL => new.head = t /\ \A u \in Timer : new.next[u] = list.next[u]
      /\ p # NULL => /\ new.head = list.head /\ new.next[p] = t
                     /\ \A u \in Timer \ {p} : new.next[u] = list.next[u]
  <2> HIDE DEF p
  <2>1. CASE p = NULL
    BY <1>1, <2>1, SetHeadFacts
  <2>2. CASE p # NULL
    <3>1. p \in Timer
      BY <1>1, <2>2
    <3> QED  BY <1>1, <2>2, <3>1, SetLinkFacts
  <2> QED  BY <2>1, <2>2
<1>3. /\ q \in Order /\ Len(q) = Len(s) + 1 /\ IsInjective(q) /\ ToSet(q) = ToSet(s) \cup {t}
  <2>1. s \in Seq(Timer) /\ IsInjective(s)
    BY ChainFacts DEF Order
  <2> QED  BY <1>1, <2>1, AppendFacts DEF Order
<1>4. q[Len(s) + 1] = t /\ \A i \in 1 .. Len(s) : q[i] = s[i]
  BY DEF Order
<1> HIDE DEF q, new
<1>5. new.head = At(q, 1)
  BY <1>1, <1>2, <1>3, <1>4, ChainFacts DEF At
<1>6. ASSUME NEW i \in 1 .. Len(q)
      PROVE  new.next[q[i]] = At(q, i + 1)
  <2>1. CASE i = Len(s) + 1
    <3>1. q[i] = t /\ p # t
      BY <1>1, <1>4, <2>1
    <3>2. new.next[t] = NULL
      BY <1>1, <1>2, <3>1
    <3>3. At(q, i + 1) = NULL
      BY <1>1, <1>3, <2>1 DEF At
    <3> QED  BY <3>1, <3>2, <3>3
  <2>2. CASE i = Len(s)
    <3>1. i \in 1 .. Len(s) /\ q[i] = p /\ p # NULL
      BY <1>1, <1>4, <2>2
    <3>2. At(q, i + 1) = t
      BY <1>1, <1>3, <1>4, <2>2 DEF At
    <3> QED  BY <1>2, <3>1, <3>2
  <2>3. CASE i < Len(s)
    <3>1. i \in 1 .. Len(s) /\ q[i] = s[i] /\ i + 1 \in 1 .. Len(s) /\ Len(s) \in 1 .. Len(s)
      BY <1>1, <1>3, <1>4, <2>3
    <3>2. s[i] # p
      BY <1>1, <2>3, <3>1, PlaceUnique, ChainFacts
    <3>3. new.next[s[i]] = s[i + 1]
      <4>1. list.next[s[i]] = At(s, i + 1) /\ At(s, i + 1) = s[i + 1]
        BY <3>1, ChainFacts DEF At
      <4> QED  BY <1>1, <1>2, <3>1, <3>2, <4>1
    <3>4. At(q, i + 1) = s[i + 1]
      BY <1>1, <1>3, <1>4, <3>1 DEF At
    <3> QED  BY <3>1, <3>3, <3>4
  <2> QED  BY <1>1, <1>3, <2>1, <2>2, <2>3
<1>7. Chain(new, q)
  BY <1>3, <1>5, <1>6 DEF Chain
<1> QED  BY <1>2, <1>3, <1>7 DEF new, q

\* A timer that points to the head becomes the head.
LEMMA PushedChain ==
  ASSUME NEW list \in List, NEW s \in Order, Chain(list, s), NEW t \in Timer \ ToSet(s),
         list.next[t] = list.head
  PROVE  /\ SetNext(list, NULL, t) \in List
         /\ <<t>> \o s \in Order /\ ToSet(<<t>> \o s) = ToSet(s) \cup {t}
         /\ Chain(SetNext(list, NULL, t), <<t>> \o s)
<1> DEFINE new == SetNext(list, NULL, t)
           q == <<t>> \o s
<1>1. /\ Len(s) \in Nat /\ t \in Timer /\ t \notin ToSet(s)
      /\ \A i \in 1 .. Len(s) : s[i] \in Timer /\ s[i] \in ToSet(s)
      /\ DOMAIN s = 1 .. Len(s) /\ IsInjective(s)
  BY AtFacts, ChainFacts DEF Order
<1>2. new \in List /\ new.head = t /\ \A u \in Timer : new.next[u] = list.next[u]
  BY <1>1, SetHeadFacts, SetLinkFacts
<1>3. q \in Order /\ Len(q) = Len(s) + 1 /\ DOMAIN q = 1 .. Len(s) + 1
  BY <1>1 DEF Order
<1>4. q[1] = t /\ \A i \in 1 .. Len(s) : q[i + 1] = s[i]
  <2>1. \A i \in 1 .. 1 + Len(s) : q[i] = IF i <= 1 THEN <<t>>[i] ELSE s[i - 1]
    <3>1. <<t>> \in Seq(Timer) /\ s \in Seq(Timer) /\ Len(<<t>>) = 1
      BY <1>1 DEF Order
    <3> HIDE DEF q
    <3>2. q = <<t>> \o s
      BY DEF q
    <3> QED  BY <3>1, <3>2, ConcatFacts
  <2> QED  BY <1>1, <2>1
<1> HIDE DEF q, new
<1>5. \A i \in 2 .. Len(q) : i - 1 \in 1 .. Len(s) /\ q[i] = s[i - 1]
  <2> SUFFICES ASSUME NEW i \in 2 .. Len(q) PROVE i - 1 \in 1 .. Len(s) /\ q[i] = s[i - 1]
    OBVIOUS
  <2>1. i - 1 \in 1 .. Len(s) /\ (i - 1) + 1 = i
    BY <1>1, <1>3
  <2> QED  BY <1>4, <2>1
<1>6. IsInjective(q)
  <2> SUFFICES ASSUME NEW i \in 1 .. Len(q), NEW j \in 1 .. Len(q), q[i] = q[j]
               PROVE  i = j
    BY <1>3 DEF IsInjective
  <2>1. CASE i = 1 \/ j = 1
    BY <1>1, <1>3, <1>4, <1>5, <2>1
  <2>2. CASE i # 1 /\ j # 1
    <3>1. i \in 2 .. Len(q) /\ j \in 2 .. Len(q)
      BY <2>2
    <3>2. /\ i - 1 \in 1 .. Len(s) /\ j - 1 \in 1 .. Len(s)
          /\ s[i - 1] = s[j - 1]
      BY <1>5, <3>1
    <3>3. i - 1 = j - 1
      BY <1>1, <3>2, PlaceUnique
    <3> QED  BY <3>1, <3>3
  <2> QED  BY <2>1, <2>2
<1>7. ToSet(q) = ToSet(s) \cup {t}
  <2>1. \A i \in 1 .. Len(s) : i + 1 \in 1 .. Len(q) /\ q[i + 1] = s[i]
    BY <1>1, <1>3, <1>4
  <2>2. \A i \in 1 .. Len(q) : i = 1 \/ i \in 2 .. Len(q)
    BY <1>1, <1>3
  <2>3. 1 \in 1 .. Len(q)
    BY <1>1, <1>3
  <2>4. ASSUME NEW u \in ToSet(q) PROVE u \in ToSet(s) \cup {t}
    <3>1. PICK i \in 1 .. Len(q) : q[i] = u
      BY <1>3, OrderSet
    <3> QED  BY <1>1, <1>4, <1>5, <2>2, <3>1
  <2>5. ASSUME NEW u \in ToSet(s) \cup {t} PROVE u \in ToSet(q)
    <3>1. \E i \in 1 .. Len(q) : q[i] = u
      BY <1>4, <2>1, <2>3, OrderSet
    <3> QED  BY <1>3, <3>1, OrderSet
  <2> QED  BY <2>4, <2>5
<1>8. new.head = At(q, 1)
  BY <1>1, <1>2, <1>3, <1>4 DEF At
<1>9. ASSUME NEW i \in 1 .. Len(q)
      PROVE  new.next[q[i]] = At(q, i + 1)
  <2>1. At(q, i + 1) = At(s, i)
    <3>1. i + 1 \in 1 .. Len(q) <=> i \in 1 .. Len(s)
      BY <1>1, <1>3
    <3> QED  BY <1>4, <3>1 DEF At
  <2>2. CASE i = 1
    BY <1>2, <1>4, <2>1, <2>2, ChainFacts
  <2>3. CASE i # 1
    <3>1. i \in 2 .. Len(q) /\ (i - 1) + 1 = i
      BY <1>3, <2>3
    <3>2. list.next[s[i - 1]] = At(s, i)
      BY <1>5, <3>1, ChainFacts
    <3>3. q[i] = s[i - 1] /\ q[i] \in Timer
      BY <1>1, <1>5, <3>1
    <3>4. new.next[q[i]] = list.next[q[i]]
      BY <1>2, <3>3
    <3> QED  BY <2>1, <3>2, <3>3, <3>4
  <2> QED  BY <2>2, <2>3
<1>10. Chain(new, q)
  BY <1>6, <1>8, <1>9 DEF Chain
<1> QED  BY <1>2, <1>3, <1>7, <1>10 DEF new, q

----------------------------------------------------------------------------
(***************************************************************************)
(* The places of a list                                                    *)
(***************************************************************************)

\* The places follow one another.
LEMMA PlacesFacts ==
  ASSUME NEW list \in List
  PROVE  /\ Cardinality(Timer) \in Nat
         /\ PlacesOf(list)[0] = list.head
         /\ \A i \in 1 .. Cardinality(Timer) :
              PlacesOf(list)[i] = IF PlacesOf(list)[i - 1] = NULL THEN NULL
                                  ELSE list.next[PlacesOf(list)[i - 1]]
<1> DEFINE n == Cardinality(Timer)
           X == Timer \cup {NULL}
           s == [y \in X |-> IF y = NULL THEN NULL ELSE list.next[y]]
           Def(f) == f = [i \in 0 .. Cardinality(Timer) |->
                            IF i = 0 THEN list.head
                            ELSE IF f[i - 1] = NULL THEN NULL ELSE list.next[f[i - 1]]]
<1>1. n \in Nat /\ list.head \in X /\ s \in [X -> X]
  <2>1. n \in Nat
    BY TimersAssumption, FS_CardinalityType
  <2>2. list.head \in X /\ list.next \in [Timer -> X]
    BY DEF List
  <2> QED  BY <2>1, <2>2
<1>2. PICK f : Iterates(f, X, list.head, s, n)
  <2> HIDE DEF s, n, X
  <2> QED  BY <1>1, IterationExists
<1>3. f \in [0 .. n -> X] /\ f[0] = list.head /\ \A i \in 1 .. n : f[i] = s[f[i - 1]]
  BY <1>2 DEF Iterates
<1>4. \A k \in 1 .. n : f[k] = IF f[k - 1] = NULL THEN NULL ELSE list.next[f[k - 1]]
  <2> SUFFICES ASSUME NEW k \in 1 .. n
               PROVE  f[k] = IF f[k - 1] = NULL THEN NULL ELSE list.next[f[k - 1]]
    OBVIOUS
  <2>1. k - 1 \in 0 .. n
    BY <1>1
  <2>2. PICK y \in X : y = f[k - 1]
    BY <1>3, <2>1
  <2>3. f[k] = s[y]
    BY <1>3, <2>2
  <2>4. s[y] = IF y = NULL THEN NULL ELSE list.next[y]
    OBVIOUS
  <2> QED  BY <2>2, <2>3, <2>4
<1>5. Def(f)
  <2>1. \A k \in 0 .. n : f[k] = IF k = 0 THEN list.head
                                 ELSE IF f[k - 1] = NULL THEN NULL ELSE list.next[f[k - 1]]
    BY <1>1, <1>3, <1>4
  <2>2. DOMAIN f = 0 .. n /\ f = [k \in 0 .. n |-> f[k]]
    BY <1>3
  <2> QED  BY <2>1, <2>2
<1>6. PlacesOf(list) = CHOOSE g : Def(g)
  BY DEF PlacesOf
<1>7. Def(PlacesOf(list))
  <2> HIDE DEF Def
  <2> QED  BY <1>5, <1>6
<1>8. PICK h : h = PlacesOf(list)
  OBVIOUS
<1>9. h[0] = list.head /\ \A k \in 1 .. n : h[k] = IF h[k - 1] = NULL THEN NULL ELSE list.next[h[k - 1]]
  <2>1. Def(h)
    BY <1>7, <1>8
  <2> DEFINE e == [k \in 0 .. n |-> IF k = 0 THEN list.head
                                    ELSE IF h[k - 1] = NULL THEN NULL ELSE list.next[h[k - 1]]]
  <2>2. h = e
    BY <2>1
  <2>3. \A k \in 0 .. n : e[k] = IF k = 0 THEN list.head
                                 ELSE IF h[k - 1] = NULL THEN NULL ELSE list.next[h[k - 1]]
    OBVIOUS
  <2> HIDE DEF e
  <2>4. 0 \in 0 .. n /\ \A k \in 1 .. n : k \in 0 .. n /\ k # 0
    BY <1>1
  <2> QED  BY <2>2, <2>3, <2>4
<1> QED  BY <1>1, <1>8, <1>9

\* A list has no more elements than there are timers.
LEMMA OrderFinite ==
  ASSUME NEW s \in Order, IsInjective(s)
  PROVE  Len(s) <= Cardinality(Timer)
<1>1. Len(s) \in Nat /\ DOMAIN s = 1 .. Len(s) /\ s \in [1 .. Len(s) -> Timer]
  BY DEF Order
<1>2. s \in Injection(1 .. Len(s), Timer)
  BY <1>1 DEF Injection, IsInjective
<1>3. Cardinality(1 .. Len(s)) = Len(s)
  <2>1. 1 \in Int /\ Len(s) \in Int
    BY <1>1
  <2> QED  BY <1>1, <2>1, FS_Interval
<1> QED  BY <1>2, <1>3, TimersAssumption, FS_Injection

\* The places of a list that stands for a sequence are the places of that.
LEMMA PlacesOfChain ==
  ASSUME NEW list \in List, NEW s \in Order, Chain(list, s)
  PROVE  \A i \in 0 .. Cardinality(Timer) : PlacesOf(list)[i] = At(s, i + 1)
<1> DEFINE n == Cardinality(Timer)
           G == {i \in Nat : i \in 0 .. n => PlacesOf(list)[i] = At(s, i + 1)}
<1>1. n \in Nat /\ 0 \in G
  BY PlacesFacts, ChainFacts
<1>2. ASSUME NEW i \in G
      PROVE  i + 1 \in G
  <2>1. SUFFICES ASSUME i + 1 \in 0 .. n
                 PROVE  PlacesOf(list)[i + 1] = At(s, (i + 1) + 1)
    OBVIOUS
  <2>2. i \in 0 .. n /\ i + 1 \in 1 .. n /\ (i + 1) - 1 = i /\ PlacesOf(list)[i] = At(s, i + 1)
    BY <1>1, <2>1
  <2>3. PlacesOf(list)[i + 1] = IF At(s, i + 1) = NULL THEN NULL ELSE list.next[At(s, i + 1)]
    BY <2>2, PlacesFacts
  <2>4. CASE i + 1 \in 1 .. Len(s)
    BY <2>3, <2>4, AtFacts, ChainFacts
  <2>5. CASE i + 1 \notin 1 .. Len(s)
    <3>1. Len(s) \in Nat /\ (i + 1) + 1 \notin 1 .. Len(s)
      BY <2>2, <2>5, AtFacts
    <3> QED  BY <2>3, <2>5, <3>1 DEF At
  <2> QED  BY <2>4, <2>5
<1>3. G = Nat
  <2>1. G \in SUBSET Nat
    OBVIOUS
  <2> HIDE DEF G
  <2> QED  BY <1>1, <1>2, <2>1, NatSetInduction
<1> QED  BY <1>3

\* Such a list ends, and its timers are those of the sequence.
LEMMA ChainListed ==
  ASSUME NEW list \in List, NEW s \in Order, Chain(list, s)
  PROVE  Linear(list) /\ Listed(list) = ToSet(s)
<1> DEFINE n == Cardinality(Timer)
<1>1. n \in Nat /\ Len(s) \in Nat /\ Len(s) <= n
  BY PlacesFacts, AtFacts, OrderFinite, ChainFacts
<1>2. \A i \in 0 .. n : PlacesOf(list)[i] = At(s, i + 1)
  BY PlacesOfChain
<1>3. Linear(list)
  <2>1. PlacesOf(list)[n] = At(s, n + 1) /\ n + 1 \notin 1 .. Len(s)
    BY <1>1, <1>2
  <2> QED  BY <2>1 DEF Linear, At
<1>4. ASSUME NEW t \in Listed(list) PROVE t \in ToSet(s)
  <2>1. PICK i \in 0 .. n : t = At(s, i + 1) /\ t # NULL
    BY <1>2 DEF Listed
  <2> QED  BY <2>1, AtFacts
<1>5. ASSUME NEW t \in ToSet(s) PROVE t \in Listed(list)
  <2>1. PICK j \in 1 .. Len(s) : s[j] = t
    BY OrderSet
  <2>2. j - 1 \in 0 .. n /\ (j - 1) + 1 = j
    BY <1>1
  <2>3. PlacesOf(list)[j - 1] = t /\ t # NULL
    BY <1>2, <2>1, <2>2, AtFacts
  <2> QED  BY <2>2, <2>3 DEF Listed
<1> QED  BY <1>3, <1>4, <1>5

\* list_remove as a whole.
LEMMA RemovedChain ==
  ASSUME NEW list \in List, NEW s \in Order, Chain(list, s), NEW t \in Timer
  PROVE  /\ Removed(list, t) \in List
         /\ \E q \in Order : Chain(Removed(list, t), q) /\ ToSet(q) = ToSet(s) \ {t}
<1>1. Listed(list) = ToSet(s)
  BY ChainListed
<1>2. CASE t \notin ToSet(s)
  <2>1. Removed(list, t) = list /\ ToSet(s) = ToSet(s) \ {t}
    BY <1>1, <1>2 DEF Removed
  <2> QED  BY <2>1
<1>3. CASE t \in ToSet(s)
  <2>1. PICK k \in 1 .. Len(s) : s[k] = t
    BY <1>3, OrderSet
  <2>2. Removed(list, t) = Unlinked(list, At(s, k - 1), s[k])
    <3>1. CASE k = 1
      <4>1. list.head = t /\ At(s, k - 1) = NULL
        BY <2>1, <3>1, ChainFacts, AtFacts
      <4> QED  BY <1>1, <1>3, <2>1, <4>1 DEF Removed
    <3>2. CASE k # 1
      <4>1. k - 1 \in 1 .. Len(s) /\ 1 \in 1 .. Len(s) /\ (k - 1) + 1 = k
        BY <3>2, AtFacts
      <4>2. list.head # t
        BY <2>1, <3>2, <4>1, ChainFacts, AtFacts, PlaceUnique
      <4>3. s[k - 1] \in ToSet(s) /\ list.next[s[k - 1]] = t
        BY <2>1, <4>1, ChainFacts, AtFacts
      <4>4. ASSUME NEW p \in ToSet(s), list.next[p] = t
            PROVE  p = s[k - 1]
        <5>1. PICK j \in 1 .. Len(s) : s[j] = p
          BY OrderSet
        <5>2. At(s, j + 1) = s[k] /\ s[k] # NULL
          BY <2>1, <4>4, <5>1, ChainFacts, AtFacts
        <5>3. j + 1 \in 1 .. Len(s) /\ s[j + 1] = s[k]
          BY <5>2, AtFacts
        <5>4. j + 1 = k
          BY <5>3, PlaceUnique, ChainFacts
        <5> QED  BY <5>1, <5>4
      <4>5. (CHOOSE p \in ToSet(s) : list.next[p] = t) = s[k - 1]
        BY <4>3, <4>4
      <4>6. At(s, k - 1) = s[k - 1]
        BY <4>1, AtFacts
      <4> QED  BY <1>1, <1>3, <2>1, <4>2, <4>5, <4>6 DEF Removed
    <3> QED  BY <3>1, <3>2
  <2> QED  BY <2>1, <2>2, UnlinkedChain
<1> QED  BY <1>2, <1>3

\* list_add as a whole.
LEMMA AddedChain ==
  ASSUME NEW list \in List, NEW s \in Order, Chain(list, s), NEW t \in Timer
  PROVE  /\ Added(list, t) \in List
         /\ \E q \in Order : Chain(Added(list, t), q) /\ ToSet(q) = ToSet(s) \cup {t}
<1> DEFINE rest == SetNext(Removed(list, t), t, NULL)
<1>1. PICK q \in Order : Chain(Removed(list, t), q) /\ ToSet(q) = ToSet(s) \ {t}
  BY RemovedChain
<1>2. Removed(list, t) \in List /\ t \in Timer \ ToSet(q) /\ NULL \in Timer \cup {NULL}
  BY <1>1, RemovedChain
<1>3. rest \in List /\ Chain(rest, q) /\ rest.next[t] = NULL
  BY <1>1, <1>2, OffChain
<1>4. Added(list, t) = IF rest.head = NULL THEN SetNext(rest, NULL, t)
                       ELSE SetNext(rest, CHOOSE p \in Listed(rest) : rest.next[p] = NULL, t)
  BY DEF Added
<1> HIDE DEF rest
<1>5. rest.head = At(q, 1) /\ Listed(rest) = ToSet(q) /\ IsInjective(q)
  BY <1>3, ChainFacts, ChainListed
<1>6. Added(list, t) = SetNext(rest, At(q, Len(q)), t)
  <2>1. CASE Len(q) = 0
    BY <1>4, <1>5, <2>1, AtFacts
  <2>2. CASE Len(q) # 0
    <3>1. Len(q) \in 1 .. Len(q) /\ 1 \in 1 .. Len(q) /\ Len(q) + 1 \notin 1 .. Len(q)
      BY <2>2, AtFacts
    <3>2. rest.head # NULL /\ At(q, Len(q)) = q[Len(q)] /\ q[Len(q)] \in ToSet(q)
      BY <1>5, <3>1, AtFacts
    <3>3. rest.next[q[Len(q)]] = NULL
      BY <1>3, <3>1, ChainFacts, AtFacts
    <3>4. ASSUME NEW p \in ToSet(q), rest.next[p] = NULL
          PROVE  p = q[Len(q)]
      <4>1. PICK j \in 1 .. Len(q) : q[j] = p
        BY OrderSet
      <4>2. At(q, j + 1) = NULL
        BY <1>3, <3>4, <4>1, ChainFacts
      <4>3. j + 1 \notin 1 .. Len(q)
        BY <4>2, AtFacts
      <4>4. j = Len(q)
        BY <3>1, <4>3, AtFacts
      <4> QED  BY <4>1, <4>4
    <3>5. (CHOOSE p \in ToSet(q) : rest.next[p] = NULL) = q[Len(q)]
      BY <3>2, <3>3, <3>4
    <3> QED  BY <1>4, <1>5, <3>2, <3>5
  <2> QED  BY <2>1, <2>2
<1>7. /\ Append(q, t) \in Order /\ ToSet(Append(q, t)) = ToSet(q) \cup {t}
      /\ Added(list, t) \in List /\ Chain(Added(list, t), Append(q, t))
  BY <1>2, <1>3, <1>6, LinkedChain
<1>8. ToSet(Append(q, t)) = ToSet(s) \cup {t}
  BY <1>1, <1>7
<1> QED  BY <1>7, <1>8

\* The end of add_timer as a whole.
LEMMA PushedWhole ==
  ASSUME NEW list \in List, NEW s \in Order, Chain(list, s), NEW t \in Timer \ ToSet(s)
  PROVE  /\ Pushed(list, t) \in List
         /\ \E q \in Order : Chain(Pushed(list, t), q) /\ ToSet(q) = ToSet(s) \cup {t}
<1>1. list.head \in Timer \cup {NULL}
  BY DEF List
<1>2. PICK mid \in List : mid = SetNext(list, t, list.head)
  BY <1>1, OffChain
<1>3. Chain(mid, s) /\ mid.next[t] = list.head /\ mid.head = list.head
  BY <1>1, <1>2, OffChain
<1>4. Pushed(list, t) = SetNext(mid, NULL, t)
  BY <1>2 DEF Pushed
<1>5. /\ Pushed(list, t) \in List /\ <<t>> \o s \in Order
      /\ Chain(Pushed(list, t), <<t>> \o s) /\ ToSet(<<t>> \o s) = ToSet(s) \cup {t}
  BY <1>3, <1>4, PushedChain
<1> QED  BY <1>5

----------------------------------------------------------------------------
(***************************************************************************)
(* The event queue                                                         *)
(***************************************************************************)

\* The places of the queue.
Place(f, i) == (f + i) % NumEvents

\* As far as the queue can reach, no place comes twice.
LEMMA PlaceFacts ==
  ASSUME NEW f \in 0 .. NumEvents - 1, NEW i \in 0 .. NumEvents
  PROVE  /\ Place(f, i) = IF f + i < NumEvents THEN f + i ELSE f + i - NumEvents
         /\ Place(f, i) \in 0 .. NumEvents - 1
<1>1. NumEvents \in Nat \ {0} /\ f + i \in Int
  BY NullFacts
<1>2. CASE f + i < NumEvents
  <2>1. f + i \in 0 .. NumEvents - 1
    BY <1>1, <1>2
  <2> QED  BY <1>1, <1>2, <2>1, ModSmall DEF Place
<1>3. CASE ~ (f + i < NumEvents)
  <2>1. f + i - NumEvents \in 0 .. NumEvents - 1 /\ f + i = NumEvents * 1 + (f + i - NumEvents)
    BY <1>1, <1>3
  <2>2. (f + i) % NumEvents = f + i - NumEvents
    BY <1>1, <2>1, ModUnique
  <2> QED  BY <1>3, <2>1, <2>2 DEF Place
<1> QED  BY <1>2, <1>3

\* Where the next event goes no event is queued, and it is then the last one.
LEMMA PostFacts ==
  ASSUME TimersTyped, nevents < NumEvents
  PROVE  /\ snum \in 0 .. NumEvents - 1
         /\ \A i \in 0 .. nevents - 1 : Place(fevent, i) \in 0 .. NumEvents - 1 /\ Place(fevent, i) # snum
         /\ QueuedUpTo(nevents + 1) = QueuedUpTo(nevents) \cup {events[snum]}
<1>1. /\ NumEvents \in Nat \ {0} /\ fevent \in 0 .. NumEvents - 1 /\ nevents \in 0 .. NumEvents - 1
  BY NullFacts DEF TimersTyped
<1>2. snum = Place(fevent, nevents)
  BY DEF snum, Place
<1>3. snum \in 0 .. NumEvents - 1
  BY <1>1, <1>2, PlaceFacts
<1>4. ASSUME NEW i \in 0 .. nevents - 1
      PROVE  Place(fevent, i) \in 0 .. NumEvents - 1 /\ Place(fevent, i) # snum
  <2>1. i \in 0 .. NumEvents /\ nevents \in 0 .. NumEvents /\ i < nevents
    BY <1>1
  <2>2. /\ Place(fevent, i) = IF fevent + i < NumEvents THEN fevent + i ELSE fevent + i - NumEvents
        /\ snum = IF fevent + nevents < NumEvents THEN fevent + nevents ELSE fevent + nevents - NumEvents
    BY <1>1, <1>2, <2>1, PlaceFacts
  <2> QED  BY <1>1, <2>1, <2>2, PlaceFacts
<1>5. QueuedUpTo(nevents + 1) = QueuedUpTo(nevents) \cup {events[snum]}
  <2>1. 0 .. (nevents + 1) - 1 = (0 .. nevents - 1) \cup {nevents}
    BY <1>1
  <2> QED  BY <2>1 DEF QueuedUpTo, snum
<1> QED  BY <1>3, <1>4, <1>5

\* The first event and those after it.
LEMMA TakeFacts ==
  ASSUME TimersTyped, nevents > 0, fevent' = (fevent + 1) % NumEvents, events' = events,
         nevents' = nevents
  PROVE  /\ fevent' \in 0 .. NumEvents - 1
         /\ Queued \subseteq {events[fevent]} \cup QueuedUpTo(nevents - 1)'
<1>1. /\ NumEvents \in Nat \ {0} /\ fevent \in 0 .. NumEvents - 1 /\ nevents \in 1 .. NumEvents
  BY NullFacts DEF TimersTyped
<1>2. fevent' = Place(fevent, 1) /\ fevent' \in 0 .. NumEvents - 1
      /\ fevent' = IF fevent + 1 < NumEvents THEN fevent + 1 ELSE fevent + 1 - NumEvents
  <2>1. 1 \in 0 .. NumEvents
    BY <1>1
  <2> QED  BY <1>1, <2>1, PlaceFacts DEF Place
<1>3. ASSUME NEW i \in 0 .. nevents - 1
      PROVE  events[Place(fevent, i)] \in {events[fevent]} \cup QueuedUpTo(nevents - 1)'
  <2>1. i \in 0 .. NumEvents
    BY <1>1
  <2>2. CASE i = 0
    <3>1. Place(fevent, i) = fevent
      BY <1>1, <2>1, <2>2, PlaceFacts
    <3> QED  BY <3>1
  <2>3. CASE i # 0
    <3>1. i - 1 \in 0 .. NumEvents /\ i - 1 \in 0 .. (nevents - 1) - 1
      BY <1>1, <2>3
    <3>2. Place(fevent', i - 1) = Place(fevent, i)
      <4>1. PICK f \in 0 .. NumEvents - 1 : f = fevent'
        BY <1>2
      <4>2. /\ Place(f, i - 1) = IF f + (i - 1) < NumEvents THEN f + (i - 1) ELSE f + (i - 1) - NumEvents
            /\ Place(fevent, i) = IF fevent + i < NumEvents THEN fevent + i ELSE fevent + i - NumEvents
        BY <1>1, <2>1, <3>1, PlaceFacts
      <4>3. Place(f, i - 1) = Place(fevent, i)
        BY <1>1, <1>2, <2>1, <2>3, <4>1, <4>2
      <4> QED  BY <4>1, <4>3
    <3>3. QueuedUpTo(nevents - 1)' = {events[Place(fevent', j)] : j \in 0 .. (nevents - 1) - 1}
      BY DEF QueuedUpTo, Place
    <3> QED  BY <3>1, <3>2, <3>3
  <2> QED  BY <2>2, <2>3
<1>4. Queued = {events[Place(fevent, i)] : i \in 0 .. nevents - 1}
  BY DEF Queued, Place
<1> QED  BY <1>2, <1>3, <1>4

----------------------------------------------------------------------------
(***************************************************************************)
(* Walks                                                                   *)
(***************************************************************************)

\* The first place.
LEMMA FirstPlace ==
  ASSUME NEW list \in List, NEW s \in Order, Chain(list, s)
  PROVE  /\ Len(s) \in Nat /\ 1 \in 1 .. Len(s) + 1 /\ list.head = At(s, 1) /\ At(s, 1 - 1) = NULL
         /\ list.head \in Timer \cup {NULL}
         /\ \A j \in 1 .. 1 - 1 : FALSE
BY AtFacts, ChainFacts

\* From a timer to the next place.
LEMMA NextPlace ==
  ASSUME NEW list \in List, NEW s \in Order, Chain(list, s), NEW k \in 1 .. Len(s) + 1,
         At(s, k) # NULL
  PROVE  /\ k \in 1 .. Len(s) /\ At(s, k) = s[k] /\ s[k] \in Timer
         /\ k + 1 \in 1 .. Len(s) + 1 /\ (k + 1) - 1 = k
         /\ list.next[s[k]] = At(s, k + 1) /\ At(s, k + 1) \in Timer \cup {NULL}
<1>1. k \in 1 .. Len(s) /\ Len(s) \in Nat
  BY AtFacts
<1>2. k + 1 \in 1 .. Len(s) + 1 /\ (k + 1) - 1 = k
  BY <1>1
<1> QED  BY <1>1, <1>2, AtFacts, ChainFacts

\* Behind the last timer.
LEMMA LastPlace ==
  ASSUME NEW s \in Order, NEW k \in 1 .. Len(s) + 1, At(s, k) = NULL
  PROVE  k = Len(s) + 1 /\ 1 .. k - 1 = 1 .. Len(s)
<1>1. k \notin 1 .. Len(s) /\ Len(s) \in Nat
  BY AtFacts
<1> QED  BY <1>1

\* A walk through ctimer_list begins.
LEMMA RemoveStarts ==
  ASSUME NEW c \in Order, Chain(ctimer_list, c), ctimer_list \in List, WalkRemove
  PROVE  /\ pc' = "remove" /\ WalkedBehind(c, item)'
         /\ l' \in Timer \cup {NULL} /\ r' \in Timer \cup {NULL}
BY FirstPlace DEF WalkRemove, WalkedBehind

----------------------------------------------------------------------------
(***************************************************************************)
(* The steps of ctimer_set and ctimer_stop                                 *)
(***************************************************************************)

\* timer_set leaves the lists alone and promises the call.
LEMMA SetStep ==
  ASSUME NEW s \in Order, NEW c \in Order, Holds(s, c), NEW t \in Timer, Set(t)
  PROVE  Holds(s, c)'
<1> USE DEF Holds, Set, queueVars
<1>1. ToSet(s) \subseteq Timer /\ Len(s) \in Nat
  BY OrderSet, AtFacts
<1>2. TimersTyped' /\ OpInv'
  BY NullFacts DEF TimersTyped, OpInv, List
<1>3. EventsInv'
  BY DEF EventsInv, Queued, TimerlistInv
<1>4. TimerlistInv(s)'
  <2>1. Chain(timerlist, s) /\ timerlist' = timerlist
    BY DEF TimerlistInv
  <2>2. pc' = "search" => l' = At(s, 1) /\ 1 \in 1 .. Len(s) + 1
    BY <1>1, <2>1, ChainFacts DEF TimersTyped
  <2> QED  BY <2>1, <2>2 DEF TimerlistInv, Walked
<1>5. CtimerListInv(c)'
  BY DEF CtimerListInv
<1> QED  BY <1>2, <1>3, <1>4, <1>5

\* The search of add_timer does not run past the timer: it is in the list.
LEMMA SearchStep ==
  ASSUME NEW s \in Order, NEW c \in Order, Holds(s, c), Search
  PROVE  Holds(s, c)'
<1> USE DEF Holds, queueVars
<1>1. /\ timerlist \in List /\ ctimer_list \in List /\ Chain(timerlist, s) /\ Chain(ctimer_list, c)
      /\ pc = "search" /\ op = "set" /\ item \in Timer /\ item \in ToSet(s) /\ pending = ToSet(s)
  BY DEF Search, TimersTyped, OpInv, TimerlistInv, CtimerListInv
<1>2. PICK k \in 1 .. Len(s) + 1 : l = At(s, k) /\ \A j \in 1 .. k - 1 : s[j] # item
  BY <1>1 DEF TimerlistInv, Walked
<1>3. l # NULL
  <2>1. l = NULL => \A j \in 1 .. Len(s) : s[j] # item
    BY <1>2, LastPlace
  <2> QED  BY <1>1, <2>1, OrderSet
<1>4. CASE l = item /\ WalkRemove
  <2>1. /\ pc' = "remove" /\ WalkedBehind(c, item)'
        /\ l' \in Timer \cup {NULL} /\ r' \in Timer \cup {NULL}
    BY <1>1, <1>4, RemoveStarts
  <2>2. /\ UNCHANGED <<ctimer_list, timerlist, pending, expired, queueVars, joined, op, item, owed>>
    BY DEF Search
  <2>3. TimersTyped' /\ OpInv'
    BY <1>1, <2>1, <2>2 DEF TimersTyped, OpInv
  <2>4. EventsInv'
    BY <1>1, <2>1, <2>2 DEF EventsInv, Queued
  <2>5. TimerlistInv(s)'
    BY <1>1, <2>1, <2>2 DEF TimerlistInv
  <2>6. CtimerListInv(c)'
    BY <1>1, <2>1, <2>2 DEF CtimerListInv
  <2> QED  BY <2>3, <2>4, <2>5, <2>6
<1>5. CASE l # item /\ l' = timerlist.next[l] /\ UNCHANGED <<pc, r>>
  <2>1. UNCHANGED <<ctimer_list, timerlist, pending, expired, queueVars, joined, op, item, owed, pc, r>>
    BY <1>5 DEF Search
  <2>2. /\ k \in 1 .. Len(s) /\ l = s[k] /\ k + 1 \in 1 .. Len(s) + 1
        /\ l' = At(s, k + 1) /\ l' \in Timer \cup {NULL}
    BY <1>1, <1>2, <1>3, <1>5, NextPlace
  <2>3. \A j \in 1 .. (k + 1) - 1 : s[j] # item
    <3>1. \A j \in 1 .. (k + 1) - 1 : j = k \/ j \in 1 .. k - 1
      OBVIOUS
    <3> QED  BY <1>2, <1>5, <2>2, <3>1
  <2>4. TimersTyped' /\ OpInv'
    BY <1>1, <2>1, <2>2 DEF TimersTyped, OpInv
  <2>5. EventsInv'
    BY <1>1, <2>1, <2>2 DEF EventsInv, Queued
  <2>6. TimerlistInv(s)'
    BY <1>1, <2>1, <2>2, <2>3 DEF TimerlistInv, Walked
  <2>7. CtimerListInv(c)'
    BY <1>1, <2>1 DEF CtimerListInv
  <2> QED  BY <2>4, <2>5, <2>6, <2>7
<1> QED  BY <1>3, <1>4, <1>5 DEF Search

\* The timer, which is in no list, points to the head,
LEMMA PushStep ==
  ASSUME NEW s \in Order, NEW c \in Order, Holds(s, c), Push
  PROVE  Holds(s, c)'
<1> USE DEF Holds, queueVars
<1>1. /\ timerlist \in List /\ Chain(timerlist, s) /\ Chain(ctimer_list, c)
      /\ pc = "push" /\ op = "set" /\ item \in Timer \ ToSet(s) /\ pending = ToSet(s)
  BY DEF Push, TimersTyped, OpInv, TimerlistInv, CtimerListInv
<1>2. timerlist.head \in Timer \cup {NULL} /\ timerlist' = SetNext(timerlist, item, timerlist.head)
  BY <1>1 DEF List, Push
<1>3. /\ timerlist' \in List /\ Chain(timerlist', s)
      /\ timerlist'.next[item] = timerlist'.head
  BY <1>1, <1>2, OffChain
<1>4. /\ pc' = "pushed" /\ pending' = pending \cup {item}
      /\ UNCHANGED <<ctimer_list, expired, queueVars, joined, op, item, l, r, owed>>
  BY DEF Push
<1>5. TimersTyped' /\ OpInv'
  BY <1>1, <1>3, <1>4 DEF TimersTyped, OpInv
<1>6. EventsInv'
  BY <1>1, <1>4 DEF EventsInv, Queued
<1>7. TimerlistInv(s)'
  BY <1>1, <1>3, <1>4 DEF TimerlistInv
<1>8. CtimerListInv(c)'
  BY <1>1, <1>4 DEF CtimerListInv
<1> QED  BY <1>5, <1>6, <1>7, <1>8

\* and becomes the head.
LEMMA FinishPushStep ==
  ASSUME NEW s \in Order, NEW c \in Order, Holds(s, c), FinishPush
  PROVE  \E q \in Order : Holds(q, c)'
<1> USE DEF Holds, queueVars
<1>1. /\ timerlist \in List /\ Chain(timerlist, s) /\ Chain(ctimer_list, c) /\ ctimer_list \in List
      /\ pc = "pushed" /\ op = "set" /\ item \in Timer \ ToSet(s) /\ pending = ToSet(s) \cup {item}
      /\ timerlist.next[item] = timerlist.head
  BY DEF FinishPush, TimersTyped, OpInv, TimerlistInv, CtimerListInv
<1>2. PICK q \in Order : q = <<item>> \o s
  BY <1>1, PushedChain
<1>3. timerlist' \in List /\ Chain(timerlist', q) /\ ToSet(q) = ToSet(s) \cup {item}
  BY <1>1, <1>2, PushedChain DEF FinishPush
<1>4. /\ pc' = "remove" /\ WalkedBehind(c, item)'
      /\ l' \in Timer \cup {NULL} /\ r' \in Timer \cup {NULL}
  BY <1>1, RemoveStarts DEF FinishPush
<1>5. UNCHANGED <<ctimer_list, pending, expired, queueVars, joined, op, item, owed>>
  BY DEF FinishPush
<1>6. TimersTyped' /\ OpInv'
  BY <1>1, <1>3, <1>4, <1>5 DEF TimersTyped, OpInv
<1>7. EventsInv'
  BY <1>1, <1>4, <1>5 DEF EventsInv, Queued
<1>8. TimerlistInv(q)'
  BY <1>1, <1>3, <1>4, <1>5 DEF TimerlistInv
<1>9. CtimerListInv(c)'
  BY <1>1, <1>4, <1>5 DEF CtimerListInv
<1> QED  BY <1>6, <1>7, <1>8, <1>9

\* list_remove goes on to the next timer, takes the timer out behind the one
\* before it, or has seen that it is not there.
LEMMA ListRemoveStep ==
  ASSUME NEW s \in Order, NEW c \in Order, Holds(s, c), ListRemove
  PROVE  \E q \in Order : Holds(s, q)'
<1> USE DEF Holds, queueVars
<1>1. /\ ctimer_list \in List /\ Chain(timerlist, s) /\ Chain(ctimer_list, c)
      /\ pc = "remove" /\ op \in {"set", "stop", "call"} /\ item \in Timer
      /\ UNCHANGED <<timerlist, pending, expired, queueVars, joined, op, item, owed>>
  BY DEF ListRemove, TimersTyped, OpInv, TimerlistInv, CtimerListInv
<1>2. PICK k \in 1 .. Len(c) + 1 :
        l = At(c, k) /\ r = At(c, k - 1) /\ \A j \in 1 .. k - 1 : c[j] # item
  BY <1>1 DEF CtimerListInv, WalkedBehind
<1>3. CASE l \notin {NULL, item}
  <2>1. r' = l /\ l' = ctimer_list.next[l] /\ UNCHANGED <<ctimer_list, pc>>
    BY <1>3 DEF ListRemove
  <2>2. /\ k \in 1 .. Len(c) /\ l = c[k] /\ k + 1 \in 1 .. Len(c) + 1 /\ (k + 1) - 1 = k
        /\ l' = At(c, k + 1) /\ l' \in Timer \cup {NULL} /\ r' = At(c, k) /\ r' \in Timer
    BY <1>1, <1>2, <1>3, <2>1, NextPlace
  <2>3. \A j \in 1 .. (k + 1) - 1 : c[j] # item
    <3>1. \A j \in 1 .. (k + 1) - 1 : j = k \/ j \in 1 .. k - 1
      OBVIOUS
    <3> QED  BY <1>2, <1>3, <2>2, <3>1
  <2>4. TimersTyped' /\ OpInv'
    BY <1>1, <2>1, <2>2 DEF TimersTyped, OpInv
  <2>5. EventsInv'
    BY <1>1, <2>1 DEF EventsInv, Queued
  <2>6. TimerlistInv(s)'
    BY <1>1, <2>1 DEF TimerlistInv
  <2>7. WalkedBehind(c, item)'
    BY <1>1, <2>2, <2>3 DEF WalkedBehind
  <2>8. CtimerListInv(c)'
    BY <1>1, <2>1, <2>7 DEF CtimerListInv
  <2> QED  BY <2>4, <2>5, <2>6, <2>8
<1>4. CASE l \in {NULL, item}
  <2>1. /\ pc' = CASE op = "set" -> "append" [] op = "stop" -> "idle" [] op = "call" -> "callback"
        /\ ctimer_list' = IF l = item THEN Unlinked(ctimer_list, r, item) ELSE ctimer_list
        /\ UNCHANGED <<l, r>>
    BY <1>4 DEF ListRemove
  <2>2. PICK q \in Order : ctimer_list' \in List /\ Chain(ctimer_list', q) /\ ToSet(q) = ToSet(c) \ {item}
    <3>1. CASE l = item
      <4>0. At(c, k) # NULL
        BY <1>1, <1>2, <3>1, NullFacts
      <4>1. k \in 1 .. Len(c) /\ c[k] = item
        BY <1>1, <1>2, <3>1, <4>0, NextPlace
      <4>2. ctimer_list' = Unlinked(ctimer_list, At(c, k - 1), c[k])
        BY <1>2, <2>1, <3>1, <4>1
      <4> QED  BY <1>1, <4>1, <4>2, UnlinkedChain
    <3>2. CASE l = NULL
      <4>1. \A j \in 1 .. Len(c) : c[j] # item
        BY <1>2, <3>2, LastPlace
      <4>2. ToSet(c) \ {item} = ToSet(c)
        BY <4>1, OrderSet
      <4> QED  BY <1>1, <2>1, <3>2, <4>2, NullFacts
    <3> QED  BY <1>4, <3>1, <3>2
  <2>3. \/ op = "set" /\ pc' = "append"
        \/ op = "stop" /\ pc' = "idle"
        \/ op = "call" /\ pc' = "callback"
    <3>1. CASE op = "set"
      BY <2>1, <3>1, Zenon
    <3>2. CASE op = "stop"
      BY <2>1, <3>2, Zenon
    <3>3. CASE op = "call"
      BY <2>1, <3>3, Zenon
    <3> QED  BY <1>1, <3>1, <3>2, <3>3
  <2>4. TimersTyped' /\ OpInv'
    BY <1>1, <2>1, <2>2, <2>3 DEF TimersTyped, OpInv
  <2>5. EventsInv'
    BY <1>1, <2>3 DEF EventsInv, Queued
  <2>6. TimerlistInv(s)'
    BY <1>1, <2>3 DEF TimerlistInv
  <2>7. CtimerListInv(q)'
    BY <1>1, <2>2, <2>3 DEF CtimerListInv
  <2> QED  BY <2>4, <2>5, <2>6, <2>7
<1> QED  BY <1>3, <1>4

\* list_add ends the list at the timer it is going to add,
LEMMA ListAppendStep ==
  ASSUME NEW s \in Order, NEW c \in Order, Holds(s, c), ListAppend
  PROVE  Holds(s, c)'
<1> USE DEF Holds, queueVars
<1>1. /\ ctimer_list \in List /\ Chain(timerlist, s) /\ Chain(ctimer_list, c)
      /\ pc = "append" /\ op = "set" /\ item \in Timer /\ item \in owed /\ ToSet(c) = owed \ {item}
      /\ UNCHANGED <<timerlist, pending, expired, queueVars, joined, op, item, r, owed>>
  BY DEF ListAppend, TimersTyped, OpInv, TimerlistInv, CtimerListInv
<1>2. /\ ctimer_list' \in List /\ Chain(ctimer_list', c) /\ ctimer_list'.next[item] = NULL
  <2>1. item \in Timer \ ToSet(c) /\ NULL \in Timer \cup {NULL}
    BY <1>1
  <2> QED  BY <1>1, <2>1, OffChain DEF ListAppend
<1>3. /\ l' = At(c, 1) /\ l' \in Timer \cup {NULL}
      /\ pc' = IF l' = NULL THEN "link" ELSE "tail"
  BY <1>1, FirstPlace DEF ListAppend
<1>4. /\ l' # NULL => 1 \in 1 .. Len(c) /\ l' = c[1]
      /\ l' = NULL => l' = At(c, Len(c))
  <2>1. 1 \in 1 .. Len(c) + 1
    BY <1>1, FirstPlace
  <2>2. CASE l' # NULL
    BY <1>1, <1>3, <2>1, <2>2, NextPlace
  <2>3. CASE l' = NULL
    <3>1. Len(c) = 0
      BY <1>3, <2>1, <2>3, LastPlace, AtFacts
    <3> QED  BY <2>3, <3>1 DEF At
  <2> QED  BY <2>2, <2>3
<1>5. TimersTyped' /\ OpInv'
  BY <1>1, <1>2, <1>3 DEF TimersTyped, OpInv
<1>6. EventsInv'
  BY <1>1, <1>3 DEF EventsInv, Queued
<1>7. TimerlistInv(s)'
  BY <1>1, <1>3 DEF TimerlistInv
<1>8. CtimerListInv(c)'
  BY <1>1, <1>2, <1>3, <1>4 DEF CtimerListInv
<1> QED  BY <1>5, <1>6, <1>7, <1>8

\* walks to the tail,
LEMMA ListTailStep ==
  ASSUME NEW s \in Order, NEW c \in Order, Holds(s, c), ListTail
  PROVE  Holds(s, c)'
<1> USE DEF Holds, queueVars
<1>1. /\ ctimer_list \in List /\ Chain(timerlist, s) /\ Chain(ctimer_list, c)
      /\ pc = "tail" /\ op = "set" /\ item \in Timer
      /\ UNCHANGED <<ctimer_list, timerlist, pending, expired, queueVars, joined, op, item, r, owed>>
  BY DEF ListTail, TimersTyped, OpInv, TimerlistInv, CtimerListInv
<1>2. PICK k \in 1 .. Len(c) : l = c[k]
  BY <1>1 DEF CtimerListInv
<1>3. /\ ctimer_list.next[l] = At(c, k + 1) /\ k + 1 \in 1 .. Len(c) + 1 /\ Len(c) \in Nat
      /\ At(c, k) = c[k] /\ At(c, k + 1) \in Timer \cup {NULL}
  BY <1>1, <1>2, AtFacts, ChainFacts
<1>4. \/ pc' = "link" /\ UNCHANGED l /\ l = At(c, Len(c))
      \/ pc' = "tail" /\ l' \in Timer /\ \E j \in 1 .. Len(c) : l' = c[j]
  <2>1. CASE ctimer_list.next[l] = NULL
    <3>1. k + 1 = Len(c) + 1
      BY <1>3, <2>1, LastPlace
    <3>2. k = Len(c)
      BY <1>3, <3>1
    <3> QED  BY <1>1, <1>2, <1>3, <2>1, <3>2 DEF ListTail
  <2>2. CASE ctimer_list.next[l] # NULL
    <3>1. k + 1 \in 1 .. Len(c) /\ At(c, k + 1) = c[k + 1] /\ c[k + 1] \in Timer
      BY <1>1, <1>3, <2>2, NextPlace
    <3> QED  BY <1>1, <1>3, <2>2, <3>1 DEF ListTail
  <2> QED  BY <2>1, <2>2
<1>5. TimersTyped' /\ OpInv'
  BY <1>1, <1>4 DEF TimersTyped, OpInv
<1>6. EventsInv'
  BY <1>1, <1>4 DEF EventsInv, Queued
<1>7. TimerlistInv(s)'
  BY <1>1, <1>4 DEF TimerlistInv
<1>8. CtimerListInv(c)'
  BY <1>1, <1>4 DEF CtimerListInv
<1> QED  BY <1>5, <1>6, <1>7, <1>8

\* and links the timer to it: the call that was promised is in the list.
LEMMA LinkStep ==
  ASSUME NEW s \in Order, NEW c \in Order, Holds(s, c), Link
  PROVE  \E q \in Order : Holds(s, q)'
<1> USE DEF Holds, queueVars
<1>1. /\ ctimer_list \in List /\ Chain(timerlist, s) /\ Chain(ctimer_list, c)
      /\ pc = "link" /\ op = "set" /\ item \in Timer /\ item \in owed /\ ToSet(c) = owed \ {item}
      /\ l = At(c, Len(c)) /\ ctimer_list.next[item] = NULL
      /\ pc' = "idle" /\ ctimer_list' = SetNext(ctimer_list, l, item)
      /\ UNCHANGED <<timerlist, pending, expired, queueVars, joined, op, item, l, r, owed>>
  BY DEF Link, TimersTyped, OpInv, TimerlistInv, CtimerListInv
<1>2. PICK q \in Order : q = Append(c, item)
  BY <1>1, LinkedChain
<1>3. ctimer_list' \in List /\ Chain(ctimer_list', q) /\ ToSet(q) = owed
  <2>1. item \in Timer \ ToSet(c) /\ ToSet(c) \cup {item} = owed
    BY <1>1
  <2>2. ctimer_list' = SetNext(ctimer_list, At(c, Len(c)), item)
    BY <1>1
  <2>3. /\ SetNext(ctimer_list, At(c, Len(c)), item) \in List
        /\ ToSet(Append(c, item)) = ToSet(c) \cup {item}
        /\ Chain(SetNext(ctimer_list, At(c, Len(c)), item), Append(c, item))
    BY <1>1, <2>1, LinkedChain
  <2> QED  BY <1>2, <2>1, <2>2, <2>3, Zenon
<1>4. TimersTyped' /\ OpInv'
  BY <1>1, <1>3 DEF TimersTyped, OpInv
<1>5. EventsInv'
  BY <1>1 DEF EventsInv, Queued
<1>6. TimerlistInv(s)'
  BY <1>1 DEF TimerlistInv
<1>7. CtimerListInv(q)'
  BY <1>1, <1>3 DEF CtimerListInv
<1> QED  BY <1>4, <1>5, <1>6, <1>7

\* The head is replaced by the timer after it.
LEMMA HeadTaken ==
  ASSUME NEW list \in List, NEW s \in Order, Chain(list, s), 1 \in 1 .. Len(s)
  PROVE  /\ SetNext(list, NULL, list.next[s[1]]) \in List
         /\ \E q \in Order : /\ Chain(SetNext(list, NULL, list.next[s[1]]), q)
                             /\ ToSet(q) = ToSet(s) \ {s[1]}
<1> DEFINE t == s[1]
           mid == SetNext(list, NULL, list.next[t])
           new == Unlinked(list, NULL, t)
<1>1. t \in Timer /\ list.next[t] \in Timer \cup {NULL} /\ At(s, 1 - 1) = NULL
  BY AtFacts, ChainFacts
<1>2. mid \in List
  BY <1>1, SetHeadFacts
<1>3. PICK q \in Order : new \in List /\ Chain(new, q) /\ ToSet(q) = ToSet(s) \ {t}
  BY <1>1, UnlinkedChain
<1>4. new = SetNext(mid, t, NULL)
  BY DEF Unlinked
<1>5. mid.head = new.head /\ \A u \in Timer \ {t} : mid.next[u] = new.next[u]
  <2> HIDE DEF mid, new, t
  <2>1. NULL \in Timer \cup {NULL}
    OBVIOUS
  <2> QED  BY <1>1, <1>2, <1>4, <2>1, SetLinkFacts
<1>6. Chain(mid, q)
  <2>1. \A u \in ToSet(q) : u \in Timer \ {t}
    BY <1>3, OrderSet
  <2> HIDE DEF mid, new, t
  <2> QED  BY <1>2, <1>3, <1>5, <2>1, ChainKept
<1> QED  BY <1>2, <1>3, <1>6

\* etimer_stop looks at the head; if it is the timer, it is taken out.
LEMMA StopStep ==
  ASSUME NEW s \in Order, NEW c \in Order, Holds(s, c), NEW t \in Timer, Stop(t)
  PROVE  \E q \in Order : Holds(q, c)'
<1> USE DEF Holds, queueVars
<1>1. /\ timerlist \in List /\ Chain(timerlist, s) /\ Chain(ctimer_list, c)
      /\ pc = "idle" /\ pending = ToSet(s) /\ ToSet(c) = owed
      /\ op' = "stop" /\ item' = t /\ owed' = owed \ {t} /\ pc' = "seek"
      /\ UNCHANGED <<ctimer_list, pending, expired, queueVars, joined, r>>
  BY DEF Stop, TimersTyped, TimerlistInv, CtimerListInv
<1>2. \E q \in Order : /\ timerlist' \in List /\ Chain(timerlist', q) /\ ToSet(q) \ {t} = ToSet(s) \ {t}
                       /\ l' \in Timer \cup {NULL}
                       /\ \/ l' = NULL /\ t \notin ToSet(q)
                          \/ \E k \in 1 .. Len(q) : l' = q[k] /\ \A j \in 1 .. k : q[j] # t
  <2>1. CASE timerlist.head = t
    <3>1. 1 \in 1 .. Len(s) /\ s[1] = t
      BY <1>1, <2>1, FirstPlace, NextPlace, NullFacts
    <3>2. l' = NULL /\ timerlist' = SetNext(timerlist, NULL, timerlist.next[s[1]])
      BY <2>1, <3>1 DEF Stop
    <3>3. PICK q \in Order : timerlist' \in List /\ Chain(timerlist', q) /\ ToSet(q) = ToSet(s) \ {t}
      BY <1>1, <3>1, <3>2, HeadTaken
    <3>4. ToSet(q) \ {t} = ToSet(s) \ {t} /\ t \notin ToSet(q)
      BY <3>3
    <3> QED  BY <3>2, <3>3, <3>4
  <2>2. CASE timerlist.head # t
    <3>1. l' = timerlist.head /\ timerlist' = timerlist
      BY <2>2 DEF Stop
    <3>2. l' = At(s, 1) /\ 1 \in 1 .. Len(s) + 1 /\ l' \in Timer \cup {NULL}
      BY <1>1, <3>1, FirstPlace
    <3>3. CASE l' = NULL
      <4>1. 1 .. Len(s) = 1 .. 1 - 1
        BY <3>2, <3>3, LastPlace
      <4>2. t \notin ToSet(s)
        BY <4>1, OrderSet
      <4> QED  BY <1>1, <3>1, <3>2, <3>3, <4>2
    <3>4. CASE l' # NULL
      <4>1. 1 \in 1 .. Len(s) /\ l' = s[1]
        BY <1>1, <3>2, <3>4, NextPlace
      <4>2. \A j \in 1 .. 1 : s[j] # t
        BY <2>2, <3>1, <4>1
      <4> QED  BY <1>1, <3>1, <3>2, <4>1, <4>2
    <3> QED  BY <3>3, <3>4
  <2> QED  BY <2>1, <2>2
<1>3. PICK q \in Order : /\ timerlist' \in List /\ Chain(timerlist', q) /\ ToSet(q) \ {t} = ToSet(s) \ {t}
                         /\ l' \in Timer \cup {NULL}
                         /\ \/ l' = NULL /\ t \notin ToSet(q)
                            \/ \E k \in 1 .. Len(q) : l' = q[k] /\ \A j \in 1 .. k : q[j] # t
  BY <1>2
<1>4. TimersTyped' /\ OpInv'
  BY <1>1, <1>3 DEF TimersTyped, OpInv
<1>5. EventsInv'
  BY <1>1 DEF EventsInv, Queued
<1>6. TimerlistInv(q)'
  BY <1>1, <1>3 DEF TimerlistInv
<1>7. CtimerListInv(c)'
  BY <1>1 DEF CtimerListInv
<1> QED  BY <1>4, <1>5, <1>6, <1>7

\* etimer_stop walks to the timer before and takes the timer out behind it. Where
\* it is not in the list, only its own pointer is cleared.
LEMMA SeekStep ==
  ASSUME NEW s \in Order, NEW c \in Order, Holds(s, c), Seek
  PROVE  \E q \in Order : Holds(q, c)'
<1> USE DEF Holds, queueVars
<1>1. /\ timerlist \in List /\ ctimer_list \in List /\ Chain(timerlist, s) /\ Chain(ctimer_list, c)
      /\ pc = "seek" /\ op = "stop" /\ item \in Timer /\ pending \ {item} = ToSet(s) \ {item}
      /\ ToSet(c) \ {item} = owed
      /\ UNCHANGED <<ctimer_list, expired, queueVars, joined, op, item, owed>>
  BY DEF Seek, TimersTyped, OpInv, TimerlistInv, CtimerListInv
<1>2. \/ l = NULL /\ item \notin ToSet(s)
      \/ \E k \in 1 .. Len(s) : l = s[k] /\ \A j \in 1 .. k : s[j] # item
  BY <1>1 DEF TimerlistInv
<1>3. CASE l # NULL /\ timerlist.next[l] # item
  <2>1. l' = timerlist.next[l] /\ UNCHANGED <<timerlist, pending, pc, r>>
    BY <1>3 DEF Seek
  <2>2. PICK k \in 1 .. Len(s) : l = s[k] /\ \A j \in 1 .. k : s[j] # item
    BY <1>2, <1>3
  <2>3. l' = At(s, k + 1) /\ k + 1 \in 1 .. Len(s) + 1 /\ (k + 1) - 1 = k /\ l' \in Timer \cup {NULL}
    BY <1>1, <2>1, <2>2, AtFacts, ChainFacts
  <2>4. \/ l' = NULL /\ item \notin ToSet(s)
        \/ \E m \in 1 .. Len(s) : l' = s[m] /\ \A j \in 1 .. m : s[j] # item
    <3>1. CASE l' = NULL
      <4>1. \A j \in 1 .. Len(s) : s[j] # item
        BY <2>2, <2>3, <3>1, LastPlace
      <4> QED  BY <3>1, <4>1, OrderSet
    <3>2. CASE l' # NULL
      <4>1. k + 1 \in 1 .. Len(s) /\ l' = s[k + 1]
        BY <1>1, <2>3, <3>2, NextPlace
      <4>2. \A j \in 1 .. k + 1 : j = k + 1 \/ j \in 1 .. k
        OBVIOUS
      <4>3. \A j \in 1 .. k + 1 : s[j] # item
        BY <1>3, <2>1, <2>2, <4>1, <4>2
      <4> QED  BY <4>1, <4>3
    <3> QED  BY <3>1, <3>2
  <2>5. TimersTyped' /\ OpInv'
    BY <1>1, <2>1, <2>3 DEF TimersTyped, OpInv
  <2>6. EventsInv'
    BY <1>1, <2>1 DEF EventsInv, Queued
  <2>7. TimerlistInv(s)'
    BY <1>1, <2>1, <2>4 DEF TimerlistInv
  <2>8. CtimerListInv(c)'
    BY <1>1, <2>1 DEF CtimerListInv
  <2> QED  BY <2>5, <2>6, <2>7, <2>8
<1>4. CASE ~ (l # NULL /\ timerlist.next[l] # item)
  <2>1. /\ timerlist' = IF l = NULL THEN SetNext(timerlist, item, NULL) ELSE Unlinked(timerlist, l, item)
        /\ pending' = pending \ {item} /\ WalkRemove
    BY <1>4 DEF Seek
  <2>2. PICK q \in Order : timerlist' \in List /\ Chain(timerlist', q) /\ ToSet(q) = ToSet(s) \ {item}
    <3>1. CASE l = NULL
      <4>1. item \in Timer \ ToSet(s) /\ NULL \in Timer \cup {NULL} /\ ToSet(s) \ {item} = ToSet(s)
        <5>1. item \notin ToSet(s)
          BY <1>2, <3>1, AtFacts
        <5> QED  BY <1>1, <5>1
      <4> QED  BY <1>1, <2>1, <3>1, <4>1, OffChain
    <3>2. CASE l # NULL /\ timerlist.next[l] = item
      <4>1. PICK k \in 1 .. Len(s) : l = s[k]
        BY <1>2, <3>2
      <4>2. At(s, k + 1) = item /\ k + 1 \in 1 .. Len(s) + 1 /\ (k + 1) - 1 = k /\ At(s, k) = l
        BY <1>1, <3>2, <4>1, AtFacts, ChainFacts
      <4>3. k + 1 \in 1 .. Len(s) /\ s[k + 1] = item
        BY <1>1, <4>2, NextPlace, NullFacts
      <4>4. timerlist' = Unlinked(timerlist, At(s, (k + 1) - 1), s[k + 1])
        BY <2>1, <3>2, <4>2, <4>3
      <4> QED  BY <1>1, <4>3, <4>4, UnlinkedChain
    <3> QED  BY <1>4, <3>1, <3>2
  <2>3. /\ pc' = "remove" /\ WalkedBehind(c, item)'
        /\ l' \in Timer \cup {NULL} /\ r' \in Timer \cup {NULL}
    BY <1>1, <2>1, RemoveStarts
  <2>4. TimersTyped' /\ OpInv'
    BY <1>1, <2>1, <2>2, <2>3 DEF TimersTyped, OpInv
  <2>5. EventsInv'
    BY <1>1, <2>1, <2>3 DEF EventsInv, Queued
  <2>6. TimerlistInv(q)'
    BY <1>1, <2>1, <2>2, <2>3 DEF TimerlistInv
  <2>7. CtimerListInv(c)'
    BY <1>1, <2>3 DEF CtimerListInv
  <2> QED  BY <2>4, <2>5, <2>6, <2>7
<1> QED  BY <1>3, <1>4

----------------------------------------------------------------------------
(***************************************************************************)
(* The steps of etimer_process                                             *)
(***************************************************************************)

\* etimer_process starts at the head.
LEMMA StartScanStep ==
  ASSUME NEW s \in Order, NEW c \in Order, Holds(s, c), StartScan
  PROVE  Holds(s, c)'
<1> USE DEF Holds, queueVars
<1>1. /\ timerlist \in List /\ Chain(timerlist, s) /\ Chain(ctimer_list, c)
      /\ pc = "idle" /\ pending = ToSet(s) /\ ToSet(c) = owed
      /\ op' = "scan" /\ pc' = "scan" /\ l' = timerlist.head /\ r' = NULL
      /\ UNCHANGED <<ctimer_list, timerlist, pending, expired, queueVars, joined, item, owed>>
  BY DEF StartScan, TimersTyped, TimerlistInv, CtimerListInv
<1>2. /\ 1 \in 1 .. Len(s) + 1 /\ l' = At(s, 1) /\ r' = At(s, 1 - 1) /\ l' \in Timer \cup {NULL}
  BY <1>1, FirstPlace
<1>3. TimersTyped' /\ OpInv'
  BY <1>1, <1>2 DEF TimersTyped, OpInv
<1>4. EventsInv'
  BY <1>1 DEF EventsInv, Queued
<1>5. TimerlistInv(s)'
  BY <1>1, <1>2 DEF TimerlistInv
<1>6. CtimerListInv(c)'
  BY <1>1 DEF CtimerListInv
<1> QED  BY <1>3, <1>4, <1>5, <1>6

\* It looks at a timer: the next one, or this one has expired and can be posted.
LEMMA ScanStep ==
  ASSUME NEW s \in Order, NEW c \in Order, Holds(s, c), Scan
  PROVE  Holds(s, c)'
<1> USE DEF Holds, queueVars
<1>1. /\ timerlist \in List /\ Chain(timerlist, s) /\ Chain(ctimer_list, c)
      /\ pc = "scan" /\ pending = ToSet(s) /\ ToSet(c) = owed
      /\ UNCHANGED <<ctimer_list, timerlist, pending, expired, queueVars, joined, op, item, owed>>
  BY DEF Scan, TimersTyped, TimerlistInv, CtimerListInv
<1>2. PICK k \in 1 .. Len(s) + 1 : l = At(s, k) /\ r = At(s, k - 1)
  BY <1>1 DEF TimerlistInv
<1>3. CASE l = NULL /\ pc' = "idle" /\ UNCHANGED <<l, r>>
  <2>1. TimersTyped' /\ OpInv'
    BY <1>1, <1>3 DEF TimersTyped, OpInv
  <2>2. EventsInv'
    BY <1>1, <1>3 DEF EventsInv, Queued
  <2>3. TimerlistInv(s)'
    BY <1>1, <1>3 DEF TimerlistInv
  <2>4. CtimerListInv(c)'
    BY <1>1, <1>3 DEF CtimerListInv
  <2> QED  BY <2>1, <2>2, <2>3, <2>4
<1>4. CASE l # NULL /\ nevents < NumEvents /\ pc' = "post" /\ UNCHANGED <<l, r>>
  <2>1. k \in 1 .. Len(s) /\ l = s[k]
    BY <1>1, <1>2, <1>4, NextPlace
  <2>2. TimersTyped' /\ OpInv'
    BY <1>1, <1>4 DEF TimersTyped, OpInv
  <2>3. EventsInv'
    BY <1>1, <1>4 DEF EventsInv, Queued
  <2>4. TimerlistInv(s)'
    BY <1>1, <1>2, <1>4, <2>1 DEF TimerlistInv
  <2>5. CtimerListInv(c)'
    BY <1>1, <1>4 DEF CtimerListInv
  <2> QED  BY <2>2, <2>3, <2>4, <2>5
<1>5. CASE l # NULL /\ r' = l /\ l' = timerlist.next[l] /\ UNCHANGED pc
  <2>1. /\ k \in 1 .. Len(s) /\ k + 1 \in 1 .. Len(s) + 1 /\ (k + 1) - 1 = k
        /\ l' = At(s, k + 1) /\ l' \in Timer \cup {NULL} /\ r' = At(s, k) /\ r' \in Timer
    BY <1>1, <1>2, <1>5, NextPlace
  <2>2. TimersTyped' /\ OpInv'
    BY <1>1, <1>5, <2>1 DEF TimersTyped, OpInv
  <2>3. EventsInv'
    BY <1>1, <1>5 DEF EventsInv, Queued
  <2>4. TimerlistInv(s)'
    BY <1>1, <1>5, <2>1 DEF TimerlistInv
  <2>5. CtimerListInv(c)'
    BY <1>1, <1>5 DEF CtimerListInv
  <2> QED  BY <2>2, <2>3, <2>4, <2>5
<1> QED  BY <1>3, <1>4, <1>5 DEF Scan

\* Writing the event touches none that is queued.
LEMMA PostExpiryStep ==
  ASSUME NEW s \in Order, NEW c \in Order, Holds(s, c), PostExpiry
  PROVE  Holds(s, c)'
<1> USE DEF Holds, queueVars
<1>1. /\ TimersTyped /\ Chain(timerlist, s) /\ Chain(ctimer_list, c)
      /\ pc = "post" /\ pending = ToSet(s) /\ ToSet(c) = owed /\ nevents < NumEvents
      /\ events' = [events EXCEPT ![snum] = l] /\ pc' = "posted" /\ l \in Timer
      /\ UNCHANGED <<ctimer_list, timerlist, pending, expired, fevent, nevents, joined, op, item, l, r, owed>>
  <2>1. l \in Timer
    <3>1. pc = "post"
      BY DEF PostExpiry
    <3>2. PICK k \in 1 .. Len(s) : l = s[k]
      BY <3>1 DEF TimerlistInv
    <3> QED  BY <3>2, AtFacts
  <2> QED  BY <2>1 DEF PostExpiry, TimerlistInv, CtimerListInv, EventsInv
<1>2. /\ snum \in 0 .. NumEvents - 1
      /\ \A i \in 0 .. nevents - 1 : Place(fevent, i) \in 0 .. NumEvents - 1 /\ Place(fevent, i) # snum
  BY <1>1, PostFacts
<1>3. /\ events' \in [0 .. NumEvents - 1 -> Timer \cup {Leave, NULL}] /\ events'[snum] = l
      /\ \A i \in 0 .. nevents - 1 : events'[Place(fevent, i)] = events[Place(fevent, i)]
  BY <1>1, <1>2 DEF TimersTyped
<1>4. snum' = snum
  BY <1>1 DEF snum
<1>5. Queued' = Queued
  BY <1>1, <1>3 DEF Queued, Place
<1>6. TimersTyped' /\ OpInv'
  BY <1>1, <1>3 DEF TimersTyped, OpInv
<1>7. EventsInv'
  BY <1>1, <1>3, <1>4, <1>5 DEF EventsInv
<1>8. TimerlistInv(s)'
  BY <1>1 DEF TimerlistInv
<1>9. CtimerListInv(c)'
  BY <1>1 DEF CtimerListInv
<1> QED  BY <1>6, <1>7, <1>8, <1>9

\* The event counts, with the timer still in the list,
LEMMA FinishPostStep ==
  ASSUME NEW s \in Order, NEW c \in Order, Holds(s, c), FinishPost
  PROVE  Holds(s, c)'
<1> USE DEF Holds, queueVars
<1>1. /\ TimersTyped /\ Chain(timerlist, s) /\ Chain(ctimer_list, c)
      /\ pc = "posted" /\ pending = ToSet(s) /\ ToSet(c) = owed /\ nevents < NumEvents
      /\ nevents' = nevents + 1 /\ pc' = "clear" /\ events[snum] = l
      /\ owed \subseteq pending \cup Queued
      /\ UNCHANGED <<ctimer_list, timerlist, pending, expired, events, fevent, joined, op, item, l, r, owed>>
  BY DEF FinishPost, TimerlistInv, CtimerListInv, EventsInv
<1>2. QueuedUpTo(nevents + 1) = QueuedUpTo(nevents) \cup {events[snum]}
  BY <1>1, PostFacts
<1>3. Queued' = Queued \cup {l}
  BY <1>1, <1>2 DEF Queued, QueuedUpTo
<1>4. TimersTyped' /\ OpInv'
  BY <1>1, NullFacts DEF TimersTyped, OpInv
<1>5. EventsInv'
  BY <1>1, <1>3 DEF EventsInv
<1>6. TimerlistInv(s)'
  BY <1>1 DEF TimerlistInv
<1>7. CtimerListInv(c)'
  BY <1>1 DEF CtimerListInv
<1> QED  BY <1>4, <1>5, <1>6, <1>7

\* the timer is no longer pending, with its event queued,
LEMMA ClearProcessStep ==
  ASSUME NEW s \in Order, NEW c \in Order, Holds(s, c), ClearProcess
  PROVE  Holds(s, c)'
<1> USE DEF Holds, queueVars
<1>1. /\ Chain(timerlist, s) /\ Chain(ctimer_list, c)
      /\ pc = "clear" /\ pending = ToSet(s) /\ ToSet(c) = owed
      /\ pc' = "unlink" /\ pending' = pending \ {l} /\ l \in Queued
      /\ owed \subseteq pending \cup Queued
      /\ UNCHANGED <<ctimer_list, timerlist, expired, queueVars, joined, op, item, l, r, owed>>
  BY DEF ClearProcess, TimerlistInv, CtimerListInv, EventsInv
<1>2. TimersTyped' /\ OpInv'
  BY <1>1 DEF TimersTyped, OpInv
<1>3. EventsInv'
  BY <1>1 DEF EventsInv, Queued
<1>4. TimerlistInv(s)'
  BY <1>1 DEF TimerlistInv
<1>5. CtimerListInv(c)'
  BY <1>1 DEF CtimerListInv
<1> QED  BY <1>2, <1>3, <1>4, <1>5

\* and leaves the list.
LEMMA UnlinkExpiredStep ==
  ASSUME NEW s \in Order, NEW c \in Order, Holds(s, c), UnlinkExpired
  PROVE  \E q \in Order : Holds(q, c)'
<1> USE DEF Holds, queueVars
<1>1. /\ timerlist \in List /\ Chain(timerlist, s) /\ Chain(ctimer_list, c)
      /\ pc = "unlink" /\ pending = ToSet(s) \ {l} /\ ToSet(c) = owed
      /\ timerlist' = Unlinked(timerlist, r, l) /\ l' = timerlist'.head /\ r' = NULL /\ pc' = "scan"
      /\ UNCHANGED <<ctimer_list, pending, expired, queueVars, joined, op, item, owed>>
  BY DEF UnlinkExpired, TimersTyped, TimerlistInv, CtimerListInv
<1>2. PICK k \in 1 .. Len(s) : l = s[k] /\ r = At(s, k - 1)
  BY <1>1 DEF TimerlistInv
<1>3. timerlist' = Unlinked(timerlist, At(s, k - 1), s[k])
  BY <1>1, <1>2
<1>4. PICK q \in Order : q = RemoveAt(s, k)
  BY <1>1, UnlinkedChain
<1>5. timerlist' \in List /\ Chain(timerlist', q) /\ ToSet(q) = ToSet(s) \ {l}
  BY <1>1, <1>2, <1>3, <1>4, UnlinkedChain
<1>6. 1 \in 1 .. Len(q) + 1 /\ l' = At(q, 1) /\ r' = At(q, 1 - 1) /\ l' \in Timer \cup {NULL}
  <2>1. PICK list \in List : list = timerlist'
    BY <1>5
  <2> QED  BY <1>1, <1>5, <2>1, FirstPlace
<1>7. TimersTyped' /\ OpInv'
  BY <1>1, <1>5, <1>6 DEF TimersTyped, OpInv
<1>8. EventsInv'
  BY <1>1 DEF EventsInv, Queued
<1>9. TimerlistInv(q)'
  BY <1>1, <1>5, <1>6 DEF TimerlistInv
<1>10. CtimerListInv(c)'
  BY <1>1 DEF CtimerListInv
<1> QED  BY <1>7, <1>8, <1>9, <1>10

----------------------------------------------------------------------------
(***************************************************************************)
(* The steps of do_event and ctimer_process                                *)
(***************************************************************************)

\* do_event takes the first event: its timer has it in hand.
LEMMA TakeEventStep ==
  ASSUME NEW s \in Order, NEW c \in Order, Holds(s, c), TakeEvent
  PROVE  Holds(s, c)'
<1> USE DEF Holds, queueVars
<1>1. /\ TimersTyped /\ Chain(timerlist, s) /\ Chain(ctimer_list, c)
      /\ pc = "idle" /\ pending = ToSet(s) /\ ToSet(c) = owed /\ nevents > 0
      /\ op' = "call" /\ pc' = "take" /\ item' = events[fevent] /\ fevent' = (fevent + 1) % NumEvents
      /\ owed \subseteq pending \cup Queued
      /\ UNCHANGED <<ctimer_list, timerlist, pending, expired, events, nevents, joined, l, r, owed>>
  BY DEF TakeEvent, TimerlistInv, CtimerListInv, EventsInv
<1>2. /\ fevent' \in 0 .. NumEvents - 1
      /\ Queued \subseteq {events[fevent]} \cup QueuedUpTo(nevents - 1)'
  BY <1>1, TakeFacts
<1>3. TimersTyped' /\ OpInv'
  BY <1>1, <1>2 DEF TimersTyped, OpInv
<1>4. EventsInv'
  <2>1. owed' \subseteq pending' \cup {item'} \cup QueuedUpTo(nevents - 1)'
    BY <1>1, <1>2
  <2> QED  BY <1>1, <2>1 DEF EventsInv
<1>5. TimerlistInv(s)'
  BY <1>1 DEF TimerlistInv
<1>6. CtimerListInv(c)'
  BY <1>1 DEF CtimerListInv
<1> QED  BY <1>3, <1>4, <1>5, <1>6

\* The event no longer counts, and ctimer_process looks for its timer.
LEMMA DispatchEventStep ==
  ASSUME NEW s \in Order, NEW c \in Order, Holds(s, c), DispatchEvent
  PROVE  Holds(s, c)'
<1> USE DEF Holds, queueVars
<1>1. /\ TimersTyped /\ Chain(timerlist, s) /\ Chain(ctimer_list, c)
      /\ pc = "take" /\ pending = ToSet(s) /\ ToSet(c) = owed /\ nevents > 0
      /\ nevents' = nevents - 1
      /\ owed \subseteq pending \cup {item} \cup QueuedUpTo(nevents - 1)
      /\ joined' \in {"yes", "left", "joining"}
      /\ UNCHANGED <<ctimer_list, timerlist, pending, expired, events, fevent, op, item, r, owed>>
  BY DEF DispatchEvent, TimersTyped, TimerlistInv, CtimerListInv, EventsInv
<1>2. Queued' = QueuedUpTo(nevents - 1) /\ nevents' \in 0 .. NumEvents
  BY <1>1, NullFacts DEF Queued, QueuedUpTo, TimersTyped
<1>3. CASE item \in Timer /\ pc' = "find" /\ l' = ctimer_list.head
  <2>1. Walked(c, item)' /\ l' \in Timer \cup {NULL}
    BY <1>1, <1>3, FirstPlace DEF Walked, TimersTyped
  <2>2. TimersTyped' /\ OpInv'
    BY <1>1, <1>2, <1>3, <2>1 DEF TimersTyped, OpInv
  <2>3. EventsInv'
    BY <1>1, <1>2, <1>3 DEF EventsInv
  <2>4. TimerlistInv(s)'
    BY <1>1, <1>3 DEF TimerlistInv
  <2>5. CtimerListInv(c)'
    BY <1>1, <1>3, <2>1 DEF CtimerListInv
  <2> QED  BY <2>2, <2>3, <2>4, <2>5
<1>4. CASE item \notin Timer /\ pc' = "idle" /\ UNCHANGED l
  <2>1. TimersTyped' /\ OpInv'
    BY <1>1, <1>2, <1>4 DEF TimersTyped, OpInv
  <2>2. EventsInv'
    <3>1. owed \subseteq pending \cup QueuedUpTo(nevents - 1)
      BY <1>1, <1>4 DEF TimersTyped
    <3> QED  BY <1>1, <1>2, <1>4, <3>1 DEF EventsInv
  <2>3. TimerlistInv(s)'
    BY <1>1, <1>4 DEF TimerlistInv
  <2>4. CtimerListInv(c)'
    BY <1>1, <1>4 DEF CtimerListInv
  <2> QED  BY <2>1, <2>2, <2>3, <2>4
<1> QED  BY <1>3, <1>4 DEF DispatchEvent

\* A timer that is not found is not owed a call.
LEMMA FindStep ==
  ASSUME NEW s \in Order, NEW c \in Order, Holds(s, c), Find
  PROVE  Holds(s, c)'
<1> USE DEF Holds, queueVars
<1>1. /\ ctimer_list \in List /\ Chain(timerlist, s) /\ Chain(ctimer_list, c)
      /\ pc = "find" /\ item \in Timer /\ pending = ToSet(s) /\ ToSet(c) = owed
      /\ owed \subseteq pending \cup {item} \cup Queued
      /\ UNCHANGED <<ctimer_list, timerlist, pending, expired, queueVars, joined, op, item, owed>>
  BY DEF Find, TimersTyped, OpInv, TimerlistInv, CtimerListInv, EventsInv
<1>2. PICK k \in 1 .. Len(c) + 1 : l = At(c, k) /\ \A j \in 1 .. k - 1 : c[j] # item
  BY <1>1 DEF CtimerListInv, Walked
<1>3. CASE l = NULL /\ pc' = "idle" /\ UNCHANGED <<l, r>>
  <2>1. item \notin owed
    <3>1. \A j \in 1 .. Len(c) : c[j] # item
      BY <1>2, <1>3, LastPlace
    <3> QED  BY <1>1, <3>1, OrderSet
  <2>2. TimersTyped' /\ OpInv'
    BY <1>1, <1>3 DEF TimersTyped, OpInv
  <2>3. EventsInv'
    <3>1. owed \subseteq pending \cup Queued
      BY <1>1, <2>1
    <3> QED  BY <1>1, <1>3, <3>1 DEF EventsInv, Queued
  <2>4. TimerlistInv(s)'
    BY <1>1, <1>3 DEF TimerlistInv
  <2>5. CtimerListInv(c)'
    BY <1>1, <1>3 DEF CtimerListInv
  <2> QED  BY <2>2, <2>3, <2>4, <2>5
<1>4. CASE l = item /\ WalkRemove
  <2>1. /\ pc' = "remove" /\ WalkedBehind(c, item)'
        /\ l' \in Timer \cup {NULL} /\ r' \in Timer \cup {NULL}
    BY <1>1, <1>4, RemoveStarts
  <2>2. op = "call"
    BY <1>1 DEF OpInv
  <2>3. TimersTyped' /\ OpInv'
    BY <1>1, <2>1, <2>2 DEF TimersTyped, OpInv
  <2>4. EventsInv'
    BY <1>1, <2>1, <2>2 DEF EventsInv, Queued
  <2>5. TimerlistInv(s)'
    BY <1>1, <2>1 DEF TimerlistInv
  <2>6. CtimerListInv(c)'
    BY <1>1, <2>1, <2>2 DEF CtimerListInv
  <2> QED  BY <2>3, <2>4, <2>5, <2>6
<1>5. CASE l # NULL /\ l # item /\ l' = ctimer_list.next[l] /\ UNCHANGED <<pc, r>>
  <2>1. /\ k \in 1 .. Len(c) /\ l = c[k] /\ k + 1 \in 1 .. Len(c) + 1
        /\ l' = At(c, k + 1) /\ l' \in Timer \cup {NULL}
    BY <1>1, <1>2, <1>5, NextPlace
  <2>2. \A j \in 1 .. (k + 1) - 1 : c[j] # item
    <3>1. \A j \in 1 .. (k + 1) - 1 : j = k \/ j \in 1 .. k - 1
      OBVIOUS
    <3> QED  BY <1>2, <1>5, <2>1, <3>1
  <2>3. TimersTyped' /\ OpInv'
    BY <1>1, <1>5, <2>1 DEF TimersTyped, OpInv
  <2>4. EventsInv'
    BY <1>1, <1>5 DEF EventsInv, Queued
  <2>5. TimerlistInv(s)'
    BY <1>1, <1>5 DEF TimerlistInv
  <2>6. Walked(c, item)'
    BY <1>1, <2>1, <2>2 DEF Walked
  <2>7. CtimerListInv(c)'
    BY <1>1, <1>5, <2>6 DEF CtimerListInv
  <2> QED  BY <2>3, <2>4, <2>5, <2>7
<1> QED  BY <1>3, <1>4, <1>5 DEF Find

\* The call is made.
LEMMA CallbackStep ==
  ASSUME NEW s \in Order, NEW c \in Order, Holds(s, c), Callback
  PROVE  Holds(s, c)'
<1> USE DEF Holds, queueVars
<1>1. /\ Chain(timerlist, s) /\ Chain(ctimer_list, c)
      /\ pc = "callback" /\ pending = ToSet(s) /\ ToSet(c) = owed \ {item}
      /\ owed \subseteq pending \cup {item} \cup Queued
      /\ pc' = "idle" /\ owed' = owed \ {item}
      /\ UNCHANGED <<ctimer_list, timerlist, pending, expired, queueVars, joined, op, item, l, r>>
  BY DEF Callback, TimerlistInv, CtimerListInv, EventsInv
<1>2. TimersTyped' /\ OpInv'
  BY <1>1 DEF TimersTyped, OpInv
<1>3. EventsInv'
  BY <1>1 DEF EventsInv, Queued
<1>4. TimerlistInv(s)'
  BY <1>1 DEF TimerlistInv
<1>5. CtimerListInv(c)'
  BY <1>1 DEF CtimerListInv
<1> QED  BY <1>2, <1>3, <1>4, <1>5

----------------------------------------------------------------------------
(***************************************************************************)
(* The interrupt, where it strikes between operations, and time            *)
(***************************************************************************)

\* A timer that is pending is in the list.
LEMMA ScheduleKeepaliveStep ==
  ASSUME NEW s \in Order, NEW c \in Order, Holds(s, c), ~ StrikesInside, ScheduleKeepalive
  PROVE  \E q, d \in Order : Holds(q, d)'
<1> USE DEF Holds, queueVars, opVars
<1> DEFINE K == keepalive_timer
<1>1. /\ timerlist \in List /\ ctimer_list \in List /\ Chain(timerlist, s) /\ Chain(ctimer_list, c)
      /\ K \in Timer /\ pc = "idle" /\ pending = ToSet(s) /\ ToSet(c) = owed
      /\ owed \subseteq pending \cup Queued
      /\ pending' = pending \cup {K} /\ owed' = owed \cup {K} /\ expired' = expired \ {K}
      /\ ctimer_list' = Added(ctimer_list, K)
      /\ UNCHANGED <<queueVars, joined, opVars>>
  BY NullFacts DEF ScheduleKeepalive, MayStrike, TimersTyped, TimerlistInv, CtimerListInv, EventsInv
<1>2. Listed(timerlist) = ToSet(s)
  BY <1>1, ChainListed
<1>3. timerlist' = IF K \in ToSet(s) THEN timerlist ELSE Pushed(timerlist, K)
  BY <1>1, <1>2 DEF ScheduleKeepalive
<1>4. PICK q \in Order : timerlist' \in List /\ Chain(timerlist', q) /\ ToSet(q) = ToSet(s) \cup {K}
  <2>1. CASE K \in ToSet(s)
    <3>1. ToSet(s) = ToSet(s) \cup {K}
      BY <2>1
    <3> QED  BY <1>1, <1>3, <2>1, <3>1
  <2>2. CASE K \notin ToSet(s)
    <3>1. K \in Timer \ ToSet(s)
      BY <1>1, <2>2
    <3> QED  BY <1>1, <1>3, <2>2, <3>1, PushedWhole
  <2> QED  BY <2>1, <2>2
<1>5. PICK d \in Order : ctimer_list' \in List /\ Chain(ctimer_list', d) /\ ToSet(d) = ToSet(c) \cup {K}
  BY <1>1, AddedChain
<1> HIDE DEF K
<1>6. TimersTyped' /\ OpInv'
  BY <1>1, <1>4, <1>5 DEF TimersTyped, OpInv
<1>7. EventsInv'
  BY <1>1 DEF EventsInv, Queued
<1>8. TimerlistInv(q)'
  BY <1>1, <1>4 DEF TimerlistInv
<1>9. CtimerListInv(d)'
  BY <1>1, <1>5 DEF CtimerListInv
<1> QED  BY <1>6, <1>7, <1>8, <1>9

\* What is queued stays queued, whether the queue is full or not.
LEMMA PostLeaveStep ==
  ASSUME NEW s \in Order, NEW c \in Order, Holds(s, c), ~ StrikesInside, PostLeave
  PROVE  Holds(s, c)'
<1> USE DEF Holds, queueVars, opVars
<1>1. /\ TimersTyped /\ Chain(timerlist, s) /\ Chain(ctimer_list, c)
      /\ pc = "idle" /\ pending = ToSet(s) /\ ToSet(c) = owed /\ joined' = "left"
      /\ owed \subseteq pending \cup Queued
      /\ UNCHANGED <<ctimer_list, timerlist, pending, expired, opVars, owed>>
  BY DEF PostLeave, MayStrike, TimerlistInv, CtimerListInv, EventsInv
<1>2. /\ events' \in [0 .. NumEvents - 1 -> Timer \cup {Leave, NULL}]
      /\ fevent' \in 0 .. NumEvents - 1 /\ nevents' \in 0 .. NumEvents
      /\ Queued \subseteq Queued'
  <2>1. CASE nevents = NumEvents
    BY <1>1, <2>1 DEF PostLeave, TimersTyped, Queued
  <2>2. CASE nevents # NumEvents
    <3>1. /\ nevents < NumEvents /\ fevent' = fevent /\ nevents' = nevents + 1 /\ nevents' \in 0 .. NumEvents
          /\ events' = [events EXCEPT ![snum] = Leave] /\ nevents \in Nat
      BY <1>1, <2>2, NullFacts DEF PostLeave, TimersTyped
    <3>2. /\ snum \in 0 .. NumEvents - 1
          /\ \A i \in 0 .. nevents - 1 : Place(fevent, i) \in 0 .. NumEvents - 1 /\ Place(fevent, i) # snum
      BY <1>1, <3>1, PostFacts
    <3>3. /\ events' \in [0 .. NumEvents - 1 -> Timer \cup {Leave, NULL}]
          /\ \A i \in 0 .. nevents - 1 : events'[Place(fevent, i)] = events[Place(fevent, i)]
      BY <1>1, <3>1, <3>2 DEF TimersTyped
    <3>4. \A i \in 0 .. nevents - 1 : i \in 0 .. nevents' - 1
      BY <3>1
    <3>5. Queued \subseteq Queued'
      BY <3>1, <3>3, <3>4 DEF Queued, Place
    <3> QED  BY <1>1, <3>1, <3>3, <3>5 DEF TimersTyped
  <2> QED  BY <2>1, <2>2
<1>3. TimersTyped' /\ OpInv'
  BY <1>1, <1>2 DEF TimersTyped, OpInv
<1>4. EventsInv'
  BY <1>1, <1>2 DEF EventsInv
<1>5. TimerlistInv(s)'
  BY <1>1 DEF TimerlistInv
<1>6. CtimerListInv(c)'
  BY <1>1 DEF CtimerListInv
<1> QED  BY <1>3, <1>4, <1>5, <1>6

\* What the invariant speaks of does not change.
LEMMA OtherStep ==
  ASSUME NEW s \in Order, NEW c \in Order, Holds(s, c),
         expired' \subseteq Timer, joined' \in {"yes", "left", "joining"},
         UNCHANGED <<ctimer_list, timerlist, pending, queueVars, opVars, owed>>
  PROVE  Holds(s, c)'
<1> USE DEF Holds, queueVars, opVars
<1>1. TimersTyped' /\ OpInv'
  BY DEF TimersTyped, OpInv
<1>2. EventsInv'
  BY DEF EventsInv, Queued, QueuedUpTo, snum
<1>3. TimerlistInv(s)'
  BY DEF TimerlistInv, Walked
<1>4. CtimerListInv(c)'
  BY DEF CtimerListInv, Walked, WalkedBehind
<1> QED  BY <1>1, <1>2, <1>3, <1>4

----------------------------------------------------------------------------
(***************************************************************************)
(* The invariant                                                           *)
(***************************************************************************)

\* Both lists are empty.
LEMMA TimersInitInv ==
  ASSUME TimersInit
  PROVE  TimersInv
<1>1. /\ << >> \in Order /\ Len(<< >>) = 0 /\ ToSet(<< >>) = {} /\ IsInjective(<< >>)
  BY DEF Order, ToSet, IsInjective
<1>2. EmptyList \in List /\ EmptyList.head = NULL
  BY DEF EmptyList, List
<1>3. Chain(EmptyList, << >>)
  BY <1>1, <1>2 DEF Chain, At
<1>4. TimersTyped
  BY <1>2, NullFacts DEF TimersInit, TimersTyped
<1>5. OpInv /\ EventsInv
  BY DEF TimersInit, OpInv, EventsInv
<1>6. TimerlistInv(<< >>)
  BY <1>1, <1>3 DEF TimersInit, TimerlistInv
<1>7. CtimerListInv(<< >>)
  BY <1>1, <1>3 DEF TimersInit, CtimerListInv
<1> QED  BY <1>1, <1>4, <1>5, <1>6, <1>7 DEF TimersInv, Holds

\* Every step keeps the invariant, for some order of either list.
LEMMA TimersNextInv ==
  ASSUME ~ StrikesInside, TimersInv, [TimersNext]_timersVars
  PROVE  TimersInv'
<1>1. PICK s \in Order, c \in Order : Holds(s, c)
  BY DEF TimersInv
<1> SUFFICES \E q, d \in Order : Holds(q, d)'
  BY DEF TimersInv
<1> USE <1>1
<1>2. CASE \E t \in Timer : Set(t)
  BY <1>2, SetStep
<1>3. CASE \E t \in Timer : Expire(t)
  <2>1. /\ expired' \subseteq Timer /\ joined' \in {"yes", "left", "joining"}
        /\ UNCHANGED <<ctimer_list, timerlist, pending, queueVars, opVars, owed>>
    BY <1>3 DEF Expire, Holds, TimersTyped
  <2> QED  BY <2>1, OtherStep
<1>4. CASE \E t \in Timer \ {keepalive_timer} : Stop(t)
  BY <1>4, StopStep
<1>5. CASE SetOrStop
  BY <1>5, SearchStep, PushStep, FinishPushStep, ListRemoveStep, ListAppendStep, ListTailStep,
     LinkStep, SeekStep DEF SetOrStop
<1>6. CASE ScanSteps
  BY <1>6, ScanStep, PostExpiryStep, FinishPostStep, ClearProcessStep, UnlinkExpiredStep
     DEF ScanSteps
<1>7. CASE EventSteps
  BY <1>7, DispatchEventStep, FindStep, CallbackStep DEF EventSteps
<1>8. CASE StartScan \/ TakeEvent
  BY <1>8, StartScanStep, TakeEventStep
<1>9. CASE Join
  <2>1. /\ expired' \subseteq Timer /\ joined' \in {"yes", "left", "joining"}
        /\ UNCHANGED <<ctimer_list, timerlist, pending, queueVars, opVars, owed>>
    BY <1>9 DEF Join, Holds, TimersTyped
  <2> QED  BY <2>1, OtherStep
<1>10. CASE ScheduleKeepalive
  BY <1>10, ScheduleKeepaliveStep
<1>11. CASE PostLeave
  BY <1>11, PostLeaveStep
<1>12. CASE UNCHANGED timersVars
  <2>1. /\ expired' \subseteq Timer /\ joined' \in {"yes", "left", "joining"}
        /\ UNCHANGED <<ctimer_list, timerlist, pending, queueVars, opVars, owed>>
    BY <1>12 DEF timersVars, Holds, TimersTyped
  <2> QED  BY <2>1, OtherStep
<1> QED  BY <1>2, <1>3, <1>4, <1>5, <1>6, <1>7, <1>8, <1>9, <1>10, <1>11, <1>12
         DEF TimersNext, Process

\* Wherever an operation is, the two lists are sequences without cycles, and what
\* it has not done yet is what they lack; the interrupt strikes between operations.
THEOREM TimersInvariance ==
  ASSUME ~ StrikesInside
  PROVE  TimersSpec => []TimersInv
<1>1. TimersInit => TimersInv
  BY TimersInitInv
<1>2. TimersInv /\ [TimersNext]_timersVars => TimersInv'
  BY TimersNextInv
<1> QED  BY <1>1, <1>2, PTL DEF TimersSpec

\* The lists and the timers owed a call agree: it takes an interrupt inside an
\* operation on the lists to part them.
THEOREM TimersAlwaysLinked ==
  ASSUME ~ StrikesInside
  PROVE  TimersSpec => []TimersLinked
<1>1. TimersInv => TimersLinked
  <2> SUFFICES ASSUME TimersInv, pc = "idle"
               PROVE  /\ Linear(ctimer_list) /\ Linear(timerlist)
                      /\ Listed(ctimer_list) = owed
                      /\ owed \subseteq Listed(timerlist) \cup Queued
    BY DEF TimersLinked
  <2>1. PICK s \in Order, c \in Order : Holds(s, c)
    BY DEF TimersInv
  <2>2. /\ timerlist \in List /\ ctimer_list \in List /\ Chain(timerlist, s) /\ Chain(ctimer_list, c)
        /\ pending = ToSet(s) /\ ToSet(c) = owed /\ owed \subseteq pending \cup Queued
    BY <2>1 DEF Holds, TimersTyped, TimerlistInv, CtimerListInv, EventsInv
  <2>3. Linear(timerlist) /\ Listed(timerlist) = ToSet(s)
    BY <2>2, ChainListed
  <2>4. Linear(ctimer_list) /\ Listed(ctimer_list) = ToSet(c)
    BY <2>2, ChainListed
  <2> QED  BY <2>2, <2>3, <2>4
<1> QED  BY <1>1, TimersInvariance, PTL
=============================================================================
