------------------------------ MODULE IsrRing -------------------------------
(***************************************************************************)
(* The mailbox from the slot interrupt to tsch_pending_events_process:     *)
(* input_ringbuf/input_array (received frames) and, with the same          *)
(* discipline, dequeued_ringbuf/dequeued_array (sent or dropped packets).  *)
(*                                                                         *)
(* The producer is the link operation, run from the rtimer interrupt in    *)
(* chunks separated by TSCH_SCHEDULE_AND_YIELD: it reserves a slot of the  *)
(* array when the timeslot starts, fills it later and commits it last.     *)
(* The consumer is a cooperative Contiki process that is polled by the     *)
(* interrupt, and under it the main loop that puts the CPU to sleep.  The  *)
(* interrupt may strike between any two steps of the consumer; there is no *)
(* lock between the two.                                                   *)
(***************************************************************************)
EXTENDS Naturals, Sequences, RingBufIndex

CONSTANTS Mask,   \* size of the ring minus one
          Item    \* what is received: frames, or packets that were sent

ASSUME MaskAssumption == Mask \in Nat \ {0}

VARIABLES
    ring,            \* the two indices
    array,           \* the slots
    isr,             \* where the link operation is in its timeslot
    put_index,       \* the slot it has reserved
    proc,            \* where the main loop and the process are
    get_index,       \* the slot the process looks at
    copy,            \* what the process copied from that slot
    needspoll,       \* process->needspoll of the pending-events process
    poll_requested   \* the global flag of process.c

vars == <<ring, array, isr, put_index, proc, get_index, copy,
          needspoll, poll_requested>>
isrVars  == <<isr, put_index>>
procVars == <<get_index, copy>>
pollVars == <<needspoll, poll_requested>>

Slot == 0 .. Mask

TypeOK ==
    /\ ring \in Ring(Mask)
    /\ array \in [Slot -> Item]
    /\ isr \in {"idle", "reserved", "filled"}
    /\ put_index \in Slot
    /\ proc \in {"asleep", "run", "scan", "sleep", "loop", "copy", "get", "use"}
    /\ get_index \in Slot
    /\ copy \in Item
    /\ needspoll \in BOOLEAN
    /\ poll_requested \in BOOLEAN

Init ==
    /\ ring = ringbufindex_init
    /\ array \in [Slot -> Item]          \* static storage, never read before a put
    /\ isr = "idle"
    /\ put_index = 0
    /\ proc = "run"
    /\ get_index = 0
    /\ copy \in Item
    /\ needspoll = FALSE
    /\ poll_requested = FALSE

-----------------------------------------------------------------------------
(***************************************************************************)
(* The link operation (interrupt).                                         *)
(***************************************************************************)

\* The interrupt handler ends: LPM4_EXIT when there is something to run.
\* "polled" is poll_requested as the handler leaves it.
IsrReturn(polled) ==
    proc' = IF proc = "asleep" /\ polled THEN "run" ELSE proc

\* Fault: the timeslot starts without looking for a free slot.
ReserveSlot_fault ==
    /\ isr = "idle"
    /\ put_index' = ringbufindex_peek_put(ring, Mask)
    /\ isr' = "reserved"
    /\ IsrReturn(poll_requested)
    /\ UNCHANGED <<ring, array, procVars, pollVars>>

\* tsch_rx_link (tsch_tx_link for dequeued_ringbuf) starts: it needs a free
\* slot, otherwise the whole timeslot is skipped.
ReserveSlot ==
    /\ isr = "idle"
    /\ ~ringbufindex_full(ring, Mask)
    /\ put_index' = ringbufindex_peek_put(ring, Mask)
    /\ isr' = "reserved"
    /\ IsrReturn(poll_requested)
    /\ UNCHANGED <<ring, array, procVars, pollVars>>

\* The frame is read from the radio into the reserved slot.
FillSlot(v) ==
    /\ isr = "reserved"
    /\ array' = [array EXCEPT ![put_index] = v]
    /\ isr' = "filled"
    /\ IsrReturn(poll_requested)
    /\ UNCHANGED <<ring, put_index, procVars, pollVars>>

\* Nothing on the air, frame not valid or not for this node, packet to be
\* retried: the reservation is simply forgotten.
AbandonSlot ==
    /\ isr \in {"reserved", "filled"}
    /\ isr' = "idle"
    /\ IsrReturn(poll_requested)
    /\ UNCHANGED <<ring, array, put_index, procVars, pollVars>>

\* process_poll(&tsch_pending_events_process)
process_poll ==
    /\ needspoll' = TRUE
    /\ poll_requested' = TRUE

\* ringbufindex_put, whose result the caller ignores, then process_poll.
CommitSlot ==
    /\ isr = "filled"
    /\ ring' = ringbufindex_put(ring, Mask)
    /\ process_poll
    /\ isr' = "idle"
    /\ IsrReturn(TRUE)
    /\ UNCHANGED <<array, put_index, procVars>>

-----------------------------------------------------------------------------
(***************************************************************************)
(* The main loop and the scheduler of process.c.                           *)
(***************************************************************************)

\* process_run: do_poll clears the global flag before it scans.
StartPoll ==
    /\ proc = "run"
    /\ proc' = IF poll_requested THEN "scan" ELSE "sleep"
    /\ poll_requested' = FALSE
    /\ UNCHANGED <<ring, array, isrVars, procVars, needspoll>>

\* do_poll reaches the pending-events process: needspoll is cleared BEFORE
\* the process is called.
CallPolled ==
    /\ proc = "scan"
    /\ proc' = IF needspoll THEN "loop" ELSE "run"
    /\ needspoll' = FALSE
    /\ UNCHANGED <<ring, array, isrVars, procVars, poll_requested>>

\* tsch_reset calls the process directly: process_post_synch(.., POLL, ..).
SynchPost ==
    /\ proc = "run"
    /\ proc' = "loop"
    /\ UNCHANGED <<ring, array, isrVars, procVars, pollVars>>

\* Fault: the flag is not tested again with interrupts disabled.
GoToSleep_fault ==
    /\ proc = "sleep"
    /\ proc' = "asleep"
    /\ UNCHANGED <<ring, array, isrVars, procVars, pollVars>>

\* With interrupts disabled: sleep only if no poll is requested.
GoToSleep ==
    /\ proc = "sleep"
    /\ proc' = IF poll_requested THEN "run" ELSE "asleep"
    /\ UNCHANGED <<ring, array, isrVars, procVars, pollVars>>

-----------------------------------------------------------------------------
(***************************************************************************)
(* tsch_rx_process_pending / tsch_tx_process_pending.                      *)
(***************************************************************************)

\* while((index = ringbufindex_peek_get(..)) != -1)
PeekGet ==
    /\ proc = "loop"
    /\ ~ringbufindex_empty(ring, Mask)
    /\ get_index' = ringbufindex_peek_get(ring, Mask)
    /\ proc' = "copy"
    /\ UNCHANGED <<ring, array, isrVars, copy, pollVars>>

\* The ring is empty: the process yields until the next poll event.
Drained ==
    /\ proc = "loop"
    /\ ringbufindex_empty(ring, Mask)
    /\ proc' = "run"
    /\ UNCHANGED <<ring, array, isrVars, procVars, pollVars>>

\* packetbuf_copyfrom(current_input->payload, ..), or p = dequeued_array[..]
CopyItem ==
    /\ proc = "copy"
    /\ copy' = array[get_index]
    /\ proc' = "get"
    /\ UNCHANGED <<ring, array, isrVars, get_index, pollVars>>

\* ringbufindex_get
RemoveItem ==
    /\ proc = "get"
    /\ ring' = ringbufindex_get(ring, Mask)
    /\ proc' = "use"
    /\ UNCHANGED <<array, isrVars, procVars, pollVars>>

\* After the removal a beacon is still parsed in place
\* (tsch_parse_eb(current_input->payload, ..)): the slot is read again.
UseItem ==
    /\ proc = "use"
    /\ copy' = array[get_index]
    /\ proc' = "loop"
    /\ UNCHANGED <<ring, array, isrVars, get_index, pollVars>>

-----------------------------------------------------------------------------
LinkOperation == \/ ReserveSlot
                 \/ \E v \in Item : FillSlot(v)
                 \/ AbandonSlot
                 \/ CommitSlot

MainLoop == StartPoll \/ CallPolled \/ GoToSleep

ProcessPending == PeekGet \/ Drained \/ CopyItem \/ RemoveItem \/ UseItem

Next == LinkOperation \/ MainLoop \/ SynchPost \/ ProcessPending

(***************************************************************************)
(* Fairness: the CPU runs the main loop whenever the interrupt handler is  *)
(* not running, and every handler chunk is finite.  Nothing is assumed of  *)
(* the interrupt.                                                          *)
(***************************************************************************)
Spec     == Init /\ [][Next]_vars
FairSpec == Spec /\ WF_vars(MainLoop \/ ProcessPending)

-----------------------------------------------------------------------------
(***************************************************************************)
(* Properties.                                                             *)
(***************************************************************************)

\* While the interrupt owns a slot and the process looks at one, even after
\* having removed it from the ring, they are two different slots: neither a
\* copy nor the late parse of a beacon can see a frame being received.
NoSlotShared ==
    isr # "idle" /\ proc \in {"copy", "get", "use"} => put_index # get_index

\* The slot reserved at the start of the timeslot still is the one that the
\* put at its end commits, and there still is room: the ignored result of
\* ringbufindex_put hides no loss.
ReservationHolds ==
    isr # "idle" => /\ ~ringbufindex_full(ring, Mask)
                    /\ put_index = ringbufindex_peek_put(ring, Mask)

\* The CPU never sleeps on a frame that waits: wherever the commit of the
\* interrupt falls between the clearing of poll_requested, the scan, the drain
\* loop and the last test before the sleep, one of them still sees it.
AsleepOnlyWhenEmpty == proc = "asleep" => ringbufindex_empty(ring, Mask)

\* What the process copied is what lies in the slot, up to its last look at it.
CopyIntact == proc \in {"get", "use"} => copy = array[get_index]

\* The mailbox as a queue: the committed slots from the oldest to the newest.
Contents == [i \in 1 .. ringbufindex_elements(ring, Mask) |->
                array[SlotOf(ring, i, Mask)]]

Fifo == INSTANCE BoundedFifo WITH q <- Contents, Capacity <- Mask

\* The two indices, the slots written in advance and the two-step reads
\* implement a first-in first-out queue.
RingIsFifo == Fifo!Spec

\* No lost wake-up: whatever the moment the interrupt commits an item at (in
\* the drain loop, after the scan, on the way to sleep), the process comes to
\* remove one.
CommittedIsTaken == ~ringbufindex_empty(ring, Mask) ~> proc = "use"
=============================================================================
