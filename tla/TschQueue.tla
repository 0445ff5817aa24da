----------------------------- MODULE TschQueue ------------------------------
(***************************************************************************)
(* The transmit side of the MAC: the neighbour table and its packet queues *)
(* (tsch-queue.c), the processes that fill them (send_packet, the beacon   *)
(* process) and answer the senders (tsch_tx_process_pending), the slot     *)
(* interrupt that takes packets out, retries them and backs off            *)
(* (tsch_tx_link), and the counters that tsch-schedule.c keeps in the      *)
(* table.                                                                  *)
(*                                                                         *)
(* The ring buffers are sequences: IsrRing shows that they behave as such. *)
(* A change of the table takes the lock, hence waits for the end of a      *)
(* transmission (TschLock): such a step needs isr = "idle".  Slots without *)
(* a transmission touch nothing here but the backoff windows.              *)
(***************************************************************************)
EXTENDS Naturals, Sequences, SequencesExt

CONSTANTS
    Addr,        \* the unicast neighbours
    EB, BC,      \* tsch_eb_address, tsch_broadcast_address
    Block,       \* the blocks of packet_memb
    RingCap,     \* packets a tx_ringbuf holds (its size minus one)
    DeqCap,      \* packets dequeued_ringbuf holds
    MaxNbr,      \* TSCH_QUEUE_MAX_NEIGHBOR_QUEUES
    MaxTx,       \* MAC_MAX_FRAME_RETRIES + 1
    MaxBE,       \* MAC_MAX_BE
    LinkType,    \* of the link to each destination (EB: the beacons' own)
    Shared,      \* the destinations whose link has LINK_OPTION_SHARED
    Fixed,       \* the links that orchestra_init installs
    None

Dest == Addr \cup {EB, BC}

ASSUME AddressesDistinct == EB # BC /\ {EB, BC} \cap Addr = {} /\ None \notin Dest \cup Block
ASSUME SizesAssumption == /\ RingCap \in Nat \ {0} /\ DeqCap \in Nat \ {0}
                          /\ MaxNbr \in Nat /\ MaxNbr >= 2
                          /\ MaxTx \in Nat \ {0} /\ MaxBE \in Nat
ASSUME LinksAssumption == /\ LinkType \in [Dest -> {"normal", "advertising", "advertising_only"}]
                          /\ Shared \subseteq Dest /\ Fixed \subseteq {EB, BC}

VARIABLES
    neighbor_list,    \* in list order
    nbr,              \* struct tsch_neighbor of each destination
    time_source,      \* the neighbour with is_time_source, or None
    packet,           \* struct tsch_packet in each block, or Free
    dequeued,         \* dequeued_ringbuf with dequeued_array
    links,            \* the destinations we have a Tx link to
    pc, arg,          \* what the running process is doing, and about what
    in_callback,      \* a packet_sent callback is running
    isr, current_packet, current_neighbor, current_link   \* the slot

procVars == <<pc, arg, in_callback>>
slotVars == <<isr, current_packet, current_neighbor, current_link>>
vars == <<neighbor_list, nbr, time_source, packet, dequeued, links, procVars, slotVars>>

Free == [dest |-> None, transmissions |-> 0, ret |-> "deferred"]

\* A fresh entry: tsch_queue_add_nbr clears it and resets its backoff.
NewNbr == [tx_ringbuf |-> <<>>, tx_links_count |-> 0,
           backoff_window |-> 0, backoff_exponent |-> 0]

Listed(d) == Contains(neighbor_list, d)

TypeOK ==
    /\ neighbor_list \in BoundedSeq(Dest, MaxNbr) /\ IsInjective(neighbor_list)
    /\ nbr \in [Dest -> [tx_ringbuf : BoundedSeq(Block, RingCap), tx_links_count : 0 .. 255,
                        backoff_window : Nat, backoff_exponent : 0 .. MaxBE]]
    /\ \A d \in Dest : nbr[d].backoff_window <= 2 ^ nbr[d].backoff_exponent
    /\ time_source \in Addr \cup {None}
    /\ packet \in [Block -> [dest : Dest, transmissions : 0 .. MaxTx,
                             ret : {"deferred", "ok", "fail"}] \cup {Free}]
    /\ dequeued \in BoundedSeq(Block, DeqCap)
    /\ links \subseteq Dest
    /\ pc \in {"ready", "add", "commit", "count", "uncount", "sweep", "drain"}
    /\ arg \in Dest \cup Block \cup {None}
    /\ in_callback \in BOOLEAN
    /\ isr \in {"idle", "tx"}
    /\ current_packet \in Block \cup {None}
    /\ current_neighbor \in Dest \cup {None}
    /\ current_link \in Dest \cup {None}

\* tsch_queue_init: the two virtual neighbours; orchestra_init: the link of the
\* common slotframe and that of the beacons, both to the broadcast address.
Init ==
    /\ neighbor_list = <<EB, BC>>
    /\ nbr = [d \in Dest |->
                [NewNbr EXCEPT !.tx_links_count = IF d = BC THEN Cardinality(Fixed) ELSE 0]]
    /\ time_source = None
    /\ packet = [b \in Block |-> Free]
    /\ dequeued = <<>>
    /\ links = Fixed
    /\ pc = "ready" /\ arg = None /\ in_callback = FALSE
    /\ isr = "idle"
    /\ current_packet = None /\ current_neighbor = None /\ current_link = None

-----------------------------------------------------------------------------
(***************************************************************************)
(* The neighbour table.                                                    *)
(***************************************************************************)

\* tsch_queue_add_nbr has an answer: the neighbour is there, or the lock can
\* be taken.
add_nbr_returns(d) == Listed(d) \/ isr = "idle"

\* The neighbour is in the table afterwards, unless neighbor_memb is full.
add_nbr_succeeds(d) == Listed(d) \/ Len(neighbor_list) < MaxNbr

\* The list, and the table, after tsch_queue_add_nbr(d).
ListAfterAdd(d) ==
    IF ~Listed(d) /\ add_nbr_succeeds(d) THEN Append(neighbor_list, d) ELSE neighbor_list

\* Fault: an entry that is in the table already is cleared as well.
NbrAfterAdd_fault(d) ==
    IF add_nbr_succeeds(d) THEN [nbr EXCEPT ![d] = NewNbr] ELSE nbr

NbrAfterAdd(d) ==
    IF ~Listed(d) /\ add_nbr_succeeds(d) THEN [nbr EXCEPT ![d] = NewNbr] ELSE nbr

\* tsch_queue_update_time_source.  When the new one cannot be added there is
\* no time source any more.
UpdateTimeSource(s) ==
    /\ pc = "ready"
    /\ s # time_source
    /\ IF s = None
       THEN /\ time_source' = None
            /\ UNCHANGED <<neighbor_list, nbr>>
       ELSE /\ add_nbr_returns(s)
            /\ time_source' = IF add_nbr_succeeds(s) THEN s ELSE None
            /\ neighbor_list' = ListAfterAdd(s)
            /\ nbr' = NbrAfterAdd(s)
    /\ UNCHANGED <<packet, dequeued, links, procVars, slotVars>>

\* tsch_schedule_add_link, remove_link: the schedule first, under the lock;
\* the counter of the neighbour later, without it.
AddLink(a) ==
    /\ pc = "ready" /\ isr = "idle"
    /\ a \notin links
    /\ links' = links \cup {a}
    /\ pc' = "count" /\ arg' = a
    /\ UNCHANGED <<neighbor_list, nbr, time_source, packet, dequeued, in_callback, slotVars>>

RemoveLink(a) ==
    /\ pc = "ready" /\ isr = "idle"
    /\ a \in links
    /\ links' = links \ {a}
    /\ pc' = "uncount" /\ arg' = a
    /\ UNCHANGED <<neighbor_list, nbr, time_source, packet, dequeued, in_callback, slotVars>>

\* tx_links_count++ and tx_links_count--, eight bits wide.
CountLink ==
    /\ pc \in {"count", "uncount"}
    /\ add_nbr_returns(arg)
    /\ neighbor_list' = ListAfterAdd(arg)
    /\ nbr' = IF add_nbr_succeeds(arg)
              THEN [NbrAfterAdd(arg) EXCEPT ![arg].tx_links_count =
                        (@ + (IF pc = "count" THEN 1 ELSE 255)) % 256]
              ELSE nbr
    /\ pc' = "ready" /\ arg' = None
    /\ UNCHANGED <<time_source, packet, dequeued, links, in_callback, slotVars>>

-----------------------------------------------------------------------------
(***************************************************************************)
(* Sending: send_packet and the beacon process.                            *)
(***************************************************************************)

\* tsch_queue_packet_count adds the neighbour.  (When it cannot, the sender is
\* answered MAC_TX_ERR at once and nothing changes.)  There is at most one
\* beacon in its queue.
Send(d) ==
    /\ pc = "ready"
    /\ d = EB => nbr[EB].tx_ringbuf = <<>> /\ ~in_callback
    /\ add_nbr_returns(d) /\ add_nbr_succeeds(d)
    /\ neighbor_list' = ListAfterAdd(d)
    /\ nbr' = NbrAfterAdd(d)
    /\ pc' = "add" /\ arg' = d
    /\ UNCHANGED <<time_source, packet, dequeued, links, in_callback, slotVars>>

\* tsch_queue_add_packet looks for room in the ring, then for a free block.
RoomFor(d) == /\ Len(nbr[d].tx_ringbuf) < RingCap
              /\ \E b \in Block : packet[b] = Free

MakePacket(b) ==
    /\ pc = "add"
    /\ RoomFor(arg)
    /\ packet[b] = Free
    /\ packet' = [packet EXCEPT ![b] = [dest |-> arg, transmissions |-> 0, ret |-> "deferred"]]
    /\ pc' = "commit" /\ arg' = b
    /\ UNCHANGED <<neighbor_list, nbr, time_source, dequeued, links, in_callback, slotVars>>

\* The sender is answered MAC_TX_ERR at once.
SendFails ==
    /\ pc = "add"
    /\ ~RoomFor(arg)
    /\ pc' = "ready" /\ arg' = None
    /\ UNCHANGED <<neighbor_list, nbr, time_source, packet, dequeued, links, in_callback, slotVars>>

\* ringbufindex_put: the interrupt sees the packet from here on.
Commit ==
    /\ pc = "commit"
    /\ nbr' = [nbr EXCEPT ![packet[arg].dest].tx_ringbuf = Append(@, arg)]
    /\ pc' = "ready" /\ arg' = None
    /\ UNCHANGED <<neighbor_list, time_source, packet, dequeued, links, in_callback, slotVars>>

-----------------------------------------------------------------------------
(***************************************************************************)
(* Answering: tsch_tx_process_pending.                                     *)
(***************************************************************************)

\* The head of dequeued_ringbuf is looked at, its sender's packet_sent called.
\* The callback may send packets, change links and the time source.
StartCallback ==
    /\ pc \in {"ready", "drain"} /\ ~in_callback
    /\ dequeued # <<>>
    /\ in_callback' = TRUE /\ pc' = "ready"
    /\ UNCHANGED <<neighbor_list, nbr, time_source, packet, dequeued, links, arg, slotVars>>

\* Fault: the packet is not freed.
CallbackReturns_fault ==
    /\ pc = "ready" /\ in_callback
    /\ in_callback' = FALSE
    /\ pc' = "sweep" /\ arg' = Head(neighbor_list)
    /\ UNCHANGED <<neighbor_list, nbr, time_source, packet, dequeued, links, slotVars>>

\* tsch_queue_free_packet; tsch_queue_free_unused_neighbors starts.
CallbackReturns ==
    /\ pc = "ready" /\ in_callback
    /\ in_callback' = FALSE
    /\ packet' = [packet EXCEPT ![Head(dequeued)] = Free]
    /\ pc' = "sweep" /\ arg' = Head(neighbor_list)
    /\ UNCHANGED <<neighbor_list, nbr, time_source, dequeued, links, slotVars>>

\* Fault: the queue is not looked at.
Unused_fault(d) == /\ d \in Addr
                   /\ d # time_source
                   /\ nbr[d].tx_links_count = 0

\* Always keep time source and virtual broadcast neighbors.
Unused(d) == /\ d \in Addr
             /\ d # time_source
             /\ nbr[d].tx_links_count = 0
             /\ nbr[d].tx_ringbuf = <<>>

\* The neighbour after d in the list, read before d is removed.
IndexInList(d) == SelectInSeq(neighbor_list, LAMBDA n : n = d)

NextInList(d) ==
    IF IndexInList(d) < Len(neighbor_list) THEN neighbor_list[IndexInList(d) + 1] ELSE None

\* tsch_queue_remove_nbr takes the lock; its flush finds an empty queue.  What
\* is freed has no state any more.
Sweep ==
    /\ pc = "sweep" /\ arg # None
    /\ arg' = NextInList(arg)
    /\ IF Unused(arg)
       THEN /\ isr = "idle"
            /\ neighbor_list' = RemoveAt(neighbor_list, IndexInList(arg))
            /\ nbr' = [nbr EXCEPT ![arg] = NewNbr]
       ELSE UNCHANGED <<neighbor_list, nbr>>
    /\ UNCHANGED <<time_source, packet, dequeued, links, pc, in_callback, slotVars>>

\* ringbufindex_get, last: the slot of dequeued_array is taken until here.
FinishPacket ==
    /\ pc = "sweep" /\ arg = None
    /\ dequeued' = Tail(dequeued)
    /\ pc' = "drain"
    /\ UNCHANGED <<neighbor_list, nbr, time_source, packet, links, arg, in_callback, slotVars>>

\* The ring is empty: the process yields, others may run.
Drained ==
    /\ pc = "drain" /\ dequeued = <<>>
    /\ pc' = "ready"
    /\ UNCHANGED <<neighbor_list, nbr, time_source, packet, dequeued, links, arg, in_callback, slotVars>>

-----------------------------------------------------------------------------
(***************************************************************************)
(* The slot interrupt.                                                     *)
(***************************************************************************)

\* tsch_queue_get_packet_for_nbr has a packet.
HasPacket(d, shared) == /\ Listed(d)
                        /\ nbr[d].tx_ringbuf # <<>>
                        /\ shared => nbr[d].backoff_window = 0

\* tsch_queue_get_unicast_packet_for_any: the first in the list.
FirstForAny(shared) ==
    LET i == SelectInSeq(neighbor_list,
                 LAMBDA d : d \in Addr /\ nbr[d].tx_links_count = 0 /\ HasPacket(d, shared))
    IN  IF i = 0 THEN None ELSE neighbor_list[i]

\* get_packet_and_neighbor_for_link: whose first packet the slot may carry.
TargetFor(l) ==
    IF LinkType[l] # "normal" /\ HasPacket(EB, FALSE) THEN EB
    ELSE IF LinkType[l] = "advertising_only" THEN None
    ELSE IF HasPacket(l, l \in Shared) THEN l
    ELSE IF l = BC THEN FirstForAny(l \in Shared) ELSE None

\* Fault: the room in dequeued_ringbuf is not looked at.
StartTx_fault(l) ==
    /\ isr = "idle" /\ l \in links
    /\ TargetFor(l) # None
    /\ isr' = "tx" /\ current_link' = l
    /\ current_neighbor' = TargetFor(l)
    /\ current_packet' = Head(nbr[TargetFor(l)].tx_ringbuf)
    /\ UNCHANGED <<neighbor_list, nbr, time_source, packet, dequeued, links, procVars>>

\* tsch_tx_link up to its first yield.
StartTx(l) ==
    /\ isr = "idle" /\ l \in links
    /\ TargetFor(l) # None
    /\ Len(dequeued) < DeqCap
    /\ isr' = "tx" /\ current_link' = l
    /\ current_neighbor' = TargetFor(l)
    /\ current_packet' = Head(nbr[TargetFor(l)].tx_ringbuf)
    /\ UNCHANGED <<neighbor_list, nbr, time_source, packet, dequeued, links, procVars>>

\* Fault: neighbours we have no link to are left out.
BackoffAtSlotEnd_fault(table, l) ==
    [d \in Dest |->
        IF /\ l \in Shared /\ Listed(d) /\ table[d].backoff_window # 0
           /\ table[d].tx_links_count > 0 /\ l = d
        THEN [table[d] EXCEPT !.backoff_window = @ - 1] ELSE table[d]]

\* tsch_queue_update_all_backoff_windows, at the end of a Tx, shared slot.
BackoffAtSlotEnd(table, l) ==
    [d \in Dest |->
        IF /\ l \in Shared /\ Listed(d) /\ table[d].backoff_window # 0
           /\ IF table[d].tx_links_count = 0 THEN l = BC ELSE l = d
        THEN [table[d] EXCEPT !.backoff_window = @ - 1] ELSE table[d]]

\* A packet that failed is dropped after MAC_MAX_FRAME_RETRIES + 1 attempts.
GivesUp(p) == p.transmissions >= MaxTx

\* Fault: the exponent is not bounded.
NextExponent_fault(be) == be + 1

\* tsch_queue_backoff_inc: the next exponent; the window has one slot more
\* than the random draw, for the decrement at the end of this slot.
NextExponent(be) == IF be + 1 < MaxBE THEN be + 1 ELSE MaxBE

\* update_neighbor_state, without the removal: the backoff (be, window) of a
\* unicast neighbour whose queue is q after the attempt.
BackoffsAfter(n, q, ok) ==
    LET be == nbr[n].backoff_exponent
        w  == nbr[n].backoff_window
        shared == current_link \in Shared
    IN  IF n \notin Addr THEN {<<be, w>>}
        ELSE IF ok THEN {IF shared \/ q = <<>> THEN <<0, 0>> ELSE <<be, w>>}
        ELSE IF ~shared THEN {<<be, w>>}
        ELSE {<<NextExponent(be), x>> : x \in 1 .. 2 ^ NextExponent(be)}

\* Fault: a packet that was dropped is not handed to the process.
EndTx_fault(ok) ==
    /\ isr = "tx"
    /\ LET p == [packet[current_packet] EXCEPT !.transmissions = @ + 1,
                                               !.ret = IF ok THEN "ok" ELSE "fail"]
           n == current_neighbor
           leaves == ok \/ GivesUp(p)
           q == IF leaves THEN Tail(nbr[n].tx_ringbuf) ELSE nbr[n].tx_ringbuf
       IN  /\ packet' = [packet EXCEPT ![current_packet] = p]
           /\ dequeued' = IF ok THEN Append(dequeued, current_packet) ELSE dequeued
           /\ \E bw \in BackoffsAfter(n, q, ok) :
                nbr' = BackoffAtSlotEnd([nbr EXCEPT ![n].tx_ringbuf = q,
                           ![n].backoff_exponent = bw[1], ![n].backoff_window = bw[2]],
                           current_link)
    /\ isr' = "idle"
    /\ UNCHANGED <<neighbor_list, time_source, links, procVars,
                   current_packet, current_neighbor, current_link>>

\* The transmission ends, acknowledged or not: update_neighbor_state, the
\* packet that leaves its queue to the process, the backoff windows.
EndTx(ok) ==
    /\ isr = "tx"
    /\ LET p == [packet[current_packet] EXCEPT !.transmissions = @ + 1,
                                               !.ret = IF ok THEN "ok" ELSE "fail"]
           n == current_neighbor
           leaves == ok \/ GivesUp(p)
           q == IF leaves THEN Tail(nbr[n].tx_ringbuf) ELSE nbr[n].tx_ringbuf
       IN  /\ packet' = [packet EXCEPT ![current_packet] = p]
           /\ dequeued' = IF leaves THEN Append(dequeued, current_packet) ELSE dequeued
           /\ \E bw \in BackoffsAfter(n, q, ok) :
                nbr' = BackoffAtSlotEnd([nbr EXCEPT ![n].tx_ringbuf = q,
                           ![n].backoff_exponent = bw[1], ![n].backoff_window = bw[2]],
                           current_link)
    /\ isr' = "idle"
    /\ UNCHANGED <<neighbor_list, time_source, links, procVars,
                   current_packet, current_neighbor, current_link>>

\* A slot of link l without a transmission: nothing to send, no room in
\* dequeued_ringbuf, skipped for the lock, or missed.  Under the lock the
\* windows are left alone.
PassSlot(l) ==
    /\ isr = "idle" /\ l \in links
    /\ nbr' = BackoffAtSlotEnd(nbr, l)
    /\ UNCHANGED <<neighbor_list, time_source, packet, dequeued, links, procVars, slotVars>>

-----------------------------------------------------------------------------
ChangeLinks == \E a \in Addr : AddLink(a) \/ RemoveLink(a)

AddPacket == (\E b \in Block : MakePacket(b)) \/ SendFails \/ Commit

Traffic == ChangeLinks \/ \E d \in Dest : Send(d)

TxPending == StartCallback \/ CallbackReturns \/ Sweep \/ FinishPacket \/ Drained

EndSlot == \E ok \in BOOLEAN : EndTx(ok)

Next ==
    \/ Traffic
    \/ \E s \in Addr \cup {None} : UpdateTimeSource(s)
    \/ CountLink \/ AddPacket \/ TxPending
    \/ \E l \in Dest : StartTx(l) \/ PassSlot(l)
    \/ EndSlot

(***************************************************************************)
(* Fairness: a call that a process has started goes on, and the interrupt  *)
(* polls the process that answers the senders (IsrRing); a transmission    *)
(* ends; the slots of every link come again and again and, because the     *)
(* lock is only held for moments, are not skipped for ever.                *)
(***************************************************************************)
Spec == Init /\ [][Next]_vars

FairSpec ==
    /\ Spec
    /\ WF_vars(CountLink) /\ WF_vars(AddPacket) /\ WF_vars(TxPending)
    /\ WF_vars(EndSlot)
    /\ \A l \in Dest : SF_vars(StartTx(l)) /\ SF_vars(PassSlot(l))

-----------------------------------------------------------------------------
(***************************************************************************)
(* Properties.                                                             *)
(***************************************************************************)

\* The dequeued packets whose sender has not been called yet.
Unanswered == IF in_callback \/ pc = "sweep" THEN Tail(dequeued) ELSE dequeued

\* Every block of the pool is free or in exactly one place: one queue, the
\* dequeued ring, or the hand of the process that sends or answers it.  No
\* order of enqueueing, retrying, dropping, answering and freeing neighbours
\* leaks a block or frees one that is still queued.
PacketsAccounted ==
    LET Queued(d) == ToSet(nbr[d].tx_ringbuf)
        called == IF in_callback THEN {Head(dequeued)} ELSE {}
        sending == IF pc = "commit" THEN {arg} ELSE {}
        answered == ToSet(Unanswered) \cup called
    IN  /\ {b \in Block : packet[b] # Free} =
                (UNION {Queued(d) : d \in Dest}) \cup answered \cup sending
        /\ \A d \in Dest : /\ IsInjective(nbr[d].tx_ringbuf)
                           /\ Queued(d) \cap (answered \cup sending) = {}
                           /\ \A e \in Dest \ {d} : Queued(d) \cap Queued(e) = {}
        /\ IsInjective(Unanswered)
        /\ ToSet(Unanswered) \cap called = {} /\ answered \cap sending = {}

\* While a transmission is in progress its packet stays the first of its
\* neighbour's queue, the neighbour stays in the table and dequeued_ringbuf
\* keeps the place found free when the slot began: what the interrupt removes
\* at the end is what it sent.
TxHeld ==
    isr = "tx" => /\ Listed(current_neighbor)
                  /\ nbr[current_neighbor].tx_ringbuf # <<>>
                  /\ Head(nbr[current_neighbor].tx_ringbuf) = current_packet
                  /\ Len(dequeued) < DeqCap

DequeuedRing == INSTANCE BoundedFifo
                WITH q <- dequeued, Item <- Block, Capacity <- DeqCap
TxRing(d)    == INSTANCE BoundedFifo
                WITH q <- nbr[d].tx_ringbuf, Item <- Block, Capacity <- RingCap

\* ringbufindex has no lock: each ring needs one side that only puts, and only
\* when there is room, and one that only gets, when there is something.  Over
\* all the callers, the interrupt is the producer of dequeued_ringbuf and the
\* consumer of every tx_ringbuf, the processes are the others, and nobody
\* empties a ring in any other way, not even by clearing its neighbour.
RingsUsedAsFifos ==
    [][/\ dequeued' # dequeued =>
             IF isr' # isr THEN \E b \in Block : DequeuedRing!Put(b) ELSE DequeuedRing!Get
       /\ \A d \in Dest : nbr'[d].tx_ringbuf # nbr[d].tx_ringbuf =>
             IF isr' # isr THEN TxRing(d)!Get ELSE \E b \in Block : TxRing(d)!Put(b)]_vars

\* What a neighbour is needed for: to be told the time by, to keep packets
\* that wait for a slot or are in the air, and the number of links to it.
InUse(d) ==
    \/ d \in {EB, BC, time_source}
    \/ nbr[d].tx_ringbuf # <<>> \/ nbr[d].tx_links_count # 0
    \/ isr = "tx" /\ current_neighbor = d

\* A neighbour leaves the table only in a state in which it is of no use any
\* more, whatever callbacks and slots have done since the list was looked at;
\* and who becomes the time source is in the table from then on.
NoneFreedInUse ==
    [][/\ \A d \in Dest : Listed(d) /\ ~Listed(d)' => ~InUse(d)
       /\ time_source' # None => Listed(time_source)']_vars

\* A sender that is told of a failure has had all its attempts, and one that
\* is told of a success needed no more than those.
AttemptsHonoured ==
    \A i \in DOMAIN Unanswered :
        LET p == packet[Unanswered[i]]
        IN  p.transmissions = MaxTx \/ (p.ret = "ok" /\ p.transmissions < MaxTx)

\* What struct tsch_neighbor says of tx_links_count, "How many links do we have
\* to this neighbor?" (one link per neighbour here).  The counter decides which
\* slots a packet may use, which slots count down a backoff, and whether the
\* neighbour may be freed.
CountIsLinks ==
    pc = "ready" => \A a \in Addr : Listed(a) =>
        nbr[a].tx_links_count = IF a \in links THEN 1 ELSE 0

\* The elements of s that are in S, in their order.
Among(s, S) ==
    LET among[i \in 0 .. Len(s)] ==
            IF i = 0 THEN <<>>
            ELSE IF s[i] \in S THEN Append(among[i - 1], s[i]) ELSE among[i - 1]
    IN  among[Len(s)]

\* Per destination, what is queued behind what was dequeued.
Pending == [d \in Dest |->
              Among(Unanswered, {b \in Block : packet[b].dest = d}) \o nbr[d].tx_ringbuf]

\* The packet whose sender is being called.
Answering == IF in_callback THEN Head(dequeued) ELSE None

Mac == INSTANCE MacService WITH pending <- Pending, answering <- Answering

\* The tables, rings, retries and callbacks implement the service of the MAC:
\* every accepted packet leaves by one call of its sender's callback, in order
\* per destination, and its block is not reused before.
AnswersInOrder == Mac!Spec

\* Some link of the schedule carries beacons.  (The schedule of the firmware
\* with WITH_CTC has none: the first beacon stays in its queue for good.)
BeaconsHaveSlot == \E l \in Fixed : LinkType[l] # "normal"

\* Unless the senders and the schedule keep changing things for ever, every
\* packet is answered in the end and its block freed: no packet waits for a
\* link that never comes or a backoff that never ends.
AllAnswered ==
    \/ []<><<Traffic>>_vars
    \/ <>[](\A b \in Block : packet[b] = Free \/ (packet[b].dest = EB /\ ~BeaconsHaveSlot))
=============================================================================
