# A TLA+ model of DIME

DIME is a low-power wireless network with a cross-technology downlink. Its
nodes are TelosB motes that run Contiki with a TSCH MAC (`telosb-testbed/`,
the TSCH code is in `core/net/mac/tsch/`); a LoRa radio (`lora-ctc-transmitter/`)
keeps the motes synchronised with pulses that they can only sense as energy.
This directory models the part of it that is the program's own: the TSCH MAC,
its slot interrupt, its queues and its schedule, the synchronisation across
the two technologies, the downlink relay, and the parts of Contiki that the
slot interrupt calls.
Below, `tsch.c:100` is `src/telosb-testbed/core/net/mac/tsch/tsch.c`, line 100.

The build that is modelled is the one of `examples/tsch-testbed/project-conf.h`:
`WITH_CTC` and `WITH_RPL`, Orchestra sender based (`ORCHESTRA_SENDER_BASED`),
8 flows, 16 packet buffers, 6 neighbour queues (two of them virtual), 32 links,
input ring of 4 slots, `MAC_MAX_FRAME_RETRIES` 8, `MAC_MAX_BE` 4. Where another
build option changes the control flow (beacons in their own slot, shared unicast
links) a run has it as well.

## How the program executes

There is one CPU and no threads. Two kinds of code interleave:

* **Contiki processes**, cooperative: one runs until it yields. They are called
  by `process_run` in the main loop of `platform/sky/contiki-sky-main.c`, which
  puts the CPU to sleep when nothing is to be done.
* **The slot interrupt**: `tsch_link_operation` and its sub-protothreads
  `tsch_tx_link` and `tsch_rx_link` run inside the rtimer interrupt. They run in
  chunks: `TSCH_SCHEDULE_AND_YIELD` arms the timer and returns from the
  interrupt, the next interrupt goes on. A chunk is atomic with respect to the
  processes; between two chunks the processes run.

So every interleaving is "the interrupt strikes between two steps of a process",
never the other way round, and an action of the interrupt is one chunk while an
action of a process is one access to what both share.

## Inventory

| Component | State | Operations | Talks to | Hard because |
|---|---|---|---|---|
| `ringbufindex.c` | two indices | peek_put, put, peek_get, get, full, empty | every queue below | written by the interrupt on one side, the process on the other, no lock |
| Mailboxes `input_ringbuf`, `dequeued_ringbuf` (`tsch.c:197-228`) | ring and slots | reserve/fill/commit in a timeslot; peek/copy/get in `tsch_*_process_pending` | `process_poll`, main loop | slot reserved long before it is committed; beacon parsed after removal; lost wake-ups |
| The lock (`tsch.c:280-344`) | `tsch_locked`, `tsch_lock_requested`, `tsch_in_link_operation` | get (busy wait), release | schedule, queue, ASN correction | interrupt tests one flag only; early returns |
| `tsch-queue.c` | neighbour list, queue, backoff and counters of each neighbour, packet pool | add/remove/free neighbours, add/get/remove packets, backoff | senders, `tsch_tx_link`, schedule | pools run out in the middle of a call; freeing while others queue |
| Transmit path (`tsch.c:460-936`, `1734-1753`, `1889-1942`) | current packet and neighbour | send, pick a packet for a link, attempt, retry, drop, call back | queue, dequeued mailbox | once-only answers, order, backoffs that must end |
| `tsch-schedule.c` | slotframes, links | add, remove, next active link | lock, counters of neighbours | two-step updates; ties between slotframes; `uint16_t` arithmetic |
| Slot engine (`tsch.c:346-434`, `1396-1718`, `1956-1981`) | ASN, `current_link_start`, `associated`, `last_sync_asn` | slot loop, associate, leave, reset | everything | missed deadlines, resynchronisation, time corrections from processes |
| Receive path (`tsch.c:517-581`, `1191-1394`, `1755-1871`) | duplicate window, join priority | receive, ACK, pass up, parse beacons | mailbox, time source, ASN | repetitions after lost ACKs, one-byte numbers that come round, corrections racing the interrupt |
| Downlink relay (`tsch.c:285-299`, `961-1039`, `1236-1255`, `orchestra.c:355-475`) | per flow a pending number, per slot a round robin | arrive, load, send, receive, acknowledge | application numbering, flow tables | lost messages and acknowledgements, overwriting across a yield, starvation |
| Orchestra (`orchestra.c:74-352`) | links with timestamps | add, renew, review, new time source | schedule, sniffer callbacks | each end of a flow has a link of its own, and they may part; timestamps in an ASN that starts again |
| CTC on the node (`tsch.c:1041-1189`, `1507-1521`) | digit accumulator, miss counter | decode, sync, keep sync | slot engine | missing digits, five misses stop the node |
| CTC transmitter (`lora-ctc-transmitter/main.cpp`) | ASN, number being sent | measure, encode, frame control | the air | must agree with every node's slot table, which is another table |
| Contiki kernel (`process.c`, `etimer.c`, `ctimer.c`, `rtimer.c`, `list.c`, `memb.c`) | event queue, timer lists, poll flags, pools | post, poll, run, set, stop, expire | all | posts and timers set from the interrupt, full queue |
| Frames, RPL coupling, log, application, drivers | - | encoding, callbacks, output | - | mostly pure or hardware |

What makes them correct, component by component, is what the properties below
state; the full list of what can go wrong, each at its line, is `hazards` in
`PROJECT.json`.

## Modules

`X.tla` is the model, `MCX.tla` and the `.cfg` files its instances for TLC,
`XProofs.tla` its proofs (those of `IsrRing` and `Timers`, the two components whose data the slot interrupt
shares with the processes, are in `InterruptProofs.tla`, those of `DedicatedSlot` in `UnicastProofs.tla`), and `Facts.tla` the lemmas on numbers and sequences that
several proofs need. Operators whose name ends in `_fault`, `_unmasked` or
`_swapped` are wrong variants of the definition that follows them; they take no
part in any specification and serve to see that the properties notice them.

**`RingBufIndex`** has the operators of `ringbufindex.c` on a record of the two
indices. `& mask` is written as a conditional (linear arithmetic, so that proofs
about every size are possible); an assumption of `MCIsrRing` compares it with the
bitwise operator for every ring size up to 16.

**`IsrRing`** is a mailbox: `ring`, `array`, the interrupt's place in its timeslot
(`isr`, `put_index`), the process's place in its loop (`proc`, `get_index`, `copy`)
and the two poll flags. `ReserveSlot`, `FillSlot`, `AbandonSlot`, `CommitSlot` are the
chunks of `tsch_rx_link` (`tsch_tx_link` uses `dequeued_ringbuf` the same way);
`StartPoll`, `CallPolled`, `GoToSleep` are the steps of the main loop at which an
interrupt makes a difference; `PeekGet`, `CopyItem`, `RemoveItem`, `UseItem`, `Drained`
are the loop of `tsch_rx_process_pending`, and `SynchPost` the direct call by
`tsch_reset`. Its abstract specification is **`BoundedFifo`**; `RingIsFifo` is the
refinement, with `Contents` (the committed slots in order) as the mapping.

**`TschLock`** has the three flags, the interrupt's `current_link` and
`current_neighbor`, the link and neighbour lists with the allocation state of their
blocks, and one process that is somewhere inside a call. Each locked section of
the code is one sequence of actions: `AllocLink; InitLink`, `AllocLinkFails`,
`AbortNextLink; UnlinkLink; FreeLink`, `AddNbr`, `UnlinkNbr; ...; FreeNbr`, `SetAsn`.
A call that takes the lock more than once is that many episodes. The next active
link is any link of the schedule, which is all the lock's correctness needs.
`SetAsnWithoutLock` is the branch of the ASN correction that did not get the lock
and releases it all the same.

**`TschQueue`** is the transmit side: `neighbor_list` in list order, per neighbour
its queue, link counter and backoff, the packet pool, `dequeued_ringbuf`, the links,
the process (`pc`, `arg`, `in_callback`) and the slot in progress. Rings are sequences
here, which `IsrRing` justifies for one producer and one consumer (`RingIsFifo`) and `RingsUsedAsFifos` shows to be how all callers use them, and a change of the table waits for the end of a
transmission, which `TschLock` justifies. A `packet_sent` callback is a period in which
the usual calls may happen (`in_callback`), as RPL and Orchestra make them. Its
abstract specification is **`MacService`**: accept, answer in order per destination
with one callback at a time, never reuse a buffer before. `Pending` and `Answering` are
the mapping, `AnswersInOrder` the refinement.

**`Downlink`** derives the tables of `dataflow_init` and `add_downlink` from the
paths of the flows and then runs the relay on all nodes: `Arrive` (`log_ulpkt` at the
gateway), `StartSlot` (`dl_flow_sel`, `dlpkt_gen`, up to the yield at `tsch.c:1251`),
`Exchange` (`downlink_tx` and `downlink_rx`, message heard or not, acknowledgement
heard or not).

**`TschSchedule`** has the arithmetic the slot engine is built on, without state: the ASN
in its two words with the code's carries (`ASN_INC`, `ASN_DEC`, `ASN_DIFF`, and `ASN_MOD` with
the precomputed remainder), `time_to_timeslot`, `NextActiveLink` (of two slotframes with a
link in the same slot the one added first wins), and `check_timer_miss` on a clock that wraps. `ActiveAt` is the reference: a link is due in slot
number n if n modulo the size of its slotframe is its timeslot. The words and the clock have
a modulus as a constant instead of 32, 8 and 16 bits.

**`SlotEngine`** runs it in time. `now` is real time; the node has `current_asn`,
`current_link_start` in the 16-bit clock, `current_link`, `last_sync_asn`, `associated`, the task of
`rtimer.c` (`task`) and the compare register (`compare`), which are not the same thing.
`JoinFromEb`, `JoinFromCtc` and `StartNetwork` are the branches of `tsch_associate`; `FirstSlot` and
`NextSlot` are one iteration of the loops in `tsch_process` and `tsch_link_operation`, of which
a missed deadline makes another follow; `StartSlot`, `SkipSlot`, `StopEngine` are the interrupt,
`EndSlot` and `CheckSync` what it does before the loop; `AddLink`, `RemoveLink` are
the locked sections of the schedule that matter to it; `LeaveForPriority` and `Reset` are leaving by a beacon.
`TimeSourceRenumbers` is the network: a time source that joined again under other slot
numbers.

The correction of the ASN by a beacon (`tsch.c:1761-1851`) is a sequence of steps, since its lock keeps a slot from being used (`:1406`)
but not the interrupt from comparing the two numbers (`:1446`) and counting (`:1477`): `BeginCorrection`
(the beacon and the lock), `AbortNext` (`current_link = NULL`), `ReadAsn` and `WriteAsn` (the read and the write
of `ASN_DEC` or `ASN_INC`), `WriteSync` (`last_sync_asn`), `Release`. The interrupt may come between any two of them.
Beacons wait in `input_ringbuf`, each with the difference to the number of the slot it came in, up to `MaxBeacons`; one that came before a correction is
applied after it, so that the same difference is taken twice and the next beacon corrects it back.
Where the code has two moves of 16 bits for a word of 32 the model has one, and `ls4b` and `ms1b` are written
together; so is `last_sync_asn`.

Ghosts: `epoch` and `network_epoch` are when slot 0 began in the numbering of the
node and of its time source, `synced` the slot of the last synchronisation, `miscounted` that a correction has written a number
in place of one that the interrupt had counted up since the read, in this stay in the network. Three
simplifications: an iteration of the loop takes at least `RTIMER_MIN_DELAY` (a missed deadline
is followed by that much time, so that the loop cannot spin); clocks do not drift; and the
yields inside a slot are one period `op = "slot"` of up to a slot's length. `Reset` also clears
what nobody reads until the next joining. `QuickRejoin` lets a node find a beacon while the
timer of its last slot is pending, `MayMiscount` lets the interrupt come between the read and the write of a
correction; both are FALSE in `slot_engine` (see the observations below), the latter for the number of states only:
what is proved does not depend on it.

**`CtcSync`** is the transmitter and a node side by side, one slot per step. The
transmitter has its `phase` (`measure`, `pause`, `frames`), its `asn` and the `payload` whose digits
it sends; `FrameOf` and `Pulse` are `framecontrol` and `num2pay`, in both builds
(`encoding`), `num_after` and `Digit` the repeated division by which the latter takes a number apart.
`Power` counts what the digits can tell; it is a recursive function, so that proofs may use
it, and `MCCtcSync` compares it with the exponential. The node goes through `ctc_init` (`FindThreshold`, `DefaultThreshold`, `AwaitQuiet`),
`ctc_first_sync` (`Listen`) and its slots (`KeepSync`, `SkipSync`, `OtherSlot`); it has
`current_asn`, `last_sync_asn`, `sync_index` and `cnt_miss`, and chooses its link with
`NextActiveLink` of `TschSchedule` and the meaning of the slot with `current_slot`, as the code does,
from two different tables. A pulse arrives, arrives blurred, or is missed. Ghosts: `start` is
where in the transmitter's count the node began, `digits` how many digits it has heard
since the bell, `skipped` the pulses whose slot it did not run.

**`Unicast`** is one flow from a node A to a node B at the level of packets: A's sequence
numbers, attempts and answer (`SendToB`, `SendElsewhere`, `Attempt`, `AttemptLost`, `AnswerFromB`), B's mailbox and
window of the last numbers (`InputFromA`, `InputFromOther`). What `TschQueue` and
`SlotEngine` have in detail (queues, backoff, slots) is one attempt here. A's broadcasts, which enter
B's window as well, are left out: they only move the window on, as the packets of others do. Ghosts: how often
each packet was accepted and how many others since, and whether a number has been
used again.

**`DedicatedSlot`** is what Orchestra makes of the same flow: the link that A and B each have in A's
timeslot (`dedicated`), with the two timestamps of `l->data` or without, each known by its age, or by being from before a
restart of the ASN (`Ahead`) or never written (`Zero`). The two ends make, renew and review their links by different events
(`SentToB`, `SentToOther` at A, `ReceivedFromA` at B, `OtherData` at either), and nothing
tells one side of the other; `Transmit` and `GiveUp` are what becomes of a packet, which B hears in the dedicated slot
only if it has a link there. `Renewed` is what a success makes of the link (`orchestra.c:200-226`, `262-290`), `Reviewed` is
`orchestra_delete_old_links`. `Rejoin` is a node that leaves and joins again: with `WITH_CTC` this
goes through `ctc_first_sync`, which does not call `orchestra_callback_joining_network` (`tsch.c:1519` is commented out) and
starts the ASN at 133 anew (`:1513`), so that links stay, and the timestamps they have lie ahead of the ASN and count as outdated
(the difference is unsigned); what `memb_alloc` returns for a link made later may hold such a stamp too, since nothing
clears it. The review may then find one of the two stamps outdated and not the other, takes the option
of the link, and with it `l->data` (`orchestra.c:130-147`). Left out: the wrap of the ASN's low word;
that a review ends early when it has removed the first link of the list or replaced one; a replacement that fails for want of
a link; and the time between leaving and joining again, in which the node neither sends nor receives.

**`Timers`** has `ctimer.c`, `etimer.c` and the event queue of `process.c`, one access to a list or
to an index per action: `Set`, `Search`, `Push`, `ListRemove`, `ListAppend`, `ListTail`, `Link` (`ctimer_set` with
`add_timer` and `list_add`), `Stop`, `Seek` (`etimer_stop`), `StartScan` to `UnlinkExpired`
(`etimer_process`), `TakeEvent` to `Callback` (`do_event` and `ctimer_process`). The lists are heads
and next pointers, so that a wrong interleaving really loses a timer or closes a
cycle. The interrupt is `ScheduleKeepalive` (`tsch_schedule_keepalive`) and `PostLeave`; with
`StrikesInside` it comes between any two of these steps, as in the program, otherwise
between operations.

## What the runs show

| Run | Instance | States | Result |
|---|---|---|---|
| `isr_ring` | ring of 4, two items | 13,920 | all six properties hold |
| `tsch_lock` | 3 links, 2 neighbours | 24,295 | all five properties hold |
| `lock_leak` | the same | - | a failed allocation of a link leaves the lock taken |
| `tsch_queue` | 1 neighbour, 2 packets, rings 2 and 1, 2 attempts, `MaxBE` 1, shared unicast link, own beacon slot | 43,898 | all eight properties hold, with liveness |
| `link_count` | 2 neighbours for 1 free entry, rings 1 and 2, beacons in the common slot | - | the link counter parts from the schedule when the table is full |
| `slot_engine` | slotframes of 2 and 3 slots, a fixed link and one that comes and goes, 8 x 3 slot numbers, clock of 8 slots | 1,358,822 | all six properties hold |
| `downlink` | flows gateway-2 and gateway-2-3-4, numbers up to 2 | 7,020 | all five properties hold |
| `ctc_sync` | frames of 5, 4 and 3 slots, a bell and two binary digits, 2 misses, threshold of 16 slots | 1,103,981 | all four properties hold |
| `unicast` | 2 packets, 4 sequence numbers, window of 3, 2 attempts, mailbox of 2 | 389,636 | both properties hold |
| `dedicated_slot` | links outdated after 2 steps, one packet waits at B | 119,542 | both properties hold, with liveness |
| `timers` | the keep-alive timer and one other, event queue of 2 | 166,001 | both properties hold, with liveness |
| `timer_isr` | 3 timers, interrupts anywhere | - | a timer that the interrupt sets while a process is in `list_add` is lost |

Properties, by what they are about:

* *Mailboxes.* `NoSlotShared`, `ReservationHolds`, `RingIsFifo` (and `CopyIntact`, which is proved only): no frame is
  overwritten, lost, duplicated or read half-written, although a beacon is parsed
  after its slot has been given back. This works because the one slot the ring
  never uses is the one just removed. `AsleepOnlyWhenEmpty`,
  `CommittedIsTaken`: no lost wake-up, as a state and as what must happen.
* *Lock.* The interrupt looks at the request only, so that a reception may start
  while the lock is taken. `CurrentLinkUsable`, `ListsReadable` and `TxExcludesLock` say
  what it does give and what the rest relies on. `LockGranted`: the busy wait ends.
* *Queue and transmit path.* `PacketsAccounted` (each buffer free or in exactly one
  place), `TxHeld` (the packet that leaves the queue is the one sent, and has a place to
  go), `NoneFreedInUse` (a neighbour leaves the table in a state in which it has no packet and no link, is not the time source and not
  being transmitted to; looked at before the step, which is what frees it), `CountIsLinks`, `AnswersInOrder`, `AllAnswered`.
  `AttemptsHonoured` (who gives up has made all attempts) is proved only. `RingsUsedAsFifos`: the interrupt is the only producer of `dequeued_ringbuf` and the only
  consumer of every `tx_ringbuf`, the processes are the others; nobody clears or flushes a ring that is not empty.
* *Slot engine.* `LinkMatchesAsn`: the link in use is one that the schedule has for the number reached, although the number is
  corrected step by step while the interrupt counts. `OnTime`: the timer goes off when the slot of this number begins,
  after missed deadlines, wraps, corrections and skipped slots; but for a node that has miscounted, as the property says. It includes that the timer is
  armed in every state between two slots (`AlwaysArmed`), without exception.
  `NoActiveSlotPassed`: the choice of the next link passes over no slot of the schedule.
  `LeavesOnlyWhenStale`: a correction of the ASN is no reason to leave, with two exceptions that it names: the moment between the
  two assignments of a correction, which the run has, and a number that has been miscounted. `KeepsWaking`: the chain
  of interrupts, each of which arms the next, does not break.
* *Downlink.* `OrderedAlongPath`, `NeverBackwards`: lost acknowledgements repeat
  messages but never put an older one behind a newer one. `MessagesKept`: a message is
  only dropped for a newer one or when the next hop has it, with one exception that
  the property names: a message that arrives while an older one of its flow is loaded
  is forgotten when the older one is acknowledged. `NewestDelivered`: what is pending
  between two slots arrives.
* *Cross-technology synchronisation.* `SlotsAgree`: transmitter and node mean the same by
  every slot, although each has its own table of frames, its own order for slots on
  which several fall, and its own count; a node that began at a later bell has the
  slots for synchronisation in common, but not the other frames. `AsnDecoded`: a superframe heard
  in full gives the transmitter's slot number. `HaltsBeforeLeaving`: of the two ways to count
  missed pulses the one that halts the node acts first, unless slots were skipped.
* *Unicast flow.* `DeliveredOnce`: repetitions are not passed up and new packets are
  not taken for repetitions, but for the cases that a window of limited length and
  numbers of one byte allow, which it names.
* *Dedicated slot.* `LinksExpire`: at a node that has not joined again every link has its timestamps, so that a review
  will end it. `Reconnects`: when the two ends have parted
  and A sends in a slot where nobody listens, its failures lead it back to the common slot; but for a link that joining again has
  left without timestamps.
* *Timers.* `TimersLinked`: between two operations no timer is lost from the lists or
  left in them, also when it is set again while its event is queued or the queue
  is full. `CallbackCalled`: what was set is called back.

### Bounds

* A ring of 4 is the firmware's input ring and the smallest with all positions of
  reserved, read, empty and last-removed slot; the proofs cover every size.
* Three links make "the one scheduled, the one being removed, another" distinct and can
  be exhausted, which `AllocLinkFails` needs; two neighbours make "the one in
  transmission, the one being removed" distinct. The proofs cover every number.
* In `TschQueue` every pool can be exhausted in some run: packets, queue and dequeued
  ring in `tsch_queue`, neighbour table in `link_count`; what must hold with a full table is proved. Two attempts are one retry;
  `MaxBE` 1 gives windows of 1 and 2 slots. There is one link per neighbour, where the
  sender-based schedule has one Tx link in all.
* `SlotEngine`: 8 values of the lower word and 3 of the upper make the ASN carry twice
  before it returns to zero at 24, a common multiple of both slotframes and of the clock's
  period, so that behaviours never end and no counter needs a cap. In the code a wrap of the
  40-bit ASN is thousands of years away; a period that is not a multiple of the slotframes
  would only add that case. The slot of two ticks with a minimal delay of one and a slot that
  may last until the next one begins (`MaxBusy`) give deadlines that are met, just met and
  missed. The time source renumbers once (`NetworkShift`), by two
  slots; the beacon that waits while this is corrected is applied after it and turns the difference round, so that there are corrections ahead and back; `Threshold` 3 is
  shorter than the period of the ASN and longer than the distance between two links.
* `Downlink`: a flow of one hop and one of three share the first hop, so that a node is
  destination of one and forwarder of the other; numbers 0, 1, 2 give "none", an old and
  a new message. The number is a counter without wrap (`MaxSeq`).
* `CtcSync`: 5, 4 and 3 are coprime in pairs, as 397, 101 and 31 are, so that all
  coincidences occur within 60 slots, which is also the period of the digits (two binary ones
  and the bell in frames of 5: 4 x 3 x 5). The
  counters run modulo this period and behaviours never end; a node that begins at
  number `FirstAsn` has the offset that `FirstSlip` makes up for (the program: 133, "unknown offset",
  taken to be right). Two misses halt the node and three frames are within the threshold, as five
  misses and the threshold of the program are; the slots skipped on top of that let it leave.
* `Unicast`: four numbers and a window of three let a number come round while it is
  still remembered; two packets in B's mailbox and a second attempt make copies that wait there
  and one in the air. A has one packet for B at a time; others take numbers in between.
* `DedicatedSlot`: a timestamp of one step can be fresh, old, and outdated but not yet reviewed, and
  each node has one link in the slot. One packet for B at a time, of which copies may be repeated.
* `Timers`: with two timers, each of head and tail of a list can be the timer being moved or
  the other one; two events fill the queue. Safety has also been checked once with three
  timers (9.4 million states), which is too long for a routine run, and is proved for any number.

### Fairness

* Processes: a process that has started a call goes on (`WF` on its steps), since the
  main loop runs whenever the interrupt does not and every chunk of the interrupt is
  finite. Nothing is assumed about when calls are made, nor, in `IsrRing` and `TschLock`,
  that timeslots start at all; a timeslot in progress ends (`WF(EndSlot)`), because each
  chunk arms the timer of the next.
* `SlotEngine`: `WF(Tick \/ Engine \/ FirstSlot \/ WriteAsn)`: time passes and the processor executes what
  is due; as time is bounded wherever code is due, one condition is enough. `WriteAsn` is among it because
  the interrupt waits for it when `MayMiscount` is FALSE. Nothing is
  asked of the network: a node that hears nothing leaves, which `KeepsWaking` allows.
* `TschQueue`: the slot of every link recurs, and since the lock is held for moments only
  it is not skipped for ever (`SF` on `StartTx` and `PassSlot`). Attempts may fail for ever: the
  packet is dropped after its last one. `AllAnswered` is about periods in which senders and
  schedule rest.
* `Downlink`: slots recur, and an exchange that is tried again and again works some time
  (`SF(Works)`), per hop and flow. Without that last assumption nothing can be promised on
  a lossy channel.
* `CtcSync`: none, it has no liveness: every pulse may be missed.
* `Unicast`: none, it has no liveness.
* `DedicatedSlot`: time passes, slots come and processes run (`WF`); as in `Downlink`, an attempt that B
  could hear is not lost every time (`SF(Transmit(TRUE))`). `Reconnects` is conditional on A sending
  data again and again, since nothing else reviews its link, and on A not joining again for ever.
* `Timers`: a process in an operation goes on and time passes (`WF`); `process_run` serves a poll
  before events and events in order, so that neither waits for ever however busy other
  processes are (`SF(StartScan)`, `SF(TakeEvent)`). `CallbackCalled` excludes a timer that is set
  again and again, and a queue that is full each time the scan looks.

### Disagreements found

`findings` in `PROJECT.json` quotes both sides. In short: `tsch_schedule_add_link` keeps the lock when
there is no free link (nothing that needs the lock works any more);
`tx_links_count` parts from the schedule when the neighbour table is full (the counter
decides where packets may go, and wraps to 255 on removal); and `ctimer_set` is called in
the slot interrupt, on lists that processes change without masking it.

Observations without a run, met while modelling:

* A reception may start while the lock is taken, against the comment at `tsch.c:306`: the interrupt tests the
  request flag only. `CurrentLinkUsable` and `ListsReadable` show that nothing depends on it.
* The lock of a correction keeps the interrupt from using the slot, not from counting it, although the comment at `tsch.c:1835` wants to "make sure no link
  operation inteferes with us". An increment between the read and the write of the ASN (`tsch.c:1843`, `1846`) is undone, and number and time part by
  it until a later beacon corrects it; with `MayMiscount = TRUE` a trace of some 25 states leads to where `OnTime` needs its exception. Between the two
  assignments (`tsch.c:1846-1848`) the check at `:1446` compares the new number with the old time of synchronisation, and a node that is
  synchronised leaves; `slot_engine` reaches this, and `LeavesOnlyWhenStale` needs its exception.
* Every beacon that waits is corrected for by its own difference (`tsch.c:1833`): two that came before the correction
  take it twice, and the next one takes it back.
* `rtimer_set` on a pending task replaces the task and not the hardware's time (`rtimer.c:84`): a node that
  leaves and joins again before its last timer has expired is woken at the old time. `SlotEngine`
  shows it with `QuickRejoin = TRUE`, where `OnTime` fails.
* `tsch_reset` runs without the lock, also in the middle of a slot, which then goes on with null
  pointers for its packet, neighbour and link (`tsch.c:1711-1714`, used from `:906` on).
* With `WITH_CTC` no link carries beacons, so the first beacon the beacon process queues occupies a buffer
  for good (`AllAnswered` names it).
* Message number 0 of each flow, the application's first, is never relayed.
* `ringbufindex_get` returns the slot removed last time, not the one its comment (line 87)
  names; no reachable caller uses the value.
* A coordinator passes `check_timer_miss` a reference that lies ahead (`tsch.c:1552`, against the comment at 368): its
  first slot has the number it would have one round of the clock later, harmless for
  the node that defines the numbering.
* The ASN that a node assembles from the digits is printed and never used: a node counts from 133 whichever
  bell it hears first. The transmitter as built (`ASN_ENCODING` 0) sends no digits, and then the number is 0; with
  digits, one that was missed is not noticed, and the bell reports the wrong number as if complete.
* Where the common slot and a dedicated unicast slot coincide, the node uses the unicast link, and whoever
  sends to it in the common slot is not heard.
* Only data packets review A's link: a node whose traffic is all ICMP keeps an old Tx link (early
  return in `orchestra_packet_sent`).
* Joining again renews no timestamp in this build (`tsch.c:1519`), although `orchestra.c:88` wants "Old links remain active for
  DEDICATED_SLOT_LIFETIME". The stamp in use lies ahead of the new ASN, the other may not, and the review then replaces the link
  (`orchestra.c:130-147`), which loses its data; a success renews the option and not the data, so that the link never expires
  (`:121`, `:286`). If it is A's link to B and B's has run out, A transmits for ever where nobody listens: without
  its third condition, `Reconnects` is violated this way.
* A timer that is set again while its event is queued is called back by the old event, early.
* The result of `process_post` at `tsch.c:1453` is ignored: with a full event queue `tsch_process` does not
  learn that the node has left. The interrupt's post between the two assignments of `do_event`
  (`fevent`, `nevents`) writes behind a gap, so that one event is repeated or lost.

## What is proved

All theorems are for every value of the constants that satisfies the named assumptions, which TLC evaluates for the
instances of the runs. Every invariant and every action property of the passing runs, and both refinements,
are stated by a theorem. In each module `IInv` is the inductive invariant; each action, or group of
actions, that can disturb it has a lemma of its own, and `Invariance` combines them.

`InterruptProofs`, first part: `IsrRing` (assumption: `Mask` is a positive natural number). The invariant `IInv`
adds to `TypeOK` where the process's slot lies relative to the indices at each point of
the loop: it is the oldest slot until the removal, and the slot just before the oldest
after it. The latter is why it is needed: `NoSlotShared` alone is not inductive, because
it says nothing of a slot that the interrupt may reserve next. Lemmas on `RingBufIndex`
say what put and get do to the sequence of slots; the theorems are `TypeCorrect`,
`NoSlotSharing`, `CopiesIntact`, `ReservationsHold`, and `RingRefinesFifo`: initial states map to
the empty queue and every step to a put, a get or a stutter. `NeverAsleepOnItem` has an invariant of its own, `WakeInv`: while
an item waits, the process is in its drain loop or both poll flags are up, the global one possibly taken by the scan
under way; and no CPU sleeps with the global one up.

`InterruptProofs`, second part: `Timers` (assumption: finitely many timers, an event queue of at least one place). `TimersLinked` speaks of
lists between two operations, in terms of what can be reached from their heads; pointers are changed one at a time in
between. The invariant `TimersInv` therefore says which sequences without repetition the two lists stand for
(`Chain`), at every point of every operation: where in a sequence a walk is and what it has passed (`Walked`, `WalkedBehind`), so that
what it takes out is behind the place it remembers; which timer is pending and not yet, or no longer, in
`timerlist` (`TimerlistInv`); what `ctimer_list` lacks of the timers owed a call, which is at most the one being set or
called (`CtimerListInv`); and that each of those is pending, or its event is queued or in hand (`EventsInv`). `TimersInvariance` has
one lemma per action. The lemmas on lists say what a pointer operation does to the sequence: `UnlinkedChain`, `LinkedChain`,
`PushedChain` for the steps, `RemovedChain`, `AddedChain`, `PushedWhole` for the whole operations of the interrupt, and `ChainListed`,
that `Linear` and `Listed`, which follow pointers as often as there are timers, see exactly the sequence. `TimersAlwaysLinked` has the
hypothesis `~StrikesInside`, without which the property is false: with the counterexample of `timer_isr` it says that
interrupts inside operations, and nothing else (a full event queue, a timer set again or stopped while its event is queued), are what loses
timers.

`TschLockProofs` (assumption: the null values are no links and no neighbours). `IInv` has a
part for the flags at each program point, one for the links (only the one being
initialised is not ready, only the one being removed is no longer scheduled) and one
for the neighbours (what was found before asking for the lock still holds when it is
taken). `TypeCorrect`, `CurrentLinkNeverDangles`, `ListsAlwaysReadable`,
`TransmissionExcludesLock` follow.

`TschQueueProofs` (assumptions: the virtual addresses are no nodes, the rings have room for one packet and the table for
the two virtual neighbours). `IInv` has six parts beside `TypeOK`: what the process is doing and whether a callback
may run then (`ProcessInv`), who is in the table and that the others have no state (`TableInv`), that the packet in
the air is the head of its neighbour's queue and that `dequeued_ringbuf` has room for it (`SlotInv`), whose the queued packets
are (`QueuesInv`), why a packet was dequeued (`AnswersInv`), and that a block is in one place only
(`PlacesInv`). `TxHeld` is not inductive alone: that no sender writes to the packet in the air follows from `QueuesInv` (a queued
block is not free), that no sweep drops its neighbour from `SlotInv` (the queue is not empty).
Theorems: `TypeCorrect`, `TransmissionHeld`, `NeighborsKept`, `AttemptsCounted`, `BlocksAccounted`, and
`ImplementsMac`, the refinement of `MacService`: `Commit` maps to its `Accept`, `StartCallback` to `Answer`,
`CallbackReturns` to `Return`, every other step to a stutter. `RingDiscipline` says of every step what `BoundedFifo` and
the single producer and consumer of `IsrRing` allow it to do to each ring; that the room found before the packet was made is still there at the put, and that
no entry is cleared with a packet in it, come from `IInv`. `CountsFollowSchedule` has a second invariant
(the counter is one step behind the schedule between the two halves of a change) and a hypothesis of its own,
`RoomForAll`: the table has room for all addresses. With the counterexample of `link_count` it says that
the full table is the only cause of that disagreement.

`SlotEngineProofs` (assumptions: `RangeAssumption`, `SlotframeAssumption`, `EngineAssumption`). A first part shows that the arithmetic
on the two words, `ASN_MOD` with its remainder of 2^32 included, is that of one number modulo the product of
their ranges, and that `NextActiveLink` finds the least distance to an active slot. Type correctness and
`LinkMatchesAsn` are inductive together, with the link cleared from the second step of a correction on (`AbortInv`), and `NoneIsPassed` follows, for
every node and wherever the interrupt strikes; so does `TimerAlwaysArmed`, the half of `OnTime` that needs no hypothesis, with the
strengthening that a pending task always has the hardware set for it (`ArmedInv`). The second part is about time and
has the hypothesis `~QuickRejoin`, without which `OnTime` is false (see the observations). `MayMiscount` is free in it, as is the number of
beacons that wait: `TimeInvariance` has a part that holds throughout (`ControlInv`) and one that holds as long as no correction has
undone a count of slots (`ExactInv`). The latter relates real time, the start of
the link's slot, the wrapped clock and the compare register at each point of the engine
(`SlotInv` in a slot, `LoopInv` in the loop that makes up for missed deadlines, `InitialInv` while joining, `WaitInv`
before the interrupt), and the last synchronisation to the numbering
(`SyncInv`, without which a correction would look like a long silence; it does for the moment before `WriteSync`). `WakesOnTime` and
`LeavesLate` follow: with the traces described under the observations they say that the two windows of a correction, and no other interleaving, part
number and time or make a synchronised node leave. What the
assumptions ask of the program: a correction lies within half the range of the lower word, since the code reads
the difference as an `int32_t`; a slot ends within one round of the 16-bit clock; and one link that is always
installed recurs within one round. The last holds for the common slotframe, 31 slots of about 491 ticks against 65,536,
and is what keeps the time to the next link from being ambiguous. It would not hold for the slotframe of the
beacons alone (397 slots).

`DownlinkProofs` (assumption: `TablesAssumption`, no flow passes a node twice and a node has one
parent for all flows, which TLC evaluates for the instance and for the four tables of the firmware). `IInv` adds to
`TypeOK` and `OrderedAlongPath` that a node other than the gateway passes on exactly what it last received
(`Relayed`), and that the packet on the air is the sender's message of a flow of that slot, or at the gateway an
older one of that flow (`OnAir`). Order alone is not inductive: a message that is repeated could be newer than what the
node before it has, were it not for `Relayed`. The lemmas `Hop` and `ParentIsNode` connect the per-node tables of
`add_downlink` with the paths; the theorems are `TypeCorrect`, `MessagesOrdered`, `NeverOlder` and `NoneLost`, for up to 254
flows (the range of a flow number) and any number of nodes and messages.

`CtcSyncProofs`. `IInv` says that from the first pulse of the frames on both counters differ by a constant that is a multiple
of the first slotframe, apart from the slots the node does not count at first (`OriginInv`), and bounds the age of the last
synchronisation by the pulses missed or skipped (`DistanceInv`). The first gives `SlotsAlwaysAgree` with the
lemmas that compute which link `NextActiveLink` chooses, the second `HaltsFirst`. `NumberDecoded` needs a second invariant,
`DigitInv`: while the node has every digit since a bell, its last synchronisation was the last
pulse (`FreshInv`, so that it cannot leave and come back with digits), and its accumulator holds exactly the leading digits of the number the
transmitter is sending (`Carried`). The property itself speaks of the moment of the bell only. The digit lemmas relate repeated division to remainders, for any
base and number of digits. Assumptions, beside sizes: a node's first number is less than a slotframe and makes up for
the slots it does not count (`SlipAssumption`; 133 < 397 in the program), the threshold is at least one
slotframe, and a node has the links of slot 0 and of the commands (`NodeLinkAssumption`: `orchestra.c:437-466`, `489-532`).

`UnicastProofs` (assumption: sizes). `IInv` adds to `TypeOK` which packets are known (`KnownInv`), where in B's window an accepted
packet is to be found (`WindowInv`), and that a packet not yet accepted shares its number only with entries made
before it took the number (`NewInv`), which needs the same of the copies waiting in the mailbox (`OrderInv`).
`DuplicatesRecognised` is `DeliveredOnce` for windows, mailboxes and numbers of any size. For `DedicatedSlot` (`DedicatedAssumption`, `NullAssumption`) the
invariant is `ExpiryInv`: of a link's two timestamps the one in use is never the older, so that a review
finds both outdated or leaves the link alone, which `LinksExpire` alone does not say; a stamp that was never written is as old as the ASN, so
it needs that no stamp is older than that. `LinksAlwaysExpire` follows for links of any lifetime.

`Facts`: least elements of sets of numbers, induction over a set of numbers and the existence of iterated functions
(from the library's well-founded sets, as its induction theorems cannot be instantiated), bounded sequences and the removal
of elements, remainders.

Only model-checked:

* All liveness (`CommittedIsTaken`, `LockGranted`, `AllAnswered`, `KeepsWaking`, `NewestDelivered`, `Reconnects`,
  `CallbackCalled`): it needs fairness and ENABLED, out of the prover's reach.
* `TimersLinked` with `StrikesInside`: it is false there.
* `OnTime` and `LeavesOnlyWhenStale` with `QuickRejoin`: the former is false there.
* `DedicatedSlot` for nodes that have joined again: `LinksExpire` says nothing of them, `Reconnects` does.

That the abstractions between modules fit is neither checked nor proved as one statement. For the lock as one flag in `SlotEngine`, and for the ring
of `IsrRing` in the place of each sequence of `TschQueue`, each side is proved (for the rings `RingRefinesFifo` and `RingDiscipline`); the
step from one to the other is the argument given under Modules.

## What is not modelled

* The drift estimate, and when a keep-alive message is due: a node hears its time source or does
  not. (`Timers` has the timer of the keep-alive, not its message, nor the missing test
  of the time source at `tsch.c:601`.)
* What a slot does after a `Reset` in its middle: `SlotEngine` lets it end as usual.
* Radio, CCA, timing inside a slot: each attempt has a nondeterministic outcome.
* Frame layout, the WiMOD serial driver, uIP and the rest of Contiki; `tsch-log.c` is not compiled in this build.
* The pool `nbr_timestamps` of Orchestra, which is as large as the pool of links.
* Broadcast events, processes that end, and event timers that processes set for themselves.
* `tsch_queue_flush_all` (never called) and the flush of a non-empty queue (not reachable, by `RingDiscipline`).
* In `TschQueue`, the consequences of a lock that leaked: `TschLock` shows when it does.

Most of the repository is Contiki with its other platforms, processors, applications and tools
(register headers, uIP, Cooja), which the program is built on and which has none of
its logic. What is modelled are the files of `core/net/mac/tsch/` and `examples/tsch-testbed/tools/`, the
transmitter's `main.cpp`, and of Contiki's kernel what these rely on.

## Plan

1. (done) All modules above, their runs, and proofs of all of them.
2. A module that puts the ring of `IsrRing` in the place of each sequence of `TschQueue`, whose two ends are proved.
3. A scaled-width variant of `Downlink` in which message numbers wrap.

The runs stay one per question; small variants of the present ones are merged.
