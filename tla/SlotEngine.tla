----------------------------- MODULE SlotEngine -----------------------------
(***************************************************************************)
(* The slot engine in time: how a node joins a network (tsch_associate,    *)
(* tsch_process), how the interrupt goes from one active slot to the next  *)
(* (tsch_link_operation), misses deadlines and leaves the network, while   *)
(* processes change the schedule and correct the ASN, step by step.  What  *)
(* has to agree is kept in three places: the ASN in two words,             *)
(* current_link_start in a 16-bit clock that wraps, and the compare        *)
(* register of the timer.                                                  *)
(*                                                                         *)
(* Time is `now', in ticks; it runs over one period of the ASN, which is   *)
(* a multiple of the clock's, so that behaviours never end.  Drift is left *)
(* out: the clocks of the node and of the network run alike.               *)
(***************************************************************************)
EXTENDS TschSchedule, FiniteSets, SequencesExt

CONSTANTS
    SlotDuration,     \* TsSlotDuration
    TxOffset,         \* from the start of a slot to that of its frame
    StartDelay,       \* 20 * RTIMER_MIN_DELAY
    CtcAsn,           \* the ASN after the first CTC beacon: 133
    BeaconPeriod,     \* slots between two CTC beacons
    Threshold,        \* TSCH_DESYNC_THRESHOLD, in slots
    FixedLink,        \* the links that are never removed
    Link,             \* all the links there may be
    Mode,             \* the ways to join: "ctc", "eb", "coordinator"
    NetworkShift,     \* how far the time source's slot numbers may move
    QuickRejoin,      \* may a node find a beacon before its last timer expires?
    MaxBusy,          \* bound: ticks from the start of a slot to its end
    MaxBeacons,       \* bound: beacons that wait for a process
    MayMiscount,      \* may the interrupt come between the read of the ASN by
                      \* a correction and its write?
    NoLink, None

Period == Low * High * SlotDuration

\* An int32_t other than 0.
Difference == ((1 - Low)..(Low - 1)) \ {0}

ASSUME EngineAssumption ==
    /\ SlotDuration \in Nat /\ MinDelay < SlotDuration
    /\ TxOffset \in 1..(SlotDuration - 1)
    /\ FixedLink \subseteq Link /\ FixedLink # {}
    /\ \A l \in Link : /\ l.sf \in DOMAIN SlotframeSize
                       /\ l.timeslot \in 0..(SizeOf(l) - 1)
    /\ Mode \subseteq {"ctc", "eb", "coordinator"}
    /\ NoLink \notin Link
    \* the period of the model is one of every slotframe and of the clock
    /\ Period % ClockRange = 0
    /\ \A i \in DOMAIN SlotframeSize : (Low * High) % SlotframeSize[i] = 0
    \* sizes are 16 bits wide, the lower word of the ASN 32
    /\ \A i \in DOMAIN SlotframeSize : SlotframeSize[i] < Low
    /\ CtcAsn \in 0..(Low - 1)
    /\ StartDelay \in Nat /\ BeaconPeriod \in Nat \ {0}
    /\ Threshold \in Nat /\ MaxBusy \in Nat /\ MaxBeacons \in Nat
    \* the numbers of two networks differ by less than a signed lower word holds
    /\ NetworkShift \subseteq {n \in Int : -Low <= 2 * n /\ 2 * n < Low}
    \* a slot ends, and a fixed link recurs, within one round of the clock
    /\ SlotDuration + MaxBusy < ClockRange
    /\ \E l \in FixedLink : SizeOf(l) * SlotDuration < ClockRange
    /\ None \notin 0..(ClockRange - 1)

VARIABLES
    now,
    mode,                \* how this node joins
    pc,                  \* tsch_process: "associate", "initial", "joined"
    op,                  \* the interrupt: "none", "slot" in a timeslot,
                         \* then "check" and "loop"
    settling,            \* a deadline was missed, the next check is to come
    busy,                \* ticks since the slot, or the joining, began
    associated, current_asn, last_sync_asn,
    current_link, current_link_start,
    task,                \* next_rtimer->time, or None
    compare,             \* TACCR0, or None while no task would run at it
    links, locked,
    input_ringbuf,       \* beacons that wait, by how far their ASN is from rx_asn
    correcting,          \* what tsch_rx_process_pending does next, or "none"
    asn_diff,            \* of the beacon it corrects the ASN by, or 0
    asn_read,            \* current_asn as ASN_DEC or ASN_INC has read it
    epoch,               \* ghost: when slot 0 began, in the node's numbering
    network_epoch,       \* ghost: the same in its time source's
    synced,              \* ghost: the slot of the last synchronisation
    miscounted           \* ghost: a correction has undone a count of slots

timerVars == <<task, compare>>
asnVars == <<current_asn, last_sync_asn>>
linkVars == <<current_link, current_link_start>>
scheduleVars == <<links, locked>>
correctionVars == <<input_ringbuf, correcting, asn_diff, asn_read>>
ghostVars == <<epoch, network_epoch, synced, miscounted>>
vars == <<now, mode, pc, op, settling, busy, associated, asnVars, linkVars,
          timerVars, scheduleVars, correctionVars, ghostVars>>

TypeOK ==
    /\ now \in 0..(Period - 1)
    /\ mode \in Mode
    /\ pc \in {"associate", "initial", "joined"}
    /\ op \in {"none", "slot", "check", "loop"}
    /\ settling \in 0..MinDelay
    /\ busy \in 0..MaxBusy
    /\ associated \in BOOLEAN /\ locked \in BOOLEAN
    /\ current_asn \in Asn /\ last_sync_asn \in Asn
    /\ current_link \in Link \cup {NoLink}
    /\ current_link_start \in 0..(ClockRange - 1)
    /\ task \in 0..(ClockRange - 1) \cup {None}
    /\ compare \in 0..(ClockRange - 1) \cup {None}
    /\ FixedLink \subseteq links /\ links \subseteq Link
    /\ input_ringbuf \in BoundedSeq(Difference, MaxBeacons)
    /\ correcting \in {"none", "abort", "read", "write", "sync", "release"}
    /\ asn_diff \in Difference \cup {0} /\ asn_read \in Asn
    /\ epoch \in 0..(Period - 1) /\ network_epoch \in 0..(Period - 1)
    /\ synced \in 0..(Low * High - 1)
    /\ miscounted \in BOOLEAN

Init ==
    /\ now = 0
    /\ mode \in Mode
    /\ pc = "associate" /\ op = "none"
    /\ settling = 0 /\ busy = 0
    /\ associated = FALSE /\ locked = FALSE
    /\ current_asn = AsnOf(0) /\ last_sync_asn = AsnOf(0)
    /\ current_link = NoLink /\ current_link_start = 0
    /\ task = None /\ compare = None
    /\ links = FixedLink
    /\ input_ringbuf = <<>>
    /\ correcting = "none" /\ asn_diff = 0 /\ asn_read = AsnOf(0)
    /\ epoch = 0 /\ network_epoch = 0 /\ synced = 0
    /\ miscounted = FALSE

RTIMER_NOW == now % ClockRange

\* The slot a time falls in, counted from an epoch.
SlotAt(time, from) == ((time - from) % Period) \div SlotDuration

----------------------------------------------------------------------------
(* Joining a network *)

\* What the three branches of tsch_associate have in common.
Join(asn, start) ==
    /\ associated' = TRUE
    /\ current_asn' = asn
    /\ current_link_start' = start % ClockRange
    /\ pc' = "initial"
    /\ busy' = 0
    /\ UNCHANGED <<now, mode, op, settling, current_link, timerVars, scheduleVars,
                   correctionVars, network_epoch, miscounted>>

MayJoin(m) == pc = "associate" /\ op = "none" /\ ~locked /\ mode = m

\* Joining from a beacon of the network: its ASN, and the start of its slot
\* from the timestamp of its frame.  The beacon is read in the slot it is
\* sent in.
JoinFromEb ==
    LET slot == SlotAt(now, network_epoch)
    IN  /\ MayJoin("eb")
        /\ QuickRejoin \/ task = None
        /\ (now - network_epoch) % SlotDuration >= TxOffset
        /\ Join(AsnOf(slot), network_epoch + slot * SlotDuration)
        /\ last_sync_asn' = AsnOf(slot)
        /\ epoch' = network_epoch
        /\ synced' = slot

\* ctc_first_sync: a beacon of the transmitter, one slot long, has just been
\* decoded; whatever the network's count, the ASN becomes 133.
JoinFromCtc ==
    /\ MayJoin("ctc")
    /\ now % (BeaconPeriod * SlotDuration) = 0
    /\ Join(AsnOf(CtcAsn), now - SlotDuration)
    /\ last_sync_asn' = AsnOf(CtcAsn)
    /\ epoch' = (now - SlotDuration - CtcAsn * SlotDuration) % Period
    /\ synced' = CtcAsn

\* A coordinator starts the network, a short time from now.  Its start is the
\* origin of time; it never leaves.
StartNetwork ==
    /\ MayJoin("coordinator")
    /\ now = 0
    /\ Join(AsnOf(0), now + StartDelay)
    /\ UNCHANGED <<last_sync_asn, epoch, synced>>

----------------------------------------------------------------------------
(* From one slot to the next *)

\* What tsch_schedule_get_next_active_link returns; NULL while locked.
Chosen == IF locked THEN NoLink ELSE NextActiveLink(links, current_asn)

\* The slots to it; a node without a link wakes up in the next one.
timeslot_diff == IF Chosen = NoLink THEN 1 ELSE time_to_timeslot(Chosen, current_asn)

Missed ==
    check_timer_miss(current_link_start, (timeslot_diff * SlotDuration) % ClockRange, RTIMER_NOW)

\* rtimer_set: only when no task was pending is the hardware set.  The code
\* of an iteration takes RTIMER_MIN_DELAY at least.
SetTimer(time) ==
    /\ task' = time
    /\ compare' = IF task = None THEN time ELSE compare

\* One iteration of the loop in tsch_link_operation, or in tsch_process.
Advance ==
    LET start == (current_link_start + timeslot_diff * SlotDuration) % ClockRange
    IN  /\ settling = 0
        /\ current_link' = Chosen
        /\ current_asn' = ASN_INC(current_asn, timeslot_diff)
        /\ current_link_start' = start
        /\ IF Missed
           THEN settling' = MinDelay /\ UNCHANGED <<timerVars, busy>>
           ELSE SetTimer(start) /\ busy' = 0 /\ UNCHANGED settling
        /\ UNCHANGED <<now, mode, associated, last_sync_asn, scheduleVars,
                       correctionVars, network_epoch, synced, miscounted>>

\* A mutant: the loop is left when the deadline has been missed.
NextSlot_fault ==
    /\ op = "loop"
    /\ Advance
    /\ op' = "none"
    /\ UNCHANGED <<pc, epoch>>

NextSlot ==
    /\ op = "loop"
    /\ Advance
    /\ op' = IF Missed THEN "loop" ELSE "none"
    /\ UNCHANGED <<pc, epoch>>

\* The loop of tsch_process, after joining, when nobody holds the lock, so
\* that there is always a link to wake up for.  The first slot of a coordinator
\* fixes when slot 0 would have begun.
FirstSlot ==
    /\ pc = "initial"
    /\ Advance
    /\ pc' = IF Missed THEN "initial" ELSE "joined"
    /\ epoch' = IF mode = "coordinator" /\ ~Missed
                THEN (now + ((current_link_start' - now) % ClockRange)
                         - Value(current_asn') * SlotDuration) % Period
                ELSE epoch
    /\ UNCHANGED op

\* Whether the interrupt may come where a correction has got to.
Interruptible == correcting = "write" => MayMiscount

\* The timer interrupt: the task is taken off, tsch_link_operation runs.
AtCompare == op = "none" /\ task # None /\ compare = RTIMER_NOW

TakeTask ==
    /\ AtCompare
    /\ Interruptible
    /\ task' = None /\ compare' = None
    /\ UNCHANGED <<now, mode, pc, settling, associated, asnVars, linkVars,
                   scheduleVars, correctionVars, ghostVars>>

StartSlot ==
    /\ TakeTask
    /\ associated
    /\ current_link # NoLink
    /\ op' = "slot"
    /\ busy' = 0

\* No link, or a process has asked for the lock and not taken it yet: the
\* interrupt looks at the request, not at the lock.
SkipSlot ==
    /\ TakeTask
    /\ associated
    /\ current_link = NoLink \/ ~locked
    /\ op' = "check"
    /\ busy' = 0

\* The node has left: the protothread ends.
StopEngine ==
    /\ TakeTask
    /\ ~associated
    /\ UNCHANGED <<op, busy>>

\* How far the numbers of this slot in a beacon and in the node are apart.
Drift == Signed(ASN_DIFF(current_asn, AsnOf(SlotAt(now - busy, network_epoch))))

\* What a node hears in a slot: nothing, something that synchronises it, a
\* beacon of its time source, which waits in input_ringbuf with the number of
\* the slot it came in.  One that shows no difference changes nothing.
EndSlot(sync, eb) ==
    /\ op = "slot"
    /\ Interruptible
    /\ sync => mode # "coordinator"   \* it has no time source
    /\ eb => /\ sync /\ mode = "eb" /\ associated
             /\ Len(input_ringbuf) < MaxBeacons
    /\ op' = "check"
    /\ last_sync_asn' = IF sync THEN current_asn ELSE last_sync_asn
    /\ synced' = IF sync THEN SlotAt(now - busy, epoch) ELSE synced
    /\ input_ringbuf' = IF eb /\ Drift # 0 THEN Append(input_ringbuf, Drift) ELSE input_ringbuf
    /\ UNCHANGED <<now, mode, pc, settling, busy, associated, current_asn, linkVars,
                   timerVars, scheduleVars, correcting, asn_diff, asn_read,
                   epoch, network_epoch, miscounted>>

Desynchronised == mode # "coordinator" /\ ASN_DIFF(current_asn, last_sync_asn) > Threshold

\* Nothing heard for too long: leave, and schedule no more slot.
CheckSync ==
    /\ op = "check"
    /\ IF Desynchronised
       THEN associated' = FALSE /\ op' = "none"
       ELSE op' = "loop" /\ UNCHANGED associated
    /\ UNCHANGED <<now, mode, pc, settling, busy, asnVars, linkVars, timerVars,
                   scheduleVars, correctionVars, ghostVars>>

----------------------------------------------------------------------------
(* The processes: cooperative, and never in the middle of the interrupt *)

ProcessRuns == pc # "initial" /\ op \in {"none", "slot"}

\* tsch_get_lock waits for the end of a link operation.  The schedule of a
\* node only changes while it is in a network.
TakeLock ==
    /\ pc = "joined" /\ associated
    /\ op = "none"
    /\ ~locked
    /\ locked' = TRUE
    /\ UNCHANGED <<now, mode, pc, op, settling, busy, associated, asnVars, linkVars,
                   timerVars, links, correctionVars, ghostVars>>

\* What the sections of the schedule leave alone; they release the lock.
Section ==
    /\ ProcessRuns
    /\ locked /\ correcting = "none"
    /\ locked' = FALSE
    /\ UNCHANGED <<now, mode, pc, op, settling, busy, associated, current_link_start,
                   asnVars, timerVars, correctionVars, ghostVars>>

\* tsch_schedule_add_link, which has removed any other link of this timeslot.
AddLink(l) ==
    /\ Section
    /\ l \notin links
    /\ links' = links \cup {l}
    /\ UNCHANGED current_link

RemoveLink(l) ==
    /\ Section
    /\ l \in links \ FixedLink
    /\ links' = links \ {l}
    /\ current_link' = IF current_link = l THEN NoLink ELSE current_link

\* tsch_rx_process_pending takes the next beacon, and the lock.  From here on
\* its steps are those between which the interrupt may come: the lock keeps a
\* slot from being used, not the interrupt from counting it.
BeginCorrection ==
    /\ pc = "joined"
    /\ op = "none"
    /\ ~locked
    /\ input_ringbuf # <<>>
    /\ locked' = TRUE
    /\ asn_diff' = Head(input_ringbuf)
    /\ input_ringbuf' = Tail(input_ringbuf)
    /\ correcting' = "abort"
    /\ UNCHANGED <<now, mode, pc, op, settling, busy, associated, asnVars, linkVars,
                   timerVars, links, asn_read, ghostVars>>

\* One step of a correction.
Step(from, to) ==
    /\ ProcessRuns
    /\ correcting = from
    /\ correcting' = to
    /\ UNCHANGED <<now, mode, pc, op, settling, busy, associated, current_link_start,
                   timerVars, links, input_ringbuf, network_epoch>>

\* The slot ahead was chosen by a wrong number.
AbortNext ==
    /\ Step("abort", "read")
    /\ current_link' = NoLink
    /\ UNCHANGED <<asnVars, locked, asn_diff, asn_read,
                   epoch, synced, miscounted>>

ReadAsn ==
    /\ Step("read", "write")
    /\ asn_read' = current_asn
    /\ UNCHANGED <<asnVars, current_link, locked, asn_diff, epoch, synced, miscounted>>

Corrected(asn) == IF asn_diff > 0 THEN ASN_DEC(asn, asn_diff) ELSE ASN_INC(asn, -asn_diff)

\* The end of ASN_DEC or ASN_INC: a carry counts ms1b as it is now, but ls4b
\* is written from what was read.  The slots keep their times and get other
\* numbers, so that slot 0 began as many slots later as these are lowered.
WriteAsn ==
    LET new == Corrected(asn_read)
    IN  /\ Step("write", "sync")
        /\ current_asn' = [ls4b |-> new.ls4b,
                           ms1b |-> (current_asn.ms1b + new.ms1b - asn_read.ms1b) % High]
        /\ asn_read' = AsnOf(0)
        /\ epoch' = (epoch + asn_diff * SlotDuration) % Period
        /\ synced' = (synced - asn_diff) % (Low * High)
        /\ miscounted' = (miscounted \/ current_asn # asn_read)
        /\ UNCHANGED <<last_sync_asn, current_link, locked, asn_diff>>

\* A mutant: the time of the last synchronisation keeps the old numbering.
WriteSync_fault ==
    /\ Step("sync", "release")
    /\ UNCHANGED <<current_asn, last_sync_asn, current_link, locked, asn_diff, asn_read,
                   epoch, synced, miscounted>>

WriteSync ==
    /\ Step("sync", "release")
    /\ last_sync_asn' = current_asn
    /\ synced' = Value(current_asn)
    /\ UNCHANGED <<current_asn, current_link, locked, asn_diff, asn_read, epoch,
                   miscounted>>

Release ==
    /\ Step("release", "none")
    /\ locked' = FALSE
    /\ asn_diff' = 0
    /\ UNCHANGED <<asnVars, current_link, asn_read, epoch, synced, miscounted>>

\* The same function: the join priority of a beacon is too high.
LeaveForPriority ==
    /\ ProcessRuns /\ correcting = "none"
    /\ mode = "eb" /\ associated
    /\ associated' = FALSE
    /\ UNCHANGED <<now, mode, pc, op, settling, busy, asnVars, linkVars, timerVars,
                   scheduleVars, correctionVars, ghostVars>>

\* tsch_process wakes up, tsch_reset handles what the mailboxes hold.  What
\* nobody reads before the next joining sets it is cleared here as well: it
\* would only multiply states.
Reset ==
    /\ ProcessRuns
    /\ pc = "joined" /\ ~associated /\ ~locked
    /\ pc' = "associate"
    /\ current_asn' = AsnOf(0)
    /\ current_link' = NoLink
    /\ input_ringbuf' = <<>>
    /\ last_sync_asn' = AsnOf(0) /\ current_link_start' = 0
    /\ epoch' = network_epoch /\ synced' = 0 /\ miscounted' = FALSE
    /\ UNCHANGED <<now, mode, op, settling, busy, associated, timerVars,
                   scheduleVars, correcting, asn_diff, asn_read, network_epoch>>

----------------------------------------------------------------------------
(* The environment *)

\* The time source joins again, under other slot numbers (bound: once).
TimeSourceRenumbers ==
    /\ mode = "eb" /\ associated /\ network_epoch = 0
    /\ network_epoch' \in {(n * SlotDuration) % Period : n \in NetworkShift}
    /\ UNCHANGED <<now, mode, pc, op, settling, busy, associated, asnVars, linkVars,
                   timerVars, scheduleVars, correctionVars, epoch, synced, miscounted>>

\* Time passes: in a slot and before the first one up to the bound, in the
\* loop only after a missed deadline.  The interrupt is taken at once.
Tick ==
    /\ ~AtCompare
    /\ op # "check"
    /\ op = "loop" => settling > 0
    /\ op = "slot" \/ (pc = "initial" /\ settling = 0) => busy < MaxBusy
    /\ now' = (now + 1) % Period
    /\ settling' = IF settling > 0 THEN settling - 1 ELSE 0
    /\ busy' = IF op = "slot" \/ (pc = "initial" /\ settling = 0) THEN busy + 1 ELSE busy
    /\ UNCHANGED <<mode, pc, op, associated, asnVars, linkVars, timerVars,
                   scheduleVars, correctionVars, ghostVars>>

----------------------------------------------------------------------------
Joining == JoinFromEb \/ JoinFromCtc \/ StartNetwork

Engine ==
    \/ StartSlot \/ SkipSlot \/ StopEngine
    \/ CheckSync
    \/ NextSlot
    \/ \E sync, eb \in BOOLEAN : EndSlot(sync, eb)

Correction == AbortNext \/ ReadAsn \/ WriteAsn \/ WriteSync \/ Release

Processes ==
    \/ FirstSlot
    \/ TakeLock
    \/ \E l \in Link : AddLink(l) \/ RemoveLink(l)
    \/ BeginCorrection \/ Correction
    \/ LeaveForPriority
    \/ Reset

Next == Joining \/ Engine \/ Processes \/ TimeSourceRenumbers \/ Tick

Spec == Init /\ [][Next]_vars

\* The clock runs and the processor executes the interrupt and, once it has
\* joined, the loop that arms the first slot; where the interrupt may not come
\* it runs the process on.  Time is bounded wherever one of them is due, so
\* that one condition for all is enough.  Nothing is asked of the radio, of
\* other processes or of the network.
FairSpec == Spec /\ WF_vars(Tick \/ Engine \/ FirstSlot \/ WriteAsn)

----------------------------------------------------------------------------
(* Properties *)

\* The link the node is about to use, or uses, is the one that the schedule
\* has for the slot number it has reached, whichever of the two words of the
\* ASN has moved, and even if the ASN has been corrected since it was chosen.
LinkMatchesAsn ==
    pc = "joined" /\ associated /\ current_link # NoLink =>
        ActiveAt(current_link, Value(current_asn))

\* A node of a network is never left without its timer: between two slots a
\* task is pending and the hardware will run at it.  Only an interrupt sets
\* the next one, so that a chain that breaks once is broken for good.
AlwaysArmed ==
    pc = "joined" /\ associated /\ op = "none" => task # None /\ compare # None

\* The timer goes off when the slot of this number begins: a correction may
\* move the origin of the numbers, and not a slot that lies ahead.
TimerAtSlot ==
    pc = "joined" /\ associated /\ task # None =>
        (now + ((compare - now) % ClockRange)) % Period
            = (epoch + Value(current_asn) * SlotDuration) % Period

\* A node that waits for a slot will wake up, and when that slot begins: ASN,
\* link start and hardware timer agree, after missed deadlines, corrections,
\* skipped slots and wraps of the clock.
OnTime == AlwaysArmed /\ (miscounted \/ TimerAtSlot)

\* Going to the next link passes over no slot in which the schedule has one:
\* only slots whose start was missed, or chosen while locked, are lost.
NoActiveSlotPassed ==
    [][op = "loop" /\ current_asn' # current_asn =>
        \A k \in 1..((Value(current_asn') - Value(current_asn) - 1) % (Low * High)) :
            \A l \in links : ~ActiveAt(l, (Value(current_asn) + k) % (Low * High))]_vars

\* That nothing has been heard for more than the threshold, in slots.
Stale == (SlotAt(now - busy, epoch) - synced) % (Low * High) > Threshold

LeavesUnsynchronised == op = "check" /\ associated /\ ~associated'

\* A node leaves for want of synchronisation only if none has come for more
\* than the threshold, however its ASN was corrected meanwhile; but for the
\* moment at which its ASN has been corrected and last_sync_asn has not.
LeavesOnlyWhenStale ==
    [][LeavesUnsynchronised => Stale \/ correcting = "sync" \/ miscounted]_vars

\* As long as a node belongs to a network it keeps waking up: the chain of
\* timer interrupts, of which each arms the next, never breaks.
KeepsWaking == [](associated /\ pc = "joined" => <>(op \in {"slot", "check"} \/ ~associated))
=============================================================================
