---------------------------- MODULE TschSchedule ----------------------------
(***************************************************************************)
(* The arithmetic of the schedule: the absolute slot number in two words   *)
(* (tsch-private.h), the choice of the next active link                    *)
(* (tsch-schedule.c) and the 16-bit timer comparison (tsch.c).             *)
(***************************************************************************)
EXTENDS Integers, Sequences

CONSTANTS
    Low, High,      \* the ranges of ls4b and of ms1b: 2^32 and 2^8
    ClockRange,     \* the range of rtimer_clock_t: 2^16
    MinDelay,       \* RTIMER_MIN_DELAY, in ticks
    SlotframeSize   \* the sizes of the slotframes, in the order of slotframe_list

ASSUME RangeAssumption ==
    /\ Low \in Nat /\ Low > 1
    /\ High \in Nat \ {0}
    /\ ClockRange \in Nat \ {0}
    /\ MinDelay \in 1..(ClockRange - 1)

ASSUME SlotframeAssumption == SlotframeSize \in Seq(Nat \ {0})

Asn == [ms1b : 0..(High - 1), ls4b : 0..(Low - 1)]

\* The slot number that the two words stand for.
Value(asn) == asn.ms1b * Low + asn.ls4b

\* ASN_INIT from a slot number (the frame fields of a beacon carry both words).
AsnOf(n) == [ms1b |-> (n \div Low) % High, ls4b |-> n % Low]

\* A mutant: the lower word does not carry.
ASN_INC_fault(asn, inc) == [asn EXCEPT !.ls4b = @ + inc]

ASN_INC(asn, inc) ==
    LET new == (asn.ls4b + inc) % Low
    IN  [ms1b |-> IF new < asn.ls4b THEN (asn.ms1b + 1) % High ELSE asn.ms1b,
         ls4b |-> new]

ASN_DEC(asn, dec) ==
    LET new == (asn.ls4b - dec) % Low
    IN  [ms1b |-> IF new > asn.ls4b THEN (asn.ms1b - 1) % High ELSE asn.ms1b,
         ls4b |-> new]

\* Unsigned, over the lower words; read as int32_t where it may be negative.
ASN_DIFF(asn1, asn2) == (asn1.ls4b - asn2.ls4b) % Low

Signed(n) == IF 2 * n < Low THEN n ELSE n - Low

\* ASN_DIVISOR_INIT and ASN_MOD.
asn_ms1b_remainder(val) == (((Low - 1) % val) + 1) % val

\* A mutant: the upper byte left out, as current_slot does.
ASN_MOD_fault(asn, val) == asn.ls4b % val

ASN_MOD(asn, val) ==
    ((asn.ls4b % val) + ((asn.ms1b * asn_ms1b_remainder(val)) % val)) % val

----------------------------------------------------------------------------
\* A link is known by its slotframe and its timeslot: tsch_schedule_add_link
\* keeps at most one link per timeslot of a slotframe.
SizeOf(link) == SlotframeSize[link.sf]

time_to_timeslot(link, asn) ==
    LET timeslot == ASN_MOD(asn, SizeOf(link))
    IN  IF link.timeslot > timeslot
        THEN link.timeslot - timeslot
        ELSE SizeOf(link) + link.timeslot - timeslot

\* A mutant: the first link of the first slotframe.
NextActiveLink_fault(links, asn) ==
    CHOOSE l \in links : \A m \in links : l.sf <= m.sf

\* tsch_schedule_get_next_active_link: the earliest link, and of those in the
\* same slot the one whose slotframe was added first.
NextActiveLink(links, asn) ==
    CHOOSE l \in links : \A m \in links :
        \/ time_to_timeslot(l, asn) < time_to_timeslot(m, asn)
        \/ /\ time_to_timeslot(l, asn) = time_to_timeslot(m, asn)
           /\ l.sf <= m.sf

\* Whether a link of the schedule is active in the slot of this number.
ActiveAt(link, n) == n % SizeOf(link) = link.timeslot

----------------------------------------------------------------------------
\* A mutant: a comparison that forgets the wrap.
check_timer_miss_fault(ref_time, offset, now) ==
    (ref_time + offset - MinDelay) % ClockRange <= now

\* check_timer_miss: are we past ref_time + offset - RTIMER_MIN_DELAY?  All
\* three are readings of a clock that wraps.
check_timer_miss(ref_time, offset, now) ==
    LET target == (ref_time + offset - MinDelay) % ClockRange
        now_has_overflowed == now < ref_time
        target_has_overflowed == target < ref_time
    IN  IF now_has_overflowed = target_has_overflowed
        THEN target <= now
        ELSE now_has_overflowed
=============================================================================
