------------------------------ MODULE CtcSync -------------------------------
(***************************************************************************)
(* Cross-technology synchronisation: the LoRa transmitter, which counts    *)
(* slots and sends pulses of different lengths (lora-ctc-transmitter/      *)
(* main.cpp), and a node that finds the first pulse, takes it as the       *)
(* origin of its slot numbers and listens for the later ones (ctc_init,    *)
(* ctc_first_sync, ctc_sync, ctc_keep_sync, ctc_dlrx in tsch.c).           *)
(*                                                                         *)
(* The two programs share no variable.  Each decides from its own counter, *)
(* its own tables and its own arithmetic what the present slot is for.     *)
(*                                                                         *)
(* A step is one slot.  The counters run over one period of all frames and *)
(* of the digits (Low), so that behaviours never end; how the node gets    *)
(* from link to link is SlotEngine's subject, and here it counts slots.    *)
(***************************************************************************)
EXTENDS TschSchedule, FiniteSets

CONSTANTS
    Encodings,       \* the values of ASN_ENCODING, 0 as FALSE
    CTC_CODES,       \* the lengths of pulses
    CTC_SYNC_CODES,  \* those of the bell and the digits
    CTC_SYNC_PERIOD, \* frames from one bell to the next: the bell, the digits
    IndexRange,      \* the range of sync_index: 2^32
    DlSlot0,         \* dl_slot_0, and ctc_slot[FR_APP] of the transmitter
    FirstAsn,        \* 133
    FirstSlip,       \* slots that go uncounted before the node's first one
    MissLimit,       \* pulses missed in a row before the node halts: 5
    Threshold,       \* TSCH_DESYNC_THRESHOLD, in slots: some slotframes
    MeasureSlots,    \* pulses sent before the frames begin: 4000
    PauseSlots,      \* slots of silence after them: 20 s
    QuietSlots,      \* silent slots a node waits for: 20
    NodeLink,        \* the links of the node
    None

\* slotframe_list: orchestra_init adds the slotframe of the beacons, the
\* unicast one and the common one; FR_LEN and fr_len list them otherwise.
EbLen == SlotframeSize[1]
AppLen == SlotframeSize[2]
RplLen == SlotframeSize[3]

\* Codes: the longest is the bell, the next ones are digits; N_CODE and
\* CTC_CODES are both 11.  Below them the transmitter uses 5.  What cannot be
\* decoded has negative codes.
Bell == CTC_CODES - 1
MinCode == CTC_CODES - CTC_SYNC_CODES
AppCode == 5
Blurry == 0
Silence == -1

Base == CTC_SYNC_CODES - 1

\* How many numbers k digits can tell: a power of the base.
Power[k \in 0..(CTC_SYNC_PERIOD - 1)] == IF k = 0 THEN 1 ELSE Power[k - 1] * Base

ASSUME CtcAssumption ==
    /\ Len(SlotframeSize) = 3 /\ High = 1
    /\ \A i \in 1..3 : Low % SlotframeSize[i] = 0
    /\ Low % (Power[CTC_SYNC_PERIOD - 1] * CTC_SYNC_PERIOD * EbLen) = 0
    /\ Encodings \subseteq BOOLEAN
    /\ Power[CTC_SYNC_PERIOD - 1] <= IndexRange
    /\ CTC_SYNC_CODES \in Nat /\ CTC_SYNC_CODES > 2 /\ MinCode > AppCode
    /\ CTC_SYNC_PERIOD \in Nat /\ CTC_SYNC_PERIOD > 1
    /\ CTC_CODES \in Nat /\ IndexRange \in Nat \ {0}
    /\ DlSlot0 \in 1..(AppLen - 1)
    /\ Threshold \in EbLen..(Low - 1)
    /\ MissLimit \in Nat \ {0}
    /\ MeasureSlots \in Nat /\ PauseSlots \in Nat
    /\ QuietSlots \in Nat \ {0} /\ QuietSlots < PauseSlots

\* The node numbers its first slot as many slots ahead as it then does not
\* count, less than a slotframe: "unknown offset", taken to be right.
ASSUME SlipAssumption == FirstAsn \in 0..(EbLen - 1) /\ FirstAsn + 1 < Low /\ FirstSlip = FirstAsn

\* orchestra_init: the slotframe of the beacons has the one link in its slot 0.
\* add_downlink: so does the slot for commands, at the destination of a flow.
ASSUME NodeLinkAssumption ==
    /\ \A l \in NodeLink : l \in [sf : 1..3, timeslot : Nat] /\ l.timeslot < SizeOf(l)
    /\ \A l \in NodeLink : l.sf = 1 => l.timeslot = 0
    /\ [sf |-> 1, timeslot |-> 0] \in NodeLink
    /\ [sf |-> 2, timeslot |-> DlSlot0] \in NodeLink

\* None is neither a link nor a number of digits.
ASSUME NoneAssumption == None \notin NodeLink /\ None \notin Nat

VARIABLES
    encoding,        \* which transmitter was built
    phase, elapsed,  \* the transmitter: "measure", "pause", "frames"
    asn,             \* the transmitter's slot number
    payload,         \* the number whose digits it sends
    pc,              \* the node: "init", "quiet", "listen", "slots", "halted"
    silent,          \* silent slots in a row, in "quiet"; uncounted ones left
    current_asn, last_sync_asn,
    sync_index, cnt_miss,
    \* ghosts
    start,           \* where the node's numbering began: the transmitter's
                     \* phase and slot number
    digits,          \* digits heard since the last bell, None if one was not
    skipped          \* pulses of which the node skipped the slot since the
                     \* last synchronisation

txVars == <<encoding, phase, elapsed, asn, payload>>
nodeVars == <<pc, silent, current_asn, last_sync_asn, sync_index, cnt_miss>>
ghostVars == <<start, digits, skipped>>
vars == <<txVars, nodeVars, ghostVars>>

Slots == 0..(Low - 1)

TypeOK ==
    /\ encoding \in Encodings
    /\ phase \in {"measure", "pause", "frames"}
    /\ elapsed \in 0..MeasureSlots \cup 0..PauseSlots
    /\ asn \in Slots
    /\ payload \in 0..Low
    /\ pc \in {"init", "quiet", "listen", "slots", "halted"}
    /\ silent \in 0..QuietSlots \cup 0..FirstSlip
    /\ current_asn \in Slots /\ last_sync_asn \in Slots
    /\ sync_index \in 0..(IndexRange - 1)
    /\ cnt_miss \in 0..MissLimit
    /\ start \in [phase : {"measure", "pause", "frames"}, asn : Slots] \cup {None}
    /\ digits \in 0..(CTC_SYNC_PERIOD - 1) \cup {None}
    /\ skipped \in Nat

Init ==
    /\ encoding \in Encodings
    /\ phase = "measure" /\ elapsed = 0
    /\ asn = 0 /\ payload = 0
    /\ pc = "init" /\ silent = 0
    /\ current_asn = 0 /\ last_sync_asn = 0
    /\ sync_index = 0 /\ cnt_miss = 0
    /\ start = None /\ digits = None /\ skipped = 0

----------------------------------------------------------------------------
(* The transmitter *)

\* framecontrol: the frame a slot belongs to, the first that matches.
FrameOf(n) ==
    IF n % EbLen = 0 THEN "sync"
    ELSE IF n % RplLen = 0 THEN "rpl"
    ELSE IF n % AppLen = DlSlot0 THEN "app" ELSE "none"

fr_num == asn \div EbLen

IsBell == ~encoding \/ fr_num % CTC_SYNC_PERIOD = 0

\* num2pay: what is left of a number when its last digits have been taken.
num_after(num) ==
    LET left[ii \in 0..(CTC_SYNC_PERIOD - 1)] ==
            IF ii = 0 THEN num ELSE left[ii - 1] \div Base
    IN  left

\* The k-th of its digits, the most significant one first.
Digit(num, k) == num_after(num)[CTC_SYNC_PERIOD - 1 - k] % Base

\* The code in the air in the present slot: a bell, a digit, the command of
\* the application, or silence.
Pulse ==
    CASE phase = "measure" -> Bell
      [] phase = "frames" /\ FrameOf(asn) = "sync" ->
            IF IsBell THEN Bell ELSE MinCode + Digit(payload, fr_num % CTC_SYNC_PERIOD)
      [] phase = "frames" /\ FrameOf(asn) = "app" -> AppCode
      [] OTHER -> Silence

\* A mutant: the number of the superframe that ends is sent, not the next one.
NextPayload_fault == fr_num \div CTC_SYNC_PERIOD

\* The digits that follow a bell tell the number of the next bell.
NextPayload == fr_num \div CTC_SYNC_PERIOD + 1

\* The end of the slot: measure, sleep(20), framecontrol.
Transmit == UNCHANGED encoding /\
    CASE phase = "measure" ->
            /\ IF elapsed = MeasureSlots THEN phase' = "pause" /\ elapsed' = 0
                                         ELSE elapsed' = elapsed + 1 /\ UNCHANGED phase
            /\ UNCHANGED <<asn, payload>>
      [] phase = "pause" ->
            /\ IF elapsed = PauseSlots THEN phase' = "frames" /\ elapsed' = 0
                                       ELSE elapsed' = elapsed + 1 /\ UNCHANGED phase
            /\ UNCHANGED <<asn, payload>>
      [] phase = "frames" ->
            /\ asn' = (asn + 1) % Low
            /\ payload' = IF FrameOf(asn) = "sync" /\ IsBell /\ encoding
                          THEN NextPayload ELSE payload
            /\ UNCHANGED <<phase, elapsed>>

\* ctc_decode: a pulse may be missed, or blurred into a shorter one that is
\* no code of the synchronisation.
Received == IF Pulse = Silence THEN {Silence} ELSE {Silence, Blurry, Pulse}

IsSync(code) == code >= MinCode

----------------------------------------------------------------------------
(* The node before its first slot *)

\* ctc_init finds the threshold while the pulses come one after the other.
FindThreshold ==
    /\ pc = "init"
    /\ phase = "measure"
    /\ pc' = "quiet" /\ silent' = 0
    /\ Transmit
    /\ UNCHANGED <<current_asn, last_sync_asn, sync_index, cnt_miss, ghostVars>>

\* It takes a default after two minutes without such pulses.
DefaultThreshold ==
    /\ pc = "init"
    /\ pc' = "listen"
    /\ Transmit
    /\ UNCHANGED <<silent, current_asn, last_sync_asn, sync_index, cnt_miss, ghostVars>>

KeepWaiting ==
    /\ pc = "init"
    /\ Transmit
    /\ UNCHANGED <<nodeVars, ghostVars>>

\* It waits for the pulses to end.
AwaitQuiet(code) ==
    /\ pc = "quiet"
    /\ silent' = IF IsSync(code) THEN 0 ELSE silent + 1
    /\ pc' = IF silent' = QuietSlots THEN "listen" ELSE "quiet"
    /\ Transmit
    /\ UNCHANGED <<current_asn, last_sync_asn, sync_index, cnt_miss, ghostVars>>

\* A mutant: the accumulator is wider than the program's.
IndexAfter_fault(code) ==
    IF ~IsSync(code) THEN sync_index
    ELSE IF code = Bell THEN 0
    ELSE sync_index * Base + code - MinCode

\* ctc_sync: sync_index after a pulse.
IndexAfter(code) ==
    IF ~IsSync(code) THEN sync_index
    ELSE IF code = Bell THEN 0
    ELSE (sync_index * Base + code - MinCode) % IndexRange

\* How many digits of the present superframe the node has heard, if all.
DigitsAfter(code) ==
    IF code = Bell THEN 0
    ELSE IF IsSync(code) /\ digits # None /\ digits < CTC_SYNC_PERIOD - 1 THEN digits + 1
    ELSE None

\* ctc_first_sync: the first pulse of the synchronisation, bell or not, and
\* whatever the transmitter's count, its slot becomes number 133.
Listen(code) ==
    /\ pc = "listen"
    /\ sync_index' = IndexAfter(code)
    /\ digits' = DigitsAfter(code)
    /\ IF IsSync(code)
       THEN /\ pc' = "slots" /\ silent' = FirstSlip
            /\ current_asn' = FirstAsn + 1 /\ last_sync_asn' = FirstAsn
            /\ start' = [phase |-> phase, asn |-> asn]
            /\ skipped' = 0
       ELSE UNCHANGED <<pc, silent, current_asn, last_sync_asn, start, skipped>>
    /\ Transmit
    /\ UNCHANGED cnt_miss

----------------------------------------------------------------------------
(* The node in its slots *)

\* A mutant: the frames in the order of their lengths.
slot_type_fault(n) == IF n % RplLen = 0 THEN 1 ELSE IF n % EbLen = 0 THEN 0 ELSE 2

\* current_slot, its type: tsch_rx_link asks it what the slot is for.
slot_type(n) == IF n % EbLen = 0 THEN 0 ELSE IF n % RplLen = 0 THEN 1 ELSE 2

\* The link of the slot: the first in the order of slotframe_list.
LinkAt(n) ==
    LET before == AsnOf((n - 1) % Low)
        l == NextActiveLink(NodeLink, before)
    IN  IF time_to_timeslot(l, before) = 1 THEN l ELSE None

CountSlot == current_asn' = (current_asn + 1) % Low

\* "133: unknown offset": the slots the node does not count.
Slip ==
    /\ pc = "slots" /\ silent > 0
    /\ silent' = silent - 1
    /\ Transmit
    /\ UNCHANGED <<pc, current_asn, last_sync_asn, sync_index, cnt_miss, ghostVars>>

Awake == pc = "slots" /\ silent = 0

\* After every slot tsch_link_operation looks at the last synchronisation; a
\* node that leaves starts again with ctc_init (its clock has passed the two
\* minutes or will).
LeaveOrCount(synced) ==
    IF ASN_DIFF(AsnOf(current_asn), AsnOf(synced)) > Threshold
    THEN pc' = "init" /\ current_asn' = 0
    ELSE CountSlot /\ UNCHANGED pc

\* A mutant: the misses are forgotten after every pulse, heard or not.
KeepSync_fault(code) ==
    /\ Awake /\ LinkAt(current_asn) # None /\ slot_type(current_asn) = 0
    /\ sync_index' = IndexAfter(code)
    /\ digits' = DigitsAfter(code)
    /\ IF code = Silence
       THEN /\ cnt_miss' = 0
            /\ UNCHANGED <<last_sync_asn, skipped>>
            /\ LeaveOrCount(last_sync_asn)
       ELSE /\ last_sync_asn' = current_asn
            /\ cnt_miss' = 0 /\ skipped' = 0
            /\ LeaveOrCount(current_asn)
    /\ Transmit
    /\ UNCHANGED <<silent, start>>

\* ctc_keep_sync: a blurred pulse synchronises too.  At the limit the node
\* halts for good, in the interrupt.
KeepSync(code) ==
    /\ Awake /\ LinkAt(current_asn) # None /\ slot_type(current_asn) = 0
    /\ sync_index' = IndexAfter(code)
    /\ digits' = DigitsAfter(code)
    /\ IF code = Silence
       THEN /\ cnt_miss' = cnt_miss + 1
            /\ UNCHANGED <<last_sync_asn, skipped>>
            /\ IF cnt_miss' = MissLimit
               THEN pc' = "halted" /\ CountSlot
               ELSE LeaveOrCount(last_sync_asn)
       ELSE /\ last_sync_asn' = current_asn
            /\ cnt_miss' = 0 /\ skipped' = 0
            /\ LeaveOrCount(current_asn)
    /\ Transmit
    /\ UNCHANGED <<silent, start>>

\* The slot is skipped: a process has asked for the lock, the start was missed
\* or input_ringbuf is full.
SkipSync ==
    /\ Awake /\ LinkAt(current_asn) # None /\ slot_type(current_asn) = 0
    /\ skipped' = skipped + 1
    /\ digits' = None
    /\ LeaveOrCount(last_sync_asn)
    /\ Transmit
    /\ UNCHANGED <<silent, last_sync_asn, sync_index, cnt_miss, start>>

\* In all other slots the synchronisation changes nothing.
OtherSlot ==
    /\ Awake
    /\ LinkAt(current_asn) = None \/ slot_type(current_asn) # 0
    /\ IF LinkAt(current_asn) = None
       THEN CountSlot /\ UNCHANGED pc
       ELSE LeaveOrCount(last_sync_asn)
    /\ Transmit
    /\ UNCHANGED <<silent, last_sync_asn, sync_index, cnt_miss, ghostVars>>

Halted ==
    /\ pc = "halted"
    /\ Transmit
    /\ UNCHANGED <<nodeVars, ghostVars>>
----------------------------------------------------------------------------
Starting ==
    \/ FindThreshold \/ DefaultThreshold \/ KeepWaiting
    \/ \E code \in Received : AwaitQuiet(code) \/ Listen(code)

Running ==
    \/ Slip \/ SkipSync \/ OtherSlot \/ Halted
    \/ \E code \in Received : KeepSync(code)

Next == Starting \/ Running

Spec == Init /\ [][Next]_vars

----------------------------------------------------------------------------
(* Properties *)

\* What the node does in the present slot, if it does not skip it.
ListensForSync == LinkAt(current_asn) # None /\ slot_type(current_asn) = 0

\* (Only the destination of a flow has a link there.)
ListensForCommand ==
    /\ LinkAt(current_asn) = [sf |-> 2, timeslot |-> DlSlot0]
    /\ slot_type(current_asn) = 2
    /\ current_asn % AppLen = DlSlot0

\* When the node has heard the bell and all digits of a superframe, what it
\* computes at the next bell is the transmitter's slot number, up to the
\* range of the digits.
AsnDecoded ==
    [][digits = CTC_SYNC_PERIOD - 1 /\ digits' = 0 =>
        sync_index * CTC_SYNC_PERIOD * EbLen
            = asn % (Power[CTC_SYNC_PERIOD - 1] * CTC_SYNC_PERIOD * EbLen)]_vars

\* A node that began at a pulse of the frames listens for synchronisation in
\* the very slots in which the transmitter provides it, ever after; one that
\* began where the count of the transmitter begins also has its slots for
\* commands in common with it, also where slots of several frames coincide.
SlotsAgree ==
    Awake /\ start.phase = "frames" =>
        /\ ListensForSync <=> FrameOf(asn) = "sync"
        /\ start.asn = 0 => (ListensForCommand <=> FrameOf(asn) = "app")

\* A node does not leave the network for missing pulses: it halts before.  It
\* leaves, to start again with other slot numbers, only if it also skipped
\* more pulses than the threshold allows for beyond the limit of misses.
HaltsBeforeLeaving ==
    [][pc = "slots" /\ pc' = "init" => (skipped' + MissLimit) * EbLen > Threshold]_vars
=============================================================================
