--------------------------- MODULE DedicatedSlot ---------------------------
(***************************************************************************)
(* The dedicated slot of a flow from a node A to a node B (orchestra.c):   *)
(* A has a Tx link in a timeslot of its own and B a Rx link, as long as    *)
(* the flow lasts.  Each makes, renews and deletes its link by the traffic *)
(* it sees, with timestamps of its own in ASN; they never speak about it.  *)
(*                                                                         *)
(* The unicast slotframes have a timeslot for each node, so that A is the  *)
(* only one to transmit in its slot; it has one Tx link there, to the last *)
(* neighbour that acknowledged.  While that is B, packets for B use no     *)
(* other slot; else they go in the common slot, where every node listens.  *)
(*                                                                         *)
(* A node that leaves joins again through ctc_first_sync, where the ASN    *)
(* starts at 133 anew and the call of TSCH_CALLBACK_JOINING_NETWORK is     *)
(* commented out: links stay and their timestamps are not renewed.         *)
(***************************************************************************)
EXTENDS Integers, Sequences

CONSTANTS
    Lifetime,  \* DEDICATED_SLOT_LIFETIME, in steps of time
    Room,      \* packets that input_ringbuf of B holds
    Null

ASSUME DedicatedAssumption ==
    Lifetime \in Nat /\ Room \in Nat \ {0} /\ Null \notin Nat

VARIABLES
    dedicated,  \* of each node, its link in A's timeslot: [link, ts]
    asn,        \* of each node, current_asn: its steps since it joined
    restarted,  \* of each node, whether it has ever left and joined again
    sending,    \* the packet at the head of A's queue for B, or Null
    outcome,    \* how it ended, until A's process has handled that
    received    \* input_ringbuf of B

nodeVars == <<dedicated, asn, restarted>>
packetVars == <<sending, outcome, received>>
dedicatedVars == <<nodeVars, packetVars>>

Node == {"A", "B"}

\* Orchestra looks at "data"; "other" is ICMP or a keep-alive.
Kind == {"data", "other"}

Outdated == Lifetime + 1

\* A timestamp is known by its age, as far as Orchestra tells ages apart: the
\* difference to current_asn.  Zero: it was never written; its age is the ASN.
\* Ahead: it is from before a restart of the ASN and still greater, so that
\* the unsigned difference is huge.
Zero == -1
Ahead == -2
Stamp == 0..Outdated \cup {Zero, Ahead}

\* struct link_timestamps: a Tx link uses last_tx only, a Rx link last_rx.
Timestamps == [used : Stamp, unused : Stamp]

ASSUME NullAssumption == Null \notin Timestamps

\* No link; or one with link_options Tx or Rx and its peer; or, "idle", with
\* none left.  ts is l->data, which may be NULL.
NoLink == [link |-> "none", ts |-> Null]
Bare(peer) == [link |-> peer, ts |-> Null]

DedicatedInit ==
    /\ dedicated = [n \in Node |-> NoLink]
    /\ asn = [n \in Node |-> 0]
    /\ restarted = [n \in Node |-> FALSE]
    /\ sending = Null /\ outcome = Null /\ received = <<>>

----------------------------------------------------------------------------
(* Links and their timestamps *)

Age(n, stamp) == CASE stamp = Zero -> asn[n]
                   [] stamp = Ahead -> Outdated
                   [] OTHER -> stamp

IsOutdated(n, stamp) == Age(n, stamp) = Outdated

\* What memb_alloc returns is not cleared: the stamp that the link does not
\* use is zero, or what a link deleted before has left there, which may be any
\* once the ASN has started again.  There is an entry for every link that can
\* be made: a lost one belongs to a link that stays.
Allocated(n) ==
    [used : {0}, unused : IF restarted[n] THEN Stamp ELSE {Zero, Outdated}]

\* A mutant: l->data is read after tsch_schedule_add_link has made the link
\* anew, without data.
Renewed_fault(n, slot, peer) ==
    IF slot.link = "none" THEN [link : {peer}, ts : Allocated(n)]
    ELSE IF slot.ts = Null \/ slot.link # peer THEN {Bare(peer)}
    ELSE {[slot EXCEPT !.ts.used = 0]}

\* What a success makes of the link: a new one takes an entry; one without
\* keeps having none, whatever its options and its peer become.
Renewed(n, slot, peer) ==
    IF slot.link = "none" THEN [link : {peer}, ts : Allocated(n)]
    ELSE IF slot.ts = Null THEN {Bare(peer)}
    ELSE {[link |-> peer, ts |-> [slot.ts EXCEPT !.used = 0]]}

\* orchestra_delete_old_links.  When only the stamp in use is outdated, the
\* link loses its option, and by that its data: the entry is lost.
Reviewed(n, slot) ==
    IF slot.ts = Null \/ ~IsOutdated(n, slot.ts.used) THEN slot
    ELSE IF IsOutdated(n, slot.ts.unused) THEN NoLink
    ELSE Bare("idle")

Review(n) ==
    /\ dedicated' = [dedicated EXCEPT ![n] = Reviewed(n, @)]
    /\ UNCHANGED <<asn, restarted>>

\* Success with a peer, which ends with a review as well.
Renew(n, peer) ==
    /\ \E slot \in Renewed(n, dedicated[n], peer) :
            dedicated' = [dedicated EXCEPT ![n] = Reviewed(n, slot)]
    /\ UNCHANGED <<asn, restarted>>

----------------------------------------------------------------------------
(* The flow *)

\* send_packet to B (bound: one at a time).
NewPacket(kind) ==
    /\ sending = Null
    /\ sending' = kind
    /\ UNCHANGED <<outcome, received, nodeVars>>

Waiting == sending # Null /\ outcome = Null

\* B listens in the slot that A uses for it.
BListens == dedicated["A"].link # "B" \/ dedicated["B"].link = "A"

\* B takes the packet; its acknowledgement arrives, or does not and A will
\* repeat it.
Transmit(acked) ==
    /\ Waiting
    /\ BListens
    /\ Len(received) < Room
    /\ received' = Append(received, sending)
    /\ outcome' = IF acked THEN "ok" ELSE Null
    /\ UNCHANGED <<sending, nodeVars>>

\* A failed attempt that was the last one.
GiveUp ==
    /\ Waiting
    /\ outcome' = "noack"
    /\ UNCHANGED <<sending, received, nodeVars>>

\* A mutant: a failed transmission renews the link as well.
SentToB_fault ==
    /\ outcome # Null
    /\ outcome' = Null /\ sending' = Null
    /\ IF sending = "data" THEN Renew("A", "B") ELSE UNCHANGED nodeVars
    /\ UNCHANGED received

\* orchestra_packet_sent for a packet to B.
SentToB ==
    /\ outcome # Null
    /\ outcome' = Null /\ sending' = Null
    /\ IF sending = "other" THEN UNCHANGED nodeVars
       ELSE IF outcome = "ok" THEN Renew("A", "B") ELSE Review("A")
    /\ UNCHANGED received

\* The same for another neighbour that acknowledged: A has one slot, so the
\* link moves there.
SentToOther == Renew("A", "other") /\ UNCHANGED packetVars

\* packet_input and orchestra_packet_received.  A packet that is taken for a
\* repetition does not come to Orchestra.
ReceivedFromA(repetition) ==
    /\ received # <<>>
    /\ received' = Tail(received)
    /\ IF Head(received) = "data" /\ ~repetition THEN Renew("B", "A") ELSE UNCHANGED nodeVars
    /\ UNCHANGED <<sending, outcome>>

\* Any other data that the node sends or receives.
OtherData(n) == Review(n) /\ UNCHANGED packetVars

----------------------------------------------------------------------------
(* Time *)

Older(age) == IF age = Outdated THEN age ELSE age + 1

\* The ASN may catch up with a stamp that was ahead of it.
NextStamp(stamp) ==
    CASE stamp = Zero -> {Zero} [] stamp = Ahead -> {Ahead, 0} [] OTHER -> {Older(stamp)}

NextSlot(slot) ==
    IF slot.ts = Null THEN {slot}
    ELSE [link : {slot.link}, ts : [used : NextStamp(slot.ts.used),
                                    unused : NextStamp(slot.ts.unused)]]

Tick ==
    /\ \E a \in NextSlot(dedicated["A"]), b \in NextSlot(dedicated["B"]) :
            dedicated' = [n \in Node |-> IF n = "A" THEN a ELSE b]
    /\ asn' = [n \in Node |-> Older(asn[n])]
    /\ UNCHANGED <<restarted, packetVars>>

\* tsch_reset and ctc_first_sync: every stamp that was written is from after
\* the node joined, so greater than 133, where the ASN starts anew.
Restarted(stamp) == IF stamp = Zero THEN Zero ELSE Ahead

\* tsch_reset handles received packets and calls senders before it clears the
\* ASN; the time until the node has found the network again is left out, since
\* the ASN is 0 then and the node neither sends nor receives.
Rejoin(n) ==
    /\ IF n = "A" THEN outcome = Null ELSE received = <<>>
    /\ asn' = [asn EXCEPT ![n] = 0]
    /\ restarted' = [restarted EXCEPT ![n] = TRUE]
    /\ dedicated' = [dedicated EXCEPT ![n].ts =
            IF @ = Null THEN Null
            ELSE [used |-> Restarted(@.used), unused |-> Restarted(@.unused)]]
    /\ UNCHANGED packetVars

----------------------------------------------------------------------------
OnAir == GiveUp \/ \E acked \in BOOLEAN : Transmit(acked)

DedicatedNext ==
    \/ \E kind \in Kind : NewPacket(kind)
    \/ OnAir
    \/ SentToB \/ SentToOther
    \/ \E repetition \in BOOLEAN : ReceivedFromA(repetition)
    \/ \E n \in Node : OtherData(n) \/ Rejoin(n)
    \/ Tick

DedicatedSpec == DedicatedInit /\ [][DedicatedNext]_dedicatedVars

\* Time passes, slots come, processes run; and an attempt that B could hear is
\* not lost every time.
FairDedicatedSpec ==
    /\ DedicatedSpec
    /\ WF_dedicatedVars(Tick) /\ WF_dedicatedVars(OnAir)
    /\ WF_dedicatedVars(SentToB)
    /\ WF_dedicatedVars(\E repetition \in BOOLEAN : ReceivedFromA(repetition))
    /\ SF_dedicatedVars(Transmit(TRUE))

----------------------------------------------------------------------------
(* Properties *)

\* Only a node that has joined again, without the callback that would have
\* renewed its timestamps, can have a link that no review ever looks at, or one
\* that stays with all its options taken away.
LinksExpire ==
    \A n \in Node : ~restarted[n] =>
        \/ dedicated[n] = NoLink
        \/ dedicated[n].ts # Null /\ dedicated[n].link # "idle"

BHears == Len(received') > Len(received)

\* The two ends may part: B's link runs out while A's was renewed by the
\* acknowledgement of a repetition, or B joins again and looks at its links.
\* Then A sends where nobody listens.  As long as A has data to send this ends
\* and B hears packets of A again, unless A joins again and again, or has been
\* left, by joining again, with a link to B without timestamps.
Reconnects ==
    /\ []<><<NewPacket("data")>>_dedicatedVars
    /\ ~[]<><<Rejoin("A")>>_dedicatedVars
    /\ ~<>[](dedicated["A"] = Bare("B"))
    => []<><<BHears>>_dedicatedVars
=============================================================================
