------------------------------ MODULE Unicast -------------------------------
(***************************************************************************)
(* A flow of unicast packets from a node A to a node B: sequence numbers   *)
(* and retries at A (send_packet, tsch_tx_link), and the window of numbers *)
(* by which B recognises repetitions (packet_input).  Whether B listens to *)
(* an attempt at all is the matter of DedicatedSlot: here it may be lost.  *)
(***************************************************************************)
EXTENDS Integers, Sequences, SequencesExt

CONSTANTS
    SeqRange,     \* sequence numbers: 2^8
    MaxSeqnos,    \* MAX_SEQNOS
    MaxTx,        \* MAC_MAX_FRAME_RETRIES + 1
    InputCap,     \* packets that input_ringbuf holds
    OtherNumber,  \* numbers under which B hears others
    Packet,       \* the packets to B that can be told apart
    None

ASSUME UnicastAssumption ==
    /\ SeqRange \in Nat /\ SeqRange > 2
    /\ MaxSeqnos \in Nat \ {0} /\ MaxTx \in Nat \ {0} /\ InputCap \in Nat \ {0}
    /\ OtherNumber \subseteq 1..(SeqRange - 1)
    /\ None \notin Packet \cup Nat

VARIABLES
    tsch_packet_seqno,
    packet,          \* what is known of each packet, see PacketRecord
    current, tries,  \* the packet at the head of A's queue for B
    answer,          \* how it ended, until A's process has handled that
    input,           \* input_ringbuf of B
    window           \* received_seqnos of B, the newest first

sendVars == <<tsch_packet_seqno, packet, current, tries, answer>>
receiveVars == <<input, window>>
vars == <<sendVars, receiveVars>>

Number == 1..(SeqRange - 1)

\* Ghosts: how often B accepted it, and how many others it accepted since the
\* first time.
PacketRecord == [seqno : Number, accepted : 0..2, others : 0..MaxSeqnos]

ASSUME NoneAssumption == None \notin PacketRecord

\* An entry of received_seqnos; ghost: A has used the number again since.
Entry == [sender : {"A", "other"}, seqno : Number, reused : BOOLEAN]

TypeOK ==
    /\ tsch_packet_seqno \in 0..(SeqRange - 1)
    /\ packet \in [Packet -> PacketRecord \cup {None}]
    /\ current \in Packet \cup {None}
    /\ tries \in 0..(MaxTx - 1)
    /\ answer \in {None, "ok", "noack"}
    /\ input \in BoundedSeq([id : Packet, reused : BOOLEAN], InputCap)
    /\ window \in BoundedSeq(Entry, MaxSeqnos)

Init ==
    /\ tsch_packet_seqno = 0
    /\ packet = [p \in Packet |-> None]
    /\ current = None /\ tries = 0 /\ answer = None
    /\ input = <<>> /\ window = <<>>

----------------------------------------------------------------------------
(* Sequence numbers *)

\* A mutant: zero is not skipped.
NextNumber_fault == (tsch_packet_seqno + 1) % SeqRange

NextNumber == IF tsch_packet_seqno + 1 = SeqRange THEN 1 ELSE tsch_packet_seqno + 1

\* Every packet that A sends, to anyone, takes the next number.
TakeNumber ==
    /\ tsch_packet_seqno' = NextNumber
    /\ window' = [i \in DOMAIN window |->
            IF window[i].sender = "A" /\ window[i].seqno = NextNumber
            THEN [window[i] EXCEPT !.reused = TRUE] ELSE window[i]]
    /\ input' = [i \in DOMAIN input |->
            IF packet[input[i].id].seqno = NextNumber
            THEN [input[i] EXCEPT !.reused = TRUE] ELSE input[i]]

\* send_packet to B (bound: one at a time).
SendToB ==
    /\ current = None
    /\ \E p \in Packet : packet[p] = None
    /\ current' = CHOOSE p \in Packet : packet[p] = None
    /\ packet' = [packet EXCEPT ![current'] =
            [seqno |-> NextNumber, accepted |-> 0, others |-> 0]]
    /\ TakeNumber
    /\ UNCHANGED <<tries, answer>>

\* send_packet to another neighbour, or to all.
SendElsewhere ==
    /\ TakeNumber
    /\ UNCHANGED <<packet, current, tries, answer>>

----------------------------------------------------------------------------
(* On the air *)

\* A failed attempt is repeated, up to MaxTx; then the sender is answered.
Retry ==
    IF tries + 1 < MaxTx
    THEN tries' = tries + 1 /\ UNCHANGED answer
    ELSE tries' = 0 /\ answer' = "noack"

InFlight == current # None /\ answer = None

\* The packet is lost, or nobody listens, or B has no room for it.
AttemptLost ==
    /\ InFlight
    /\ Retry
    /\ UNCHANGED <<tsch_packet_seqno, packet, current, receiveVars>>

\* B takes it; its acknowledgement arrives or does not.
Attempt(acked) ==
    /\ InFlight
    /\ Len(input) < InputCap
    /\ input' = Append(input, [id |-> current, reused |-> FALSE])
    /\ IF acked THEN answer' = "ok" /\ tries' = 0 ELSE Retry
    /\ UNCHANGED <<tsch_packet_seqno, packet, current, window>>

----------------------------------------------------------------------------
(* The processes *)

\* Once A has done with a packet and B has no copy left, it is forgotten.
Kept(p, copies) == \E i \in DOMAIN copies : copies[i].id = p

AfterAnswer ==
    IF Kept(current, input) THEN packet ELSE [packet EXCEPT ![current] = None]

\* tsch_tx_process_pending calls the sender.
AnswerFromB ==
    /\ answer # None
    /\ answer' = None /\ current' = None
    /\ packet' = AfterAnswer
    /\ UNCHANGED <<tsch_packet_seqno, tries, receiveVars>>

\* A mutant: the newest entry is not compared.
Duplicate_fault(sender, seqno) ==
    \E i \in DOMAIN window : i > 1 /\ window[i].sender = sender /\ window[i].seqno = seqno

Duplicate(sender, seqno) ==
    \E i \in DOMAIN window : window[i].sender = sender /\ window[i].seqno = seqno

\* The window moves on by one.
Accept(entry) ==
    window' = SubSeq(<<entry>> \o window, 1,
                     IF Len(window) < MaxSeqnos THEN Len(window) + 1 ELSE MaxSeqnos)

\* One more packet has been accepted after these.
OneMore(rec) ==
    IF rec # None /\ rec.accepted > 0 /\ rec.others < MaxSeqnos
    THEN [rec EXCEPT !.others = @ + 1] ELSE rec

\* packet_input at B.  A repetition is dropped before the network layer.
InputFromA ==
    LET in == Head(input)
        rec == packet[in.id]
        dup == Duplicate("A", rec.seqno)
    IN  /\ input # <<>>
        /\ input' = Tail(input)
        /\ IF dup THEN UNCHANGED window
           ELSE Accept([sender |-> "A", seqno |-> rec.seqno, reused |-> in.reused])
        /\ packet' = [p \in Packet |->
                IF p # in.id THEN IF dup THEN packet[p] ELSE OneMore(packet[p])
                ELSE IF current # p /\ ~Kept(p, input') THEN None
                ELSE IF dup THEN rec
                ELSE [rec EXCEPT !.accepted = IF @ < 2 THEN @ + 1 ELSE @]]
        /\ UNCHANGED <<tsch_packet_seqno, current, tries, answer>>

\* A packet of another neighbour, under a number that may be one of A's.
InputFromOther(seqno) ==
    /\ Accept([sender |-> "other", seqno |-> seqno, reused |-> FALSE])
    /\ packet' = [p \in Packet |-> OneMore(packet[p])]
    /\ UNCHANGED <<tsch_packet_seqno, current, tries, answer, input>>

----------------------------------------------------------------------------
Air == AttemptLost \/ \E acked \in BOOLEAN : Attempt(acked)

Next ==
    \/ SendToB
    \/ SendElsewhere
    \/ Air
    \/ AnswerFromB
    \/ InputFromA
    \/ \E n \in OtherNumber : InputFromOther(n)

Spec == Init /\ [][Next]_vars

----------------------------------------------------------------------------
(* Properties *)

\* What B's process does with a packet of A is right: a repetition is passed
\* up only if MAX_SEQNOS others have been accepted since, and a new packet,
\* which A may be told has arrived, is dropped only if its number has gone
\* round since the packet B remembers by it.
DeliveredOnce ==
    [][input # <<>> /\ input' = Tail(input) =>
        LET rec == packet[Head(input).id]
        IN  IF window' # window
            THEN rec.accepted > 0 => rec.others = MaxSeqnos
            ELSE rec.accepted = 0 =>
                    \E i \in DOMAIN window : /\ window[i].sender = "A"
                                             /\ window[i].seqno = rec.seqno
                                             /\ window[i].reused]_vars
=============================================================================
