---------------------------- MODULE UnicastProofs ----------------------------
(***************************************************************************)
(* Theorems about a flow of unicast packets.  Unicast, for any range of    *)
(* sequence numbers, any window and any number of packets under way: B     *)
(* passes a repetition up only when its window has moved past the first    *)
(* copy, and drops a new packet only when A has used its number again.     *)
(* DedicatedSlot, for any lifetime of links: only a node that has joined   *)
(* again is left with a link that never expires.                           *)
(***************************************************************************)
EXTENDS Unicast, DedicatedSlot, Facts

(***************************************************************************)
(* The invariant                                                           *)
(***************************************************************************)

\* What is in B's mailbox or at the head of A's queue is known, and nothing else
\* is.
KnownInv ==
    /\ current # None => packet[current] # None
    /\ answer # None => current # None
    /\ \A i \in DOMAIN input : packet[input[i].id] # None
    /\ \A p \in Packet : packet[p] # None => p = current \/ Kept(p, input)

\* Others are counted from the first time a packet is accepted.
FreshInv ==
    \A p \in Packet : packet[p] # None /\ packet[p].accepted = 0 => packet[p].others = 0

\* An accepted packet is in the window, behind those accepted since, until
\* these fill it.
WindowInv ==
    \A p \in Packet :
        packet[p] # None /\ packet[p].accepted > 0 /\ packet[p].others < MaxSeqnos =>
            /\ packet[p].others + 1 \in DOMAIN window
            /\ window[packet[p].others + 1].sender = "A"
            /\ window[packet[p].others + 1].seqno = packet[p].seqno

\* A packet not yet accepted shares its number with old entries of the window
\* only, from before it took the number.
NewInv ==
    \A p \in Packet : packet[p] # None /\ packet[p].accepted = 0 =>
        \A i \in DOMAIN window :
            window[i].sender = "A" /\ window[i].seqno = packet[p].seqno => window[i].reused

\* The same of copies that are still in the mailbox: what comes after them, or
\* is to come, took its number later.
OrderInv ==
    \A i \in DOMAIN input : \A q \in Packet :
        /\ q # input[i].id /\ packet[q] # None
        /\ q = current \/ \E j \in DOMAIN input : j > i /\ input[j].id = q
        /\ packet[q].seqno = packet[input[i].id].seqno
        => input[i].reused

IInv == TypeOK /\ KnownInv /\ FreshInv /\ WindowInv /\ NewInv /\ OrderInv

----------------------------------------------------------------------------
(***************************************************************************)
(* Records and sequences                                                   *)
(***************************************************************************)

\* A copy in B's mailbox.
Copy == [id : Packet, reused : BOOLEAN]

\* What the assumptions say of the constants.
LEMMA ConstantFacts ==
  /\ SeqRange \in Nat /\ SeqRange > 2
  /\ MaxSeqnos \in Nat \ {0} /\ MaxTx \in Nat \ {0} /\ InputCap \in Nat \ {0}
  /\ OtherNumber \subseteq Number
  /\ None \notin Packet /\ None \notin Nat /\ None \notin PacketRecord
BY UnicastAssumption, NoneAssumption DEF Number

\* The types of the variables, with the two mailboxes as sequences.
LEMMA Types ==
  ASSUME TypeOK
  PROVE  /\ input \in Seq(Copy) /\ Len(input) <= InputCap
         /\ window \in Seq(Entry) /\ Len(window) <= MaxSeqnos
         /\ DOMAIN input = 1 .. Len(input) /\ DOMAIN window = 1 .. Len(window)
         /\ Len(input) \in Nat /\ Len(window) \in Nat
         /\ \A i \in DOMAIN input : input[i] \in Copy
         /\ \A i \in DOMAIN window : window[i] \in Entry
         /\ packet \in [Packet -> PacketRecord \cup {None}]
         /\ NextNumber \in Number
<1>1. input \in Seq(Copy) /\ Len(input) <= InputCap
  BY BoundedSeqType, ConstantFacts DEF TypeOK, Copy
<1>2. window \in Seq(Entry) /\ Len(window) <= MaxSeqnos
  BY BoundedSeqType, ConstantFacts DEF TypeOK
<1>3. /\ DOMAIN input = 1 .. Len(input) /\ Len(input) \in Nat
      /\ \A i \in DOMAIN input : input[i] \in Copy
  BY <1>1
<1>4. /\ DOMAIN window = 1 .. Len(window) /\ Len(window) \in Nat
      /\ \A i \in DOMAIN window : window[i] \in Entry
  BY <1>2
<1>5. NextNumber \in Number
  BY ConstantFacts DEF NextNumber, Number, TypeOK
<1> QED  BY <1>1, <1>2, <1>3, <1>4, <1>5 DEF TypeOK

\* The same read the other way.
LEMMA SeqTypes ==
  ASSUME NEW S, NEW n \in Nat, NEW s, NEW m \in Nat, m <= n, s \in [1 .. m -> S]
  PROVE  s \in BoundedSeq(S, n) /\ DOMAIN s = 1 .. m /\ Len(s) = m
<1>1. s \in Seq(S) /\ Len(s) = m
  OBVIOUS
<1> QED  BY <1>1, BoundedSeqType

\* The records of packets are what they look like.
LEMMA RecordType ==
  ASSUME NEW r \in PacketRecord
  PROVE  /\ r.seqno \in Number
         /\ r.accepted \in 0 .. 2 /\ r.others \in 0 .. MaxSeqnos
BY DEF PacketRecord

\* Taking a number marks the entries and the copies that bear it, and changes
\* nothing else of them.
LEMMA NumberTaken ==
  ASSUME TypeOK, TakeNumber
  PROVE  /\ tsch_packet_seqno' \in 0 .. SeqRange - 1
         /\ input' \in BoundedSeq(Copy, InputCap) /\ window' \in BoundedSeq(Entry, MaxSeqnos)
         /\ DOMAIN input' = DOMAIN input /\ DOMAIN window' = DOMAIN window
         /\ Len(input') = Len(input)
         /\ \A i \in DOMAIN input : /\ input'[i].id = input[i].id
                                    /\ input[i].reused => input'[i].reused
                                    /\ packet[input[i].id].seqno = NextNumber => input'[i].reused
         /\ \A i \in DOMAIN window : /\ window'[i].sender = window[i].sender
                                     /\ window'[i].seqno = window[i].seqno
                                     /\ window[i].reused => window'[i].reused
                                     /\ window[i].sender = "A" /\ window[i].seqno = NextNumber
                                          => window'[i].reused
<1>1. /\ DOMAIN input = 1 .. Len(input) /\ DOMAIN window = 1 .. Len(window)
      /\ Len(input) \in Nat /\ Len(window) \in Nat
      /\ Len(input) <= InputCap /\ Len(window) <= MaxSeqnos
      /\ \A i \in DOMAIN input : input[i] \in Copy
      /\ \A i \in DOMAIN window : window[i] \in Entry
      /\ NextNumber \in Number
  BY Types
<1>2. tsch_packet_seqno' \in 0 .. SeqRange - 1
  BY <1>1, ConstantFacts DEF TakeNumber, Number
<1>3. ASSUME NEW c \in Copy
      PROVE  /\ [c EXCEPT !.reused = TRUE] \in Copy
             /\ [c EXCEPT !.reused = TRUE].id = c.id
             /\ [c EXCEPT !.reused = TRUE].reused = TRUE
  BY <1>3 DEF Copy
<1>4. ASSUME NEW e \in Entry
      PROVE  /\ [e EXCEPT !.reused = TRUE] \in Entry
             /\ [e EXCEPT !.reused = TRUE].sender = e.sender
             /\ [e EXCEPT !.reused = TRUE].seqno = e.seqno
             /\ [e EXCEPT !.reused = TRUE].reused = TRUE
  BY <1>4 DEF Entry
<1>5. /\ DOMAIN input' = DOMAIN input
      /\ \A i \in DOMAIN input :
            input'[i] = IF packet[input[i].id].seqno = NextNumber
                        THEN [input[i] EXCEPT !.reused = TRUE] ELSE input[i]
      /\ input' = [i \in DOMAIN input |-> input'[i]]
  BY DEF TakeNumber
<1>6. /\ DOMAIN window' = DOMAIN window
      /\ \A i \in DOMAIN window :
            window'[i] = IF window[i].sender = "A" /\ window[i].seqno = NextNumber
                         THEN [window[i] EXCEPT !.reused = TRUE] ELSE window[i]
      /\ window' = [i \in DOMAIN window |-> window'[i]]
  BY DEF TakeNumber
<1>7. ASSUME NEW i \in DOMAIN input
      PROVE  /\ input'[i] \in Copy
             /\ input'[i].id = input[i].id
             /\ input[i].reused => input'[i].reused
             /\ packet[input[i].id].seqno = NextNumber => input'[i].reused
  <2>1. input[i] \in Copy
    BY <1>1
  <2>2. CASE packet[input[i].id].seqno = NextNumber
    <3>1. input'[i] = [input[i] EXCEPT !.reused = TRUE]
      BY <1>5, <2>2
    <3> QED  BY <1>3, <2>1, <3>1
  <2>3. CASE ~(packet[input[i].id].seqno = NextNumber)
    <3>1. input'[i] = input[i]
      BY <1>5, <2>3
    <3> QED  BY <2>1, <2>3, <3>1
  <2> QED  BY <2>2, <2>3
<1>8. ASSUME NEW i \in DOMAIN window
      PROVE  /\ window'[i] \in Entry
             /\ window'[i].sender = window[i].sender
             /\ window'[i].seqno = window[i].seqno
             /\ window[i].reused => window'[i].reused
             /\ window[i].sender = "A" /\ window[i].seqno = NextNumber
                  => window'[i].reused
  <2>1. window[i] \in Entry
    BY <1>1
  <2>2. CASE window[i].sender = "A" /\ window[i].seqno = NextNumber
    <3>1. window'[i] = [window[i] EXCEPT !.reused = TRUE]
      BY <1>6, <2>2
    <3> QED  BY <1>4, <2>1, <3>1
  <2>3. CASE ~(window[i].sender = "A" /\ window[i].seqno = NextNumber)
    <3>1. window'[i] = window[i]
      BY <1>6, <2>3
    <3> QED  BY <2>1, <2>3, <3>1
  <2> QED  BY <2>2, <2>3
<1>9. input' \in [1 .. Len(input) -> Copy] /\ window' \in [1 .. Len(window) -> Entry]
  BY <1>1, <1>5, <1>6, <1>7, <1>8
<1>10. /\ input' \in BoundedSeq(Copy, InputCap) /\ window' \in BoundedSeq(Entry, MaxSeqnos)
       /\ Len(input') = Len(input)
  BY <1>1, <1>9, SeqTypes, ConstantFacts
<1> QED  BY <1>2, <1>5, <1>6, <1>7, <1>8, <1>10

\* Accepting puts an entry before the others; the last falls out of a full
\* window.
LEMMA AcceptFacts ==
  ASSUME TypeOK, NEW e \in Entry, Accept(e)
  PROVE  /\ window' \in BoundedSeq(Entry, MaxSeqnos)
         /\ DOMAIN window' = 1 .. (IF Len(window) < MaxSeqnos THEN Len(window) + 1 ELSE MaxSeqnos)
         /\ 1 \in DOMAIN window' /\ window'[1] = e
         /\ \A i \in DOMAIN window' : i # 1 => i - 1 \in DOMAIN window /\ window'[i] = window[i - 1]
<1>1. /\ window \in Seq(Entry) /\ Len(window) \in Nat /\ Len(window) <= MaxSeqnos
      /\ DOMAIN window = 1 .. Len(window)
  BY Types
<1>2. PICK m \in Nat : m = IF Len(window) < MaxSeqnos THEN Len(window) + 1 ELSE MaxSeqnos
  BY <1>1, ConstantFacts
<1>3. m \in 1 .. MaxSeqnos /\ m <= Len(window) + 1
  BY <1>1, <1>2, ConstantFacts
<1>4. <<e>> \in Seq(Entry) /\ Len(<<e>>) = 1 /\ <<e>>[1] = e
  OBVIOUS
<1>5. PICK t \in Seq(Entry) : t = <<e>> \o window /\ Len(t) = Len(window) + 1
        /\ \A i \in 1 .. Len(window) + 1 : t[i] = IF i = 1 THEN e ELSE window[i - 1]
  <2>1. <<e>> \o window \in Seq(Entry) /\ Len(<<e>> \o window) = 1 + Len(window)
    BY <1>1, <1>4, ConcatFacts
  <2>2. \A i \in 1 .. 1 + Len(window) :
          (<<e>> \o window)[i] = IF i <= 1 THEN <<e>>[i] ELSE window[i - 1]
    BY <1>1, <1>4, ConcatFacts
  <2>3. \A i \in 1 .. 1 + Len(window) : (<<e>> \o window)[i] = IF i = 1 THEN e ELSE window[i - 1]
    <3>1. SUFFICES ASSUME NEW i \in 1 .. 1 + Len(window)
                   PROVE  (<<e>> \o window)[i] = IF i = 1 THEN e ELSE window[i - 1]
      OBVIOUS
    <3>2. (<<e>> \o window)[i] = IF i <= 1 THEN <<e>>[i] ELSE window[i - 1]
      BY <2>2
    <3>3. i <= 1 <=> i = 1
      BY <1>1
    <3> QED  BY <1>4, <3>2, <3>3
  <2>4. 1 + Len(window) = Len(window) + 1
    BY <1>1
  <2> QED  BY <2>1, <2>3, <2>4
<1>6. window' = SubSeq(t, 1, m)
  BY <1>2, <1>5 DEF Accept
<1>7. /\ SubSeq(t, 1, m) \in Seq(Entry) /\ Len(SubSeq(t, 1, m)) = m
      /\ \A i \in 1 .. m : SubSeq(t, 1, m)[i] = t[i]
  <2>1. m \in 1 .. Len(t) /\ Len(t) \in Nat
    BY <1>1, <1>3, <1>5
  <2> QED  BY <2>1
<1>8. window' \in BoundedSeq(Entry, MaxSeqnos) /\ DOMAIN window' = 1 .. m
  <2>1. window' \in Seq(Entry) /\ Len(window') = m /\ m <= MaxSeqnos /\ MaxSeqnos \in Nat
    BY <1>3, <1>6, <1>7, ConstantFacts
  <2> QED  BY <2>1, BoundedSeqType
<1>9. \A i \in 1 .. m : window'[i] = IF i = 1 THEN e ELSE window[i - 1]
  BY <1>1, <1>3, <1>5, <1>6, <1>7
<1> QED  BY <1>1, <1>2, <1>3, <1>8, <1>9

----------------------------------------------------------------------------
(***************************************************************************)
(* The steps                                                               *)
(***************************************************************************)

\* A new packet for B.
LEMMA SendToBStep ==
  ASSUME IInv, SendToB
  PROVE  IInv'
<1>1. TypeOK /\ KnownInv /\ FreshInv /\ WindowInv /\ NewInv /\ OrderInv
  BY DEF IInv
<1>2. /\ packet \in [Packet -> PacketRecord \cup {None}] /\ NextNumber \in Number
      /\ \A i \in DOMAIN input : input[i].id \in Packet
  BY <1>1, Types DEF Copy
<1>3. PICK p \in Packet : p = current' /\ packet[p] = None
  BY DEF SendToB
<1>4. PICK rec \in PacketRecord :
        rec = [seqno |-> NextNumber, accepted |-> 0, others |-> 0]
  <2>1. 0 \in 0 .. 2 /\ 0 \in 0 .. MaxSeqnos
    BY ConstantFacts
  <2>2. [seqno |-> NextNumber, accepted |-> 0, others |-> 0] \in PacketRecord
    BY <1>2, <2>1 DEF PacketRecord
  <2> QED  BY <2>2
<1>5. rec.seqno = NextNumber /\ rec.accepted = 0 /\ rec # None
  BY <1>4, ConstantFacts
<1>6. /\ packet' = [packet EXCEPT ![p] = rec] /\ current = None /\ TakeNumber
      /\ UNCHANGED <<tries, answer>>
  BY <1>3, <1>4 DEF SendToB
<1>7. /\ packet'[p] = rec
      /\ \A q \in Packet : q # p => packet'[q] = packet[q]
      /\ packet' \in [Packet -> PacketRecord \cup {None}]
  BY <1>2, <1>6
<1>8. /\ tsch_packet_seqno' \in 0 .. SeqRange - 1
      /\ input' \in BoundedSeq(Copy, InputCap) /\ window' \in BoundedSeq(Entry, MaxSeqnos)
      /\ DOMAIN input' = DOMAIN input /\ DOMAIN window' = DOMAIN window
      /\ \A i \in DOMAIN input : /\ input'[i].id = input[i].id
                                 /\ input[i].reused => input'[i].reused
                                 /\ packet[input[i].id].seqno = NextNumber => input'[i].reused
      /\ \A i \in DOMAIN window : /\ window'[i].sender = window[i].sender
                                  /\ window'[i].seqno = window[i].seqno
                                  /\ window[i].reused => window'[i].reused
                                  /\ window[i].sender = "A" /\ window[i].seqno = NextNumber
                                       => window'[i].reused
  BY <1>1, <1>6, NumberTaken
<1>9. TypeOK'
  BY <1>1, <1>3, <1>6, <1>7, <1>8 DEF TypeOK, Copy
<1>10. \A i \in DOMAIN input : input[i].id # p
  BY <1>1, <1>3 DEF KnownInv
<1>11. p # None
  BY ConstantFacts
<1>12. KnownInv'
  <2>1. current' # None /\ packet'[current'] # None
    BY <1>3, <1>5, <1>7, <1>11
  <2>2. \A i \in DOMAIN input' : packet'[input'[i].id] # None
    BY <1>1, <1>2, <1>7, <1>8, <1>10 DEF KnownInv
  <2>3. ASSUME NEW q \in Packet, packet'[q] # None
        PROVE  q = current' \/ Kept(q, input')
    <3>1. CASE q = p
      BY <1>3, <3>1
    <3>2. CASE q # p
      <4>1. Kept(q, input)
        BY <1>1, <1>6, <1>7, <2>3, <3>2, ConstantFacts DEF KnownInv
      <4> QED  BY <1>8, <4>1 DEF Kept
    <3> QED  BY <3>1, <3>2
  <2> QED  BY <2>1, <2>2, <2>3 DEF KnownInv
<1>13. WindowInv'
  <2>1. SUFFICES ASSUME NEW q \in Packet, packet'[q] # None, packet'[q].accepted > 0,
                        packet'[q].others < MaxSeqnos
                 PROVE  /\ packet'[q].others + 1 \in DOMAIN window'
                        /\ window'[packet'[q].others + 1].sender = "A"
                        /\ window'[packet'[q].others + 1].seqno = packet'[q].seqno
    BY DEF WindowInv
  <2>2. q # p
    BY <1>5, <1>7, <2>1
  <2>3. packet'[q] = packet[q]
    BY <1>7, <2>2
  <2> QED  BY <1>1, <1>8, <2>1, <2>3 DEF WindowInv
<1>14. NewInv'
  <2>1. SUFFICES ASSUME NEW q \in Packet, packet'[q] # None, packet'[q].accepted = 0,
                        NEW i \in DOMAIN window', window'[i].sender = "A",
                        window'[i].seqno = packet'[q].seqno
                 PROVE  window'[i].reused
    BY DEF NewInv
  <2>2. CASE q = p
    BY <1>5, <1>7, <1>8, <2>1, <2>2
  <2>3. CASE q # p
    <3>1. packet'[q] = packet[q]
      BY <1>7, <2>3
    <3>2. window[i].reused
      BY <1>1, <1>8, <2>1, <3>1 DEF NewInv
    <3> QED  BY <1>8, <2>1, <3>2
  <2> QED  BY <2>2, <2>3
<1>15. OrderInv'
  <2>1. SUFFICES ASSUME NEW i \in DOMAIN input', NEW q \in Packet,
                        q # input'[i].id, packet'[q] # None,
                        q = current' \/ \E j \in DOMAIN input' : j > i /\ input'[j].id = q,
                        packet'[q].seqno = packet'[input'[i].id].seqno
                 PROVE  input'[i].reused
    BY DEF OrderInv
  <2>2. i \in DOMAIN input /\ input'[i].id = input[i].id /\ packet'[input[i].id] = packet[input[i].id]
    BY <1>2, <1>7, <1>8, <1>10, <2>1
  <2>3. CASE q = p
    BY <1>5, <1>7, <1>8, <2>1, <2>2, <2>3
  <2>4. CASE q # p
    <3>1. packet'[q] = packet[q] /\ \E j \in DOMAIN input : j > i /\ input[j].id = q
      BY <1>3, <1>7, <1>8, <2>1, <2>4
    <3>2. input[i].reused
      BY <1>1, <2>1, <2>2, <3>1 DEF OrderInv
    <3> QED  BY <1>8, <2>2, <3>2
  <2> QED  BY <2>3, <2>4
<1>16. FreshInv'
  <2>1. rec.others = 0
    BY <1>4
  <2> QED  BY <1>1, <1>7, <2>1 DEF FreshInv
<1> QED  BY <1>9, <1>12, <1>13, <1>14, <1>15, <1>16 DEF IInv

\* A packet for somebody else takes a number, too.
LEMMA SendElsewhereStep ==
  ASSUME IInv, SendElsewhere
  PROVE  IInv'
<1>1. TypeOK /\ KnownInv /\ FreshInv /\ WindowInv /\ NewInv /\ OrderInv
  BY DEF IInv
<1>2. TakeNumber /\ UNCHANGED <<packet, current, tries, answer>>
  BY DEF SendElsewhere
<1>3. /\ tsch_packet_seqno' \in 0 .. SeqRange - 1
      /\ input' \in BoundedSeq(Copy, InputCap) /\ window' \in BoundedSeq(Entry, MaxSeqnos)
      /\ DOMAIN input' = DOMAIN input /\ DOMAIN window' = DOMAIN window
      /\ \A i \in DOMAIN input : /\ input'[i].id = input[i].id
                                 /\ input[i].reused => input'[i].reused
      /\ \A i \in DOMAIN window : /\ window'[i].sender = window[i].sender
                                  /\ window'[i].seqno = window[i].seqno
                                  /\ window[i].reused => window'[i].reused
  BY <1>1, <1>2, NumberTaken
<1>4. TypeOK'
  BY <1>1, <1>2, <1>3 DEF TypeOK, Copy
<1>5. KnownInv'
  <2>1. \A q : Kept(q, input) => Kept(q, input')
    BY <1>3 DEF Kept
  <2> QED  BY <1>1, <1>2, <1>3, <2>1 DEF KnownInv
<1>6. FreshInv' /\ WindowInv'
  BY <1>1, <1>2, <1>3 DEF FreshInv, WindowInv
<1>7. NewInv'
  BY <1>1, <1>2, <1>3 DEF NewInv
<1>8. OrderInv'
  BY <1>1, <1>2, <1>3 DEF OrderInv
<1> QED  BY <1>4, <1>5, <1>6, <1>7, <1>8 DEF IInv

\* On the air: B may have one more copy of the packet at the head of the queue.
LEMMA AirStep ==
  ASSUME IInv, Air
  PROVE  IInv'
<1>1. TypeOK /\ KnownInv /\ FreshInv /\ WindowInv /\ NewInv /\ OrderInv
  BY DEF IInv
<1>2. /\ input \in Seq(Copy) /\ Len(input) \in Nat /\ DOMAIN input = 1 .. Len(input)
      /\ Len(input) <= InputCap /\ InputCap \in Nat
      /\ packet \in [Packet -> PacketRecord \cup {None}]
  BY <1>1, Types, ConstantFacts
<1>3. /\ InFlight /\ UNCHANGED <<tsch_packet_seqno, packet, current, window>>
      /\ tries' \in 0 .. MaxTx - 1 /\ answer' \in {None, "ok", "noack"}
      /\ \/ input' = input
         \/ Len(input) < InputCap /\ input' = Append(input, [id |-> current, reused |-> FALSE])
  <2>1. /\ tries \in 0 .. MaxTx - 1 /\ MaxTx \in Nat \ {0} /\ answer \in {None, "ok", "noack"}
        /\ 0 \in 0 .. MaxTx - 1
    BY <1>1, ConstantFacts DEF TypeOK
  <2>2. Retry => tries' \in 0 .. MaxTx - 1 /\ answer' \in {None, "ok", "noack"}
    BY <2>1 DEF Retry
  <2>3. CASE AttemptLost
    BY <2>2, <2>3 DEF AttemptLost, receiveVars
  <2>4. ASSUME NEW acked \in BOOLEAN, Attempt(acked)
        PROVE  /\ InFlight
               /\ UNCHANGED <<tsch_packet_seqno, packet, current, window>>
               /\ tries' \in 0 .. MaxTx - 1 /\ answer' \in {None, "ok", "noack"}
               /\ Len(input) < InputCap
               /\ input' = Append(input, [id |-> current, reused |-> FALSE])
    <3>1. tries' \in 0 .. MaxTx - 1 /\ answer' \in {None, "ok", "noack"}
      BY <2>1, <2>2, <2>4 DEF Attempt
    <3> QED  BY <2>4, <3>1 DEF Attempt
  <2> QED  BY <2>3, <2>4 DEF Air
<1>4. current \in Packet /\ current # None /\ packet[current] # None
  BY <1>1, <1>3 DEF InFlight, KnownInv, TypeOK
<1>5. CASE input' = input
  <2>1. TypeOK'
    BY <1>1, <1>3, <1>5 DEF TypeOK
  <2>2. KnownInv'
    BY <1>1, <1>3, <1>4, <1>5 DEF KnownInv, Kept
  <2>3. FreshInv' /\ WindowInv' /\ NewInv'
    BY <1>1, <1>3 DEF FreshInv, WindowInv, NewInv
  <2>4. OrderInv'
    BY <1>1, <1>3, <1>5 DEF OrderInv
  <2> QED  BY <2>1, <2>2, <2>3, <2>4 DEF IInv
<1>6. CASE Len(input) < InputCap /\ input' = Append(input, [id |-> current, reused |-> FALSE])
  <2>1. PICK c \in Copy : c = [id |-> current, reused |-> FALSE]
    BY <1>4 DEF Copy
  <2>2. PICK n \in Nat : n = Len(input)
    BY <1>2
  <2>3. /\ input' \in Seq(Copy) /\ Len(input') = n + 1 /\ DOMAIN input' = 1 .. n + 1
        /\ DOMAIN input = 1 .. n
        /\ \A i \in 1 .. n : input'[i] = input[i]
        /\ input'[n + 1].id = current
    BY <1>2, <1>6, <2>1, <2>2
  <2>4. input' \in BoundedSeq(Copy, InputCap)
    <3>1. Len(input') <= InputCap
      BY <1>2, <1>6, <2>2, <2>3
    <3> QED  BY <1>2, <2>3, <3>1, BoundedSeqType
  <2>5. TypeOK'
    BY <1>1, <1>3, <2>4 DEF TypeOK, Copy
  <2>6. KnownInv'
    <3>1. \A q : Kept(q, input) => Kept(q, input')
      BY <2>2, <2>3 DEF Kept
    <3>2. \A i \in DOMAIN input' : packet'[input'[i].id] # None
      <4>1. SUFFICES ASSUME NEW i \in 1 .. n + 1 PROVE packet[input'[i].id] # None
        BY <1>3, <2>3
      <4>2. CASE i = n + 1
        BY <1>4, <2>3, <4>2
      <4>3. CASE i \in 1 .. n
        BY <1>1, <2>3, <4>3 DEF KnownInv
      <4> QED  BY <2>2, <4>2, <4>3
    <3> QED  BY <1>1, <1>3, <1>4, <3>1, <3>2 DEF KnownInv
  <2>7. FreshInv' /\ WindowInv' /\ NewInv'
    BY <1>1, <1>3 DEF FreshInv, WindowInv, NewInv
  <2>8. OrderInv'
    <3>1. SUFFICES ASSUME NEW i \in 1 .. n + 1, NEW q \in Packet,
                          q # input'[i].id, packet[q] # None,
                          q = current \/ \E j \in 1 .. n + 1 : j > i /\ input'[j].id = q,
                          packet[q].seqno = packet[input'[i].id].seqno
                   PROVE  input'[i].reused
      BY <1>3, <2>3 DEF OrderInv
    <3>2. CASE i = n + 1
      BY <2>2, <2>3, <3>1, <3>2
    <3>3. CASE i \in 1 .. n
      <4>1. input'[i] = input[i] /\ i \in DOMAIN input
        BY <2>3, <3>3
      <4>2. q = current \/ \E j \in DOMAIN input : j > i /\ input[j].id = q
        <5>1. \A j \in 1 .. n + 1 : j = n + 1 \/ j \in 1 .. n
          BY <2>2
        <5> QED  BY <2>3, <3>1, <5>1
      <4> QED  BY <1>1, <3>1, <4>1, <4>2 DEF OrderInv
    <3> QED  BY <2>2, <3>2, <3>3
  <2> QED  BY <2>5, <2>6, <2>7, <2>8 DEF IInv
<1> QED  BY <1>3, <1>5, <1>6

\* A's process handles the answer, and may forget the packet.
LEMMA AnswerStep ==
  ASSUME IInv, AnswerFromB
  PROVE  IInv'
<1>1. TypeOK /\ KnownInv /\ FreshInv /\ WindowInv /\ NewInv /\ OrderInv
  BY DEF IInv
<1>2. /\ packet \in [Packet -> PacketRecord \cup {None}]
      /\ current \in Packet
  BY <1>1 DEF TypeOK, AnswerFromB, KnownInv
<1>3. /\ answer' = None /\ current' = None /\ packet' = AfterAnswer
      /\ UNCHANGED <<tsch_packet_seqno, tries, input, window>>
  BY DEF AnswerFromB, receiveVars
<1>5. /\ packet' \in [Packet -> PacketRecord \cup {None}]
      /\ \A q \in Packet : packet'[q] = packet[q] \/ (packet'[q] = None /\ ~Kept(q, input) /\ q = current)
  BY <1>2, <1>3 DEF AfterAnswer
<1>6. TypeOK'
  BY <1>1, <1>3, <1>5 DEF TypeOK
<1>7. KnownInv'
  <2>1. ASSUME NEW q \in Packet, packet'[q] # None PROVE Kept(q, input')
    <3>1. packet[q] # None /\ packet'[q] = packet[q]
      BY <1>5, <2>1
    <3>2. q # current => Kept(q, input)
      BY <1>1, <3>1 DEF KnownInv
    <3>3. q = current => Kept(q, input)
      BY <1>2, <1>3, <2>1 DEF AfterAnswer
    <3> QED  BY <1>3, <3>2, <3>3
  <2>2. \A i \in DOMAIN input : packet'[input[i].id] # None
    <3>1. SUFFICES ASSUME NEW i \in DOMAIN input PROVE packet'[input[i].id] # None
      OBVIOUS
    <3>2. Kept(input[i].id, input)
      BY DEF Kept
    <3>3. input[i].id \in Packet /\ packet[input[i].id] # None
      BY <1>1, Types DEF KnownInv, Copy
    <3> QED  BY <1>5, <3>2, <3>3
  <2> QED  BY <1>3, <2>1, <2>2 DEF KnownInv
<1>8. FreshInv' /\ WindowInv'
  BY <1>1, <1>3, <1>5 DEF FreshInv, WindowInv
<1>9. NewInv'
  BY <1>1, <1>3, <1>5 DEF NewInv
<1>10. OrderInv'
  <2>1. SUFFICES ASSUME NEW i \in DOMAIN input, NEW q \in Packet,
                        q # input[i].id, packet'[q] # None,
                        q = None \/ \E j \in DOMAIN input : j > i /\ input[j].id = q,
                        packet'[q].seqno = packet'[input[i].id].seqno
                 PROVE  input[i].reused
    BY <1>3 DEF OrderInv
  <2>2. packet'[q] = packet[q] /\ q # None
    BY <1>5, <2>1, ConstantFacts
  <2>3. packet'[input[i].id] = packet[input[i].id]
    <3>1. Kept(input[i].id, input) /\ input[i].id \in Packet
      BY <1>1, Types DEF Kept, Copy
    <3> QED  BY <1>5, <3>1
  <2> QED  BY <1>1, <2>1, <2>2, <2>3 DEF OrderInv
<1> QED  BY <1>6, <1>7, <1>8, <1>9, <1>10 DEF IInv

\* What one more accepted packet changes in the record of another.
LEMMA OneMoreFacts ==
  ASSUME NEW r \in PacketRecord \cup {None}
  PROVE  /\ OneMore(r) \in PacketRecord \cup {None}
         /\ OneMore(r) = None <=> r = None
         /\ r # None => /\ OneMore(r).seqno = r.seqno /\ OneMore(r).accepted = r.accepted
                        /\ OneMore(r).others = IF r.accepted > 0 /\ r.others < MaxSeqnos
                                               THEN r.others + 1 ELSE r.others
<1>1. CASE r = None
  BY <1>1 DEF OneMore
<1>2. CASE r # None
  <2>1. /\ r \in PacketRecord /\ r.others \in 0 .. MaxSeqnos /\ MaxSeqnos \in Nat
    BY <1>2, RecordType, ConstantFacts
  <2>2. CASE ~(r.accepted > 0 /\ r.others < MaxSeqnos)
    BY <1>2, <2>1, <2>2 DEF OneMore
  <2>3. CASE r.accepted > 0 /\ r.others < MaxSeqnos
    <3>1. PICK k \in 0 .. MaxSeqnos : k = r.others + 1
      BY <2>1, <2>3
    <3>2. OneMore(r) = [r EXCEPT !.others = k]
      BY <1>2, <2>3, <3>1 DEF OneMore
    <3>3. /\ [r EXCEPT !.others = k] \in PacketRecord
          /\ [r EXCEPT !.others = k].seqno = r.seqno
          /\ [r EXCEPT !.others = k].accepted = r.accepted
          /\ [r EXCEPT !.others = k].others = k
      BY <2>1, <3>1 DEF PacketRecord
    <3> QED  BY <1>2, <2>3, <3>1, <3>2, <3>3, ConstantFacts
  <2> QED  BY <2>2, <2>3
<1> QED  BY <1>1, <1>2

\* A packet counts as accepted once more.
LEMMA AcceptedRecord ==
  ASSUME NEW r \in PacketRecord, NEW s, s = [r EXCEPT !.accepted = IF @ < 2 THEN @ + 1 ELSE @]
  PROVE  s \in PacketRecord /\ s.seqno = r.seqno /\ s.others = r.others /\ s.accepted > 0
<1>1. r.accepted \in 0 .. 2
  BY RecordType
<1>2. PICK k \in 0 .. 2 : k = IF r.accepted < 2 THEN r.accepted + 1 ELSE r.accepted
  BY <1>1
<1>3. k > 0
  BY <1>1, <1>2
<1>4. s = [r EXCEPT !.accepted = k]
  BY <1>2
<1> QED  BY <1>3, <1>4 DEF PacketRecord

\* B takes a packet of another neighbour.
LEMMA OtherInputStep ==
  ASSUME IInv, NEW n \in OtherNumber, InputFromOther(n)
  PROVE  IInv'
<1>1. TypeOK /\ KnownInv /\ FreshInv /\ WindowInv /\ NewInv /\ OrderInv
  BY DEF IInv
<1>2. /\ packet \in [Packet -> PacketRecord \cup {None}]
      /\ DOMAIN window = 1 .. Len(window) /\ Len(window) \in Nat /\ MaxSeqnos \in Nat
      /\ \A i \in DOMAIN input : input[i].id \in Packet
  BY <1>1, Types, ConstantFacts DEF TypeOK, Copy
<1>3. PICK e \in Entry : e = [sender |-> "other", seqno |-> n, reused |-> FALSE]
  BY ConstantFacts DEF Entry
<1>4. /\ Accept(e) /\ packet' = [p \in Packet |-> OneMore(packet[p])]
      /\ UNCHANGED <<tsch_packet_seqno, current, tries, answer, input>>
  BY <1>2, <1>3 DEF InputFromOther
<1>5. /\ window' \in BoundedSeq(Entry, MaxSeqnos)
      /\ DOMAIN window' = 1 .. (IF Len(window) < MaxSeqnos THEN Len(window) + 1 ELSE MaxSeqnos)
      /\ window'[1] = e
      /\ \A i \in DOMAIN window' : i # 1 => i - 1 \in DOMAIN window /\ window'[i] = window[i - 1]
  BY <1>1, <1>4, AcceptFacts
<1>6. \A p \in Packet : packet'[p] = OneMore(packet[p])
  BY <1>4
<1>7. ASSUME NEW p \in Packet
      PROVE  /\ packet'[p] \in PacketRecord \cup {None}
             /\ packet'[p] = None <=> packet[p] = None
             /\ packet[p] # None =>
                  /\ packet'[p].seqno = packet[p].seqno
                  /\ packet'[p].accepted = packet[p].accepted
                  /\ packet'[p].others = IF packet[p].accepted > 0 /\ packet[p].others < MaxSeqnos
                                         THEN packet[p].others + 1 ELSE packet[p].others
  BY <1>2, <1>6, OneMoreFacts
<1>8. packet' \in [Packet -> PacketRecord \cup {None}]
  BY <1>4, <1>6, <1>7
<1>9. TypeOK'
  BY <1>1, <1>4, <1>5, <1>8 DEF TypeOK
<1>10. KnownInv'
  <2>1. \A i \in DOMAIN input : packet'[input[i].id] # None
    BY <1>1, <1>2, <1>7 DEF KnownInv
  <2>2. current # None => packet'[current] # None
    BY <1>1, <1>7 DEF KnownInv, TypeOK
  <2>3. \A p \in Packet : packet'[p] # None => p = current \/ Kept(p, input)
    BY <1>1, <1>7 DEF KnownInv
  <2> QED  BY <1>1, <1>4, <2>1, <2>2, <2>3 DEF KnownInv
<1>11. WindowInv'
  <2>1. SUFFICES ASSUME NEW p \in Packet, packet'[p] # None, packet'[p].accepted > 0,
                        packet'[p].others < MaxSeqnos
                 PROVE  /\ packet'[p].others + 1 \in DOMAIN window'
                        /\ window'[packet'[p].others + 1].sender = "A"
                        /\ window'[packet'[p].others + 1].seqno = packet'[p].seqno
    BY DEF WindowInv
  <2>2. packet[p] # None /\ packet[p].accepted > 0 /\ packet[p].others \in 0 .. MaxSeqnos
    BY <1>2, <1>7, <2>1, RecordType
  <2>3. packet[p].others < MaxSeqnos /\ packet'[p].others = packet[p].others + 1
    BY <1>7, <2>1, <2>2
  <2>4. PICK k \in Nat : k = packet[p].others + 1 /\ k < MaxSeqnos
    BY <2>1, <2>2, <2>3
  <2>5. k \in DOMAIN window /\ window[k].sender = "A" /\ window[k].seqno = packet[p].seqno
    BY <1>1, <2>2, <2>3, <2>4 DEF WindowInv
  <2>6. k + 1 \in DOMAIN window' /\ k + 1 # 1 /\ (k + 1) - 1 = k
    BY <1>2, <1>5, <2>4, <2>5
  <2>7. window'[k + 1] = window[k]
    BY <1>5, <2>6
  <2> QED  BY <1>7, <2>2, <2>3, <2>4, <2>5, <2>6, <2>7
<1>12. NewInv'
  <2>1. SUFFICES ASSUME NEW p \in Packet, packet'[p] # None, packet'[p].accepted = 0,
                        NEW i \in DOMAIN window', window'[i].sender = "A",
                        window'[i].seqno = packet'[p].seqno
                 PROVE  window'[i].reused
    BY DEF NewInv
  <2>2. packet[p] # None /\ packet[p].accepted = 0 /\ packet'[p].seqno = packet[p].seqno
    BY <1>7, <2>1
  <2>3. i # 1
    BY <1>3, <1>5, <2>1
  <2>4. i - 1 \in DOMAIN window /\ window'[i] = window[i - 1]
    BY <1>5, <2>3
  <2> QED  BY <1>1, <2>1, <2>2, <2>4 DEF NewInv
<1>13. OrderInv'
  <2>1. SUFFICES ASSUME NEW i \in DOMAIN input, NEW q \in Packet,
                        q # input[i].id, packet'[q] # None,
                        q = current \/ \E j \in DOMAIN input : j > i /\ input[j].id = q,
                        packet'[q].seqno = packet'[input[i].id].seqno
                 PROVE  input[i].reused
    BY <1>4 DEF OrderInv
  <2>2. packet[q] # None /\ packet'[q].seqno = packet[q].seqno
    BY <1>7, <2>1
  <2>3. packet[input[i].id] # None /\ packet'[input[i].id].seqno = packet[input[i].id].seqno
    BY <1>1, <1>2, <1>7 DEF KnownInv
  <2> QED  BY <1>1, <2>1, <2>2, <2>3 DEF OrderInv
<1>14. FreshInv'
  BY <1>1, <1>7 DEF FreshInv
<1> QED  BY <1>9, <1>10, <1>11, <1>12, <1>13, <1>14 DEF IInv

\* What is known of the copy that B's process takes, and of those behind it.
LEMMA HeadFacts ==
  ASSUME IInv, input # << >>
  PROVE  /\ Head(input) = input[1] /\ 1 \in DOMAIN input
         /\ Head(input).id \in Packet /\ Head(input).reused \in BOOLEAN
         /\ packet[Head(input).id] \in PacketRecord /\ packet[Head(input).id] # None
         /\ Tail(input) \in BoundedSeq(Copy, InputCap) /\ Len(Tail(input)) = Len(input) - 1
         /\ DOMAIN Tail(input) = 1 .. Len(input) - 1
         /\ \A i \in DOMAIN Tail(input) : i + 1 \in DOMAIN input /\ Tail(input)[i] = input[i + 1]
         /\ \A i \in DOMAIN input : i = 1 \/ i - 1 \in DOMAIN Tail(input)
<1>1. /\ input \in Seq(Copy) /\ Len(input) <= InputCap /\ InputCap \in Nat
      /\ DOMAIN input = 1 .. Len(input) /\ Len(input) \in Nat
      /\ packet \in [Packet -> PacketRecord \cup {None}]
      /\ \A i \in DOMAIN input : packet[input[i].id] # None
  BY Types, ConstantFacts DEF IInv, KnownInv
<1>2. /\ Head(input) = input[1] /\ Len(input) > 0 /\ input[1] \in Copy
      /\ Tail(input) \in Seq(Copy) /\ Len(Tail(input)) = Len(input) - 1
      /\ DOMAIN Tail(input) = 1 .. Len(input) - 1
      /\ \A i \in 1 .. Len(input) - 1 : Tail(input)[i] = input[i + 1]
  BY <1>1
<1>3. Tail(input) \in BoundedSeq(Copy, InputCap)
  <2>1. Len(Tail(input)) <= InputCap
    BY <1>1, <1>2
  <2> QED  BY <1>1, <1>2, <2>1, BoundedSeqType
<1>4. 1 \in DOMAIN input /\ packet[Head(input).id] # None
  BY <1>1, <1>2
<1>5. Head(input).id \in Packet /\ Head(input).reused \in BOOLEAN
  BY <1>2 DEF Copy
<1> QED  BY <1>1, <1>2, <1>3, <1>4, <1>5

\* B's process takes a copy of A's: what is dropped or passed up, and what is
\* known of the packets then.
LEMMA InputStep ==
  ASSUME IInv, InputFromA
  PROVE  IInv'
<1>1. TypeOK /\ KnownInv /\ FreshInv /\ WindowInv /\ NewInv /\ OrderInv
  BY DEF IInv
<1>2. PICK h \in Packet : h = Head(input).id
  BY HeadFacts DEF InputFromA
<1>3. PICK rec \in PacketRecord : rec = packet[h] /\ rec # None
  BY <1>2, HeadFacts DEF InputFromA
<1>4. PICK dup \in BOOLEAN : dup = Duplicate("A", rec.seqno)
  BY DEF Duplicate
<1>5. /\ input # << >> /\ input' = Tail(input)
      /\ UNCHANGED <<tsch_packet_seqno, current, tries, answer>>
      /\ packet' = [p \in Packet |->
                IF p # h THEN IF dup THEN packet[p] ELSE OneMore(packet[p])
                ELSE IF current # p /\ ~Kept(p, input') THEN None
                ELSE IF dup THEN rec
                ELSE [rec EXCEPT !.accepted = IF @ < 2 THEN @ + 1 ELSE @]]
      /\ IF dup THEN window' = window
         ELSE Accept([sender |-> "A", seqno |-> rec.seqno, reused |-> Head(input).reused])
  BY <1>2, <1>3, <1>4 DEF InputFromA
<1>6. PICK e \in Entry : e = [sender |-> "A", seqno |-> rec.seqno, reused |-> Head(input).reused]
  BY <1>3, <1>5, HeadFacts, RecordType DEF Entry
<1>7. /\ Head(input) = input[1] /\ 1 \in DOMAIN input
      /\ input' \in BoundedSeq(Copy, InputCap) /\ DOMAIN input' = 1 .. Len(input) - 1
      /\ \A i \in DOMAIN input' : i + 1 \in DOMAIN input /\ input'[i] = input[i + 1]
      /\ \A i \in DOMAIN input : i = 1 \/ i - 1 \in DOMAIN input'
  BY <1>5, HeadFacts
<1>8. /\ packet \in [Packet -> PacketRecord \cup {None}]
      /\ DOMAIN window = 1 .. Len(window) /\ Len(window) \in Nat
      /\ MaxSeqnos \in Nat \ {0} /\ Len(input) \in Nat /\ DOMAIN input = 1 .. Len(input)
      /\ \A i \in DOMAIN input : input[i].id \in Packet
  BY <1>1, Types, ConstantFacts DEF Copy
<1>9. /\ window' \in BoundedSeq(Entry, MaxSeqnos)
      /\ ~dup => /\ DOMAIN window' = 1 .. (IF Len(window) < MaxSeqnos
                                           THEN Len(window) + 1 ELSE MaxSeqnos)
                 /\ 1 \in DOMAIN window' /\ window'[1] = e
                 /\ \A i \in DOMAIN window' : i # 1 =>
                      i - 1 \in DOMAIN window /\ window'[i] = window[i - 1]
  <2>1. CASE dup
    BY <1>1, <1>5, <2>1 DEF TypeOK
  <2>2. CASE ~dup
    BY <1>1, <1>5, <1>6, <2>2, AcceptFacts
  <2> QED  BY <2>1, <2>2
<1>10. ASSUME NEW p \in Packet, p # h
       PROVE  /\ packet'[p] \in PacketRecord \cup {None}
              /\ packet'[p] = None <=> packet[p] = None
              /\ packet[p] # None =>
                   /\ packet'[p].seqno = packet[p].seqno
                   /\ packet'[p].accepted = packet[p].accepted
                   /\ packet'[p].others = IF ~dup /\ packet[p].accepted > 0
                                                  /\ packet[p].others < MaxSeqnos
                                          THEN packet[p].others + 1 ELSE packet[p].others
  <2>1. packet'[p] = IF dup THEN packet[p] ELSE OneMore(packet[p])
    BY <1>5, <1>10
  <2>2. packet[p] \in PacketRecord \cup {None}
    BY <1>8
  <2>3. CASE dup
    BY <2>1, <2>2, <2>3
  <2>4. CASE ~dup
    BY <2>1, <2>2, <2>4, OneMoreFacts
  <2> QED  BY <2>3, <2>4
<1>11. \/ packet'[h] = None /\ current # h /\ ~Kept(h, input')
       \/ /\ current = h \/ Kept(h, input')
          /\ packet'[h] \in PacketRecord /\ packet'[h].seqno = rec.seqno
          /\ packet'[h].others = rec.others
          /\ IF dup THEN packet'[h].accepted = rec.accepted ELSE packet'[h].accepted > 0
  <2>1. packet'[h] = IF current # h /\ ~Kept(h, input') THEN None
                     ELSE IF dup THEN rec
                     ELSE [rec EXCEPT !.accepted = IF @ < 2 THEN @ + 1 ELSE @]
    BY <1>5
  <2>2. PICK s \in PacketRecord :
          /\ s = [rec EXCEPT !.accepted = IF @ < 2 THEN @ + 1 ELSE @]
          /\ s.seqno = rec.seqno /\ s.others = rec.others /\ s.accepted > 0
    BY AcceptedRecord
  <2> QED  BY <2>1, <2>2
<1>12. packet' \in [Packet -> PacketRecord \cup {None}]
  <2>1. \A p \in Packet : packet'[p] \in PacketRecord \cup {None}
    BY <1>10, <1>11
  <2>2. packet' = [p \in Packet |-> packet'[p]]
    BY <1>5
  <2> QED  BY <2>1, <2>2
<1>13. TypeOK'
  BY <1>1, <1>5, <1>7, <1>9, <1>12 DEF TypeOK, Copy
<1>14. KnownInv'
  <2>1. ASSUME NEW p \in Packet, p # h, Kept(p, input) PROVE Kept(p, input')
    <3>1. PICK i \in DOMAIN input : input[i].id = p
      BY <2>1 DEF Kept
    <3>2. i # 1 /\ i - 1 \in DOMAIN input'
      BY <1>2, <1>7, <2>1, <3>1
    <3>3. input'[i - 1] = input[i]
      BY <1>7, <1>8, <3>2
    <3> QED  BY <3>1, <3>2, <3>3 DEF Kept
  <2>2. current # None => packet'[current] # None
    <3>1. SUFFICES ASSUME current # None PROVE packet'[current] # None
      OBVIOUS
    <3>2. current \in Packet /\ packet[current] # None
      BY <1>1, <3>1 DEF KnownInv, TypeOK
    <3> QED  BY <1>10, <1>11, <3>2, ConstantFacts
  <2>3. \A i \in DOMAIN input' : packet'[input'[i].id] # None
    <3>1. SUFFICES ASSUME NEW i \in DOMAIN input' PROVE packet'[input'[i].id] # None
      OBVIOUS
    <3>2. /\ i + 1 \in DOMAIN input /\ input'[i] = input[i + 1]
          /\ input'[i].id \in Packet /\ packet[input'[i].id] # None
      BY <1>1, <1>7, <1>8 DEF KnownInv
    <3>3. Kept(input'[i].id, input')
      BY DEF Kept
    <3> QED  BY <1>10, <1>11, <3>2, <3>3, ConstantFacts
  <2>4. ASSUME NEW p \in Packet, packet'[p] # None PROVE p = current \/ Kept(p, input')
    BY <1>1, <1>10, <1>11, <2>1, <2>4 DEF KnownInv
  <2> QED  BY <1>1, <1>5, <2>2, <2>3, <2>4 DEF KnownInv
<1>15. WindowInv'
  <2>1. SUFFICES ASSUME NEW p \in Packet, packet'[p] # None, packet'[p].accepted > 0,
                        packet'[p].others < MaxSeqnos
                 PROVE  /\ packet'[p].others + 1 \in DOMAIN window'
                        /\ window'[packet'[p].others + 1].sender = "A"
                        /\ window'[packet'[p].others + 1].seqno = packet'[p].seqno
    BY DEF WindowInv
  <2>2. CASE dup
    <3>1. window' = window
      BY <1>5, <2>2
    <3>2. /\ packet[p] # None /\ packet'[p].seqno = packet[p].seqno
          /\ packet'[p].accepted = packet[p].accepted /\ packet'[p].others = packet[p].others
      BY <1>3, <1>10, <1>11, <2>1, <2>2
    <3> QED  BY <1>1, <2>1, <3>1, <3>2 DEF WindowInv
  <2>3. CASE ~dup /\ p # h
    <3>1. packet[p] # None /\ packet[p].accepted > 0 /\ packet[p].others \in 0 .. MaxSeqnos
      BY <1>8, <1>10, <2>1, <2>3, RecordType
    <3>2. packet[p].others < MaxSeqnos /\ packet'[p].others = packet[p].others + 1
      BY <1>8, <1>10, <2>1, <2>3, <3>1
    <3>3. PICK k \in Nat : k = packet[p].others + 1 /\ k < MaxSeqnos
      BY <1>8, <2>1, <3>1, <3>2
    <3>4. k \in DOMAIN window /\ window[k].sender = "A" /\ window[k].seqno = packet[p].seqno
      BY <1>1, <3>1, <3>2, <3>3 DEF WindowInv
    <3>5. k + 1 \in DOMAIN window' /\ k + 1 # 1 /\ (k + 1) - 1 = k
      BY <1>8, <1>9, <2>3, <3>3, <3>4
    <3>6. window'[k + 1] = window[k]
      BY <1>9, <2>3, <3>5
    <3> QED  BY <1>10, <2>3, <3>1, <3>2, <3>3, <3>4, <3>5, <3>6
  <2>4. CASE ~dup /\ p = h
    <3>1. packet'[h].others = rec.others /\ packet'[h].seqno = rec.seqno
      BY <1>11, <2>1, <2>4
    <3>2. rec.accepted = 0
      <4>1. rec.accepted \in 0 .. 2
        BY <1>3, RecordType
      <4>2. SUFFICES ASSUME rec.accepted > 0 PROVE FALSE
        BY <4>1
      <4>3. /\ rec.others + 1 \in DOMAIN window /\ window[rec.others + 1].sender = "A"
            /\ window[rec.others + 1].seqno = rec.seqno
        BY <1>1, <1>3, <2>1, <2>4, <3>1, <4>2 DEF WindowInv
      <4>4. Duplicate("A", rec.seqno)
        BY <4>3 DEF Duplicate
      <4> QED  BY <1>4, <2>4, <4>4
    <3>3. rec.others = 0
      BY <1>1, <1>3, <3>2 DEF FreshInv
    <3> QED  BY <1>6, <1>9, <2>4, <3>1, <3>3
  <2> QED  BY <2>2, <2>3, <2>4
<1>16. NewInv'
  <2>1. SUFFICES ASSUME NEW p \in Packet, packet'[p] # None, packet'[p].accepted = 0,
                        NEW i \in DOMAIN window', window'[i].sender = "A",
                        window'[i].seqno = packet'[p].seqno
                 PROVE  window'[i].reused
    BY DEF NewInv
  <2>2. CASE dup
    <3>1. window' = window
      BY <1>5, <2>2
    <3>2. /\ packet[p] # None /\ packet'[p].seqno = packet[p].seqno
          /\ packet'[p].accepted = packet[p].accepted
      BY <1>3, <1>10, <1>11, <2>1, <2>2
    <3> QED  BY <1>1, <2>1, <3>1, <3>2 DEF NewInv
  <2>3. CASE ~dup
    <3>1. p # h
      BY <1>11, <2>1, <2>3, RecordType
    <3>2. packet[p] # None /\ packet'[p].seqno = packet[p].seqno /\ packet[p].accepted = 0
      BY <1>10, <2>1, <3>1
    <3>3. CASE i = 1
      <4>1. packet[p].seqno = rec.seqno
        BY <1>6, <1>9, <2>1, <2>3, <3>2, <3>3
      <4>2. p = current \/ \E j \in DOMAIN input : j > 1 /\ input[j].id = p
        <5>1. p = current \/ Kept(p, input)
          BY <1>1, <3>2 DEF KnownInv
        <5>2. \A j \in DOMAIN input : input[j].id = p => j > 1
          BY <1>2, <1>7, <1>8, <3>1
        <5> QED  BY <5>1, <5>2 DEF Kept
      <4>3. input[1].reused
        BY <1>1, <1>2, <1>3, <1>7, <3>1, <3>2, <4>1, <4>2 DEF OrderInv
      <4> QED  BY <1>6, <1>7, <1>9, <2>3, <3>3, <4>3
    <3>4. CASE i # 1
      <4>1. i - 1 \in DOMAIN window /\ window'[i] = window[i - 1]
        BY <1>9, <2>3, <3>4
      <4> QED  BY <1>1, <2>1, <3>2, <4>1 DEF NewInv
    <3> QED  BY <3>3, <3>4
  <2> QED  BY <2>2, <2>3
<1>17. OrderInv'
  <2>1. SUFFICES ASSUME NEW i \in DOMAIN input', NEW q \in Packet,
                        q # input'[i].id, packet'[q] # None,
                        q = current \/ \E j \in DOMAIN input' : j > i /\ input'[j].id = q,
                        packet'[q].seqno = packet'[input'[i].id].seqno
                 PROVE  input'[i].reused
    BY <1>5 DEF OrderInv
  <2>2. i + 1 \in DOMAIN input /\ input'[i] = input[i + 1] /\ input'[i].id \in Packet
    BY <1>7, <1>8
  <2>3. packet[q] # None /\ packet'[q].seqno = packet[q].seqno
    BY <1>3, <1>10, <1>11, <2>1
  <2>4. packet'[input'[i].id].seqno = packet[input'[i].id].seqno
    <3>1. Kept(input'[i].id, input') /\ packet[input'[i].id] # None
      BY <1>1, <2>2 DEF Kept, KnownInv
    <3> QED  BY <1>3, <1>10, <1>11, <2>2, <3>1
  <2>5. q = current \/ \E j \in DOMAIN input : j > i + 1 /\ input[j].id = q
    <3>1. ASSUME NEW j \in DOMAIN input', j > i, input'[j].id = q
          PROVE  \E k \in DOMAIN input : k > i + 1 /\ input[k].id = q
      <4>1. j + 1 \in DOMAIN input /\ input'[j] = input[j + 1]
        BY <1>7
      <4>2. j \in Int /\ i \in Int
        BY <1>7, <1>8
      <4>3. j + 1 > i + 1
        BY <3>1, <4>2
      <4> QED  BY <3>1, <4>1, <4>3
    <3> QED  BY <2>1, <3>1
  <2> QED  BY <1>1, <2>1, <2>2, <2>3, <2>4, <2>5 DEF OrderInv
<1>18. FreshInv'
  <2>1. SUFFICES ASSUME NEW p \in Packet, packet'[p] # None, packet'[p].accepted = 0
                 PROVE  packet'[p].others = 0
    BY DEF FreshInv
  <2>2. CASE p # h
    BY <1>1, <1>10, <2>1, <2>2 DEF FreshInv
  <2>3. CASE p = h
    BY <1>1, <1>3, <1>11, <2>1, <2>3 DEF FreshInv
  <2> QED  BY <2>2, <2>3
<1> QED  BY <1>13, <1>14, <1>15, <1>16, <1>17, <1>18 DEF IInv

----------------------------------------------------------------------------
(***************************************************************************)
(* The theorems                                                            *)
(***************************************************************************)

\* The invariant holds at the start.
LEMMA InitInv == Init => IInv
<1>1. SUFFICES ASSUME Init PROVE IInv
  OBVIOUS
<1>2. << >> \in BoundedSeq(Copy, InputCap) /\ << >> \in BoundedSeq(Entry, MaxSeqnos)
  <2>1. << >> \in Seq(Copy) /\ << >> \in Seq(Entry) /\ Len(<< >>) = 0
    OBVIOUS
  <2>2. InputCap \in Nat /\ MaxSeqnos \in Nat /\ 0 <= InputCap /\ 0 <= MaxSeqnos
    BY ConstantFacts
  <2> QED  BY <2>1, <2>2, BoundedSeqType
<1>3. TypeOK
  <2>1. 0 \in 0 .. SeqRange - 1 /\ 0 \in 0 .. MaxTx - 1
    BY ConstantFacts
  <2> QED  BY <1>1, <1>2, <2>1 DEF Init, TypeOK, Copy
<1>4. KnownInv /\ FreshInv /\ WindowInv /\ NewInv /\ OrderInv
  BY <1>1 DEF Init, KnownInv, FreshInv, WindowInv, NewInv, OrderInv
<1> QED  BY <1>3, <1>4 DEF IInv

\* The inductive invariant holds throughout.
THEOREM Invariance == Spec => []IInv
<1>1. IInv /\ [Next]_vars => IInv'
  <2>1. SUFFICES ASSUME IInv, [Next]_vars PROVE IInv'
    OBVIOUS
  <2>2. CASE SendToB \/ SendElsewhere
    BY <2>1, <2>2, SendToBStep, SendElsewhereStep
  <2>3. CASE Air \/ AnswerFromB \/ InputFromA
    BY <2>1, <2>3, AirStep, AnswerStep, InputStep
  <2>4. ASSUME NEW n \in OtherNumber, InputFromOther(n) PROVE IInv'
    BY <2>1, <2>4, OtherInputStep
  <2>5. CASE UNCHANGED vars
    <3>1. UNCHANGED <<tsch_packet_seqno, packet, current, tries, answer, input, window>>
      BY <2>5 DEF vars, sendVars, receiveVars
    <3> QED  BY <2>1, <3>1 DEF IInv, TypeOK, KnownInv, FreshInv, WindowInv, NewInv, OrderInv, Kept
  <2> QED  BY <2>1, <2>2, <2>3, <2>4, <2>5 DEF Next
<1> QED  BY InitInv, <1>1, PTL DEF Spec

\* Every variable keeps its type: the window and the mailbox their bounds, the
\* sequence number its range without zero.
THEOREM TypeCorrect == Spec => []TypeOK
<1>1. IInv => TypeOK
  BY DEF IInv
<1> QED  BY Invariance, <1>1, PTL

\* Only B's process takes a copy out of the mailbox.
LEMMA OnlyInputTakes ==
  ASSUME IInv, Next, input # << >>, input' = Tail(input)
  PROVE  InputFromA
<1>1. /\ Len(Tail(input)) = Len(input) - 1 /\ Len(input) \in Nat /\ input \in Seq(Copy)
      /\ TypeOK
  BY HeadFacts, Types DEF IInv
<1>2. Len(input') # Len(input) /\ ~(Len(input') = Len(input) + 1)
  <2>1. PICK n \in Nat : n = Len(input)
    BY <1>1
  <2>2. Len(input') = n - 1
    BY <1>1, <2>1
  <2> QED  BY <2>1, <2>2
<1>3. CASE SendToB
  BY <1>1, <1>2, <1>3, NumberTaken DEF SendToB
<1>4. CASE SendElsewhere
  BY <1>1, <1>2, <1>4, NumberTaken DEF SendElsewhere
<1>5. CASE AttemptLost
  BY <1>2, <1>5 DEF AttemptLost, receiveVars
<1>6. ASSUME NEW acked \in BOOLEAN, Attempt(acked) PROVE FALSE
  <2>1. [id |-> current, reused |-> FALSE] \in Copy
    BY <1>1, <1>6 DEF Attempt, InFlight, TypeOK, Copy
  <2>2. Len(Append(input, [id |-> current, reused |-> FALSE])) = Len(input) + 1
    BY <1>1, <2>1, AppendFacts
  <2> QED  BY <1>2, <1>6, <2>2 DEF Attempt
<1>7. CASE AnswerFromB
  BY <1>2, <1>7 DEF AnswerFromB, receiveVars
<1>8. ASSUME NEW n \in OtherNumber, InputFromOther(n) PROVE FALSE
  BY <1>2, <1>8 DEF InputFromOther
<1> QED  BY <1>3, <1>4, <1>5, <1>6, <1>7, <1>8 DEF Next, Air

\* The step by which B's process takes a copy.
LEMMA TakenRightly ==
  ASSUME IInv, Next, input # << >>, input' = Tail(input)
  PROVE  LET rec == packet[Head(input).id]
         IN  IF window' # window
             THEN rec.accepted > 0 => rec.others = MaxSeqnos
             ELSE rec.accepted = 0 =>
                     \E i \in DOMAIN window : /\ window[i].sender = "A"
                                              /\ window[i].seqno = rec.seqno
                                              /\ window[i].reused
<1>1. TypeOK /\ WindowInv /\ NewInv /\ InputFromA
  BY OnlyInputTakes DEF IInv
<1>2. PICK h \in Packet : h = Head(input).id /\ packet[h] \in PacketRecord /\ packet[h] # None
  BY HeadFacts
<1>3. PICK rec \in PacketRecord : rec = packet[h]
  BY <1>2
<1>4. /\ rec.others \in 0 .. MaxSeqnos /\ rec.accepted \in 0 .. 2
      /\ rec.seqno \in Number
      /\ MaxSeqnos \in Nat \ {0}
  BY RecordType, ConstantFacts
<1>5. CASE Duplicate("A", rec.seqno)
  <2>1. window' = window
    BY <1>1, <1>2, <1>3, <1>5 DEF InputFromA
  <2>2. PICK i \in DOMAIN window : window[i].sender = "A" /\ window[i].seqno = rec.seqno
    BY <1>5 DEF Duplicate
  <2>3. rec.accepted = 0 => window[i].reused
    BY <1>1, <1>2, <1>3, <2>2 DEF NewInv
  <2> QED  BY <1>2, <1>3, <2>1, <2>2, <2>3
<1>6. CASE ~Duplicate("A", rec.seqno)
  <2>1. PICK e \in Entry : /\ e = [sender |-> "A", seqno |-> rec.seqno, reused |-> Head(input).reused]
                           /\ Accept(e)
    <3>1. [sender |-> "A", seqno |-> rec.seqno, reused |-> Head(input).reused] \in Entry
      BY <1>4, HeadFacts DEF Entry
    <3> QED  BY <1>1, <1>2, <1>3, <1>6, <3>1 DEF InputFromA
  <2>2. 1 \in DOMAIN window' /\ window'[1] = e
    BY <1>1, <2>1, AcceptFacts
  <2>3. window' # window
    <3>1. SUFFICES ASSUME window' = window PROVE FALSE
      OBVIOUS
    <3>2. 1 \in DOMAIN window /\ window[1].sender = "A" /\ window[1].seqno = rec.seqno
      BY <2>1, <2>2, <3>1
    <3> QED  BY <1>6, <3>2 DEF Duplicate
  <2>4. ~(rec.accepted > 0 /\ rec.others < MaxSeqnos)
    <3>1. SUFFICES ASSUME rec.accepted > 0, rec.others < MaxSeqnos PROVE FALSE
      OBVIOUS
    <3>2. /\ rec.others + 1 \in DOMAIN window
          /\ window[rec.others + 1].sender = "A" /\ window[rec.others + 1].seqno = rec.seqno
      BY <1>1, <1>2, <1>3, <3>1 DEF WindowInv
    <3> QED  BY <1>6, <3>2 DEF Duplicate
  <2> QED  BY <1>2, <1>3, <1>4, <2>3, <2>4
<1> QED  BY <1>5, <1>6

\* Repetitions are recognised and new packets are not taken for repetitions,
\* for any range of numbers, any window and any number of copies under way,
\* short of the two exceptions that the property names.
THEOREM DuplicatesRecognised == Spec => DeliveredOnce
<1> DEFINE Taking ==
      input # << >> /\ input' = Tail(input) =>
        LET rec == packet[Head(input).id]
        IN  IF window' # window
            THEN rec.accepted > 0 => rec.others = MaxSeqnos
            ELSE rec.accepted = 0 =>
                    \E i \in DOMAIN window : /\ window[i].sender = "A"
                                             /\ window[i].seqno = rec.seqno
                                             /\ window[i].reused
<1>1. IInv /\ [Next]_vars => [Taking]_vars
  BY TakenRightly
<1> HIDE DEF Taking
<1>2. Spec => [][Taking]_vars
  BY Invariance, <1>1, PTL DEF Spec
<1> QED  BY <1>2 DEF DeliveredOnce, Taking

----------------------------------------------------------------------------
(***************************************************************************)
(* The dedicated slot                                                      *)
(***************************************************************************)

\* A link of a node that has not joined again, with the given ASN, keeps its
\* timestamps, of which the one not in use is never younger than the other: so
\* both are outdated when one is, and a review never takes the option alone.
ExpiringSlot(age, slot) ==
    \/ slot = NoLink
    \/ \E peer \in {"A", "B", "other"} :
          \E used \in 0..Outdated : \E unused \in 0..Outdated \cup {Zero} :
              /\ slot = [link |-> peer, ts |-> [used |-> used, unused |-> unused]]
              /\ IF unused = Zero THEN used <= age ELSE used <= unused

\* The inductive invariant: nodes that have joined again are left out.
ExpiryInv ==
    /\ DOMAIN dedicated = Node
    /\ dedicated = [n \in Node |-> dedicated[n]]
    /\ asn \in [Node -> 0..Outdated]
    /\ restarted \in [Node -> BOOLEAN]
    /\ \A n \in Node : ~restarted[n] => ExpiringSlot(asn[n], dedicated[n])

\* Ages are not special values, and NULL is no record.
LEMMA StampFacts ==
  /\ Outdated \in Nat \ {0} /\ 0 \in 0..Outdated /\ Outdated \in 0..Outdated
  /\ Zero \notin 0..Outdated /\ Ahead \notin 0..Outdated /\ Zero # Ahead
  /\ \A used \in 0..Outdated : \A unused \in 0..Outdated \cup {Zero} :
        [used |-> used, unused |-> unused] # Null
<1>1. /\ Outdated \in Nat \ {0} /\ 0 \in 0..Outdated /\ Outdated \in 0..Outdated
      /\ Zero \notin 0..Outdated /\ Ahead \notin 0..Outdated /\ Zero # Ahead
  BY DedicatedAssumption DEF Outdated, Zero, Ahead
<1>2. ASSUME NEW used \in 0..Outdated, NEW unused \in 0..Outdated \cup {Zero}
      PROVE  [used |-> used, unused |-> unused] # Null
  <2>1. [used |-> used, unused |-> unused] \in Timestamps
    BY DEF Timestamps, Stamp
  <2> QED  BY <2>1, NullAssumption
<1> QED  BY <1>1, <1>2

\* A review keeps such a link or deletes it.
LEMMA ReviewExpiring ==
  ASSUME NEW n \in Node, asn[n] \in 0..Outdated, NEW slot, ExpiringSlot(asn[n], slot)
  PROVE  ExpiringSlot(asn[n], Reviewed(n, slot))
<1>1. CASE slot = NoLink
  <2>1. slot.ts = Null
    BY <1>1 DEF NoLink
  <2> QED  BY <1>1, <2>1 DEF Reviewed, ExpiringSlot
<1>2. ASSUME NEW peer \in {"A", "B", "other"}, NEW used \in 0..Outdated,
             NEW unused \in 0..Outdated \cup {Zero},
             slot = [link |-> peer, ts |-> [used |-> used, unused |-> unused]],
             IF unused = Zero THEN used <= asn[n] ELSE used <= unused
      PROVE  Reviewed(n, slot) \in {slot, NoLink}
  <2>1. /\ slot.ts # Null /\ slot.ts.used = used /\ slot.ts.unused = unused
        /\ used # Zero /\ used # Ahead /\ unused # Ahead
    BY <1>2, StampFacts
  <2>2. Age(n, used) = used /\ Age(n, unused) = IF unused = Zero THEN asn[n] ELSE unused
    BY <2>1 DEF Age
  <2>3. IsOutdated(n, used) => IsOutdated(n, unused)
    BY <1>2, <2>2, StampFacts DEF IsOutdated
  <2> QED  BY <2>1, <2>3 DEF Reviewed
<1>3. Reviewed(n, slot) \in {slot, NoLink}
  <2>1. slot = NoLink => Reviewed(n, slot) = slot
    BY DEF Reviewed, NoLink
  <2> QED  BY <1>2, <2>1 DEF ExpiringSlot
<1> QED  BY <1>3 DEF ExpiringSlot

\* A success makes or keeps such a link.
LEMMA RenewExpiring ==
  ASSUME NEW n \in Node, ~restarted[n], asn[n] \in 0..Outdated,
         NEW slot, ExpiringSlot(asn[n], slot),
         NEW peer \in {"A", "B", "other"}, NEW new \in Renewed(n, slot, peer)
  PROVE  ExpiringSlot(asn[n], new)
<1>1. CASE slot = NoLink
  <2>1. new \in [link : {peer}, ts : [used : {0}, unused : {Zero, Outdated}]]
    BY <1>1 DEF Renewed, NoLink, Allocated
  <2>2. PICK unused \in {Zero, Outdated} :
            new = [link |-> peer, ts |-> [used |-> 0, unused |-> unused]]
    BY <2>1
  <2>3. IF unused = Zero THEN 0 <= asn[n] ELSE 0 <= unused
    BY <2>2, StampFacts
  <2>4. unused \in 0..Outdated \cup {Zero} /\ 0 \in 0..Outdated
    BY <2>2, StampFacts
  <2> QED  BY <2>2, <2>3, <2>4 DEF ExpiringSlot
<1>2. ASSUME NEW old \in {"A", "B", "other"}, NEW used \in 0..Outdated,
             NEW unused \in 0..Outdated \cup {Zero},
             slot = [link |-> old, ts |-> [used |-> used, unused |-> unused]]
      PROVE  ExpiringSlot(asn[n], new)
  <2>1. slot.link # "none" /\ slot.ts # Null
    BY <1>2, StampFacts
  <2>2. new = [link |-> peer, ts |-> [slot.ts EXCEPT !.used = 0]]
    BY <2>1 DEF Renewed
  <2>3. new = [link |-> peer, ts |-> [used |-> 0, unused |-> unused]]
    BY <1>2, <2>2
  <2>4. IF unused = Zero THEN 0 <= asn[n] ELSE 0 <= unused
    BY StampFacts
  <2> QED  BY <2>3, <2>4, StampFacts DEF ExpiringSlot
<1> QED  BY <1>1, <1>2 DEF ExpiringSlot

\* Both stamps and the ASN grow older together.
LEMMA TickExpiring ==
  ASSUME NEW age \in 0..Outdated, NEW slot, ExpiringSlot(age, slot), NEW new \in NextSlot(slot)
  PROVE  ExpiringSlot(Older(age), new)
<1>1. CASE slot = NoLink
  <2>1. new = slot
    BY <1>1 DEF NextSlot, NoLink
  <2> QED  BY <1>1, <2>1 DEF ExpiringSlot
<1>2. ASSUME NEW peer \in {"A", "B", "other"}, NEW used \in 0..Outdated,
             NEW unused \in 0..Outdated \cup {Zero},
             slot = [link |-> peer, ts |-> [used |-> used, unused |-> unused]],
             IF unused = Zero THEN used <= age ELSE used <= unused
      PROVE  ExpiringSlot(Older(age), new)
  <2> DEFINE next == IF unused = Zero THEN Zero ELSE Older(unused)
  <2>1. slot.ts # Null /\ slot.ts.used = used /\ slot.ts.unused = unused /\ slot.link = peer
    BY <1>2, StampFacts
  <2>2. NextStamp(used) = {Older(used)} /\ NextStamp(unused) = {next}
    BY StampFacts DEF NextStamp
  <2>3. new \in [link : {peer}, ts : [used : {Older(used)}, unused : {next}]]
    BY <2>1, <2>2 DEF NextSlot
  <2>4. new = [link |-> peer, ts |-> [used |-> Older(used), unused |-> next]]
    BY <2>3
  <2>5. /\ Older(used) \in 0..Outdated /\ next \in 0..Outdated \cup {Zero}
        /\ IF next = Zero THEN Older(used) <= Older(age) ELSE Older(used) <= next
    BY <1>2, StampFacts DEF Older
  <2> HIDE DEF next
  <2> QED  BY <2>4, <2>5 DEF ExpiringSlot
<1> QED  BY <1>1, <1>2 DEF ExpiringSlot

\* Renewing or reviewing the link of one node.
LEMMA OneLinkStep ==
  ASSUME ExpiryInv, NEW n \in Node, UNCHANGED <<asn, restarted>>, NEW slot,
         dedicated' = [dedicated EXCEPT ![n] = slot],
         ~restarted[n] => ExpiringSlot(asn[n], slot)
  PROVE  ExpiryInv'
<1>1. /\ DOMAIN dedicated' = Node /\ dedicated' = [m \in Node |-> dedicated'[m]]
      /\ dedicated'[n] = slot /\ \A m \in Node : m # n => dedicated'[m] = dedicated[m]
  BY DEF ExpiryInv
<1>2. \A m \in Node : ~restarted[m] => ExpiringSlot(asn[m], dedicated'[m])
  BY <1>1 DEF ExpiryInv
<1> QED  BY <1>1, <1>2 DEF ExpiryInv

LEMMA ReviewStep ==
  ASSUME ExpiryInv, NEW n \in Node, Review(n)
  PROVE  ExpiryInv'
<1>1. asn[n] \in 0..Outdated
  BY DEF ExpiryInv
<1>2. ~restarted[n] => ExpiringSlot(asn[n], Reviewed(n, dedicated[n]))
  BY <1>1, ReviewExpiring DEF ExpiryInv
<1>3. dedicated' = [dedicated EXCEPT ![n] = Reviewed(n, dedicated[n])] /\ UNCHANGED <<asn, restarted>>
  BY DEF Review
<1> QED  BY <1>2, <1>3, OneLinkStep

LEMMA RenewStep ==
  ASSUME ExpiryInv, NEW n \in Node, NEW peer \in {"A", "B", "other"}, Renew(n, peer)
  PROVE  ExpiryInv'
<1>1. asn[n] \in 0..Outdated
  BY DEF ExpiryInv
<1>2. PICK slot \in Renewed(n, dedicated[n], peer) :
          dedicated' = [dedicated EXCEPT ![n] = Reviewed(n, slot)]
  BY DEF Renew
<1>3. ~restarted[n] => ExpiringSlot(asn[n], slot)
  BY <1>1, <1>2, RenewExpiring DEF ExpiryInv
<1>4. ~restarted[n] => ExpiringSlot(asn[n], Reviewed(n, slot))
  BY <1>1, <1>3, ReviewExpiring
<1>5. UNCHANGED <<asn, restarted>>
  BY DEF Renew
<1> QED  BY <1>2, <1>4, <1>5, OneLinkStep

LEMMA TickStep ==
  ASSUME ExpiryInv, Tick
  PROVE  ExpiryInv'
<1>1. PICK a \in NextSlot(dedicated["A"]), b \in NextSlot(dedicated["B"]) :
          dedicated' = [n \in Node |-> IF n = "A" THEN a ELSE b]
  BY DEF Tick
<1>2. /\ asn \in [Node -> 0..Outdated] /\ restarted \in [Node -> BOOLEAN] /\ restarted' = restarted
      /\ asn' = [n \in Node |-> Older(asn[n])]
  BY DEF ExpiryInv, Tick
<1>3. ASSUME NEW n \in Node, ~restarted[n] PROVE ExpiringSlot(Older(asn[n]), dedicated'[n])
  <2>1. dedicated'[n] \in NextSlot(dedicated[n])
    BY <1>1 DEF Node
  <2>2. ExpiringSlot(asn[n], dedicated[n]) /\ asn[n] \in 0..Outdated
    BY <1>2, <1>3 DEF ExpiryInv
  <2> QED  BY <2>1, <2>2, TickExpiring
<1>4. asn' \in [Node -> 0..Outdated]
  <2>1. \A n \in Node : Older(asn[n]) \in 0..Outdated
    BY <1>2, StampFacts DEF Older
  <2> QED  BY <1>2, <2>1
<1>5. DOMAIN dedicated' = Node /\ dedicated' = [n \in Node |-> dedicated'[n]]
  BY <1>1
<1>6. \A n \in Node : ~restarted'[n] => ExpiringSlot(asn'[n], dedicated'[n])
  BY <1>2, <1>3
<1> QED  BY <1>2, <1>4, <1>5, <1>6 DEF ExpiryInv

LEMMA RejoinStep ==
  ASSUME ExpiryInv, NEW n \in Node, Rejoin(n)
  PROVE  ExpiryInv'
<1>1. /\ DOMAIN dedicated' = Node /\ dedicated' = [m \in Node |-> dedicated'[m]]
      /\ \A m \in Node : m # n => dedicated'[m] = dedicated[m]
  BY DEF ExpiryInv, Rejoin
<1>2. /\ asn' \in [Node -> 0..Outdated] /\ restarted' \in [Node -> BOOLEAN] /\ restarted'[n]
      /\ \A m \in Node : m # n => asn'[m] = asn[m] /\ restarted'[m] = restarted[m]
  BY StampFacts DEF ExpiryInv, Rejoin
<1>3. \A m \in Node : ~restarted'[m] => ExpiringSlot(asn'[m], dedicated'[m])
  BY <1>1, <1>2 DEF ExpiryInv
<1> QED  BY <1>1, <1>2, <1>3 DEF ExpiryInv

\* Steps of packets leave the links alone.
LEMMA NodeStutter ==
  ASSUME ExpiryInv, UNCHANGED nodeVars
  PROVE  ExpiryInv'
BY DEF nodeVars, ExpiryInv

\* The inductive invariant of the dedicated slot, for every lifetime.
THEOREM ExpiryInvariance == DedicatedSpec => []ExpiryInv
<1>1. DedicatedInit => ExpiryInv
  BY StampFacts DEF DedicatedInit, ExpiryInv, ExpiringSlot
<1>2. ExpiryInv /\ [DedicatedNext]_dedicatedVars => ExpiryInv'
  <2> SUFFICES ASSUME ExpiryInv, [DedicatedNext]_dedicatedVars PROVE ExpiryInv'
    OBVIOUS
  <2>1. CASE OnAir \/ \E kind \in Kind : NewPacket(kind)
    <3>1. UNCHANGED nodeVars
      BY <2>1 DEF OnAir, GiveUp, Transmit, NewPacket
    <3> QED  BY <3>1, NodeStutter
  <2>2. CASE SentToB
    <3>1. UNCHANGED nodeVars \/ Renew("A", "B") \/ Review("A")
      BY <2>2 DEF SentToB
    <3> QED  BY <3>1, NodeStutter, RenewStep, ReviewStep DEF Node
  <2>3. CASE SentToOther
    <3>1. Renew("A", "other")
      BY <2>3 DEF SentToOther
    <3> QED  BY <3>1, RenewStep DEF Node
  <2>4. ASSUME NEW repetition \in BOOLEAN, ReceivedFromA(repetition) PROVE ExpiryInv'
    <3>1. UNCHANGED nodeVars \/ Renew("B", "A")
      BY <2>4 DEF ReceivedFromA
    <3> QED  BY <3>1, NodeStutter, RenewStep DEF Node
  <2>5. ASSUME NEW n \in Node, OtherData(n) \/ Rejoin(n) PROVE ExpiryInv'
    BY <2>5, ReviewStep, RejoinStep DEF OtherData
  <2>6. CASE Tick
    BY <2>6, TickStep
  <2>7. CASE UNCHANGED dedicatedVars
    BY <2>7, NodeStutter DEF dedicatedVars
  <2> QED  BY <2>1, <2>2, <2>3, <2>4, <2>5, <2>6, <2>7 DEF DedicatedNext
<1> QED  BY <1>1, <1>2, PTL DEF DedicatedSpec

\* Without joining again every link keeps its timestamps and options until it
\* is deleted: the missing callback is the only cause of links that stay.
THEOREM LinksAlwaysExpire == DedicatedSpec => []LinksExpire
<1>1. ExpiryInv => LinksExpire
  <2>1. ASSUME NEW age, NEW slot, ExpiringSlot(age, slot)
        PROVE  slot = NoLink \/ (slot.ts # Null /\ slot.link # "idle")
    BY <2>1, StampFacts DEF ExpiringSlot
  <2> QED  BY <2>1 DEF ExpiryInv, LinksExpire
<1> QED  BY ExpiryInvariance, <1>1, PTL
=============================================================================
