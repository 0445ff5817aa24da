-------------------------- MODULE TschQueueProofs --------------------------
(***************************************************************************)
(* Proofs about TschQueue, for every number of neighbours, blocks and      *)
(* slots in the rings: type correctness, that what is transmitted stays    *)
(* in its place, that no block is leaked or used twice, that the attempts  *)
(* are honoured, that the counters of links agree with the schedule, and   *)
(* that the queues implement the service of the MAC.                       *)
(***************************************************************************)
EXTENDS TschQueue, Facts

(***************************************************************************)
(* The inductive invariant.                                                *)
(***************************************************************************)

Queued(d) == ToSet(nbr[d].tx_ringbuf)

Called == IF in_callback THEN {Head(dequeued)} ELSE {}

Sending == IF pc = "commit" THEN {arg} ELSE {}

\* What the process is doing: where it may be while a callback runs or a packet
\* is being answered, and what it is doing that about.
ProcessInv ==
    /\ in_callback => pc \notin {"sweep", "drain"} /\ dequeued # <<>>
    /\ pc = "sweep" => /\ dequeued # <<>> /\ packet[Head(dequeued)] = Free
                       /\ arg = None \/ arg \in ToSet(neighbor_list)
    /\ pc \in {"count", "uncount"} => arg \in Dest
    /\ pc = "add" => arg \in ToSet(neighbor_list)
    /\ pc = "commit" => /\ arg \in Block /\ packet[arg] # Free
                        /\ packet[arg].transmissions = 0
                        /\ packet[arg].dest \in ToSet(neighbor_list)
                        /\ Len(nbr[packet[arg].dest].tx_ringbuf) < RingCap

\* The virtual neighbours stay; who is not in the table has no state.
TableInv ==
    /\ EB \in ToSet(neighbor_list) /\ BC \in ToSet(neighbor_list)
    /\ \A d \in Dest : d \notin ToSet(neighbor_list) => d # time_source /\ nbr[d] = NewNbr

\* The slot: what is in the air is the head of its queue.
SlotInv ==
    isr = "tx" => /\ current_link \in Dest
                  /\ current_neighbor \in ToSet(neighbor_list)
                  /\ nbr[current_neighbor].tx_ringbuf # <<>>
                  /\ Head(nbr[current_neighbor].tx_ringbuf) = current_packet
                  /\ Len(dequeued) < DeqCap

\* A block that is in a queue knows whose it is, and has attempts left.
QueuesInv ==
    \A d \in Dest :
        /\ IsInjective(nbr[d].tx_ringbuf)
        /\ \A b \in Queued(d) : /\ packet[b] # Free /\ packet[b].dest = d
                                /\ packet[b].transmissions < MaxTx

\* A block that was dequeued has been delivered or has had all its attempts.
AnswersInv ==
    /\ IsInjective(dequeued)
    /\ \A b \in ToSet(Unanswered) :
        /\ packet[b] # Free
        /\ packet[b].transmissions = MaxTx \/ (packet[b].ret = "ok" /\ packet[b].transmissions < MaxTx)
    /\ \A b \in Called : packet[b] # Free

\* A block is in one place only.
PlacesInv ==
    /\ \A d \in Dest : Queued(d) \cap (ToSet(Unanswered) \cup Called \cup Sending) = {}
    /\ Sending \cap (ToSet(Unanswered) \cup Called) = {}
    /\ \A b \in Block : packet[b] # Free =>
          (\E d \in Dest : b \in Queued(d)) \/ b \in ToSet(Unanswered) \cup Called \cup Sending

IInv == TypeOK /\ ProcessInv /\ TableInv /\ SlotInv /\ QueuesInv /\ AnswersInv /\ PlacesInv

(***************************************************************************)
(* The types, with sequences in place of bounded ones.                     *)
(***************************************************************************)

NbrRecord == [tx_ringbuf : Seq(Block), tx_links_count : 0 .. 255,
              backoff_window : Nat, backoff_exponent : 0 .. MaxBE]

PacketRecord == [dest : Dest, transmissions : 0 .. MaxTx, ret : {"deferred", "ok", "fail"}]

Typed ==
    /\ neighbor_list \in Seq(Dest) /\ Len(neighbor_list) <= MaxNbr /\ IsInjective(neighbor_list)
    /\ nbr \in [Dest -> NbrRecord]
    /\ \A d \in Dest : Len(nbr[d].tx_ringbuf) <= RingCap
    /\ \A d \in Dest : nbr[d].backoff_window <= 2 ^ nbr[d].backoff_exponent
    /\ time_source \in Addr \cup {None}
    /\ packet \in [Block -> PacketRecord \cup {Free}]
    /\ dequeued \in Seq(Block) /\ Len(dequeued) <= DeqCap
    /\ links \subseteq Dest
    /\ pc \in {"ready", "add", "commit", "count", "uncount", "sweep", "drain"}
    /\ arg \in Dest \cup Block \cup {None}
    /\ in_callback \in BOOLEAN
    /\ isr \in {"idle", "tx"}
    /\ current_packet \in Block \cup {None}
    /\ current_neighbor \in Dest \cup {None}
    /\ current_link \in Dest \cup {None}

\* A table of neighbours, typed either way.
LEMMA TableTyped ==
  ASSUME NEW n
  PROVE  n \in [Dest -> [tx_ringbuf : BoundedSeq(Block, RingCap), tx_links_count : 0 .. 255,
                         backoff_window : Nat, backoff_exponent : 0 .. MaxBE]]
         <=> /\ n \in [Dest -> NbrRecord]
             /\ \A d \in Dest : Len(n[d].tx_ringbuf) <= RingCap
<1> DEFINE B == BoundedSeq(Block, RingCap)
           Rec == [tx_ringbuf : B, tx_links_count : 0 .. 255,
                   backoff_window : Nat, backoff_exponent : 0 .. MaxBE]
<1>1. \A q : q \in B <=> q \in Seq(Block) /\ Len(q) <= RingCap
  BY SizesAssumption, BoundedSeqType
<1> HIDE DEF B
<1>2. \A r : r \in Rec <=> r \in NbrRecord /\ Len(r.tx_ringbuf) <= RingCap
  BY <1>1 DEF NbrRecord
<1> HIDE DEF Rec
<1>3. n \in [Dest -> Rec] <=> /\ n \in [Dest -> NbrRecord]
                             /\ \A d \in Dest : Len(n[d].tx_ringbuf) <= RingCap
  BY <1>2
<1> QED  BY <1>3 DEF Rec, B

\* The two forms of the typing invariant are equivalent.
LEMMA TypeForms == /\ TypeOK <=> Typed
                   /\ TypeOK' <=> Typed'
<1> DEFINE T(n) == n \in [Dest -> [tx_ringbuf : BoundedSeq(Block, RingCap), tx_links_count : 0 .. 255,
                                  backoff_window : Nat, backoff_exponent : 0 .. MaxBE]]
           U(n) == /\ n \in [Dest -> NbrRecord]
                   /\ \A d \in Dest : Len(n[d].tx_ringbuf) <= RingCap
           S(s, X, k) == s \in BoundedSeq(X, k)
           L(s, X, k) == s \in Seq(X) /\ Len(s) <= k
<1>3. (T(nbr) <=> U(nbr)) /\ (T(nbr') <=> U(nbr'))
  BY TableTyped
<1>4. /\ S(neighbor_list, Dest, MaxNbr) <=> L(neighbor_list, Dest, MaxNbr)
      /\ S(neighbor_list', Dest, MaxNbr) <=> L(neighbor_list', Dest, MaxNbr)
      /\ S(dequeued, Block, DeqCap) <=> L(dequeued, Block, DeqCap)
      /\ S(dequeued', Block, DeqCap) <=> L(dequeued', Block, DeqCap)
  BY SizesAssumption, BoundedSeqType
<1>1. TypeOK <=> Typed
  BY <1>3, <1>4, Zenon DEF TypeOK, Typed, PacketRecord
<1>2. TypeOK' <=> Typed'
  BY <1>3, <1>4, Zenon DEF TypeOK, Typed, PacketRecord
<1> QED  BY <1>1, <1>2

\* The initial states.
LEMMA InitInv == Init => IInv
<1> SUFFICES ASSUME Init
             PROVE  IInv
  OBVIOUS
<1> USE AddressesDistinct, SizesAssumption, LinksAssumption
<1>1. Cardinality(Fixed) \in 0 .. 2
  <2>1. IsFiniteSet({EB, BC}) /\ Cardinality({EB, BC}) = 2
    <3>1. IsFiniteSet({EB}) /\ Cardinality({EB}) = 1 /\ BC \notin {EB} /\ {EB, BC} = {EB} \cup {BC}
      BY FS_Singleton
    <3>2. Cardinality({EB} \cup {BC}) = Cardinality({EB}) + 1 /\ IsFiniteSet({EB} \cup {BC})
      BY <3>1, FS_AddElement
    <3> QED  BY <3>1, <3>2
  <2>2. Cardinality(Fixed) \in Nat /\ Cardinality(Fixed) <= 2
    BY <2>1, FS_Subset, FS_CardinalityType
  <2> QED  BY <2>2
<1>2. /\ neighbor_list = <<EB, BC>> /\ dequeued = << >> /\ pc = "ready" /\ in_callback = FALSE
      /\ isr = "idle" /\ time_source = None /\ packet = [b \in Block |-> Free]
      /\ links = Fixed /\ arg = None
      /\ current_packet = None /\ current_neighbor = None /\ current_link = None
  BY DEF Init
<1>3. \A d \in Dest : nbr[d] = [NewNbr EXCEPT !.tx_links_count =
                                   IF d = BC THEN Cardinality(Fixed) ELSE 0]
  BY DEF Init
<1>4. /\ nbr \in [Dest -> NbrRecord]
      /\ \A d \in Dest : nbr[d].tx_ringbuf = << >> /\ nbr[d].backoff_window <= 2 ^ nbr[d].backoff_exponent
      /\ \A d \in Dest \ {BC} : nbr[d] = NewNbr
  <2> DEFINE rec(c) == [tx_ringbuf |-> << >>, tx_links_count |-> c,
                        backoff_window |-> 0, backoff_exponent |-> 0]
             count(d) == IF d = BC THEN Cardinality(Fixed) ELSE 0
  <2>1. nbr = [d \in Dest |-> rec(count(d))]
    BY DEF Init, NewNbr
  <2>2. \A d \in Dest : count(d) \in 0 .. 255
    BY <1>1
  <2> HIDE DEF count
  <2>3. 2 ^ 0 = 1
    OBVIOUS
  <2>4. \A c \in 0 .. 255 : /\ rec(c) \in NbrRecord /\ rec(c).tx_ringbuf = << >>
                            /\ rec(c).backoff_window <= 2 ^ rec(c).backoff_exponent
    BY <2>3 DEF NbrRecord
  <2>5. \A d \in Dest \ {BC} : nbr[d] = NewNbr
    BY <2>1 DEF NewNbr, count
  <2> HIDE DEF rec
  <2> QED  BY <2>1, <2>2, <2>4, <2>5
<1>5. /\ neighbor_list \in Seq(Dest) /\ Len(neighbor_list) <= MaxNbr /\ IsInjective(neighbor_list)
      /\ EB \in ToSet(neighbor_list) /\ BC \in ToSet(neighbor_list)
  <2>1. EB \in Dest /\ BC \in Dest
    BY DEF Dest
  <2>2. DOMAIN neighbor_list = {1, 2} /\ neighbor_list[1] = EB /\ neighbor_list[2] = BC
    BY <1>2
  <2>3. neighbor_list \in Seq(Dest) /\ Len(neighbor_list) = 2
    BY <1>2, <2>1
  <2> QED  BY <2>2, <2>3 DEF IsInjective, ToSet
<1>6. Typed
  <2>1. links \subseteq Dest
    BY <1>2 DEF Dest
  <2>2. \A d \in Dest : Len(nbr[d].tx_ringbuf) <= RingCap
    BY <1>4
  <2>3. dequeued \in Seq(Block) /\ Len(dequeued) <= DeqCap
    BY <1>2
  <2> QED  BY <1>2, <1>4, <1>5, <2>1, <2>2, <2>3 DEF Typed
<1>7. \A d \in Dest : Queued(d) = {} /\ IsInjective(nbr[d].tx_ringbuf)
  BY <1>4 DEF Queued, ToSet, IsInjective
<1>8. Unanswered = << >> /\ ToSet(Unanswered) = {} /\ Called = {} /\ Sending = {}
      /\ IsInjective(dequeued)
  BY <1>2 DEF Unanswered, ToSet, Called, Sending, IsInjective
<1>9. \A b \in Block : packet[b] = Free
  BY <1>2
<1> QED
  BY <1>2, <1>4, <1>5, <1>6, <1>7, <1>8, <1>9, TypeForms
  DEF IInv, ProcessInv, TableInv, SlotInv, QueuesInv, AnswersInv, PlacesInv

(***************************************************************************)
(* What the steps have in common.                                          *)
(***************************************************************************)

\* A neighbour is in the table if the list has it.
LEMMA ListedIs ==
  ASSUME NEW d, Typed
  PROVE  Listed(d) <=> d \in ToSet(neighbor_list)
<1>1. DOMAIN neighbor_list = 1 .. Len(neighbor_list)
  BY DEF Typed
<1> QED  BY <1>1 DEF Listed, Contains, ToSet

\* tsch_queue_add_nbr: the neighbour comes last; because who is not in the
\* table has no state, nothing else changes.
LEMMA AddNbr ==
  ASSUME NEW d \in Dest, Typed, TableInv
  PROVE  /\ NbrAfterAdd(d) = nbr
         /\ ListAfterAdd(d) \in Seq(Dest) /\ Len(ListAfterAdd(d)) <= MaxNbr
         /\ IsInjective(ListAfterAdd(d))
         /\ ToSet(ListAfterAdd(d)) = ToSet(neighbor_list) \cup (IF add_nbr_succeeds(d) THEN {d} ELSE {})
<1>1. Listed(d) <=> d \in ToSet(neighbor_list)
  BY ListedIs
<1>2. NbrAfterAdd(d) = nbr
  <2>1. ~ Listed(d) => nbr[d] = NewNbr
    BY <1>1 DEF TableInv
  <2>2. nbr[d] = NewNbr => [nbr EXCEPT ![d] = NewNbr] = nbr
    BY DEF Typed
  <2> QED  BY <2>1, <2>2 DEF NbrAfterAdd
<1>3. CASE ~ Listed(d) /\ add_nbr_succeeds(d)
  <2>1. ListAfterAdd(d) = Append(neighbor_list, d) /\ Len(neighbor_list) < MaxNbr
    BY <1>3 DEF ListAfterAdd, add_nbr_succeeds
  <2>2. neighbor_list \in Seq(Dest) /\ IsInjective(neighbor_list)
    BY DEF Typed
  <2>3. Len(neighbor_list) \in Nat
    BY <2>2
  <2> QED  BY <1>1, <1>2, <1>3, <2>1, <2>2, <2>3, AppendFacts, SizesAssumption
<1>4. CASE Listed(d) \/ ~ add_nbr_succeeds(d)
  BY <1>1, <1>2, <1>4 DEF ListAfterAdd, Typed
<1> QED  BY <1>3, <1>4

\* tsch_queue_update_all_backoff_windows: no queue changes, no window grows, and
\* who is not in the table is left alone.
LEMMA BackoffKeeps ==
  ASSUME NEW n \in [Dest -> NbrRecord], NEW l, NEW after, after = BackoffAtSlotEnd(n, l), Typed,
         \A d \in Dest : n[d].backoff_window <= 2 ^ n[d].backoff_exponent
  PROVE  /\ after \in [Dest -> NbrRecord]
         /\ \A d \in Dest : /\ after[d].tx_ringbuf = n[d].tx_ringbuf
                            /\ after[d].backoff_window <= 2 ^ after[d].backoff_exponent
                            /\ d \notin ToSet(neighbor_list) => after[d] = n[d]
<1>1. after = [d \in Dest |-> after[d]]
  BY DEF BackoffAtSlotEnd
<1>2. ASSUME NEW d \in Dest
      PROVE  \/ after[d] = n[d]
             \/ /\ d \in ToSet(neighbor_list)
                /\ n[d].backoff_window # 0
                /\ after[d] = [n[d] EXCEPT !.backoff_window = @ - 1]
  BY ListedIs DEF BackoffAtSlotEnd
<1>3. ASSUME NEW d \in Dest
      PROVE  /\ after[d] \in NbrRecord
             /\ after[d].tx_ringbuf = n[d].tx_ringbuf
             /\ after[d].backoff_window <= 2 ^ after[d].backoff_exponent
             /\ d \notin ToSet(neighbor_list) => after[d] = n[d]
  <2> DEFINE r == n[d]
  <2>1. r \in NbrRecord /\ r.backoff_window <= 2 ^ r.backoff_exponent
    OBVIOUS
  <2> HIDE DEF r
  <2> DEFINE q == [r EXCEPT !.backoff_window = @ - 1]
  <2>2. ASSUME r.backoff_window # 0
        PROVE  q \in NbrRecord /\ q.tx_ringbuf = r.tx_ringbuf /\ q.backoff_window <= 2 ^ q.backoff_exponent
    <3>1. r.backoff_window - 1 \in Nat /\ r.backoff_window - 1 <= 2 ^ r.backoff_exponent
      BY <2>1, <2>2 DEF NbrRecord
    <3>2. /\ q.tx_ringbuf = r.tx_ringbuf /\ q.tx_links_count = r.tx_links_count
          /\ q.backoff_exponent = r.backoff_exponent /\ q.backoff_window = r.backoff_window - 1
      BY <2>1 DEF NbrRecord
    <3>3. q \in NbrRecord
      BY <2>1, <3>1 DEF NbrRecord
    <3> QED  BY <3>1, <3>2, <3>3
  <2>3. after[d] = r \/ (after[d] = q /\ r.backoff_window # 0 /\ d \in ToSet(neighbor_list))
    BY <1>2 DEF r
  <2> HIDE DEF q
  <2>4. r = n[d]
    BY DEF r
  <2> QED  BY <2>1, <2>2, <2>3, <2>4
<1> QED  BY <1>1, <1>3

\* A neighbour with another queue, another counter or another backoff.
LEMMA NbrWith ==
  ASSUME NEW r \in NbrRecord
  PROVE  /\ \A q \in Seq(Block) :
              LET n == [r EXCEPT !.tx_ringbuf = q]
              IN  /\ n \in NbrRecord /\ n.tx_ringbuf = q
                  /\ n.backoff_window = r.backoff_window
                  /\ n.backoff_exponent = r.backoff_exponent
         /\ \A c \in 0 .. 255 :
              LET n == [r EXCEPT !.tx_links_count = c]
              IN  /\ n \in NbrRecord /\ n.tx_ringbuf = r.tx_ringbuf
                  /\ n.backoff_window = r.backoff_window
                  /\ n.backoff_exponent = r.backoff_exponent
BY DEF NbrRecord

\* Steps that move no block.
Quiet ==
    /\ packet' = packet
    /\ \A d \in Dest : nbr'[d].tx_ringbuf = nbr[d].tx_ringbuf
    /\ Unanswered' = Unanswered /\ Called' = Called /\ Sending' = Sending

\* What the blocks hold, and where they are, stays true in such a step.
LEMMA QuietStep ==
  ASSUME QueuesInv, AnswersInv, PlacesInv, Quiet, IsInjective(dequeued')
  PROVE  QueuesInv' /\ AnswersInv' /\ PlacesInv'
<1>1. \A d \in Dest : Queued(d)' = Queued(d)
  BY DEF Quiet, Queued
<1>2. QueuesInv'
  BY <1>1 DEF Quiet, QueuesInv
<1>3. AnswersInv'
  BY DEF Quiet, AnswersInv
<1>4. PlacesInv'
  BY <1>1 DEF Quiet, PlacesInv
<1> QED  BY <1>2, <1>3, <1>4


(***************************************************************************)
(* The table.                                                              *)
(***************************************************************************)

\* Steps that leave the blocks, the slot and the table as they are.
LEMMA SameTable ==
  ASSUME TableInv, UNCHANGED <<neighbor_list, nbr, time_source>>
  PROVE  TableInv'
BY DEF TableInv

\* Steps during a transmission that leave its queue alone and take no one out of
\* the table.
LEMMA SameSlot ==
  ASSUME SlotInv, Typed, UNCHANGED <<isr, current_packet, current_neighbor, current_link, dequeued>>,
         isr = "tx" => ToSet(neighbor_list) \subseteq ToSet(neighbor_list'),
         \A d \in Dest : nbr'[d].tx_ringbuf = nbr[d].tx_ringbuf
  PROVE  SlotInv'
<1> SUFFICES ASSUME isr = "tx"
             PROVE  SlotInv'
  BY DEF SlotInv
<1>1. current_neighbor \in Dest
  BY AddressesDistinct DEF SlotInv, Typed, ToSet
<1> QED  BY <1>1 DEF SlotInv

\* A step that adds a neighbour, or finds no room for it, as any caller of
\* tsch_queue_add_nbr does: only the process's own state and the time source
\* may change besides.
LEMMA AfterAdding ==
  ASSUME IInv, NEW d \in Dest, add_nbr_returns(d),
         neighbor_list' = ListAfterAdd(d), nbr' = NbrAfterAdd(d),
         UNCHANGED <<packet, dequeued, in_callback, slotVars>>,
         pc # "commit" /\ pc # "sweep" /\ pc' # "commit" /\ pc' # "sweep",
         time_source' = time_source \/ time_source' = None \/ (time_source' = d /\ add_nbr_succeeds(d))
  PROVE  TableInv' /\ SlotInv' /\ QueuesInv' /\ AnswersInv' /\ PlacesInv' /\ Quiet
<1> USE DEF IInv
<1>a. Typed
  BY TypeForms
<1>1. /\ nbr' = nbr
      /\ ToSet(neighbor_list') = ToSet(neighbor_list) \cup (IF add_nbr_succeeds(d) THEN {d} ELSE {})
  BY <1>a, AddNbr
<1>2. TableInv'
  <2>1. None \notin Dest
    BY AddressesDistinct
  <2>2. \A e \in Dest : e \notin ToSet(neighbor_list') => e # time_source'
    BY <1>1, <2>1 DEF TableInv
  <2> QED  BY <1>1, <2>2 DEF TableInv
<1>3. SlotInv'
  <2>1. ToSet(neighbor_list) \subseteq ToSet(neighbor_list')
    BY <1>1
  <2> QED  BY <1>a, <1>1, <2>1, SameSlot DEF slotVars
<1>4. Quiet
  BY <1>1 DEF Quiet, Unanswered, Called, Sending
<1>5. IsInjective(dequeued')
  BY DEF AnswersInv
<1> QED  BY <1>2, <1>3, <1>4, <1>5, QuietStep

\* tsch_queue_update_time_source moves no block.
LEMMA UpdateTimeSourceInv ==
  ASSUME IInv, NEW s \in Addr \cup {None}, UpdateTimeSource(s)
  PROVE  IInv' /\ Quiet
<1> USE DEF IInv
<1>a. Typed
  BY TypeForms
<1>b. /\ pc = "ready" /\ UNCHANGED <<packet, dequeued, links, procVars, slotVars>>
      /\ pc' = pc /\ arg' = arg /\ in_callback' = in_callback
  BY DEF UpdateTimeSource, procVars
<1>1. CASE s = None
  <2>1. time_source' = None /\ neighbor_list' = neighbor_list /\ nbr' = nbr
    BY <1>1 DEF UpdateTimeSource
  <2>2. Typed'
    BY <1>a, <1>b, <2>1 DEF Typed, procVars, slotVars
  <2>3. ProcessInv'
    BY <1>b, <2>1 DEF ProcessInv
  <2>4. TableInv'
    BY <2>1, AddressesDistinct DEF TableInv
  <2>5. SlotInv'
    BY <1>a, <1>b, <2>1, SameSlot DEF slotVars
  <2>6. Quiet /\ IsInjective(dequeued')
    BY <1>b, <2>1 DEF Quiet, Unanswered, Called, Sending, AnswersInv
  <2> QED  BY <2>2, <2>3, <2>4, <2>5, <2>6, QuietStep, TypeForms
<1>2. CASE s # None
  <2>1. /\ s \in Addr /\ s \in Dest /\ add_nbr_returns(s)
        /\ time_source' = (IF add_nbr_succeeds(s) THEN s ELSE None)
        /\ neighbor_list' = ListAfterAdd(s) /\ nbr' = NbrAfterAdd(s)
    BY <1>2 DEF UpdateTimeSource, Dest
  <2>2. /\ nbr' = nbr /\ neighbor_list' \in Seq(Dest) /\ Len(neighbor_list') <= MaxNbr
        /\ IsInjective(neighbor_list')
    BY <1>a, <2>1, AddNbr
  <2>3. Typed'
    BY <1>a, <1>b, <2>1, <2>2 DEF Typed, procVars, slotVars
  <2>4. ProcessInv'
    BY <1>b DEF ProcessInv
  <2> QED  BY <1>b, <2>1, <2>3, <2>4, AfterAdding, TypeForms
<1> QED  BY <1>1, <1>2

\* The neighbour of a packet is added before the packet is made.
LEMMA SendInv ==
  ASSUME IInv, NEW d \in Dest, Send(d)
  PROVE  IInv' /\ Quiet
<1> USE DEF IInv
<1>a. Typed
  BY TypeForms
<1>1. /\ pc = "ready" /\ add_nbr_returns(d) /\ add_nbr_succeeds(d)
      /\ neighbor_list' = ListAfterAdd(d) /\ nbr' = NbrAfterAdd(d)
      /\ pc' = "add" /\ arg' = d
      /\ UNCHANGED <<time_source, packet, dequeued, links, in_callback, slotVars>>
  BY DEF Send
<1>2. /\ nbr' = nbr /\ neighbor_list' \in Seq(Dest) /\ Len(neighbor_list') <= MaxNbr
      /\ IsInjective(neighbor_list') /\ d \in ToSet(neighbor_list')
  BY <1>a, <1>1, AddNbr
<1>3. Typed'
  BY <1>a, <1>1, <1>2 DEF Typed, slotVars
<1>4. ProcessInv'
  BY <1>1, <1>2 DEF ProcessInv
<1> QED  BY <1>1, <1>3, <1>4, AfterAdding, TypeForms

\* tsch_schedule_add_link and remove_link change the schedule first.
LEMMA ChangeLinksInv ==
  ASSUME IInv, ChangeLinks
  PROVE  IInv' /\ Quiet
<1> USE DEF IInv
<1>a. Typed
  BY TypeForms
<1>1. PICK a \in Addr : AddLink(a) \/ RemoveLink(a)
  BY DEF ChangeLinks
<1>2. /\ pc = "ready" /\ links' \in {links \cup {a}, links \ {a}}
      /\ pc' \in {"count", "uncount"} /\ arg' = a /\ a \in Dest
      /\ UNCHANGED <<neighbor_list, nbr, time_source, packet, dequeued, in_callback, slotVars>>
  BY <1>1 DEF AddLink, RemoveLink, Dest
<1>3. Typed'
  BY <1>a, <1>2 DEF Typed, slotVars
<1>4. ProcessInv'
  BY <1>2 DEF ProcessInv
<1>5. TableInv'
  BY <1>2, SameTable
<1>6. SlotInv'
  BY <1>a, <1>2, SameSlot DEF slotVars
<1>7. Quiet /\ IsInjective(dequeued')
  BY <1>2 DEF Quiet, Unanswered, Called, Sending, AnswersInv
<1> QED  BY <1>3, <1>4, <1>5, <1>6, <1>7, QuietStep, TypeForms

\* The counter follows, without the lock.
LEMMA CountLinkInv ==
  ASSUME IInv, CountLink
  PROVE  IInv' /\ Quiet
<1> USE DEF IInv
<1>a. Typed
  BY TypeForms
<1> DEFINE d == arg
           c == (nbr[d].tx_links_count + (IF pc = "count" THEN 1 ELSE 255)) % 256
<1>1. /\ pc \in {"count", "uncount"} /\ d \in Dest
      /\ neighbor_list' = ListAfterAdd(d)
      /\ pc' = "ready" /\ arg' = None
      /\ UNCHANGED <<time_source, packet, dequeued, links, in_callback, slotVars>>
  BY DEF CountLink, ProcessInv
<1>2. /\ NbrAfterAdd(d) = nbr /\ neighbor_list' \in Seq(Dest) /\ Len(neighbor_list') <= MaxNbr
      /\ IsInjective(neighbor_list')
      /\ ToSet(neighbor_list') = ToSet(neighbor_list) \cup (IF add_nbr_succeeds(d) THEN {d} ELSE {})
  BY <1>a, <1>1, AddNbr
<1>3. nbr' = IF add_nbr_succeeds(d) THEN [nbr EXCEPT ![d].tx_links_count = c] ELSE nbr
  BY <1>2 DEF CountLink
<1>4. c \in 0 .. 255
  <2>1. nbr[d].tx_links_count \in 0 .. 255
    BY <1>a, <1>1 DEF Typed, NbrRecord
  <2> QED  BY <2>1
<1> HIDE DEF c, d
<1>5. /\ nbr' \in [Dest -> NbrRecord]
      /\ \A e \in Dest : /\ nbr'[e].tx_ringbuf = nbr[e].tx_ringbuf
                         /\ nbr'[e].backoff_window = nbr[e].backoff_window
                         /\ nbr'[e].backoff_exponent = nbr[e].backoff_exponent
      /\ \A e \in Dest : nbr'[e] = nbr[e] \/ (e = d /\ add_nbr_succeeds(d))
  <2>1. nbr \in [Dest -> NbrRecord]
    BY <1>a DEF Typed
  <2> DEFINE new == [nbr[d] EXCEPT !.tx_links_count = c]
  <2>2. /\ new \in NbrRecord /\ new.tx_ringbuf = nbr[d].tx_ringbuf
        /\ new.backoff_window = nbr[d].backoff_window /\ new.backoff_exponent = nbr[d].backoff_exponent
    BY <1>1, <1>4, <2>1, NbrWith
  <2>3. [nbr EXCEPT ![d].tx_links_count = c] = [nbr EXCEPT ![d] = new]
    OBVIOUS
  <2> HIDE DEF new
  <2> QED  BY <1>1, <1>3, <2>1, <2>2, <2>3
<1>6. Typed'
  BY <1>a, <1>1, <1>2, <1>5 DEF Typed, slotVars
<1>7. ProcessInv'
  BY <1>1 DEF ProcessInv
<1>8. TableInv'
  BY <1>1, <1>2, <1>5 DEF TableInv
<1>9. SlotInv'
  <2>1. ToSet(neighbor_list) \subseteq ToSet(neighbor_list')
    BY <1>2
  <2> QED  BY <1>a, <1>1, <1>5, <2>1, SameSlot DEF slotVars
<1>10. Quiet /\ IsInjective(dequeued')
  BY <1>1, <1>5 DEF Quiet, Unanswered, Called, Sending, AnswersInv
<1> QED  BY <1>6, <1>7, <1>8, <1>9, <1>10, QuietStep, TypeForms


(***************************************************************************)
(* Sending.                                                                *)
(***************************************************************************)

\* A free block is taken for a packet; no queue has it yet.
LEMMA MakePacketInv ==
  ASSUME IInv, NEW b \in Block, MakePacket(b)
  PROVE  IInv'
<1> USE DEF IInv
<1>a. Typed
  BY TypeForms
<1> DEFINE p == [dest |-> arg, transmissions |-> 0, ret |-> "deferred"]
<1>1. /\ pc = "add" /\ RoomFor(arg) /\ packet[b] = Free
      /\ packet' = [packet EXCEPT ![b] = p]
      /\ pc' = "commit" /\ arg' = b
      /\ UNCHANGED <<neighbor_list, nbr, time_source, dequeued, links, in_callback, slotVars>>
  BY DEF MakePacket
<1>2. arg \in ToSet(neighbor_list) /\ arg \in Dest
  <2>1. arg \in ToSet(neighbor_list)
    BY <1>1 DEF ProcessInv
  <2> QED  BY <1>a, <2>1 DEF Typed, ToSet
<1>3. p \in PacketRecord /\ p # Free /\ p.transmissions = 0 /\ p.dest = arg
  <2>1. None \notin Dest
    BY AddressesDistinct
  <2> QED  BY <1>2, <2>1, SizesAssumption DEF PacketRecord, Free
<1>4. packet'[b] = p /\ \A x \in Block : x # b => packet'[x] = packet[x]
  BY <1>a, <1>1 DEF Typed
<1>5. Typed'
  <2>1. packet' \in [Block -> PacketRecord \cup {Free}]
    BY <1>a, <1>1, <1>3 DEF Typed
  <2> QED  BY <1>a, <1>1, <2>1 DEF Typed, slotVars
<1> HIDE DEF p
<1>6. ProcessInv'
  <2>1. Len(nbr[arg].tx_ringbuf) < RingCap
    BY <1>1 DEF RoomFor
  <2> QED  BY <1>1, <1>2, <1>3, <1>4, <2>1 DEF ProcessInv
<1>7. TableInv'
  BY <1>1, SameTable
<1>8. SlotInv'
  BY <1>a, <1>1, SameSlot DEF slotVars
<1>9. \A d \in Dest : Queued(d)' = Queued(d) /\ Queued(d) \subseteq Block
  BY <1>a, <1>1 DEF Queued, Typed, NbrRecord, ToSet
<1>10. /\ Unanswered' = Unanswered /\ Called' = Called /\ Sending' = {b} /\ Sending = {}
       /\ ToSet(Unanswered) \subseteq Block /\ Called \subseteq Block
  <2>1. /\ dequeued \in Seq(Block)
        /\ dequeued # << >> => /\ ToSet(Tail(dequeued)) \subseteq ToSet(dequeued)
                               /\ Head(dequeued) \in Block
    BY <1>a, TailFacts DEF Typed
  <2>2. ToSet(dequeued) \subseteq Block
    BY <2>1 DEF ToSet
  <2>3. /\ Unanswered' = Unanswered /\ Called' = Called /\ Sending' = {b} /\ Sending = {}
    BY <1>1 DEF Unanswered, Called, Sending
  <2>4. in_callback \/ pc = "sweep" => dequeued # << >>
    BY DEF ProcessInv
  <2> QED  BY <2>1, <2>2, <2>3, <2>4 DEF Unanswered, Called
<1>11. \A x \in Block : packet[x] # Free => packet'[x] = packet[x]
  BY <1>1, <1>4
<1>12. \A d \in Dest : b \notin Queued(d)
  BY <1>1 DEF QueuesInv
<1>13. b \notin ToSet(Unanswered) \cup Called
  BY <1>1 DEF AnswersInv
<1>14. QueuesInv'
  BY <1>1, <1>9, <1>11 DEF QueuesInv
<1>15. AnswersInv'
  BY <1>1, <1>10, <1>11 DEF AnswersInv
<1>16. PlacesInv'
  BY <1>4, <1>9, <1>10, <1>12, <1>13 DEF PlacesInv
<1> QED  BY <1>5, <1>6, <1>7, <1>8, <1>14, <1>15, <1>16, TypeForms

\* A packet that finds no room changes nothing.
LEMMA SendFailsInv ==
  ASSUME IInv, SendFails
  PROVE  IInv' /\ Quiet
<1> USE DEF IInv
<1>a. Typed
  BY TypeForms
<1>1. /\ pc = "add" /\ pc' = "ready" /\ arg' = None
      /\ UNCHANGED <<neighbor_list, nbr, time_source, packet, dequeued, links, in_callback, slotVars>>
  BY DEF SendFails
<1>2. Typed'
  BY <1>a, <1>1 DEF Typed, slotVars
<1>3. ProcessInv'
  BY <1>1 DEF ProcessInv
<1>4. TableInv' /\ SlotInv'
  BY <1>a, <1>1, SameTable, SameSlot DEF slotVars
<1>5. Quiet /\ IsInjective(dequeued')
  BY <1>1 DEF Quiet, Unanswered, Called, Sending, AnswersInv
<1> QED  BY <1>2, <1>3, <1>4, <1>5, QuietStep, TypeForms

\* The queue of a packet that is put into it, and those of the others.
LEMMA CommitQueue ==
  ASSUME IInv, Commit
  PROVE  LET d == packet[arg].dest
             q == nbr[d].tx_ringbuf
         IN  /\ d \in Dest /\ d \in ToSet(neighbor_list) /\ arg \in Block /\ packet[arg] # Free
             /\ q \in Seq(Block) /\ Len(q) < RingCap /\ IsInjective(q) /\ arg \notin ToSet(q)
             /\ nbr' \in [Dest -> NbrRecord]
             /\ nbr'[d] = [nbr[d] EXCEPT !.tx_ringbuf = Append(q, arg)]
             /\ nbr'[d].tx_ringbuf = Append(q, arg)
             /\ \A e \in Dest \ {d} : nbr'[e] = nbr[e]
             /\ \A e \in Dest : /\ nbr'[e].backoff_window = nbr[e].backoff_window
                                /\ nbr'[e].backoff_exponent = nbr[e].backoff_exponent
<1> USE DEF IInv
<1>a. Typed
  BY TypeForms
<1> DEFINE d == packet[arg].dest
           q == nbr[d].tx_ringbuf
           new == [nbr[d] EXCEPT !.tx_ringbuf = Append(q, arg)]
<1>1. /\ pc = "commit" /\ arg \in Block /\ packet[arg] # Free
      /\ d \in ToSet(neighbor_list) /\ Len(q) < RingCap
  BY DEF Commit, ProcessInv
<1>2. d \in Dest
  BY <1>a, <1>1 DEF Typed, ToSet
<1>3. nbr' = [nbr EXCEPT ![d].tx_ringbuf = Append(q, arg)]
  BY DEF Commit
<1>4. [nbr EXCEPT ![d].tx_ringbuf = Append(q, arg)] = [nbr EXCEPT ![d] = new]
  OBVIOUS
<1>5. nbr \in [Dest -> NbrRecord] /\ q \in Seq(Block)
  BY <1>a, <1>2 DEF Typed, NbrRecord
<1>6. IsInjective(q) /\ arg \notin ToSet(q)
  BY <1>1, <1>2 DEF QueuesInv, PlacesInv, Sending, Queued
<1> HIDE DEF d
<1>7. /\ new \in NbrRecord /\ new.tx_ringbuf = Append(q, arg)
      /\ new.backoff_window = nbr[d].backoff_window /\ new.backoff_exponent = nbr[d].backoff_exponent
  <2>0. Append(q, arg) \in Seq(Block)
    BY <1>1, <1>5
  <2>1. PICK s \in Seq(Block) : s = Append(q, arg)
    BY <2>0
  <2>2. PICK r \in NbrRecord : r = nbr[d]
    BY <1>2, <1>5
  <2> QED  BY <2>1, <2>2, NbrWith
<1>8. nbr' = [nbr EXCEPT ![d] = new]
  BY <1>3, <1>4
<1> HIDE DEF new
<1>9. /\ nbr' \in [Dest -> NbrRecord] /\ nbr'[d] = new
      /\ \A e \in Dest \ {d} : nbr'[e] = nbr[e]
  BY <1>2, <1>5, <1>7, <1>8
<1>10. \A e \in Dest : /\ nbr'[e].backoff_window = nbr[e].backoff_window
                       /\ nbr'[e].backoff_exponent = nbr[e].backoff_exponent
  BY <1>7, <1>9
<1> QED  BY <1>1, <1>2, <1>5, <1>6, <1>7, <1>9, <1>10 DEF d, new

\* ringbufindex_put: the block goes from the sender's hand to its queue.
LEMMA CommitInv ==
  ASSUME IInv, Commit
  PROVE  IInv'
<1> USE DEF IInv
<1>a. Typed
  BY TypeForms
<1>d. PICK d : d = packet[arg].dest
  OBVIOUS
<1>q. PICK q : q = nbr[d].tx_ringbuf
  OBVIOUS
<1>1. /\ pc = "commit" /\ pc' = "ready" /\ arg' = None
      /\ UNCHANGED <<neighbor_list, time_source, packet, dequeued, links, in_callback, slotVars>>
  BY DEF Commit
<1>2. /\ d \in Dest /\ d \in ToSet(neighbor_list) /\ arg \in Block /\ packet[arg] # Free
      /\ q \in Seq(Block) /\ Len(q) < RingCap /\ IsInjective(q) /\ arg \notin ToSet(q)
      /\ nbr' \in [Dest -> NbrRecord]
      /\ nbr'[d].tx_ringbuf = Append(q, arg)
      /\ \A e \in Dest \ {d} : nbr'[e] = nbr[e]
      /\ \A e \in Dest : /\ nbr'[e].backoff_window = nbr[e].backoff_window
                         /\ nbr'[e].backoff_exponent = nbr[e].backoff_exponent
  BY <1>d, <1>q, CommitQueue
<1>3. packet[arg].dest = d /\ packet[arg].transmissions < MaxTx
  BY <1>1, <1>d, SizesAssumption DEF ProcessInv
<1>4. /\ Len(Append(q, arg)) = Len(q) + 1 /\ Len(q) \in Nat
      /\ ToSet(Append(q, arg)) = ToSet(q) \cup {arg} /\ IsInjective(Append(q, arg))
  BY <1>2, AppendFacts
<1>5. Typed'
  <2>1. \A e \in Dest : Len(nbr'[e].tx_ringbuf) <= RingCap
    <3>1. Len(nbr'[d].tx_ringbuf) <= RingCap
      BY <1>2, <1>4, SizesAssumption
    <3>2. \A e \in Dest \ {d} : Len(nbr'[e].tx_ringbuf) <= RingCap
      BY <1>a, <1>2 DEF Typed
    <3> QED  BY <3>1, <3>2
  <2>2. \A e \in Dest : nbr'[e].backoff_window <= 2 ^ nbr'[e].backoff_exponent
    BY <1>a, <1>2 DEF Typed
  <2> QED  BY <1>a, <1>1, <1>2, <2>1, <2>2 DEF Typed, slotVars
<1>6. ProcessInv'
  BY <1>1 DEF ProcessInv
<1>7. TableInv'
  BY <1>1, <1>2 DEF TableInv
<1>8. SlotInv'
  <2> SUFFICES ASSUME isr = "tx"
               PROVE  SlotInv'
    BY <1>1 DEF SlotInv, slotVars
  <2>1. current_neighbor \in Dest /\ nbr[current_neighbor].tx_ringbuf \in Seq(Block)
    BY <1>a DEF SlotInv, Typed, ToSet, NbrRecord
  <2>2. current_neighbor = d => Head(nbr'[d].tx_ringbuf) = Head(q) /\ nbr'[d].tx_ringbuf # << >>
    BY <1>2, <1>q, <2>1 DEF SlotInv
  <2>3. current_neighbor # d => nbr'[current_neighbor] = nbr[current_neighbor]
    BY <1>2, <2>1
  <2> QED  BY <1>1, <1>q, <2>2, <2>3 DEF SlotInv, slotVars
<1>9. /\ Queued(d)' = Queued(d) \cup {arg} /\ Queued(d) = ToSet(q)
      /\ \A e \in Dest \ {d} : Queued(e)' = Queued(e)
  BY <1>2, <1>4, <1>q DEF Queued
<1>10. /\ Unanswered' = Unanswered /\ Called' = Called /\ Sending' = {} /\ Sending = {arg}
  BY <1>1 DEF Unanswered, Called, Sending
<1>11. QueuesInv'
  <2>1. \A e \in Dest : IsInjective(nbr'[e].tx_ringbuf)
    BY <1>2, <1>4 DEF QueuesInv
  <2>2. \A e \in Dest \ {d} : \A b \in Queued(e)' : packet[b] # Free /\ packet[b].dest = e
                                                     /\ packet[b].transmissions < MaxTx
    BY <1>9 DEF QueuesInv
  <2>3. \A b \in Queued(d)' : packet[b] # Free /\ packet[b].dest = d
                              /\ packet[b].transmissions < MaxTx
    BY <1>2, <1>3, <1>9 DEF QueuesInv
  <2> QED  BY <1>1, <2>1, <2>2, <2>3 DEF QueuesInv
<1>12. AnswersInv'
  BY <1>1, <1>10 DEF AnswersInv
<1>13. PlacesInv'
  BY <1>1, <1>2, <1>9, <1>10 DEF PlacesInv
<1> QED  BY <1>5, <1>6, <1>7, <1>8, <1>11, <1>12, <1>13, TypeForms


(***************************************************************************)
(* Answering.                                                              *)
(***************************************************************************)

\* The first of the dequeued packets and the others.
LEMMA DequeuedShape ==
  ASSUME IInv, dequeued # << >>
  PROVE  /\ Head(dequeued) \in Block /\ Tail(dequeued) \in Seq(Block)
         /\ Len(dequeued) \in Nat \ {0} /\ Len(Tail(dequeued)) = Len(dequeued) - 1
         /\ ToSet(dequeued) = ToSet(Tail(dequeued)) \cup {Head(dequeued)}
         /\ IsInjective(Tail(dequeued)) /\ Head(dequeued) \notin ToSet(Tail(dequeued))
<1>1. dequeued \in Seq(Block) /\ IsInjective(dequeued)
  BY TypeForms DEF IInv, Typed, AnswersInv
<1> QED  BY <1>1, TailFacts

\* The first of the dequeued packets goes to its sender's callback.
LEMMA StartCallbackInv ==
  ASSUME IInv, StartCallback
  PROVE  IInv'
<1> USE DEF IInv
<1>a. Typed
  BY TypeForms
<1>1. /\ pc \in {"ready", "drain"} /\ in_callback = FALSE /\ dequeued # << >>
      /\ in_callback' = TRUE /\ pc' = "ready"
      /\ UNCHANGED <<neighbor_list, nbr, time_source, packet, dequeued, links, arg, slotVars>>
  BY DEF StartCallback, Typed
<1>2. Typed'
  BY <1>a, <1>1 DEF Typed, slotVars
<1>3. ProcessInv'
  BY <1>1 DEF ProcessInv
<1>4. TableInv' /\ SlotInv'
  BY <1>a, <1>1, SameTable, SameSlot DEF slotVars
<1>5. \A d \in Dest : Queued(d)' = Queued(d)
  BY <1>1 DEF Queued
<1>6. /\ Unanswered = dequeued /\ Unanswered' = Tail(dequeued)
      /\ Called = {} /\ Called' = {Head(dequeued)} /\ Sending = {} /\ Sending' = {}
      /\ ToSet(Unanswered) = ToSet(Unanswered') \cup Called'
  BY <1>1, DequeuedShape DEF Unanswered, Called, Sending
<1>7. QueuesInv'
  BY <1>1, <1>5 DEF QueuesInv
<1>8. AnswersInv'
  BY <1>1, <1>6 DEF AnswersInv
<1>9. PlacesInv'
  BY <1>1, <1>5, <1>6 DEF PlacesInv
<1> QED  BY <1>2, <1>3, <1>4, <1>7, <1>8, <1>9, TypeForms

\* Its block is freed when the callback returns, and only then.
LEMMA CallbackReturnsInv ==
  ASSUME IInv, CallbackReturns
  PROVE  IInv'
<1> USE DEF IInv
<1>a. Typed
  BY TypeForms
<1>h. PICK h : h = Head(dequeued)
  OBVIOUS
<1>1. /\ pc = "ready" /\ in_callback = TRUE /\ in_callback' = FALSE
      /\ packet' = [packet EXCEPT ![h] = Free]
      /\ pc' = "sweep" /\ arg' = Head(neighbor_list)
      /\ UNCHANGED <<neighbor_list, nbr, time_source, dequeued, links, slotVars>>
  BY <1>h DEF CallbackReturns, Typed
<1>2. /\ h \in Block /\ dequeued # << >> /\ h \notin ToSet(Tail(dequeued))
      /\ packet'[h] = Free /\ \A b \in Block : b # h => packet'[b] = packet[b]
  <2>1. dequeued # << >>
    BY <1>1 DEF ProcessInv
  <2> QED  BY <1>a, <1>h, <1>1, <2>1, DequeuedShape DEF Typed
<1>3. Head(neighbor_list) \in ToSet(neighbor_list) /\ Head(neighbor_list) \in Dest
  <2>1. neighbor_list \in Seq(Dest)
    BY <1>a DEF Typed
  <2>2. neighbor_list # << >>
    BY DEF TableInv, ToSet
  <2> QED  BY <2>1, <2>2, TailFacts
<1>4. Typed'
  <2>1. packet' \in [Block -> PacketRecord \cup {Free}]
    BY <1>a, <1>1 DEF Typed
  <2> QED  BY <1>a, <1>1, <1>3, <2>1 DEF Typed, slotVars
<1>5. ProcessInv'
  BY <1>h, <1>1, <1>2, <1>3 DEF ProcessInv
<1>6. TableInv' /\ SlotInv'
  BY <1>a, <1>1, SameTable, SameSlot DEF slotVars
<1>7. \A d \in Dest : Queued(d)' = Queued(d) /\ Queued(d) \subseteq Block
  BY <1>a, <1>1 DEF Queued, Typed, NbrRecord, ToSet
<1>8. /\ Unanswered = Tail(dequeued) /\ Unanswered' = Tail(dequeued)
      /\ Called = {h} /\ Called' = {} /\ Sending = {} /\ Sending' = {}
      /\ ToSet(Unanswered) \subseteq Block
  <2>1. Tail(dequeued) \in Seq(Block)
    BY <1>2, DequeuedShape
  <2>2. ToSet(Tail(dequeued)) \subseteq Block
    BY <2>1 DEF ToSet
  <2> QED  BY <1>h, <1>1, <2>2 DEF Unanswered, Called, Sending
<1>9. \A d \in Dest : h \notin Queued(d)
  BY <1>8 DEF PlacesInv
<1>10. QueuesInv'
  <2>1. \A d \in Dest : \A b \in Queued(d) : packet'[b] = packet[b]
    BY <1>2, <1>7, <1>9
  <2> QED  BY <1>1, <1>7, <2>1 DEF QueuesInv
<1>11. AnswersInv'
  <2>1. \A b \in ToSet(Unanswered) : packet'[b] = packet[b]
    BY <1>2, <1>8
  <2> QED  BY <1>1, <1>8, <2>1 DEF AnswersInv
<1>12. PlacesInv'
  BY <1>2, <1>7, <1>8 DEF PlacesInv
<1> QED  BY <1>4, <1>5, <1>6, <1>10, <1>11, <1>12, TypeForms

\* The neighbour after one in the list is in what remains of the list when
\* that one is removed.
LEMMA NextRemains ==
  ASSUME Typed, NEW d \in ToSet(neighbor_list)
  PROVE  /\ IndexInList(d) \in 1 .. Len(neighbor_list) /\ neighbor_list[IndexInList(d)] = d
         /\ NextInList(d) = None \/ (NextInList(d) \in ToSet(neighbor_list) /\ NextInList(d) # d)
<1>1. /\ neighbor_list \in Seq(Dest) /\ IsInjective(neighbor_list)
      /\ DOMAIN neighbor_list = 1 .. Len(neighbor_list) /\ Len(neighbor_list) \in Nat
  BY DEF Typed
<1>2. IndexInList(d) # 0
  <2> DEFINE I == {i \in 1 .. Len(neighbor_list) : neighbor_list[i] = d}
  <2>1. I # {} /\ I \in SUBSET Nat /\ 0 \notin I
    BY <1>1 DEF ToSet
  <2>2. IndexInList(d) = IF I # {} THEN Min(I) ELSE 0
    BY DEF IndexInList, SelectInSeq
  <2> HIDE DEF I
  <2>3. Min(I) \in I
    BY <2>1, MinElement
  <2> QED  BY <2>1, <2>2, <2>3
<1>3. IndexInList(d) \in 1 .. Len(neighbor_list) /\ neighbor_list[IndexInList(d)] = d
  BY <1>1, <1>2, IndexUnique DEF IndexInList
<1>4. CASE IndexInList(d) < Len(neighbor_list)
  <2>1. IndexInList(d) + 1 \in 1 .. Len(neighbor_list) /\ IndexInList(d) + 1 # IndexInList(d)
    BY <1>1, <1>3, <1>4
  <2>2. NextInList(d) = neighbor_list[IndexInList(d) + 1]
    BY <1>4 DEF NextInList
  <2>3. NextInList(d) # d
    BY <1>1, <1>3, <2>1, <2>2 DEF IsInjective
  <2> QED  BY <1>1, <1>3, <2>1, <2>2, <2>3 DEF ToSet
<1>5. CASE ~ (IndexInList(d) < Len(neighbor_list))
  BY <1>3, <1>5 DEF NextInList
<1> QED  BY <1>3, <1>4, <1>5

\* A neighbour that is freed has no packet, and is not the time source.
LEMMA SweepInv ==
  ASSUME IInv, Sweep
  PROVE  IInv' /\ Quiet
<1> USE DEF IInv
<1>a. Typed
  BY TypeForms
<1>d. PICK d : d = arg
  OBVIOUS
<1>1. /\ pc = "sweep" /\ pc' = "sweep" /\ d # None /\ arg' = NextInList(d)
      /\ UNCHANGED <<time_source, packet, dequeued, links, pc, in_callback, slotVars>>
  BY <1>d DEF Sweep
<1>2. d \in ToSet(neighbor_list) /\ d \in Dest /\ dequeued # << >> /\ packet[Head(dequeued)] = Free
  <2>1. d \in ToSet(neighbor_list) /\ dequeued # << >> /\ packet[Head(dequeued)] = Free
    BY <1>d, <1>1 DEF ProcessInv
  <2> QED  BY <1>a, <2>1 DEF Typed, ToSet
<1>3. /\ IndexInList(d) \in 1 .. Len(neighbor_list) /\ neighbor_list[IndexInList(d)] = d
      /\ arg' = None \/ (arg' \in ToSet(neighbor_list) /\ arg' # d)
  BY <1>a, <1>1, <1>2, NextRemains
<1>4. CASE Unused(d)
  <2>1. /\ isr = "idle" /\ neighbor_list' = RemoveAt(neighbor_list, IndexInList(d))
        /\ nbr' = [nbr EXCEPT ![d] = NewNbr]
        /\ d \in Addr /\ d # time_source /\ nbr[d].tx_ringbuf = << >>
    BY <1>d, <1>4 DEF Sweep, Unused
  <2>2. /\ neighbor_list' \in Seq(Dest) /\ Len(neighbor_list') = Len(neighbor_list) - 1
        /\ IsInjective(neighbor_list') /\ ToSet(neighbor_list') = ToSet(neighbor_list) \ {d}
    <3>1. neighbor_list \in Seq(Dest) /\ IsInjective(neighbor_list)
      BY <1>a DEF Typed
    <3>2. PICK m \in Seq(Dest) : m = neighbor_list /\ IsInjective(m)
      BY <3>1
    <3> QED  BY <1>3, <2>1, <3>2, RemoveAtFacts
  <2>3. /\ NewNbr \in NbrRecord /\ NewNbr.tx_ringbuf = << >>
        /\ NewNbr.backoff_window <= 2 ^ NewNbr.backoff_exponent
    <3>1. 2 ^ 0 = 1
      OBVIOUS
    <3> QED  BY <3>1, SizesAssumption DEF NewNbr, NbrRecord
  <2>4. /\ nbr' \in [Dest -> NbrRecord] /\ nbr'[d] = NewNbr
        /\ \A e \in Dest : e # d => nbr'[e] = nbr[e]
    BY <1>a, <1>2, <2>1, <2>3 DEF Typed
  <2>5. \A e \in Dest : nbr'[e].tx_ringbuf = nbr[e].tx_ringbuf
    BY <2>1, <2>3, <2>4
  <2>6. Typed'
    <3>1. \A e \in Dest : nbr'[e].backoff_window <= 2 ^ nbr'[e].backoff_exponent
      BY <1>a, <2>3, <2>4 DEF Typed
    <3>2. \A e \in Dest : Len(nbr'[e].tx_ringbuf) <= RingCap
      BY <1>a, <2>5 DEF Typed
    <3>3. arg' \in Dest \cup {None}
      BY <1>a, <1>3 DEF Typed, ToSet
    <3>4. Len(neighbor_list') <= MaxNbr
      BY <1>a, <2>2, SizesAssumption DEF Typed
    <3> QED  BY <1>a, <1>1, <2>2, <2>4, <3>1, <3>2, <3>3, <3>4 DEF Typed, slotVars
  <2>7. ProcessInv'
    BY <1>1, <1>2, <1>3, <2>2 DEF ProcessInv
  <2>8. TableInv'
    BY <1>1, <2>1, <2>2, <2>4, AddressesDistinct DEF TableInv
  <2>9. SlotInv'
    BY <1>1, <2>1 DEF SlotInv, slotVars
  <2>10. Quiet /\ IsInjective(dequeued')
    BY <1>1, <2>5 DEF Quiet, Unanswered, Called, Sending, AnswersInv
  <2> QED  BY <2>6, <2>7, <2>8, <2>9, <2>10, QuietStep, TypeForms
<1>5. CASE ~ Unused(d)
  <2>1. neighbor_list' = neighbor_list /\ nbr' = nbr
    BY <1>d, <1>5 DEF Sweep
  <2>2. Typed'
    <3>1. arg' \in Dest \cup {None}
      BY <1>a, <1>3 DEF Typed, ToSet
    <3> QED  BY <1>a, <1>1, <2>1, <3>1 DEF Typed, slotVars
  <2>3. ProcessInv'
    BY <1>1, <1>2, <1>3, <2>1 DEF ProcessInv
  <2>4. TableInv' /\ SlotInv'
    BY <1>a, <1>1, <2>1, SameTable, SameSlot DEF slotVars
  <2>5. Quiet /\ IsInjective(dequeued')
    BY <1>1, <2>1 DEF Quiet, Unanswered, Called, Sending, AnswersInv
  <2> QED  BY <2>2, <2>3, <2>4, <2>5, QuietStep, TypeForms
<1> QED  BY <1>4, <1>5

\* The slot of dequeued_array is given back: its block was freed before.
LEMMA FinishPacketInv ==
  ASSUME IInv, FinishPacket
  PROVE  IInv' /\ Quiet
<1> USE DEF IInv
<1>a. Typed
  BY TypeForms
<1>1. /\ pc = "sweep" /\ pc' = "drain" /\ dequeued' = Tail(dequeued)
      /\ UNCHANGED <<neighbor_list, nbr, time_source, packet, links, arg, in_callback, slotVars>>
  BY DEF FinishPacket
<1>2. dequeued # << >> /\ in_callback = FALSE
  BY <1>a, <1>1 DEF ProcessInv, Typed
<1>3. dequeued' \in Seq(Block) /\ Len(dequeued') = Len(dequeued) - 1 /\ Len(dequeued) \in Nat
      /\ IsInjective(dequeued')
  BY <1>1, <1>2, DequeuedShape
<1>4. Typed'
  BY <1>a, <1>1, <1>3, SizesAssumption DEF Typed, slotVars
<1>5. ProcessInv'
  BY <1>1, <1>2 DEF ProcessInv
<1>6. TableInv'
  BY <1>1, SameTable
<1>7. SlotInv'
  BY <1>1, <1>3, SizesAssumption DEF SlotInv, slotVars
<1>8. Quiet
  BY <1>1, <1>2 DEF Quiet, Unanswered, Called, Sending
<1> QED  BY <1>3, <1>4, <1>5, <1>6, <1>7, <1>8, QuietStep, TypeForms

\* The process yields.
LEMMA DrainedInv ==
  ASSUME IInv, Drained
  PROVE  IInv' /\ Quiet
<1> USE DEF IInv
<1>a. Typed
  BY TypeForms
<1>1. /\ pc = "drain" /\ pc' = "ready"
      /\ UNCHANGED <<neighbor_list, nbr, time_source, packet, dequeued, links, arg, in_callback, slotVars>>
  BY DEF Drained
<1>2. Typed'
  BY <1>a, <1>1 DEF Typed, slotVars
<1>3. ProcessInv'
  BY <1>1 DEF ProcessInv
<1>4. TableInv' /\ SlotInv'
  BY <1>a, <1>1, SameTable, SameSlot DEF slotVars
<1>5. Quiet /\ IsInjective(dequeued')
  BY <1>1 DEF Quiet, Unanswered, Called, Sending, AnswersInv
<1> QED  BY <1>2, <1>3, <1>4, <1>5, QuietStep, TypeForms


(***************************************************************************)
(* The slot interrupt.                                                     *)
(***************************************************************************)

\* Whose first packet a slot carries is in the table and has one.
LEMMA TargetHasPacket ==
  ASSUME Typed, NEW l, TargetFor(l) # None
  PROVE  /\ TargetFor(l) \in ToSet(neighbor_list)
         /\ nbr[TargetFor(l)].tx_ringbuf # << >>
<1>1. ASSUME NEW d, NEW shared, HasPacket(d, shared)
      PROVE  d \in ToSet(neighbor_list) /\ nbr[d].tx_ringbuf # << >>
  BY <1>1, ListedIs DEF HasPacket
<1>2. ASSUME NEW shared, FirstForAny(shared) # None
      PROVE  HasPacket(FirstForAny(shared), shared)
  <2> DEFINE T(d) == d \in Addr /\ nbr[d].tx_links_count = 0 /\ HasPacket(d, shared)
             I == {i \in 1 .. Len(neighbor_list) : T(neighbor_list[i])}
             k == IF I # {} THEN Min(I) ELSE 0
  <2>1. SelectInSeq(neighbor_list,
              LAMBDA d : d \in Addr /\ nbr[d].tx_links_count = 0 /\ HasPacket(d, shared)) = k
    BY DEF SelectInSeq
  <2>2. FirstForAny(shared) = IF k = 0 THEN None ELSE neighbor_list[k]
    BY <2>1 DEF FirstForAny
  <2>3. I \in SUBSET Nat
    BY DEF Typed
  <2>4. k # 0 /\ FirstForAny(shared) = neighbor_list[k]
    BY <1>2, <2>2
  <2>5. k \in I
    BY <2>3, <2>4, MinElement
  <2>6. T(neighbor_list[k])
    BY <2>5
  <2> QED  BY <2>4, <2>6
<1>3. \E d, shared : TargetFor(l) = d /\ HasPacket(d, shared)
  BY <1>2 DEF TargetFor
<1> QED  BY <1>1, <1>3

\* The slot takes the head of a queue, with room in dequeued_ringbuf.
LEMMA StartTxInv ==
  ASSUME IInv, NEW l \in Dest, StartTx(l)
  PROVE  IInv' /\ Quiet
<1> USE DEF IInv
<1>a. Typed
  BY TypeForms
<1>1. PICK n : n = TargetFor(l)
  OBVIOUS
<1>2. /\ isr' = "tx" /\ current_link' = l /\ current_neighbor' = n
      /\ current_packet' = Head(nbr[n].tx_ringbuf)
      /\ n # None /\ Len(dequeued) < DeqCap
      /\ UNCHANGED <<neighbor_list, nbr, time_source, packet, dequeued, links, procVars>>
      /\ pc' = pc /\ arg' = arg /\ in_callback' = in_callback
  BY <1>1 DEF StartTx, procVars
<1>3. n \in ToSet(neighbor_list) /\ nbr[n].tx_ringbuf # << >> /\ n \in Dest
  <2>1. n \in ToSet(neighbor_list) /\ nbr[n].tx_ringbuf # << >>
    BY <1>a, <1>1, <1>2, TargetHasPacket
  <2> QED  BY <1>a, <2>1 DEF Typed, ToSet
<1>4. Head(nbr[n].tx_ringbuf) \in Block
  <2>1. nbr[n].tx_ringbuf \in Seq(Block)
    BY <1>a, <1>3 DEF Typed, NbrRecord
  <2> QED  BY <1>3, <2>1
<1>5. Typed'
  BY <1>a, <1>2, <1>3, <1>4 DEF Typed
<1>6. ProcessInv'
  BY <1>2 DEF ProcessInv
<1>7. TableInv'
  BY <1>2, SameTable
<1>8. SlotInv'
  BY <1>2, <1>3 DEF SlotInv
<1>9. Quiet /\ IsInjective(dequeued')
  BY <1>2 DEF Quiet, Unanswered, Called, Sending, AnswersInv
<1> QED  BY <1>5, <1>6, <1>7, <1>8, <1>9, QuietStep, TypeForms

\* A slot without a transmission changes backoff windows only.
LEMMA PassSlotInv ==
  ASSUME IInv, NEW l \in Dest, PassSlot(l)
  PROVE  IInv' /\ Quiet
<1> USE DEF IInv
<1>a. Typed
  BY TypeForms
<1>1. /\ nbr' = BackoffAtSlotEnd(nbr, l)
      /\ UNCHANGED <<neighbor_list, time_source, packet, dequeued, links, procVars, slotVars>>
      /\ pc' = pc /\ arg' = arg /\ in_callback' = in_callback
  BY DEF PassSlot, procVars
<1>2. nbr \in [Dest -> NbrRecord] /\ \A d \in Dest : nbr[d].backoff_window <= 2 ^ nbr[d].backoff_exponent
  BY <1>a DEF Typed
<1>3. /\ nbr' \in [Dest -> NbrRecord]
      /\ \A d \in Dest : /\ nbr'[d].tx_ringbuf = nbr[d].tx_ringbuf
                         /\ nbr'[d].backoff_window <= 2 ^ nbr'[d].backoff_exponent
                         /\ d \notin ToSet(neighbor_list) => nbr'[d] = nbr[d]
  BY <1>a, <1>1, <1>2, BackoffKeeps
<1>4. Typed'
  BY <1>a, <1>1, <1>3 DEF Typed, slotVars
<1>5. ProcessInv'
  <2>1. pc = "commit" => packet[arg].dest \in Dest
    BY <1>a DEF ProcessInv, Typed, ToSet
  <2> QED  BY <1>1, <1>3, <2>1 DEF ProcessInv
<1>6. TableInv'
  BY <1>1, <1>3 DEF TableInv
<1>7. SlotInv'
  BY <1>a, <1>1, <1>3, SameSlot DEF slotVars
<1>8. Quiet /\ IsInjective(dequeued')
  BY <1>1, <1>3 DEF Quiet, Unanswered, Called, Sending, AnswersInv
<1> QED  BY <1>4, <1>5, <1>6, <1>7, <1>8, QuietStep, TypeForms

\* update_neighbor_state: the backoff stays within its exponent.
LEMMA BackoffsTyped ==
  ASSUME Typed, NEW n \in Dest, NEW q, NEW ok \in BOOLEAN, NEW bw \in BackoffsAfter(n, q, ok)
  PROVE  bw[1] \in 0 .. MaxBE /\ bw[2] \in Nat /\ bw[2] <= 2 ^ bw[1]
<1> DEFINE be == nbr[n].backoff_exponent
           w == nbr[n].backoff_window
<1>1. be \in 0 .. MaxBE /\ w \in Nat /\ w <= 2 ^ be
  BY DEF Typed, NbrRecord
<1>2. NextExponent(be) \in 0 .. MaxBE
  BY <1>1, SizesAssumption DEF NextExponent
<1>3. \/ bw = <<be, w>>
      \/ bw = <<0, 0>>
      \/ \E x \in 1 .. 2 ^ NextExponent(be) : bw = <<NextExponent(be), x>>
  <2>1. n \notin Addr => bw = <<be, w>>
    BY DEF BackoffsAfter
  <2>2. n \in Addr /\ ok => bw = <<be, w>> \/ bw = <<0, 0>>
    BY DEF BackoffsAfter
  <2>3. n \in Addr /\ ~ ok =>
          bw = <<be, w>> \/ \E x \in 1 .. 2 ^ NextExponent(be) : bw = <<NextExponent(be), x>>
    BY DEF BackoffsAfter
  <2> QED  BY <2>1, <2>2, <2>3
<1> HIDE DEF be, w
<1>4. CASE bw = <<be, w>>
  BY <1>1, <1>4
<1>5. CASE bw = <<0, 0>>
  <2>1. 2 ^ 0 = 1
    OBVIOUS
  <2> QED  BY <1>5, <2>1, SizesAssumption
<1>6. CASE \E x \in 1 .. 2 ^ NextExponent(be) : bw = <<NextExponent(be), x>>
  <2> PICK x \in 1 .. 2 ^ NextExponent(be) : bw = <<NextExponent(be), x>>
    BY <1>6
  <2>1. x \in Nat /\ x <= 2 ^ NextExponent(be)
    OBVIOUS
  <2> HIDE DEF NextExponent
  <2> QED  BY <1>2, <2>1
<1> QED  BY <1>3, <1>4, <1>5, <1>6

\* What the end of a transmission does: the packet c of neighbour n has one
\* attempt more, is p from now on, and is at most taken from the head of its
\* queue to the end of the dequeued ones.
EndTxEffect(ok, n, c, p) ==
    LET leaves == ok \/ p.transmissions = MaxTx
    IN  /\ n \in ToSet(neighbor_list) /\ nbr[n].tx_ringbuf # << >>
        /\ c = Head(nbr[n].tx_ringbuf)
        /\ packet[c] # Free /\ packet[c].dest = n /\ packet[c].transmissions < MaxTx
        /\ packet' = [packet EXCEPT ![c] = p]
        /\ p # Free /\ p.dest = n /\ p.transmissions = packet[c].transmissions + 1
        /\ p.ret = IF ok THEN "ok" ELSE "fail"
        /\ dequeued' = IF leaves THEN Append(dequeued, c) ELSE dequeued
        /\ nbr' \in [Dest -> NbrRecord]
        /\ nbr'[n].tx_ringbuf = IF leaves THEN Tail(nbr[n].tx_ringbuf) ELSE nbr[n].tx_ringbuf
        /\ \A e \in Dest :
             /\ e # n => nbr'[e].tx_ringbuf = nbr[e].tx_ringbuf
             /\ nbr'[e].backoff_window <= 2 ^ nbr'[e].backoff_exponent
             /\ e \notin ToSet(neighbor_list) => nbr'[e] = nbr[e]

\* The end of a transmission is such a step.
LEMMA EndTxShape ==
  ASSUME IInv, NEW ok \in BOOLEAN, EndTx(ok)
  PROVE  \E n \in Dest : \E c \in Block : \E p \in PacketRecord : EndTxEffect(ok, n, c, p)
<1> USE DEF IInv
<1>a. Typed
  BY TypeForms
<1>1. PICK n : n = current_neighbor
  OBVIOUS
<1>2. PICK c : c = current_packet
  OBVIOUS
<1>3. /\ n \in Dest /\ n \in ToSet(neighbor_list) /\ nbr[n].tx_ringbuf # << >>
      /\ c = Head(nbr[n].tx_ringbuf) /\ nbr[n].tx_ringbuf \in Seq(Block)
  <2>1. n \in ToSet(neighbor_list) /\ nbr[n].tx_ringbuf # << >> /\ c = Head(nbr[n].tx_ringbuf)
    BY <1>1, <1>2 DEF EndTx, SlotInv
  <2>2. n \in Dest
    BY <1>a, <2>1 DEF Typed, ToSet
  <2> QED  BY <1>a, <2>1, <2>2 DEF Typed, NbrRecord
<1>4. c \in Block /\ c \in Queued(n) /\ Tail(nbr[n].tx_ringbuf) \in Seq(Block)
  BY <1>3, TailFacts DEF Queued
<1>5. packet[c] # Free /\ packet[c].dest = n /\ packet[c].transmissions < MaxTx
  BY <1>3, <1>4 DEF QueuesInv
<1>6. packet[c] \in PacketRecord
  BY <1>a, <1>4, <1>5 DEF Typed
<1> DEFINE p == [packet[c] EXCEPT !.transmissions = @ + 1, !.ret = IF ok THEN "ok" ELSE "fail"]
           leaves == ok \/ GivesUp(p)
           q == IF leaves THEN Tail(nbr[n].tx_ringbuf) ELSE nbr[n].tx_ringbuf
<1>7. /\ p \in PacketRecord /\ p.dest = packet[c].dest
      /\ p.transmissions = packet[c].transmissions + 1
      /\ p.ret = (IF ok THEN "ok" ELSE "fail")
  <2>1. PICK ret \in {"ok", "fail"} : ret = IF ok THEN "ok" ELSE "fail"
    OBVIOUS
  <2>2. PICK tx \in 0 .. MaxTx : tx = packet[c].transmissions + 1
    BY <1>5, <1>6, SizesAssumption DEF PacketRecord
  <2>3. p = [packet[c] EXCEPT !.transmissions = tx, !.ret = ret]
    BY <2>1, <2>2
  <2>4. \A r \in PacketRecord :
          LET s == [r EXCEPT !.transmissions = tx, !.ret = ret]
          IN  s \in PacketRecord /\ s.dest = r.dest /\ s.transmissions = tx /\ s.ret = ret
    BY DEF PacketRecord
  <2> HIDE DEF p
  <2> QED  BY <1>6, <2>1, <2>2, <2>3, <2>4
<1>8. packet' = [packet EXCEPT ![c] = p]
  BY <1>2 DEF EndTx
<1>9. dequeued' = IF leaves THEN Append(dequeued, c) ELSE dequeued
  BY <1>2 DEF EndTx
<1>10. PICK bw \in BackoffsAfter(n, q, ok) :
         nbr' = BackoffAtSlotEnd([nbr EXCEPT ![n].tx_ringbuf = q,
                    ![n].backoff_exponent = bw[1], ![n].backoff_window = bw[2]], current_link)
  BY <1>1, <1>2 DEF EndTx
<1>11. p # Free /\ (GivesUp(p) <=> p.transmissions = MaxTx)
  <2> HIDE DEF p
  <2>1. p.transmissions \in 1 .. MaxTx
    BY <1>5, <1>6, <1>7, SizesAssumption DEF PacketRecord
  <2> QED  BY <2>1, SizesAssumption DEF Free, GivesUp
<1> HIDE DEF p
<1>12. q \in Seq(Block)
  BY <1>3, <1>4
<1>13. leaves <=> ok \/ p.transmissions = MaxTx
  BY <1>11
<1> HIDE DEF q
<1> DEFINE r1 == [nbr[n] EXCEPT !.tx_ringbuf = q]
           r2 == [r1 EXCEPT !.backoff_exponent = bw[1], !.backoff_window = bw[2]]
           table == [nbr EXCEPT ![n].tx_ringbuf = q,
                         ![n].backoff_exponent = bw[1], ![n].backoff_window = bw[2]]
<1>14. bw[1] \in 0 .. MaxBE /\ bw[2] \in Nat /\ bw[2] <= 2 ^ bw[1]
  BY <1>a, <1>3, BackoffsTyped
<1>15. /\ r2 \in NbrRecord /\ r2.tx_ringbuf = q /\ r2.backoff_window <= 2 ^ r2.backoff_exponent
  <2>1. nbr[n] \in NbrRecord
    BY <1>a, <1>3 DEF Typed
  <2>2. r1 \in NbrRecord /\ r1.tx_ringbuf = q
    BY <1>12, <2>1, NbrWith
  <2>r. PICK r \in NbrRecord : r = r1
    BY <2>2
  <2>3. PICK be \in 0 .. MaxBE : be = bw[1]
    BY <1>14
  <2>4. PICK w \in Nat : w = bw[2]
    BY <1>14
  <2>5. r2 = [r EXCEPT !.backoff_exponent = be, !.backoff_window = w]
    BY <2>r, <2>3, <2>4
  <2> HIDE DEF r1, r2
  <2> DEFINE m == [r EXCEPT !.backoff_exponent = be, !.backoff_window = w]
  <2>6. /\ m.tx_ringbuf = r.tx_ringbuf /\ m.backoff_window = w /\ m.backoff_exponent = be
    BY DEF NbrRecord
  <2>7. m \in NbrRecord
    BY DEF NbrRecord
  <2>8. r2 = m
    BY <2>5
  <2> HIDE DEF m
  <2> QED  BY <1>14, <2>r, <2>2, <2>3, <2>4, <2>6, <2>7, <2>8
<1>16. /\ table = [nbr EXCEPT ![n] = r2]
       /\ nbr' = BackoffAtSlotEnd(table, current_link)
  BY <1>10
<1> HIDE DEF r2, table
<1>17. /\ table \in [Dest -> NbrRecord] /\ table[n] = r2
       /\ \A e \in Dest : e # n => table[e] = nbr[e]
       /\ \A e \in Dest : table[e].backoff_window <= 2 ^ table[e].backoff_exponent
  BY <1>a, <1>3, <1>15, <1>16 DEF Typed
<1>18. /\ nbr' \in [Dest -> NbrRecord]
       /\ \A e \in Dest : /\ nbr'[e].tx_ringbuf = table[e].tx_ringbuf
                          /\ nbr'[e].backoff_window <= 2 ^ nbr'[e].backoff_exponent
                          /\ e \notin ToSet(neighbor_list) => nbr'[e] = table[e]
  <2>0. PICK l : l = current_link
    OBVIOUS
  <2>1. PICK t \in [Dest -> NbrRecord] : t = table
    BY <1>17
  <2>2. \A d \in Dest : t[d].backoff_window <= 2 ^ t[d].backoff_exponent
    BY <1>17, <2>1
  <2>3. PICK after : after = nbr' /\ after = BackoffAtSlotEnd(t, l)
    BY <1>16, <2>0, <2>1
  <2>4. /\ after \in [Dest -> NbrRecord]
        /\ \A d \in Dest : /\ after[d].tx_ringbuf = t[d].tx_ringbuf
                           /\ after[d].backoff_window <= 2 ^ after[d].backoff_exponent
                           /\ d \notin ToSet(neighbor_list) => after[d] = t[d]
    BY <1>a, <2>2, <2>3, BackoffKeeps
  <2> QED  BY <2>1, <2>3, <2>4
<1>19. nbr'[n].tx_ringbuf = (IF leaves THEN Tail(nbr[n].tx_ringbuf) ELSE nbr[n].tx_ringbuf)
  BY <1>3, <1>15, <1>17, <1>18 DEF q
<1>20. \A e \in Dest :
         /\ e # n => nbr'[e].tx_ringbuf = nbr[e].tx_ringbuf
         /\ nbr'[e].backoff_window <= 2 ^ nbr'[e].backoff_exponent
         /\ e \notin ToSet(neighbor_list) => nbr'[e] = nbr[e]
  BY <1>3, <1>17, <1>18
<1> HIDE DEF leaves
<1>21. n \in Dest /\ c \in Block /\ p \in PacketRecord /\ p.dest = n
  BY <1>3, <1>4, <1>5, <1>7
<1>22. EndTxEffect(ok, n, c, p)
  BY <1>3, <1>5, <1>7, <1>8, <1>9, <1>11, <1>13, <1>18, <1>19, <1>20, <1>21 DEF EndTxEffect
<1> QED  BY <1>21, <1>22


\* The packet that was sent stays in its queue or becomes the last of the
\* dequeued ones.
LEMMA EndTxInv ==
  ASSUME IInv, NEW ok \in BOOLEAN, EndTx(ok)
  PROVE  IInv'
<1> USE DEF IInv
<1>a. Typed
  BY TypeForms
<1>1. PICK n \in Dest : \E c \in Block : \E p \in PacketRecord : EndTxEffect(ok, n, c, p)
  BY EndTxShape
<1>2. PICK c \in Block : \E p \in PacketRecord : EndTxEffect(ok, n, c, p)
  BY <1>1
<1>3. PICK p \in PacketRecord : EndTxEffect(ok, n, c, p)
  BY <1>2
<1>4. PICK leaves \in BOOLEAN : leaves <=> ok \/ p.transmissions = MaxTx
  OBVIOUS
<1>5. PICK q : q = nbr[n].tx_ringbuf
  OBVIOUS
<1>6. /\ n \in ToSet(neighbor_list) /\ q # << >> /\ c = Head(q)
      /\ packet[c] # Free /\ packet[c].dest = n /\ packet[c].transmissions < MaxTx
      /\ packet' = [packet EXCEPT ![c] = p]
      /\ p # Free /\ p.dest = n /\ p.transmissions = packet[c].transmissions + 1
      /\ p.ret = (IF ok THEN "ok" ELSE "fail")
      /\ nbr' \in [Dest -> NbrRecord]
      /\ \A e \in Dest : /\ e # n => nbr'[e].tx_ringbuf = nbr[e].tx_ringbuf
                         /\ nbr'[e].backoff_window <= 2 ^ nbr'[e].backoff_exponent
                         /\ e \notin ToSet(neighbor_list) => nbr'[e] = nbr[e]
  BY <1>3, <1>5 DEF EndTxEffect
<1>7. /\ leaves => dequeued' = Append(dequeued, c) /\ nbr'[n].tx_ringbuf = Tail(q)
      /\ ~ leaves => dequeued' = dequeued /\ nbr'[n].tx_ringbuf = q
  BY <1>3, <1>4, <1>5 DEF EndTxEffect
<1>8. /\ isr = "tx" /\ isr' = "idle"
      /\ UNCHANGED <<neighbor_list, time_source, links, pc, arg, in_callback,
                     current_packet, current_neighbor, current_link>>
  BY DEF EndTx, procVars
<1>9. Len(dequeued) < DeqCap /\ dequeued \in Seq(Block) /\ IsInjective(dequeued)
  BY <1>a, <1>8 DEF SlotInv, Typed, AnswersInv
<1>10. /\ q \in Seq(Block) /\ Len(q) <= RingCap /\ IsInjective(q)
       /\ Tail(q) \in Seq(Block) /\ Len(Tail(q)) = Len(q) - 1 /\ Len(q) \in Nat \ {0}
       /\ IsInjective(Tail(q)) /\ c \notin ToSet(Tail(q)) /\ ToSet(q) = ToSet(Tail(q)) \cup {c}
  <2>1. q \in Seq(Block) /\ Len(q) <= RingCap /\ IsInjective(q)
    BY <1>a, <1>5 DEF Typed, NbrRecord, QueuesInv
  <2> QED  BY <1>6, <2>1, TailFacts
<1>11. packet'[c] = p /\ \A b \in Block : b # c => packet'[b] = packet[b]
  BY <1>a, <1>6 DEF Typed
\* Where the blocks were.
<1>12. /\ Queued(n) = ToSet(q)
       /\ \A e \in Dest : e # n => c \notin Queued(e)
       /\ \A e \in Dest : Queued(e) \subseteq Block
  <2>1. Queued(n) = ToSet(q)
    BY <1>5 DEF Queued
  <2>2. \A e \in Dest : e # n => c \notin Queued(e)
    BY <1>6 DEF QueuesInv
  <2>3. \A e \in Dest : Queued(e) \subseteq Block
    BY <1>a DEF Queued, Typed, NbrRecord, ToSet
  <2> QED  BY <2>1, <2>2, <2>3
<1>13. c \notin ToSet(Unanswered) /\ c \notin Called /\ c \notin Sending
  BY <1>10, <1>12 DEF PlacesInv
<1>14. c \notin ToSet(dequeued)
  <2>1. CASE in_callback \/ pc = "sweep"
    <3>1. dequeued # << >> /\ Unanswered = Tail(dequeued)
      BY <2>1 DEF Unanswered, ProcessInv
    <3>2. ToSet(dequeued) = ToSet(Unanswered) \cup {Head(dequeued)}
      BY <3>1, DequeuedShape
    <3>3. c # Head(dequeued)
      BY <1>6, <1>13, <2>1 DEF ProcessInv, Called
    <3> QED  BY <1>13, <3>2, <3>3
  <2>2. CASE ~ (in_callback \/ pc = "sweep")
    BY <1>13, <2>2 DEF Unanswered
  <2> QED  BY <2>1, <2>2
\* Where they are.
<1>15. /\ Append(dequeued, c) \in Seq(Block) /\ Len(Append(dequeued, c)) = Len(dequeued) + 1
       /\ IsInjective(Append(dequeued, c))
  BY <1>9, <1>14, AppendFacts
<1>16. /\ Called' = Called /\ Sending' = Sending
       /\ in_callback \/ pc = "sweep" => Head(dequeued') = Head(dequeued) /\ dequeued' # << >>
  <2>1. dequeued # << >> => Head(Append(dequeued, c)) = Head(dequeued) /\ Append(dequeued, c) # << >>
    BY <1>9
  <2>2. in_callback \/ pc = "sweep" => dequeued # << >>
    BY DEF ProcessInv
  <2> QED  BY <1>7, <1>8, <2>1, <2>2 DEF Called, Sending
<1>17. ToSet(Unanswered') = ToSet(Unanswered) \cup (IF leaves THEN {c} ELSE {})
  <2>1. CASE ~ leaves
    BY <1>7, <1>8, <2>1 DEF Unanswered
  <2>2. CASE leaves /\ (in_callback \/ pc = "sweep")
    <3>1. dequeued # << >> /\ Unanswered = Tail(dequeued) /\ Unanswered' = Tail(Append(dequeued, c))
      BY <1>7, <1>8, <2>2 DEF Unanswered, ProcessInv
    <3>2. Tail(Append(dequeued, c)) = Append(Tail(dequeued), c)
      BY <1>9, <3>1
    <3>3. Tail(dequeued) \in Seq(Block)
      BY <3>1, DequeuedShape
    <3>4. \A t \in Seq(Block) : ToSet(Append(t, c)) = ToSet(t) \cup {c}
      BY AppendFacts
    <3>5. ToSet(Unanswered') = ToSet(Tail(dequeued)) \cup {c}
      BY <3>1, <3>2, <3>3, <3>4
    <3> QED  BY <2>2, <3>1, <3>5
  <2>3. CASE leaves /\ ~ (in_callback \/ pc = "sweep")
    <3>1. Unanswered = dequeued /\ Unanswered' = Append(dequeued, c)
      BY <1>7, <1>8, <2>3 DEF Unanswered
    <3> QED  BY <1>9, <2>3, <3>1, AppendFacts
  <2> QED  BY <2>1, <2>2, <2>3
<1>18. /\ Queued(n)' = (IF leaves THEN ToSet(Tail(q)) ELSE ToSet(q))
       /\ \A e \in Dest : e # n => Queued(e)' = Queued(e)
  BY <1>6, <1>7 DEF Queued
\* The invariant.
<1>19. Typed'
  <2>1. packet' \in [Block -> PacketRecord \cup {Free}]
    BY <1>a, <1>6 DEF Typed
  <2>2. dequeued' \in Seq(Block) /\ Len(dequeued') <= DeqCap
    BY <1>7, <1>9, <1>15, SizesAssumption
  <2>3. \A e \in Dest : Len(nbr'[e].tx_ringbuf) <= RingCap
    <3>1. Len(nbr'[n].tx_ringbuf) <= RingCap
      BY <1>7, <1>10, SizesAssumption
    <3>2. \A e \in Dest \ {n} : Len(nbr'[e].tx_ringbuf) <= RingCap
      BY <1>a, <1>6 DEF Typed
    <3> QED  BY <3>1, <3>2
  <2> QED  BY <1>a, <1>6, <1>8, <2>1, <2>2, <2>3 DEF Typed
<1>20. ProcessInv'
  <2>1. in_callback' => pc' \notin {"sweep", "drain"} /\ dequeued' # << >>
    BY <1>8, <1>16 DEF ProcessInv
  <2>2. pc' = "sweep" => /\ dequeued' # << >> /\ packet'[Head(dequeued')] = Free
                         /\ arg' = None \/ arg' \in ToSet(neighbor_list')
    <3> SUFFICES ASSUME pc = "sweep"
                 PROVE  packet'[Head(dequeued)] = Free
      BY <1>8, <1>16 DEF ProcessInv
    <3>1. dequeued # << >> /\ packet[Head(dequeued)] = Free
      BY DEF ProcessInv
    <3> QED  BY <1>6, <1>11, <3>1, DequeuedShape
  <2>3. pc' = "commit" => /\ arg' \in Block /\ packet'[arg'] # Free
                          /\ packet'[arg'].transmissions = 0
                          /\ packet'[arg'].dest \in ToSet(neighbor_list')
                          /\ Len(nbr'[packet'[arg'].dest].tx_ringbuf) < RingCap
    <3> SUFFICES ASSUME pc = "commit"
                 PROVE  /\ arg \in Block /\ packet'[arg] = packet[arg] /\ packet[arg] # Free
                        /\ packet[arg].transmissions = 0
                        /\ packet[arg].dest \in ToSet(neighbor_list)
                        /\ Len(nbr'[packet[arg].dest].tx_ringbuf) < RingCap
      BY <1>8
    <3>1. /\ arg \in Block /\ packet[arg] # Free /\ packet[arg].transmissions = 0
          /\ packet[arg].dest \in ToSet(neighbor_list)
          /\ Len(nbr[packet[arg].dest].tx_ringbuf) < RingCap
      BY DEF ProcessInv
    <3>2. arg # c
      BY <1>13 DEF Sending
    <3>3. packet[arg].dest \in Dest
      BY <1>a, <3>1 DEF Typed, ToSet
    <3>4. \A e \in Dest : /\ nbr[e].tx_ringbuf \in Seq(Block) /\ nbr'[e].tx_ringbuf \in Seq(Block)
                         /\ Len(nbr[e].tx_ringbuf) \in Nat /\ Len(nbr'[e].tx_ringbuf) \in Nat
      <4>1. \A r \in NbrRecord : r.tx_ringbuf \in Seq(Block) /\ Len(r.tx_ringbuf) \in Nat
        BY DEF NbrRecord
      <4>2. \A e \in Dest : nbr[e] \in NbrRecord /\ nbr'[e] \in NbrRecord
        BY <1>a, <1>6 DEF Typed
      <4> QED  BY <4>1, <4>2
    <3>5. \A e \in Dest : Len(nbr'[e].tx_ringbuf) <= Len(nbr[e].tx_ringbuf)
      <4>1. Len(nbr'[n].tx_ringbuf) <= Len(q)
        BY <1>7, <1>10
      <4>2. \A e \in Dest \ {n} : nbr'[e].tx_ringbuf = nbr[e].tx_ringbuf
        BY <1>6
      <4>3. \A e \in Dest \ {n} : Len(nbr'[e].tx_ringbuf) <= Len(nbr[e].tx_ringbuf)
        BY <3>4, <4>2
      <4> QED  BY <1>5, <4>1, <4>3
    <3> QED  BY <1>11, <3>1, <3>2, <3>3, <3>4, <3>5, SizesAssumption
  <2> QED  BY <1>8, <2>1, <2>2, <2>3 DEF ProcessInv
<1>21. TableInv'
  BY <1>6, <1>8 DEF TableInv
<1>22. SlotInv'
  BY <1>8 DEF SlotInv
<1>23. QueuesInv'
  <2>1. \A e \in Dest : IsInjective(nbr'[e].tx_ringbuf)
    BY <1>6, <1>7, <1>10 DEF QueuesInv
  <2>2. \A e \in Dest : e # n => \A b \in Queued(e)' : packet'[b] = packet[b] /\ b \in Queued(e)
    BY <1>11, <1>12, <1>18
  <2>3. \A b \in Queued(n)' : b # c => packet'[b] = packet[b] /\ b \in Queued(n)
    BY <1>10, <1>11, <1>12, <1>18
  <2>4. c \in Queued(n)' => ~ leaves /\ p.transmissions < MaxTx
    <3>1. p.transmissions \in 0 .. MaxTx
      BY DEF PacketRecord
    <3> QED  BY <1>4, <1>10, <1>18, <3>1, SizesAssumption
  <2>5. \A b \in Queued(n)' : /\ packet'[b] # Free /\ packet'[b].dest = n
                              /\ packet'[b].transmissions < MaxTx
    BY <1>6, <1>11, <2>3, <2>4 DEF QueuesInv
  <2>6. \A e \in Dest : e # n => \A b \in Queued(e)' : /\ packet'[b] # Free /\ packet'[b].dest = e
                                                       /\ packet'[b].transmissions < MaxTx
    BY <2>2 DEF QueuesInv
  <2> QED  BY <2>1, <2>5, <2>6 DEF QueuesInv
<1>24. AnswersInv'
  <2>1. IsInjective(dequeued')
    BY <1>7, <1>9, <1>15
  <2>2. ToSet(Unanswered) \subseteq Block /\ Called \subseteq Block
    <3>1. ToSet(dequeued) \subseteq Block
      BY <1>9 DEF ToSet
    <3> QED  BY <3>1, DequeuedShape DEF Unanswered, Called, ProcessInv
  <2>3. \A b \in ToSet(Unanswered) \cup Called : packet'[b] = packet[b]
    BY <1>11, <1>13, <2>2
  <2>4. leaves => /\ packet'[c] # Free
                  /\ \/ packet'[c].transmissions = MaxTx
                     \/ packet'[c].ret = "ok" /\ packet'[c].transmissions < MaxTx
    <3>1. p.transmissions \in 0 .. MaxTx
      BY DEF PacketRecord
    <3> QED  BY <1>4, <1>6, <1>11, <3>1, SizesAssumption
  <2>5. \A b \in ToSet(Unanswered') :
          /\ packet'[b] # Free
          /\ packet'[b].transmissions = MaxTx \/ (packet'[b].ret = "ok" /\ packet'[b].transmissions < MaxTx)
    BY <1>17, <2>3, <2>4 DEF AnswersInv
  <2> QED  BY <1>16, <2>1, <2>3, <2>5 DEF AnswersInv
<1>25. PlacesInv'
  <2>1. \A e \in Dest : Queued(e)' \cap (ToSet(Unanswered') \cup Called' \cup Sending') = {}
    <3>1. \A e \in Dest : Queued(e)' \subseteq Queued(e) /\ (leaves => c \notin Queued(e)')
      BY <1>10, <1>12, <1>18
    <3> QED  BY <1>16, <1>17, <3>1 DEF PlacesInv
  <2>2. Sending' \cap (ToSet(Unanswered') \cup Called') = {}
    BY <1>13, <1>16, <1>17 DEF PlacesInv
  <2>3. ASSUME NEW b \in Block, packet'[b] # Free
        PROVE  (\E e \in Dest : b \in Queued(e)') \/ b \in ToSet(Unanswered') \cup Called' \cup Sending'
    <3>1. CASE b = c
      <4>1. leaves => b \in ToSet(Unanswered')
        BY <1>17, <3>1
      <4>2. ~ leaves => b \in Queued(n)'
        BY <1>10, <1>18, <3>1
      <4> QED  BY <4>1, <4>2
    <3>2. CASE b # c
      <4>1. (\E e \in Dest : b \in Queued(e)) \/ b \in ToSet(Unanswered) \cup Called \cup Sending
        BY <1>11, <2>3, <3>2 DEF PlacesInv
      <4>2. \A e \in Dest : b \in Queued(e) => b \in Queued(e)'
        BY <1>10, <1>12, <1>18, <3>2
      <4> QED  BY <1>16, <1>17, <4>1, <4>2
    <3> QED  BY <3>1, <3>2
  <2> QED  BY <2>1, <2>2, <2>3 DEF PlacesInv
<1> QED  BY <1>19, <1>20, <1>21, <1>22, <1>23, <1>24, <1>25, TypeForms

(***************************************************************************)
(* The theorems.                                                           *)
(***************************************************************************)

\* Every step keeps the invariant.
LEMMA NextInv == IInv /\ [Next]_vars => IInv'
<1> SUFFICES ASSUME IInv, [Next]_vars
             PROVE  IInv'
  OBVIOUS
<1>1. CASE Next
  <2>1. CASE Traffic
    BY <2>1, ChangeLinksInv, SendInv DEF Traffic
  <2>2. CASE \E s \in Addr \cup {None} : UpdateTimeSource(s)
    BY <2>2, UpdateTimeSourceInv
  <2>3. CASE CountLink
    BY <2>3, CountLinkInv
  <2>4. CASE AddPacket
    BY <2>4, MakePacketInv, SendFailsInv, CommitInv DEF AddPacket
  <2>5. CASE TxPending
    BY <2>5, StartCallbackInv, CallbackReturnsInv, SweepInv, FinishPacketInv, DrainedInv DEF TxPending
  <2>6. CASE \E l \in Dest : StartTx(l) \/ PassSlot(l)
    BY <2>6, StartTxInv, PassSlotInv
  <2>7. CASE EndSlot
    BY <2>7, EndTxInv DEF EndSlot
  <2> QED  BY <1>1, <2>1, <2>2, <2>3, <2>4, <2>5, <2>6, <2>7 DEF Next
<1>2. CASE UNCHANGED vars
  <2>1. /\ UNCHANGED <<neighbor_list, nbr, time_source, packet, dequeued, links, pc, arg, in_callback,
                       isr, current_packet, current_neighbor, current_link>>
    BY <1>2 DEF vars, procVars, slotVars
  <2>2. TypeOK' /\ ProcessInv' /\ TableInv' /\ SlotInv'
    BY <2>1 DEF IInv, TypeOK, ProcessInv, TableInv, SlotInv
  <2>3. Quiet /\ IsInjective(dequeued')
    BY <2>1 DEF Quiet, Unanswered, Called, Sending, IInv, AnswersInv
  <2> QED  BY <2>2, <2>3, QuietStep DEF IInv
<1> QED  BY <1>1, <1>2

\* The invariant holds in every reachable state.
THEOREM Invariance == Spec => []IInv
BY InitInv, NextInv, PTL DEF Spec

\* The tables, queues and variables of the transmit path stay within their
\* types and sizes: no ring buffer overflows, no backoff window exceeds its
\* exponent's, no index leaves the table.
THEOREM TypeCorrect == Spec => []TypeOK
<1>1. IInv => TypeOK
  BY DEF IInv
<1> QED  BY <1>1, Invariance, PTL

\* What tsch_tx_link removes at the end of a transmission is what it sent, its
\* neighbour is still in the table, and dequeued_ringbuf has room for it.
THEOREM TransmissionHeld == Spec => []TxHeld
<1>1. IInv => TxHeld
  BY TypeForms, ListedIs DEF IInv, SlotInv, TxHeld
<1> QED  BY <1>1, Invariance, PTL

\* The table loses a neighbour only to the sweep, and only one that it has
\* found unused; every other step keeps the list or adds to it.
LEMMA NoneFreedStep ==
  ASSUME IInv, IInv', [Next]_vars
  PROVE  /\ \A d \in Dest : Listed(d) /\ ~Listed(d)' => ~InUse(d)
         /\ time_source' # None => Listed(time_source)'
<1>1. /\ Typed /\ Typed' /\ TableInv'
      /\ \A d : Listed(d) <=> d \in ToSet(neighbor_list)
      /\ \A d : Listed(d)' <=> d \in ToSet(neighbor_list')
  <2>1. Typed /\ Typed' /\ TableInv'
    BY TypeForms DEF IInv
  <2>2. DOMAIN neighbor_list = 1 .. Len(neighbor_list) /\ DOMAIN neighbor_list' = 1 .. Len(neighbor_list')
    BY <2>1 DEF Typed
  <2> QED  BY <2>1, <2>2 DEF Listed, Contains, ToSet
<1>2. time_source' # None => Listed(time_source)'
  <2>1. ASSUME time_source' # None
        PROVE  time_source' \in ToSet(neighbor_list')
    <3>1. time_source' \in Dest
      BY <1>1, <2>1 DEF Typed, Dest
    <3> QED  BY <1>1, <3>1 DEF TableInv
  <2>2. DOMAIN neighbor_list' = 1 .. Len(neighbor_list')
    BY <1>1 DEF Typed
  <2> QED  BY <2>1, <2>2 DEF Listed, Contains, ToSet
<1>3. ASSUME ToSet(neighbor_list) \subseteq ToSet(neighbor_list')
      PROVE  \A d \in Dest : Listed(d) => Listed(d)'
  BY <1>1, <1>3
<1>4. ASSUME NEW e, neighbor_list' = neighbor_list \/ neighbor_list' = Append(neighbor_list, e)
      PROVE  ToSet(neighbor_list) \subseteq ToSet(neighbor_list')
  <2>1. neighbor_list \in Seq(Dest)
    BY <1>1 DEF Typed
  <2>2. \A i \in DOMAIN neighbor_list : i \in DOMAIN neighbor_list' /\ neighbor_list'[i] = neighbor_list[i]
    BY <1>4, <2>1
  <2> QED  BY <2>2 DEF ToSet
<1>5. CASE \/ Traffic \/ \E s \in Addr \cup {None} : UpdateTimeSource(s) \/ CountLink
  <2>1. neighbor_list' = neighbor_list \/ \E e : neighbor_list' = Append(neighbor_list, e)
    BY <1>5 DEF Traffic, ChangeLinks, AddLink, RemoveLink, Send, UpdateTimeSource, CountLink,
                ListAfterAdd
  <2> QED  BY <1>2, <1>3, <1>4, <2>1
<1>6. CASE Sweep
  <2>1. CASE Unused(arg)
    <3>1. /\ isr = "idle" /\ neighbor_list' = RemoveAt(neighbor_list, IndexInList(arg))
          /\ arg # None /\ pc = "sweep"
      BY <1>6, <2>1 DEF Sweep
    <3>2. arg \in ToSet(neighbor_list)
      BY <3>1 DEF IInv, ProcessInv
    <3>3. IndexInList(arg) \in 1 .. Len(neighbor_list) /\ neighbor_list[IndexInList(arg)] = arg
      BY <1>1, <3>1, <3>2, NextRemains
    <3>4. ToSet(neighbor_list') = ToSet(neighbor_list) \ {arg}
      <4>1. PICK m \in Seq(Dest) : m = neighbor_list /\ IsInjective(m)
        BY <1>1 DEF Typed
      <4> QED  BY <3>1, <3>3, <4>1, RemoveAtFacts
    <3>5. ~InUse(arg)
      BY <2>1, <3>1, AddressesDistinct DEF Unused, InUse
    <3> QED  BY <1>1, <1>2, <3>4, <3>5
  <2>2. CASE ~Unused(arg)
    <3>1. neighbor_list' = neighbor_list
      BY <1>6, <2>2 DEF Sweep
    <3> QED  BY <1>2, <1>3, <3>1
  <2> QED  BY <2>1, <2>2
<1>7. CASE \/ AddPacket \/ StartCallback \/ CallbackReturns \/ FinishPacket \/ Drained
           \/ \E l \in Dest : StartTx(l) \/ PassSlot(l)
           \/ EndSlot \/ UNCHANGED vars
  <2>1. neighbor_list' = neighbor_list
    BY <1>7 DEF AddPacket, MakePacket, SendFails, Commit, StartCallback, CallbackReturns,
                FinishPacket, Drained, StartTx, PassSlot, EndSlot, EndTx, vars
  <2> QED  BY <1>2, <1>3, <2>1
<1> QED  BY <1>5, <1>6, <1>7 DEF Next, TxPending

\* No neighbour in use is freed by tsch_queue_free_unused_neighbors: in the state
\* before the step that frees it, it has no packet, no link and no slot under way.
THEOREM NeighborsKept == Spec => NoneFreedInUse
<1> DEFINE Kept == /\ \A d \in Dest : Listed(d) /\ ~Listed(d)' => ~InUse(d)
                   /\ time_source' # None => Listed(time_source)'
<1>1. IInv /\ IInv' /\ [Next]_vars => [Kept]_vars
  BY NoneFreedStep
<1> HIDE DEF Kept
<1>2. Spec => [][Kept]_vars
  BY Invariance, <1>1, PTL DEF Spec
<1> QED  BY <1>2 DEF NoneFreedInUse, Kept

\* A packet is dropped only after MAC_MAX_FRAME_RETRIES + 1 attempts.
THEOREM AttemptsCounted == Spec => []AttemptsHonoured
<1>1. IInv => AttemptsHonoured
  BY DEF IInv, AnswersInv, AttemptsHonoured, ToSet
<1> QED  BY <1>1, Invariance, PTL

\* No interleaving of senders, the slot interrupt, callbacks and the freeing of
\* neighbours leaks a block of packet_memb or has it in two places.
THEOREM BlocksAccounted == Spec => []PacketsAccounted
<1>1. ASSUME IInv
      PROVE  PacketsAccounted
  <2>a. Typed /\ QueuesInv /\ AnswersInv /\ PlacesInv /\ ProcessInv
    BY <1>1, TypeForms DEF IInv
  <2> DEFINE answered == ToSet(Unanswered) \cup Called
  <2>1. \A d \in Dest : Queued(d) \subseteq Block /\ \A b \in Queued(d) : packet[b] # Free
    <3>1. \A d \in Dest : nbr[d].tx_ringbuf \in Seq(Block)
      BY <2>a DEF Typed, NbrRecord
    <3>2. \A d \in Dest : ToSet(nbr[d].tx_ringbuf) \subseteq Block
      BY <3>1 DEF ToSet
    <3>3. \A d \in Dest : \A b \in Queued(d) : packet[b] # Free
      BY <2>a DEF QueuesInv
    <3> QED  BY <3>2, <3>3 DEF Queued
  <2>2. IsInjective(Unanswered) /\ ToSet(Unanswered) \cap Called = {} /\ answered \subseteq Block
    <3>1. in_callback \/ pc = "sweep" => dequeued # << >>
      BY <2>a DEF ProcessInv
    <3>2. ToSet(dequeued) \subseteq Block /\ IsInjective(dequeued)
      BY <2>a DEF Typed, ToSet, AnswersInv
    <3> QED  BY <1>1, <3>1, <3>2, DequeuedShape DEF Unanswered, Called
  <2>3. /\ \A b \in answered : packet[b] # Free
        /\ \A b \in Sending : b \in Block /\ packet[b] # Free
    BY <2>a DEF AnswersInv, Sending, ProcessInv
  <2>4. {b \in Block : packet[b] # Free} = (UNION {Queued(d) : d \in Dest}) \cup answered \cup Sending
    <3> DEFINE U == UNION {Queued(d) : d \in Dest}
    <3>1. \A b : b \in U <=> \E d \in Dest : b \in Queued(d)
      OBVIOUS
    <3> HIDE DEF U, answered
    <3>2. \A b \in Block : packet[b] # Free => b \in U \cup answered \cup Sending
      BY <2>a, <3>1 DEF PlacesInv, answered
    <3>3. \A b \in U \cup answered \cup Sending : b \in Block /\ packet[b] # Free
      BY <2>1, <2>2, <2>3, <3>1
    <3>4. {b \in Block : packet[b] # Free} = U \cup answered \cup Sending
      BY <3>2, <3>3
    <3>5. U = UNION {Queued(d) : d \in Dest}
      BY DEF U
    <3> QED  BY <3>4, <3>5
  <2>5. \A d \in Dest : \A e \in Dest \ {d} : Queued(d) \cap Queued(e) = {}
    BY <2>a DEF QueuesInv
  <2>6. \A d \in Dest : /\ IsInjective(nbr[d].tx_ringbuf)
                        /\ Queued(d) \cap (answered \cup Sending) = {}
    BY <2>a DEF QueuesInv, PlacesInv
  <2>7. answered \cap Sending = {}
    BY <2>a DEF PlacesInv
  <2> QED  BY <2>2, <2>4, <2>5, <2>6, <2>7 DEF PacketsAccounted, Queued, Called, Sending
<1> QED  BY <1>1, Invariance, PTL


(***************************************************************************)
(* The use of the rings.                                                   *)
(***************************************************************************)

\* What one step may do to the rings: dequeued_ringbuf is filled by the
\* interrupt and emptied by the process, the queues the other way round.
RingUse ==
    /\ dequeued' # dequeued =>
         IF isr' # isr THEN \E b \in Block : DequeuedRing!Put(b) ELSE DequeuedRing!Get
    /\ \A d \in Dest : nbr'[d].tx_ringbuf # nbr[d].tx_ringbuf =>
         IF isr' # isr THEN TxRing(d)!Get ELSE \E b \in Block : TxRing(d)!Put(b)

\* A step that leaves all of them alone.
LEMMA SameRings ==
  ASSUME dequeued' = dequeued, \A d \in Dest : nbr'[d].tx_ringbuf = nbr[d].tx_ringbuf
  PROVE  RingUse
BY DEF RingUse

\* The end of a transmission: the interrupt moves at most the head of one queue
\* to dequeued_ringbuf, where the place was found free before the slot.
LEMMA EndTxRings ==
  ASSUME IInv, NEW ok \in BOOLEAN, EndTx(ok)
  PROVE  RingUse
<1>1. PICK n \in Dest : \E c \in Block : \E p \in PacketRecord : EndTxEffect(ok, n, c, p)
  BY EndTxShape
<1>2. PICK c \in Block : \E p \in PacketRecord : EndTxEffect(ok, n, c, p)
  BY <1>1
<1>3. PICK p \in PacketRecord : EndTxEffect(ok, n, c, p)
  BY <1>2
<1>4. PICK leaves \in BOOLEAN : leaves <=> ok \/ p.transmissions = MaxTx
  OBVIOUS
<1>5. /\ nbr[n].tx_ringbuf # << >>
      /\ dequeued' = IF leaves THEN Append(dequeued, c) ELSE dequeued
      /\ nbr'[n].tx_ringbuf = IF leaves THEN Tail(nbr[n].tx_ringbuf) ELSE nbr[n].tx_ringbuf
      /\ \A e \in Dest : e # n => nbr'[e].tx_ringbuf = nbr[e].tx_ringbuf
  BY <1>3, <1>4 DEF EndTxEffect
<1>6. isr' # isr /\ Len(dequeued) < DeqCap
  BY DEF EndTx, IInv, SlotInv
<1>7. dequeued' # dequeued => DequeuedRing!Put(c)
  BY <1>5, <1>6 DEF DequeuedRing!Put
<1>8. \A d \in Dest : nbr'[d].tx_ringbuf # nbr[d].tx_ringbuf => TxRing(d)!Get
  BY <1>5 DEF TxRing!Get
<1> QED  BY <1>6, <1>7, <1>8 DEF RingUse

\* A packet enters its queue only through the put of its sender, with the room
\* that was found before the packet was made.
LEMMA CommitRings ==
  ASSUME IInv, Commit
  PROVE  RingUse
<1>1. PICK d \in Dest : d = packet[arg].dest
  BY CommitQueue
<1>2. /\ arg \in Block /\ Len(nbr[d].tx_ringbuf) < RingCap
      /\ nbr'[d].tx_ringbuf = Append(nbr[d].tx_ringbuf, arg)
      /\ \A e \in Dest \ {d} : nbr'[e] = nbr[e]
  BY <1>1, CommitQueue
<1>3. dequeued' = dequeued /\ isr' = isr
  BY DEF Commit, slotVars
<1>4. \A e \in Dest : nbr'[e].tx_ringbuf # nbr[e].tx_ringbuf => e = d
  BY <1>2
<1>5. TxRing(d)!Put(arg)
  BY <1>2 DEF TxRing!Put
<1> QED  BY <1>2, <1>3, <1>4, <1>5 DEF RingUse

\* A packet leaves dequeued_ringbuf only through the get that follows its
\* answer.
LEMMA FinishPacketRings ==
  ASSUME IInv, FinishPacket
  PROVE  RingUse
<1>1. nbr' = nbr /\ dequeued' = Tail(dequeued) /\ dequeued # << >> /\ isr' = isr
  BY DEF FinishPacket, slotVars, IInv, ProcessInv
<1> QED  BY <1>1 DEF RingUse, DequeuedRing!Get

\* Every step uses the rings as queues with one producer and one consumer.
LEMMA RingsStep ==
  ASSUME IInv, [Next]_vars
  PROVE  RingUse
<1>1. ASSUME Quiet, dequeued' = dequeued
      PROVE  RingUse
  BY <1>1, SameRings DEF Quiet
<1>2. CASE Traffic
  <2>1. Quiet
    BY <1>2, ChangeLinksInv, SendInv DEF Traffic
  <2>2. dequeued' = dequeued
    BY <1>2 DEF Traffic, ChangeLinks, AddLink, RemoveLink, Send
  <2> QED  BY <1>1, <2>1, <2>2
<1>3. CASE \E s \in Addr \cup {None} : UpdateTimeSource(s)
  <2>1. Quiet
    BY <1>3, UpdateTimeSourceInv
  <2>2. dequeued' = dequeued
    BY <1>3 DEF UpdateTimeSource
  <2> QED  BY <1>1, <2>1, <2>2
<1>4. CASE CountLink
  <2>1. Quiet
    BY <1>4, CountLinkInv
  <2>2. dequeued' = dequeued
    BY <1>4 DEF CountLink
  <2> QED  BY <1>1, <2>1, <2>2
<1>5. CASE AddPacket
  <2>1. CASE (\E b \in Block : MakePacket(b)) \/ SendFails
    BY <2>1, SameRings DEF MakePacket, SendFails
  <2>2. CASE Commit
    BY <2>2, CommitRings
  <2> QED  BY <1>5, <2>1, <2>2 DEF AddPacket
<1>6. CASE TxPending
  <2>1. CASE StartCallback \/ CallbackReturns \/ Drained
    BY <2>1, SameRings DEF StartCallback, CallbackReturns, Drained
  <2>2. CASE Sweep
    <3>1. Quiet
      BY <2>2, SweepInv
    <3>2. dequeued' = dequeued
      BY <2>2 DEF Sweep
    <3> QED  BY <1>1, <3>1, <3>2
  <2>3. CASE FinishPacket
    BY <2>3, FinishPacketRings
  <2> QED  BY <1>6, <2>1, <2>2, <2>3 DEF TxPending
<1>7. CASE \E l \in Dest : StartTx(l) \/ PassSlot(l)
  <2>1. Quiet
    BY <1>7, StartTxInv, PassSlotInv
  <2>2. dequeued' = dequeued
    BY <1>7 DEF StartTx, PassSlot
  <2> QED  BY <1>1, <2>1, <2>2
<1>8. CASE EndSlot
  BY <1>8, EndTxRings DEF EndSlot
<1>9. CASE UNCHANGED vars
  BY <1>9, SameRings DEF vars
<1> QED  BY <1>2, <1>3, <1>4, <1>5, <1>6, <1>7, <1>8, <1>9 DEF Next

\* Every ring has one producer and one consumer, never overflows, is never read
\* when empty and is never cleared: what ringbufindex needs of its callers.
THEOREM RingDiscipline == Spec => RingsUsedAsFifos
<1>1. IInv /\ [Next]_vars => [RingUse]_vars
  BY RingsStep
<1> QED  BY <1>1, Invariance, PTL DEF Spec, RingsUsedAsFifos, RingUse

(***************************************************************************)
(* The counters of links.                                                  *)
(***************************************************************************)

\* The table has an entry for everyone.
RoomForAll == IsFiniteSet(Dest) /\ Cardinality(Dest) <= MaxNbr

\* The counter follows the schedule, one step behind it between the two parts of
\* a change.
CountedInv ==
    /\ pc = "count" => arg \in links
    /\ pc = "uncount" => arg \notin links
    /\ \A a \in Addr :
         nbr[a].tx_links_count =
            IF a \in links THEN IF pc = "count" /\ arg = a THEN 0 ELSE 1
            ELSE IF pc = "uncount" /\ arg = a THEN 1 ELSE 0

\* Most steps change no counter.
SameCounts == \A a \in Addr : nbr'[a].tx_links_count = nbr[a].tx_links_count

\* Steps that change neither the schedule nor a counter.
LEMMA SameCounted ==
  ASSUME CountedInv, SameCounts, links' = links,
         pc \notin {"count", "uncount"} \/ UNCHANGED <<pc, arg>>,
         pc' \notin {"count", "uncount"} \/ UNCHANGED <<pc, arg>>
  PROVE  CountedInv'
BY DEF CountedInv, SameCounts

\* Then no neighbour is turned away.
LEMMA AllFit ==
  ASSUME RoomForAll, Typed, NEW d \in Dest
  PROVE  add_nbr_succeeds(d)
<1> SUFFICES ASSUME ~ Listed(d), ~ (Len(neighbor_list) < MaxNbr)
             PROVE  FALSE
  BY DEF add_nbr_succeeds
<1>1. /\ neighbor_list \in Seq(Dest) /\ IsInjective(neighbor_list)
      /\ Len(neighbor_list) \in Nat /\ Len(neighbor_list) >= MaxNbr
  BY SizesAssumption DEF Typed
<1>2. d \notin ToSet(neighbor_list)
  BY ListedIs
<1> DEFINE S == 1 .. Len(neighbor_list)
           T == Dest \ {d}
<1>3. IsFiniteSet(S) /\ Cardinality(S) = Len(neighbor_list)
  <2>1. Len(neighbor_list) > 0 /\ 1 \in Int /\ Len(neighbor_list) \in Int
    BY <1>1, SizesAssumption
  <2> QED  BY <2>1, FS_Interval
<1>4. IsFiniteSet(T) /\ Cardinality(T) = Cardinality(Dest) - 1 /\ Cardinality(Dest) \in Nat
  BY FS_RemoveElement, FS_CardinalityType DEF RoomForAll
<1>5. Cardinality(T) < Cardinality(S)
  BY <1>1, <1>3, <1>4, SizesAssumption DEF RoomForAll
<1>6. neighbor_list \in [S -> T]
  BY <1>1, <1>2 DEF ToSet
<1>7. DOMAIN neighbor_list = S
  BY <1>1
<1> HIDE DEF S, T
<1>8. \E x, y \in S : x # y /\ neighbor_list[x] = neighbor_list[y]
  BY <1>3, <1>4, <1>5, <1>6, FS_PigeonHole
<1> QED  BY <1>1, <1>7, <1>8 DEF IsInjective

\* A record with the fields of a neighbour, whatever their values.
HasFields(m) == \E r \in NbrRecord : m = [x \in DOMAIN r |-> m[x]]

\* The end of a slot leaves the counters alone.
LEMMA BackoffKeepsCounts ==
  ASSUME NEW n, NEW l, NEW after, after = BackoffAtSlotEnd(n, l),
         \A d \in Dest : HasFields(n[d])
  PROVE  \A d \in Dest : after[d].tx_links_count = n[d].tx_links_count
<1> SUFFICES ASSUME NEW d \in Dest
             PROVE  after[d].tx_links_count = n[d].tx_links_count
  OBVIOUS
<1>1. PICK r \in NbrRecord : n[d] = [x \in DOMAIN r |-> n[d][x]]
  BY DEF HasFields
<1>2. "tx_links_count" \in DOMAIN r
  BY DEF NbrRecord
<1>3. PICK m : m = n[d] /\ m = [x \in DOMAIN r |-> m[x]]
  BY <1>1
<1>4. PICK w : after[d] = m \/ after[d] = [m EXCEPT !.backoff_window = w]
  BY <1>3 DEF BackoffAtSlotEnd
<1>5. [m EXCEPT !.backoff_window = w].tx_links_count = m.tx_links_count
  BY <1>2, <1>3
<1> QED  BY <1>3, <1>4, <1>5

\* Steps of the process that are not about links.
LEMMA TrafficCounts ==
  ASSUME IInv, CountedInv,
         \/ \E d \in Dest : Send(d)
         \/ \E s \in Addr \cup {None} : UpdateTimeSource(s)
         \/ AddPacket
         \/ TxPending
         \/ \E l \in Dest : StartTx(l)
  PROVE  CountedInv'
<1> USE DEF IInv
<1>a. Typed
  BY TypeForms
<1>1. CASE \E d \in Dest : Send(d)
  <2>1. PICK d \in Dest : Send(d)
    BY <1>1
  <2>2. nbr' = nbr /\ links' = links /\ pc = "ready" /\ pc' = "add"
    BY <1>a, <2>1, AddNbr DEF Send
  <2> QED  BY <2>2, SameCounted DEF SameCounts
<1>2. CASE \E s \in Addr \cup {None} : UpdateTimeSource(s)
  <2>1. PICK s \in Addr \cup {None} : UpdateTimeSource(s)
    BY <1>2
  <2>2. nbr' = nbr
    <3>1. CASE s = None
      BY <2>1, <3>1 DEF UpdateTimeSource
    <3>2. CASE s # None
      <4>1. s \in Dest
        BY <2>1, <3>2 DEF Dest
      <4> QED  BY <1>a, <2>1, <3>2, <4>1, AddNbr DEF UpdateTimeSource
    <3> QED  BY <3>1, <3>2
  <2>3. links' = links /\ pc = "ready" /\ pc' = "ready"
    BY <2>1 DEF UpdateTimeSource, procVars
  <2> QED  BY <2>2, <2>3, SameCounted DEF SameCounts
<1>3. CASE AddPacket
  <2>1. links' = links /\ pc \in {"add", "commit"} /\ pc' \in {"commit", "ready"}
    BY <1>3 DEF AddPacket, MakePacket, SendFails, Commit
  <2>2. SameCounts
    <3>1. CASE nbr' = nbr
      BY <3>1 DEF SameCounts
    <3>2. CASE Commit
      <4> DEFINE d == packet[arg].dest
                 q == nbr[d].tx_ringbuf
      <4>1. /\ d \in Dest /\ q \in Seq(Block) /\ arg \in Block
            /\ nbr'[d] = [nbr[d] EXCEPT !.tx_ringbuf = Append(q, arg)]
            /\ \A e \in Dest \ {d} : nbr'[e] = nbr[e]
        BY <3>2, CommitQueue
      <4>2. nbr[d] \in NbrRecord
        BY <1>a, <4>1 DEF Typed
      <4> HIDE DEF d
      <4>s. PICK s : s = Append(q, arg)
        OBVIOUS
      <4>r. PICK r \in NbrRecord : r = nbr[d]
        BY <4>2
      <4>4. [r EXCEPT !.tx_ringbuf = s].tx_links_count = r.tx_links_count
        BY <4>r DEF NbrRecord
      <4>5. nbr'[d].tx_links_count = nbr[d].tx_links_count
        BY <4>1, <4>s, <4>r, <4>4
      <4> QED  BY <4>1, <4>5 DEF SameCounts, Dest
    <3> QED  BY <1>3, <3>1, <3>2 DEF AddPacket, MakePacket, SendFails
  <2> QED  BY <2>1, <2>2, SameCounted
<1>4. CASE TxPending
  <2>1. links' = links /\ pc \in {"ready", "drain", "sweep"} /\ pc' \in {"ready", "drain", "sweep"}
    BY <1>4 DEF TxPending, StartCallback, CallbackReturns, Sweep, FinishPacket, Drained
  <2>2. SameCounts
    <3>1. CASE nbr' = nbr
      BY <3>1 DEF SameCounts
    <3>2. CASE Sweep /\ Unused(arg)
      <4>1. nbr' = [nbr EXCEPT ![arg] = NewNbr] /\ nbr[arg].tx_links_count = 0 /\ arg \in Addr
        BY <3>2 DEF Sweep, Unused
      <4>2. NewNbr.tx_links_count = 0
        BY DEF NewNbr
      <4>3. nbr \in [Dest -> NbrRecord] /\ Addr \subseteq Dest
        BY <1>a DEF Typed, Dest
      <4> QED  BY <4>1, <4>2, <4>3 DEF SameCounts
    <3> QED  BY <1>4, <3>1, <3>2 DEF TxPending, StartCallback, CallbackReturns, Sweep, FinishPacket, Drained
  <2> QED  BY <2>1, <2>2, SameCounted
<1>5. CASE \E l \in Dest : StartTx(l)
  BY <1>5, SameCounted DEF StartTx, SameCounts, procVars
<1> QED  BY <1>1, <1>2, <1>3, <1>4, <1>5

\* Slots.
LEMMA SlotCounts ==
  ASSUME IInv, CountedInv, EndSlot \/ \E l \in Dest : PassSlot(l)
  PROVE  CountedInv'
<1> USE DEF IInv
<1>a. Typed
  BY TypeForms
<1>0. nbr \in [Dest -> NbrRecord] /\ Addr \subseteq Dest
  BY <1>a DEF Typed, Dest
<1>1. links' = links /\ UNCHANGED <<pc, arg>>
  BY DEF EndSlot, EndTx, PassSlot, procVars
<1>2. CASE \E l \in Dest : PassSlot(l)
  <2>1. PICK l \in Dest : nbr' = BackoffAtSlotEnd(nbr, l)
    BY <1>2 DEF PassSlot
  <2>2. \A d \in Dest : HasFields(nbr[d])
    <3>1. \A r \in NbrRecord : r = [x \in DOMAIN r |-> r[x]]
      BY DEF NbrRecord
    <3> QED  BY <1>0, <3>1 DEF HasFields
  <2>3. PICK after, n : after = nbr' /\ n = nbr
    OBVIOUS
  <2>4. \A d \in Dest : after[d].tx_links_count = n[d].tx_links_count
    BY <2>1, <2>2, <2>3, BackoffKeepsCounts
  <2> QED  BY <1>0, <1>1, <2>3, <2>4, SameCounted DEF SameCounts
<1>3. CASE EndSlot
  <2>1. PICK k, q, b, w, l :
          nbr' = BackoffAtSlotEnd([nbr EXCEPT ![k].tx_ringbuf = q, ![k].backoff_exponent = b,
                                              ![k].backoff_window = w], l)
    <3>1. PICK ok \in BOOLEAN : EndTx(ok)
      BY <1>3 DEF EndSlot
    <3> DEFINE p == [packet[current_packet] EXCEPT !.transmissions = @ + 1,
                                                   !.ret = IF ok THEN "ok" ELSE "fail"]
               n == current_neighbor
               qq == IF ok \/ GivesUp(p) THEN Tail(nbr[n].tx_ringbuf) ELSE nbr[n].tx_ringbuf
    <3>2. PICK bw \in BackoffsAfter(n, qq, ok) :
            nbr' = BackoffAtSlotEnd([nbr EXCEPT ![n].tx_ringbuf = qq, ![n].backoff_exponent = bw[1],
                                                ![n].backoff_window = bw[2]], current_link)
      BY <3>1 DEF EndTx
    <3> QED  BY <3>2
  <2> DEFINE new == [nbr[k] EXCEPT !.tx_ringbuf = q, !.backoff_exponent = b, !.backoff_window = w]
             table == [nbr EXCEPT ![k] = new]
  <2>2. nbr' = BackoffAtSlotEnd(table, l)
    BY <2>1
  <2>3. \A d \in Dest : HasFields(table[d]) /\ table[d].tx_links_count = nbr[d].tx_links_count
    <3>1. ASSUME NEW r \in NbrRecord, NEW s,
                 s = [r EXCEPT !.tx_ringbuf = q, !.backoff_exponent = b, !.backoff_window = w]
          PROVE  HasFields(s) /\ s.tx_links_count = r.tx_links_count
      <4>1. DOMAIN r = {"tx_ringbuf", "tx_links_count", "backoff_window", "backoff_exponent"}
        BY DEF NbrRecord
      <4>2. s = [x \in DOMAIN r |-> s[x]] /\ s.tx_links_count = r.tx_links_count
        BY <3>1, <4>1
      <4> QED  BY <4>2 DEF HasFields
    <3>2. \A r \in NbrRecord : HasFields(r)
      <4>1. \A r \in NbrRecord : r = [x \in DOMAIN r |-> r[x]]
        BY DEF NbrRecord
      <4> QED  BY <4>1 DEF HasFields
    <3> SUFFICES ASSUME NEW d \in Dest
                 PROVE  HasFields(table[d]) /\ table[d].tx_links_count = nbr[d].tx_links_count
      OBVIOUS
    <3>3. nbr[d] \in NbrRecord /\ table[d] = IF d = k THEN new ELSE nbr[d]
      BY <1>0
    <3>4. CASE d = k
      <4>1. PICK m : m = new
        OBVIOUS
      <4>2. PICK r \in NbrRecord : r = nbr[d]
        BY <3>3
      <4>3. m = [r EXCEPT !.tx_ringbuf = q, !.backoff_exponent = b, !.backoff_window = w]
        BY <3>4, <4>1, <4>2
      <4>4. HasFields(m) /\ m.tx_links_count = r.tx_links_count
        BY <3>1, <4>3
      <4>5. table[d] = m
        BY <3>3, <3>4, <4>1
      <4> QED  BY <4>2, <4>4, <4>5
    <3> QED  BY <3>2, <3>3, <3>4
  <2> HIDE DEF table
  <2>4. PICK after, n : after = nbr' /\ n = table
    OBVIOUS
  <2>5. \A d \in Dest : after[d].tx_links_count = n[d].tx_links_count
    BY <2>2, <2>3, <2>4, BackoffKeepsCounts
  <2> QED  BY <1>0, <1>1, <2>3, <2>4, <2>5, SameCounted DEF SameCounts
<1> QED  BY <1>2, <1>3

\* The two parts of a change of the schedule.
LEMMA LinkCounts ==
  ASSUME IInv, RoomForAll, CountedInv, ChangeLinks \/ CountLink
  PROVE  CountedInv'
<1> USE DEF IInv
<1>a. Typed
  BY TypeForms
<1>0. nbr \in [Dest -> NbrRecord] /\ Addr \subseteq Dest
  BY <1>a DEF Typed, Dest
<1>1. CASE ChangeLinks
  BY <1>1 DEF ChangeLinks, AddLink, RemoveLink, CountedInv
<1>2. CASE CountLink
  <2> DEFINE c == (nbr[arg].tx_links_count + (IF pc = "count" THEN 1 ELSE 255)) % 256
  <2>1. /\ pc \in {"count", "uncount"} /\ arg \in Dest /\ pc' = "ready" /\ links' = links
    BY <1>2 DEF CountLink, ProcessInv
  <2>2. nbr' = [nbr EXCEPT ![arg].tx_links_count = c]
    <3>1. NbrAfterAdd(arg) = nbr
      BY <1>a, <2>1, AddNbr
    <3>2. add_nbr_succeeds(arg)
      BY <1>a, <2>1, AllFit
    <3> QED  BY <1>2, <3>1, <3>2 DEF CountLink
  <2>3. nbr'[arg].tx_links_count = c /\ \A e \in Dest : e # arg => nbr'[e] = nbr[e]
    <3>1. PICK r \in NbrRecord : r = nbr[arg]
      BY <1>0, <2>1
    <3>2. [r EXCEPT !.tx_links_count = c].tx_links_count = c
      BY DEF NbrRecord
    <3>3. nbr'[arg] = [r EXCEPT !.tx_links_count = c]
      BY <1>0, <2>1, <2>2, <3>1
    <3> QED  BY <1>0, <2>1, <2>2, <3>2, <3>3
  <2>4. arg \in Addr => c = IF pc = "count" THEN 1 ELSE 0
    BY <2>1 DEF CountedInv
  <2> HIDE DEF c
  <2> QED  BY <1>0, <2>1, <2>3, <2>4 DEF CountedInv
<1> QED  BY <1>1, <1>2

\* As long as the neighbour table has room for everyone, tx_links_count is the number of
\* links to the neighbour between two operations: the full table, of which the run
\* link_count has the example, is the only cause of a difference.
THEOREM CountsFollowSchedule ==
  ASSUME RoomForAll
  PROVE  Spec => []CountIsLinks
<1>1. Init => CountedInv
  <2>1. ASSUME Init, NEW a \in Addr
        PROVE  nbr[a].tx_links_count = 0 /\ a \notin links
    <3>1. a # BC /\ a # EB /\ a \in Dest
      BY AddressesDistinct DEF Dest
    <3>2. nbr[a] = [NewNbr EXCEPT !.tx_links_count = 0]
      BY <2>1, <3>1 DEF Init
    <3> QED  BY <2>1, <3>1, <3>2, LinksAssumption DEF Init, NewNbr
  <2> QED  BY <2>1 DEF Init, CountedInv
<1>2. IInv /\ CountedInv /\ [Next]_vars => CountedInv'
  <2> SUFFICES ASSUME IInv, CountedInv, [Next]_vars
               PROVE  CountedInv'
    OBVIOUS
  <2>1. CASE Next
    BY <2>1, TrafficCounts, SlotCounts, LinkCounts DEF Next, Traffic
  <2>2. CASE UNCHANGED vars
    BY <2>2 DEF vars, procVars, CountedInv
  <2> QED  BY <2>1, <2>2
<1>3. CountedInv => CountIsLinks
  BY DEF CountedInv, CountIsLinks
<1> QED  BY <1>1, <1>2, <1>3, Invariance, PTL DEF Spec

(***************************************************************************)
(* The elements of a sequence that are in a set.                           *)
(***************************************************************************)

\* What Among is computed by: its value for every prefix of the sequence.
GoodPrefixes(f, s, S) ==
    f = [i \in 0 .. Len(s) |->
            IF i = 0 THEN << >>
            ELSE IF s[i] \in S THEN Append(f[i - 1], s[i]) ELSE f[i - 1]]

\* The same, value by value.
LEMMA PrefixValues ==
  ASSUME NEW f, NEW s, NEW S, Len(s) \in Nat, GoodPrefixes(f, s, S)
  PROVE  /\ f[0] = << >>
         /\ \A i \in 1 .. Len(s) : f[i] = IF s[i] \in S THEN Append(f[i - 1], s[i]) ELSE f[i - 1]
<1> DEFINE rhs(i) == IF i = 0 THEN << >>
                     ELSE IF s[i] \in S THEN Append(f[i - 1], s[i]) ELSE f[i - 1]
<1>1. \A i \in 0 .. Len(s) : f[i] = rhs(i)
  BY DEF GoodPrefixes
<1>2. 0 \in 0 .. Len(s) /\ \A i \in 1 .. Len(s) : i \in 0 .. Len(s) /\ i # 0
  OBVIOUS
<1> QED  BY <1>1, <1>2

\* A sequence of none is put before another one, or one more behind it.
LEMMA ConcatEmpty ==
  ASSUME NEW X, NEW a \in Seq(X)
  PROVE  a \o << >> = a /\ << >> \o a = a
  OBVIOUS

\* The operators on sequences, for facts that the provers are to apply and not
\* to compute with.
Put(a, x) == Append(a, x)
Join(a, b) == a \o b

\* An element is appended to the second of two sequences.
LEMMA ConcatAppend ==
  ASSUME NEW X, NEW a \in Seq(X), NEW b \in Seq(X), NEW x \in X
  PROVE  Put(Join(a, b), x) = Join(a, Put(b, x))
BY DEF Put, Join

\* There is such a function; and its values are sequences.
LEMMA AmongPrefixes ==
  ASSUME NEW X, NEW s \in Seq(X), NEW S
  PROVE  \E f : /\ GoodPrefixes(f, s, S) /\ Among(s, S) = f[Len(s)]
                /\ \A i \in 0 .. Len(s) : f[i] \in Seq(X)
<1> DEFINE n == Len(s)
           Def(f, m) == /\ DOMAIN f = 0 .. m /\ f = [i \in DOMAIN f |-> f[i]]
                        /\ f[0] = << >>
                        /\ \A i \in 1 .. m :
                             f[i] = IF s[i] \in S THEN Append(f[i - 1], s[i]) ELSE f[i - 1]
           G == {m \in Nat : m <= n => \E f : Def(f, m)}
<1>a. n \in Nat /\ \A i \in 1 .. n : s[i] \in X
  OBVIOUS
<1>1. 0 \in G
  <2>1. Def([i \in 0 .. 0 |-> << >>], 0)
    OBVIOUS
  <2> QED  BY <2>1
<1>2. ASSUME NEW m \in G
      PROVE  m + 1 \in G
  <2> SUFFICES ASSUME m + 1 <= n
               PROVE  \E g : Def(g, m + 1)
    OBVIOUS
  <2>1. m \in Nat /\ \E f : Def(f, m)
    BY <1>a
  <2>2. PICK f : Def(f, m)
    BY <2>1
  <2> DEFINE last == IF s[m + 1] \in S THEN Append(f[m], s[m + 1]) ELSE f[m]
             g == [i \in 0 .. m + 1 |-> IF i = m + 1 THEN last ELSE f[i]]
  <2> HIDE DEF last
  <2>3. /\ DOMAIN g = 0 .. m + 1 /\ g = [i \in DOMAIN g |-> g[i]]
        /\ g[m + 1] = last /\ \A i \in 0 .. m : g[i] = f[i]
    BY <2>1
  <2> HIDE DEF g
  <2>4. g[0] = << >>
    BY <2>1, <2>2, <2>3
  <2>5. ASSUME NEW i \in 1 .. m + 1
        PROVE  g[i] = IF s[i] \in S THEN Append(g[i - 1], s[i]) ELSE g[i - 1]
    <3>1. i - 1 \in 0 .. m /\ g[i - 1] = f[i - 1]
      BY <2>1, <2>3
    <3>2. CASE i = m + 1
      <4>1. i - 1 = m
        BY <2>1, <3>2
      <4> QED  BY <2>3, <3>1, <3>2, <4>1 DEF last
    <3>3. CASE i # m + 1
      <4>1. i \in 1 .. m /\ i \in 0 .. m
        BY <2>1, <3>3
      <4> QED  BY <2>2, <2>3, <3>1, <4>1
    <3> QED  BY <3>2, <3>3
  <2> QED  BY <2>3, <2>4, <2>5
<1> HIDE DEF G
<1>3. G = Nat
  <2>1. G \in SUBSET Nat
    BY DEF G
  <2> QED  BY <1>1, <1>2, <2>1, NatSetInduction
<1>4. PICK f : Def(f, n)
  BY <1>3, <1>a DEF G
<1>5. GoodPrefixes(f, s, S)
  <2> DEFINE rhs == [i \in 0 .. Len(s) |->
                       IF i = 0 THEN << >>
                       ELSE IF s[i] \in S THEN Append(f[i - 1], s[i]) ELSE f[i - 1]]
  <2>1. \A i \in 0 .. Len(s) : f[i] = rhs[i]
    <3> SUFFICES ASSUME NEW i \in 0 .. Len(s)
                 PROVE  f[i] = rhs[i]
      OBVIOUS
    <3>1. CASE i = 0
      BY <1>4, <3>1
    <3>2. CASE i # 0
      <4>1. i \in 1 .. n
        BY <1>a, <3>2
      <4> QED  BY <1>4, <3>2, <4>1
    <3> QED  BY <3>1, <3>2
  <2>2. DOMAIN f = DOMAIN rhs /\ rhs = [i \in DOMAIN rhs |-> rhs[i]]
    BY <1>4
  <2> HIDE DEF rhs
  <2>3. f = rhs
    BY <1>4, <2>1, <2>2
  <2> QED  BY <2>3 DEF rhs, GoodPrefixes
<1> HIDE DEF Def
<1>6. \E h : GoodPrefixes(h, s, S) /\ Among(s, S) = h[Len(s)]
  <2> DEFINE h == CHOOSE g : GoodPrefixes(g, s, S)
  <2>1. GoodPrefixes(h, s, S)
    BY <1>5
  <2>2. Among(s, S) = h[Len(s)]
    BY DEF Among, GoodPrefixes
  <2> QED  BY <2>1, <2>2
<1>7. PICK h : GoodPrefixes(h, s, S) /\ Among(s, S) = h[Len(s)]
  BY <1>6
<1>b. /\ h[0] = << >>
      /\ \A i \in 1 .. n : h[i] = IF s[i] \in S THEN Append(h[i - 1], s[i]) ELSE h[i - 1]
  BY <1>7, <1>a, PrefixValues
<1>8. \A i \in 0 .. n : h[i] \in Seq(X)
  <2> DEFINE T == {i \in Nat : i <= n => h[i] \in Seq(X)}
  <2>1. << >> \in Seq(X)
    OBVIOUS
  <2>2. 0 \in T
    BY <1>b, <2>1
  <2>3. ASSUME NEW i \in T
        PROVE  i + 1 \in T
    <3> SUFFICES ASSUME i + 1 <= n
                 PROVE  h[i + 1] \in Seq(X)
      OBVIOUS
    <3>1. i \in Nat /\ i + 1 \in 0 .. n /\ i + 1 \in 1 .. n /\ i + 1 # 0 /\ i + 1 - 1 = i
      BY <1>a
    <3>2. h[i] \in Seq(X) /\ s[i + 1] \in X
      BY <1>a, <3>1
    <3>3. h[i + 1] = IF s[i + 1] \in S THEN Append(h[i + 1 - 1], s[i + 1]) ELSE h[i + 1 - 1]
      BY <1>b, <3>1
    <3> QED  BY <3>1, <3>2, <3>3
  <2> HIDE DEF T
  <2>4. T = Nat
    <3>1. T \in SUBSET Nat
      BY DEF T
    <3> QED  BY <2>2, <2>3, <3>1, NatSetInduction
  <2> QED  BY <1>a, <2>4 DEF T
<1> QED  BY <1>7, <1>8

\* What is in the set is appended.
LEMMA AmongAppend ==
  ASSUME NEW X, NEW s \in Seq(X), NEW x \in X, NEW S
  PROVE  Among(Append(s, x), S) = IF x \in S THEN Append(Among(s, S), x) ELSE Among(s, S)
<1> DEFINE n == Len(s)
           t == Append(s, x)
<1>1. /\ n \in Nat /\ t \in Seq(X) /\ Len(t) = n + 1 /\ t[n + 1] = x
      /\ \A i \in 1 .. n : t[i] = s[i]
  OBVIOUS
<1> HIDE DEF t
<1>2. PICK f : GoodPrefixes(f, s, S) /\ Among(s, S) = f[n]
  BY AmongPrefixes
<1>3. PICK g : GoodPrefixes(g, t, S) /\ Among(t, S) = g[n + 1]
  BY <1>1, AmongPrefixes
<1>4. /\ f[0] = << >> /\ g[0] = << >>
      /\ \A i \in 1 .. n : f[i] = IF s[i] \in S THEN Append(f[i - 1], s[i]) ELSE f[i - 1]
      /\ \A i \in 1 .. n + 1 : g[i] = IF t[i] \in S THEN Append(g[i - 1], t[i]) ELSE g[i - 1]
  <2>1. Len(s) \in Nat /\ GoodPrefixes(f, s, S)
    BY <1>1, <1>2
  <2>2. f[0] = << >> /\ \A i \in 1 .. n :
          f[i] = IF s[i] \in S THEN Append(f[i - 1], s[i]) ELSE f[i - 1]
    BY <2>1, PrefixValues
  <2>3. Len(t) \in Nat /\ GoodPrefixes(g, t, S)
    BY <1>1, <1>3
  <2>4. g[0] = << >> /\ \A i \in 1 .. Len(t) :
          g[i] = IF t[i] \in S THEN Append(g[i - 1], t[i]) ELSE g[i - 1]
    BY <2>3, PrefixValues
  <2>5. g[0] = << >> /\ \A i \in 1 .. n + 1 :
          g[i] = IF t[i] \in S THEN Append(g[i - 1], t[i]) ELSE g[i - 1]
    BY <1>1, <2>4
  <2> QED  BY <2>2, <2>5
<1> DEFINE G == {i \in Nat : i <= n => g[i] = f[i]}
<1>5. 0 \in G
  BY <1>4
<1>6. ASSUME NEW i \in G
      PROVE  i + 1 \in G
  <2> SUFFICES ASSUME i + 1 <= n
               PROVE  g[i + 1] = f[i + 1]
    OBVIOUS
  <2>1. i + 1 \in 1 .. n /\ i + 1 \in 1 .. n + 1 /\ i + 1 - 1 = i /\ g[i] = f[i]
    BY <1>1
  <2>2. f[i + 1] = IF s[i + 1] \in S THEN Append(f[i + 1 - 1], s[i + 1]) ELSE f[i + 1 - 1]
    BY <1>4, <2>1
  <2>3. g[i + 1] = IF t[i + 1] \in S THEN Append(g[i + 1 - 1], t[i + 1]) ELSE g[i + 1 - 1]
    BY <1>4, <2>1
  <2> QED  BY <1>1, <2>1, <2>2, <2>3
<1>7. G \in SUBSET Nat
  OBVIOUS
<1> HIDE DEF G
<1>8. G = Nat
  BY <1>5, <1>6, <1>7, NatSetInduction
<1>9. g[n] = f[n]
  BY <1>1, <1>8 DEF G
<1>10. n + 1 \in 1 .. n + 1 /\ n + 1 - 1 = n
  BY <1>1
<1>11. g[n + 1] = IF t[n + 1] \in S THEN Append(g[n + 1 - 1], t[n + 1]) ELSE g[n + 1 - 1]
  BY <1>4, <1>10
<1> QED  BY <1>1, <1>2, <1>3, <1>9, <1>10, <1>11 DEF t

\* The first element comes first, if it is in the set.
LEMMA AmongTail ==
  ASSUME NEW X, NEW s \in Seq(X), s # << >>, NEW S
  PROVE  /\ Among(Tail(s), S) \in Seq(X)
         /\ Among(s, S) = IF Head(s) \in S THEN <<Head(s)>> \o Among(Tail(s), S)
                          ELSE Among(Tail(s), S)
<1> DEFINE n == Len(s) - 1
           t == Tail(s)
           pre == IF Head(s) \in S THEN <<Head(s)>> ELSE << >>
<1>1. /\ n \in Nat /\ Len(s) = n + 1 /\ t \in Seq(X) /\ Len(t) = n /\ Head(s) = s[1]
      /\ \A i \in 1 .. n : t[i] = s[i + 1] /\ t[i] \in X
  OBVIOUS
<1>p. pre \in Seq(X)
  OBVIOUS
<1> HIDE DEF n, t
<1>2. PICK f : GoodPrefixes(f, s, S) /\ Among(s, S) = f[n + 1]
  BY <1>1, AmongPrefixes
<1>3. PICK g : GoodPrefixes(g, t, S) /\ Among(t, S) = g[n] /\ \A i \in 0 .. n : g[i] \in Seq(X)
  BY <1>1, AmongPrefixes
<1>4. /\ f[0] = << >> /\ g[0] = << >>
      /\ \A i \in 1 .. n + 1 : f[i] = IF s[i] \in S THEN Append(f[i - 1], s[i]) ELSE f[i - 1]
      /\ \A i \in 1 .. n : g[i] = IF t[i] \in S THEN Append(g[i - 1], t[i]) ELSE g[i - 1]
  <2>1. f[0] = << >> /\ \A i \in 1 .. n + 1 :
          f[i] = IF s[i] \in S THEN Append(f[i - 1], s[i]) ELSE f[i - 1]
    <3>1. Len(s) \in Nat /\ GoodPrefixes(f, s, S)
      BY <1>1, <1>2
    <3>2. f[0] = << >> /\ \A i \in 1 .. Len(s) :
            f[i] = IF s[i] \in S THEN Append(f[i - 1], s[i]) ELSE f[i - 1]
      BY <3>1, PrefixValues
    <3> QED  BY <1>1, <3>2
  <2>2. g[0] = << >> /\ \A i \in 1 .. n :
          g[i] = IF t[i] \in S THEN Append(g[i - 1], t[i]) ELSE g[i - 1]
    <3>1. Len(t) \in Nat /\ GoodPrefixes(g, t, S)
      BY <1>1, <1>3
    <3>2. g[0] = << >> /\ \A i \in 1 .. Len(t) :
            g[i] = IF t[i] \in S THEN Append(g[i - 1], t[i]) ELSE g[i - 1]
      BY <3>1, PrefixValues
    <3> QED  BY <1>1, <3>2
  <2> QED  BY <2>1, <2>2
<1>5. f[1] = pre
  <2>1. 1 \in 1 .. n + 1 /\ 1 - 1 = 0
    BY <1>1
  <2>2. f[1] = IF s[1] \in S THEN Append(f[1 - 1], s[1]) ELSE f[1 - 1]
    BY <1>4, <2>1
  <2>3. Append(<< >>, s[1]) = <<Head(s)>>
    BY <1>1
  <2>4. f[1 - 1] = << >>
    BY <1>4
  <2>5. f[1] = IF Head(s) \in S THEN <<Head(s)>> ELSE << >>
    BY <1>1, <2>2, <2>3, <2>4
  <2> QED  BY <2>5
<1> HIDE DEF pre
<1>c. ASSUME NEW b \in Seq(X), NEW y \in X
      PROVE  Append(pre \o b, y) = pre \o Append(b, y)
  <2>1. Put(Join(pre, b), y) = Join(pre, Put(b, y))
    BY <1>p, ConcatAppend
  <2> QED  BY <2>1 DEF Put, Join
<1> DEFINE G == {i \in Nat : i <= n => f[i + 1] = pre \o g[i]}
<1>6. 0 \in G
  <2>1. pre \o << >> = pre
    BY <1>p, ConcatEmpty
  <2>2. f[0 + 1] = pre \o g[0]
    BY <1>4, <1>5, <2>1
  <2> QED  BY <2>2
<1>7. ASSUME NEW i \in G
      PROVE  i + 1 \in G
  <2> SUFFICES ASSUME i + 1 <= n
               PROVE  f[i + 1 + 1] = pre \o g[i + 1]
    OBVIOUS
  <2>1. /\ i + 1 + 1 \in 1 .. n + 1 /\ i + 1 \in 1 .. n /\ i + 1 + 1 - 1 = i + 1 /\ i + 1 - 1 = i
        /\ i \in 0 .. n /\ f[i + 1] = pre \o g[i]
    BY <1>1
  <2>2. f[i + 1 + 1] = IF s[i + 1 + 1] \in S THEN Append(f[i + 1 + 1 - 1], s[i + 1 + 1])
                       ELSE f[i + 1 + 1 - 1]
    BY <1>4, <2>1
  <2>3. g[i + 1] = IF t[i + 1] \in S THEN Append(g[i + 1 - 1], t[i + 1]) ELSE g[i + 1 - 1]
    BY <1>4, <2>1
  <2>4. t[i + 1] = s[i + 1 + 1] /\ t[i + 1] \in X /\ g[i] \in Seq(X)
    BY <1>1, <1>3, <2>1
  <2>5. Append(pre \o g[i], t[i + 1]) = pre \o Append(g[i], t[i + 1])
    BY <1>c, <2>4
  <2> QED  BY <2>1, <2>2, <2>3, <2>4, <2>5
<1>8. G \in SUBSET Nat
  OBVIOUS
<1> HIDE DEF G
<1>9. G = Nat
  BY <1>6, <1>7, <1>8, NatSetInduction
<1>10. f[n + 1] = pre \o g[n] /\ g[n] \in Seq(X)
  <2>1. n \in G /\ n <= n /\ n \in 0 .. n
    BY <1>1, <1>9
  <2> QED  BY <1>3, <2>1 DEF G
<1>11. << >> \o g[n] = g[n]
  BY <1>10, ConcatEmpty
<1> QED  BY <1>2, <1>3, <1>10, <1>11 DEF pre, t

\* Only which elements of the sequence are in the set matters.
LEMMA AmongAgree ==
  ASSUME NEW X, NEW s \in Seq(X), NEW S, NEW T,
         \A x \in ToSet(s) : x \in S <=> x \in T
  PROVE  Among(s, S) = Among(s, T)
<1> DEFINE n == Len(s)
<1>1. n \in Nat /\ \A i \in 1 .. n : s[i] \in S <=> s[i] \in T
  BY DEF ToSet
<1>2. PICK f : GoodPrefixes(f, s, S) /\ Among(s, S) = f[n]
  BY AmongPrefixes
<1>3. PICK g : GoodPrefixes(g, s, T) /\ Among(s, T) = g[n]
  BY AmongPrefixes
<1>4. /\ f[0] = << >> /\ g[0] = << >>
      /\ \A i \in 1 .. n : f[i] = IF s[i] \in S THEN Append(f[i - 1], s[i]) ELSE f[i - 1]
      /\ \A i \in 1 .. n : g[i] = IF s[i] \in T THEN Append(g[i - 1], s[i]) ELSE g[i - 1]
  BY <1>1, <1>2, <1>3, PrefixValues
<1> DEFINE G == {i \in Nat : i <= n => g[i] = f[i]}
<1>5. 0 \in G
  BY <1>4
<1>6. ASSUME NEW i \in G
      PROVE  i + 1 \in G
  <2> SUFFICES ASSUME i + 1 <= n
               PROVE  g[i + 1] = f[i + 1]
    OBVIOUS
  <2>1. i + 1 \in 1 .. n /\ i + 1 - 1 = i /\ g[i] = f[i]
    BY <1>1
  <2>2. f[i + 1] = IF s[i + 1] \in S THEN Append(f[i + 1 - 1], s[i + 1]) ELSE f[i + 1 - 1]
    BY <1>4, <2>1
  <2>3. g[i + 1] = IF s[i + 1] \in T THEN Append(g[i + 1 - 1], s[i + 1]) ELSE g[i + 1 - 1]
    BY <1>4, <2>1
  <2> QED  BY <1>1, <2>1, <2>2, <2>3
<1>7. G \in SUBSET Nat
  OBVIOUS
<1> HIDE DEF G
<1>8. G = Nat
  BY <1>5, <1>6, <1>7, NatSetInduction
<1> QED  BY <1>1, <1>2, <1>3, <1>8 DEF G


(***************************************************************************)
(* The queues implement the service of the MAC (MacService).               *)
(***************************************************************************)

\* The packets for a neighbour.
PacketsFor(d) == {b \in Block : packet[b].dest = d}

\* Every dequeued packet is a block, the first one included.
LEMMA UnansweredTyped ==
  ASSUME IInv
  PROVE  Unanswered \in Seq(Block) /\ \A d \in Dest : nbr[d].tx_ringbuf \in Seq(Block)
<1>1. in_callback \/ pc = "sweep" => dequeued # << >>
  BY DEF IInv, ProcessInv
<1>2. dequeued \in Seq(Block) /\ \A d \in Dest : nbr[d].tx_ringbuf \in Seq(Block)
  BY TypeForms DEF IInv, Typed, NbrRecord
<1> QED  BY <1>1, <1>2, DequeuedShape DEF Unanswered

\* What is pending for a neighbour does not change when its queue and the
\* dequeued packets stay, and the latter are for whom they were.
LEMMA SamePending ==
  ASSUME IInv, Unanswered' = Unanswered,
         \A d \in Dest : nbr'[d].tx_ringbuf = nbr[d].tx_ringbuf,
         \A b \in ToSet(Unanswered) : packet'[b].dest = packet[b].dest
  PROVE  Pending' = Pending
<1>1. Unanswered \in Seq(Block)
  BY UnansweredTyped
<1>2. \A b \in ToSet(Unanswered) : b \in Block
  BY <1>1 DEF ToSet
<1>3. ASSUME NEW d \in Dest
      PROVE  Among(Unanswered, PacketsFor(d)') = Among(Unanswered, PacketsFor(d))
  <2>1. \A b \in ToSet(Unanswered) : b \in PacketsFor(d)' <=> b \in PacketsFor(d)
    BY <1>2 DEF PacketsFor
  <2> QED  BY <1>1, <2>1, AmongAgree
<1>4. Pending = [d \in Dest |-> Among(Unanswered, PacketsFor(d)) \o nbr[d].tx_ringbuf]
  BY DEF Pending, PacketsFor
<1>5. Pending' = [d \in Dest |-> Among(Unanswered, PacketsFor(d)') \o nbr[d].tx_ringbuf]
  BY DEF Pending, PacketsFor
<1> QED  BY <1>3, <1>4, <1>5

\* A step that moves no block is not seen from above.
LEMMA QuietStutters ==
  ASSUME IInv, Quiet, in_callback' \in BOOLEAN
  PROVE  UNCHANGED <<Pending, Answering>>
<1>1. Pending' = Pending
  BY SamePending DEF Quiet
<1>2. Answering' = Answering
  BY TypeForms DEF Quiet, Called, Answering, IInv, Typed
<1> QED  BY <1>1, <1>2

\* Nothing is pending in the beginning.
LEMMA InitImplements == Init => Mac!Init
<1> SUFFICES ASSUME Init
             PROVE  Mac!Init
  OBVIOUS
<1>1. Unanswered = << >> /\ Answering = None
  BY DEF Init, Unanswered, Answering
<1>2. \A d \in Dest : nbr[d].tx_ringbuf = << >>
  BY DEF Init, NewNbr
<1>3. \A S : Among(<< >>, S) = << >>
  <2> SUFFICES ASSUME NEW S
               PROVE  Among(<< >>, S) = << >>
    OBVIOUS
  <2>1. << >> \in Seq(Block) /\ Len(<< >>) = 0
    OBVIOUS
  <2>2. PICK f : GoodPrefixes(f, << >>, S) /\ Among(<< >>, S) = f[0]
    BY <2>1, AmongPrefixes
  <2> QED  BY <2>1, <2>2, PrefixValues
<1>4. Pending = [d \in Dest |-> << >>]
  <2>1. << >> \o << >> = << >>
    OBVIOUS
  <2> QED  BY <1>1, <1>2, <1>3, <2>1 DEF Pending
<1> QED  BY <1>1, <1>4 DEF Mac!Init

\* A new packet is not seen from above before it is in its queue.
LEMMA MakePacketStutters ==
  ASSUME IInv, NEW b \in Block, MakePacket(b)
  PROVE  UNCHANGED <<Pending, Answering>>
<1>1. /\ pc = "add" /\ pc' = "commit" /\ packet[b] = Free
      /\ packet' = [packet EXCEPT ![b] = [dest |-> arg, transmissions |-> 0, ret |-> "deferred"]]
      /\ nbr' = nbr /\ dequeued' = dequeued /\ in_callback' = in_callback
  BY DEF MakePacket
<1>2. Unanswered' = Unanswered /\ Answering' = Answering
  BY <1>1 DEF Unanswered, Answering
<1>3. \A c \in ToSet(Unanswered) : c # b /\ packet'[c].dest = packet[c].dest
  <2>1. \A c \in ToSet(Unanswered) : packet[c] # Free
    BY DEF IInv, AnswersInv
  <2>2. packet \in [Block -> PacketRecord \cup {Free}]
    BY TypeForms DEF IInv, Typed
  <2>3. ToSet(Unanswered) \subseteq Block
    BY UnansweredTyped DEF ToSet
  <2> QED  BY <1>1, <2>1, <2>2, <2>3
<1>4. Pending' = Pending
  BY <1>1, <1>2, <1>3, SamePending
<1> QED  BY <1>2, <1>4

\* What is pending for a neighbour is among what was dequeued and its queue.
LEMMA PendingElements ==
  ASSUME IInv, NEW d \in Dest
  PROVE  /\ Pending[d] \in Seq(ToSet(Unanswered) \cup Queued(d))
         /\ Among(Unanswered, PacketsFor(d)) \in Seq(Block)
         /\ Pending[d] = Among(Unanswered, PacketsFor(d)) \o nbr[d].tx_ringbuf
<1> DEFINE U == Unanswered
           q == nbr[d].tx_ringbuf
           a == Among(U, PacketsFor(d))
<1>1. U \in Seq(Block) /\ q \in Seq(Block)
  BY UnansweredTyped
<1>2. U \in Seq(ToSet(U)) /\ q \in Seq(ToSet(q))
  BY <1>1 DEF ToSet
<1>3. ASSUME NEW X, U \in Seq(X)
      PROVE  a \in Seq(X)
  <2>1. Len(U) \in 0 .. Len(U)
    BY <1>1
  <2> QED  BY <1>3, <2>1, AmongPrefixes
<1>4. a \in Seq(ToSet(U)) /\ a \in Seq(Block)
  BY <1>1, <1>2, <1>3
<1>5. Pending[d] = a \o q
  BY DEF Pending, PacketsFor
<1> HIDE DEF a, q, U
<1>6. a \o q \in Seq(ToSet(U) \cup ToSet(q))
  <2>1. a \in Seq(ToSet(U) \cup ToSet(q)) /\ q \in Seq(ToSet(U) \cup ToSet(q))
    BY <1>2, <1>4
  <2> QED  BY <2>1
<1> QED  BY <1>4, <1>5, <1>6 DEF U, q, a, Queued

\* ringbufindex_put accepts the packet.
LEMMA CommitAccepts ==
  ASSUME IInv, Commit
  PROVE  \E d \in Dest : \E b \in Block : Mac!Accept(d, b)
<1>d. PICK d : d = packet[arg].dest
  OBVIOUS
<1>q. PICK q : q = nbr[d].tx_ringbuf
  OBVIOUS
<1>1. /\ d \in Dest /\ arg \in Block /\ q \in Seq(Block) /\ arg \notin ToSet(q)
      /\ nbr'[d].tx_ringbuf = Append(q, arg)
      /\ \A e \in Dest \ {d} : nbr'[e] = nbr[e]
  BY <1>d, <1>q, CommitQueue
<1>2. /\ pc = "commit" /\ pc' = "ready" /\ packet' = packet /\ dequeued' = dequeued
      /\ in_callback' = in_callback
  BY DEF Commit
<1>3. Unanswered' = Unanswered /\ Answering' = Answering
  BY <1>2 DEF Unanswered, Answering
<1>4. ~ Mac!InUse(arg)
  <2>1. arg \notin ToSet(Unanswered) /\ arg \notin Called /\ \A e \in Dest : arg \notin Queued(e)
    BY <1>2 DEF IInv, PlacesInv, Sending
  <2>2. arg # Answering
    BY <1>1, <2>1, AddressesDistinct DEF Called, Answering
  <2>3. \A e \in Dest : \A i \in DOMAIN Pending[e] : Pending[e][i] # arg
    <3> SUFFICES ASSUME NEW e \in Dest, NEW i \in DOMAIN Pending[e]
                 PROVE  Pending[e][i] # arg
      OBVIOUS
    <3>1. Pending[e] \in Seq(ToSet(Unanswered) \cup Queued(e))
      BY PendingElements
    <3>2. Pending[e][i] \in ToSet(Unanswered) \cup Queued(e)
      BY <3>1
    <3> QED  BY <2>1, <3>2
  <2> QED  BY <2>2, <2>3 DEF Mac!InUse
<1>5. Pending' = [Pending EXCEPT ![d] = Append(Pending[d], arg)]
  <2>1. \A e \in Dest : PacketsFor(e)' = PacketsFor(e)
    BY <1>2 DEF PacketsFor
  <2>2. Pending' = [e \in Dest |-> Among(Unanswered, PacketsFor(e)) \o nbr'[e].tx_ringbuf]
    BY <1>3, <2>1 DEF Pending, PacketsFor
  <2>3. Pending = [e \in Dest |-> Among(Unanswered, PacketsFor(e)) \o nbr[e].tx_ringbuf]
    BY DEF Pending, PacketsFor
  <2> DEFINE a == Among(Unanswered, PacketsFor(d))
  <2>4. a \in Seq(Block)
    BY <1>1, PendingElements
  <2> HIDE DEF a
  <2>5. a \o Append(q, arg) = Append(a \o q, arg)
    <3>1. Put(Join(a, q), arg) = Join(a, Put(q, arg))
      BY <1>1, <2>4, ConcatAppend
    <3> QED  BY <3>1 DEF Put, Join
  <2>6. Pending'[d] = Append(Pending[d], arg)
    BY <1>1, <1>q, <2>2, <2>3, <2>5 DEF a
  <2>7. \A e \in Dest \ {d} : Pending'[e] = Pending[e]
    BY <1>1, <2>2, <2>3
  <2>8. DOMAIN Pending = Dest /\ DOMAIN Pending' = Dest
    BY <2>2, <2>3
  <2> DEFINE P == Pending
             Q == Pending'
  <2>9. P = [e \in Dest |-> P[e]] /\ Q = [e \in Dest |-> Q[e]]
    BY <2>2, <2>3
  <2> HIDE DEF P, Q
  <2>10. Q[d] = Append(P[d], arg) /\ \A e \in Dest \ {d} : Q[e] = P[e]
    BY <2>6, <2>7 DEF P, Q
  <2>11. Q = [P EXCEPT ![d] = Append(P[d], arg)]
    BY <1>1, <2>9, <2>10
  <2> QED  BY <2>11 DEF P, Q
<1>6. Mac!Accept(d, arg)
  BY <1>3, <1>4, <1>5 DEF Mac!Accept
<1> QED  BY <1>1, <1>6

\* tsch_tx_process_pending calls the sender of the first dequeued packet.
LEMMA StartCallbackAnswers ==
  ASSUME IInv, StartCallback
  PROVE  \E d \in Dest : Mac!Answer(d)
<1>h. PICK h : h = Head(dequeued)
  OBVIOUS
<1>d. PICK d : d = packet[h].dest
  OBVIOUS
<1>1. /\ pc \in {"ready", "drain"} /\ in_callback = FALSE /\ dequeued # << >>
      /\ in_callback' = TRUE /\ pc' = "ready"
      /\ packet' = packet /\ dequeued' = dequeued /\ nbr' = nbr
  BY TypeForms DEF StartCallback, IInv, Typed
<1>2. Unanswered = dequeued /\ Unanswered' = Tail(dequeued)
  BY <1>1 DEF Unanswered
<1>3. /\ h \in Block /\ h \in ToSet(dequeued) /\ dequeued \in Seq(Block)
  BY <1>h, <1>1, DequeuedShape, TypeForms DEF IInv, Typed
<1>4. d \in Dest
  <2>1. packet[h] # Free
    BY <1>2, <1>3 DEF IInv, AnswersInv
  <2> QED  BY <1>d, <1>3, <2>1, TypeForms DEF IInv, Typed, PacketRecord
<1>5. \A e \in Dest : h \in PacketsFor(e) <=> e = d
  BY <1>d, <1>3 DEF PacketsFor
<1>6. \A e \in Dest : PacketsFor(e)' = PacketsFor(e)
  BY <1>1 DEF PacketsFor
<1> DEFINE rest(e) == Among(Tail(dequeued), PacketsFor(e))
<1>7. \A e \in Dest :
        /\ rest(e) \in Seq(Block)
        /\ Among(dequeued, PacketsFor(e)) = IF e = d THEN <<h>> \o rest(e) ELSE rest(e)
  BY <1>h, <1>1, <1>3, <1>5, AmongTail
<1>8. Pending = [e \in Dest |-> Among(dequeued, PacketsFor(e)) \o nbr[e].tx_ringbuf]
  BY <1>2 DEF Pending, PacketsFor
<1>9. Pending' = [e \in Dest |-> rest(e) \o nbr[e].tx_ringbuf]
  BY <1>1, <1>2, <1>6 DEF Pending, PacketsFor
<1>10. nbr[d].tx_ringbuf \in Seq(Block)
  BY <1>4, UnansweredTyped
<1> HIDE DEF rest
<1>12. Pending[d] # << >> /\ Head(Pending[d]) = h /\ Tail(Pending[d]) = rest(d) \o nbr[d].tx_ringbuf
  <2>1. PICK r \in Seq(Block) : r = rest(d)
    BY <1>4, <1>7
  <2>2. PICK q \in Seq(Block) : q = nbr[d].tx_ringbuf
    BY <1>10
  <2>3. ((<<h>> \o r) \o q) # << >> /\ Head((<<h>> \o r) \o q) = h /\ Tail((<<h>> \o r) \o q) = r \o q
    BY <1>3
  <2>4. Pending[d] = (<<h>> \o r) \o q
    BY <1>4, <1>7, <1>8, <2>1, <2>2
  <2> QED  BY <2>1, <2>2, <2>3, <2>4
<1>13. Pending' = [Pending EXCEPT ![d] = Tail(Pending[d])]
  <2>1. \A e \in Dest \ {d} : Pending'[e] = Pending[e]
    BY <1>7, <1>8, <1>9
  <2>2. Pending'[d] = Tail(Pending[d])
    BY <1>4, <1>9, <1>12
  <2> DEFINE P == Pending
             Q == Pending'
  <2>3. P = [e \in Dest |-> P[e]] /\ Q = [e \in Dest |-> Q[e]]
    BY <1>8, <1>9
  <2> HIDE DEF P, Q
  <2>4. Q[d] = Tail(P[d]) /\ \A e \in Dest \ {d} : Q[e] = P[e]
    BY <2>1, <2>2 DEF P, Q
  <2>5. Q = [P EXCEPT ![d] = Tail(P[d])]
    BY <1>4, <2>3, <2>4
  <2> QED  BY <2>5 DEF P, Q
<1>14. Answering = None /\ Answering' = Head(Pending[d])
  BY <1>1, <1>h, <1>12 DEF Answering
<1>15. Mac!Answer(d)
  BY <1>12, <1>13, <1>14 DEF Mac!Answer
<1> QED  BY <1>4, <1>15

\* The sender's callback returns; the next packets are still the same ones.
LEMMA CallbackReturnsReturns ==
  ASSUME IInv, CallbackReturns
  PROVE  Mac!Return
<1>h. PICK h : h = Head(dequeued)
  OBVIOUS
<1>1. /\ pc = "ready" /\ in_callback = TRUE /\ in_callback' = FALSE /\ pc' = "sweep"
      /\ packet' = [packet EXCEPT ![h] = Free] /\ dequeued' = dequeued /\ nbr' = nbr
  BY <1>h, TypeForms DEF CallbackReturns, IInv, Typed
<1>2. dequeued # << >>
  BY <1>1 DEF IInv, ProcessInv
<1>3. h \in Block /\ h \notin ToSet(Tail(dequeued)) /\ Tail(dequeued) \in Seq(Block)
  BY <1>h, <1>2, DequeuedShape
<1>4. Unanswered = Tail(dequeued) /\ Unanswered' = Tail(dequeued)
  BY <1>1 DEF Unanswered
<1>5. \A b \in ToSet(Unanswered) : packet'[b].dest = packet[b].dest
  <2>1. packet \in [Block -> PacketRecord \cup {Free}]
    BY TypeForms DEF IInv, Typed
  <2>2. \A b \in ToSet(Unanswered) : b \in Block /\ b # h
    BY <1>3, <1>4 DEF ToSet
  <2> QED  BY <1>1, <2>1, <2>2
<1>6. Pending' = Pending
  BY <1>1, <1>4, <1>5, SamePending
<1>7. Answering # None /\ Answering' = None
  BY <1>h, <1>1, <1>3, AddressesDistinct DEF Answering
<1> QED  BY <1>6, <1>7 DEF Mac!Return

\* A transmission that ends is not seen from above: the packet that leaves its
\* queue is the next one behind those dequeued before.
LEMMA EndTxStutters ==
  ASSUME IInv, NEW ok \in BOOLEAN, EndTx(ok)
  PROVE  UNCHANGED <<Pending, Answering>>
<1>1. PICK n \in Dest : \E c \in Block : \E p \in PacketRecord : EndTxEffect(ok, n, c, p)
  BY EndTxShape
<1>2. PICK c \in Block : \E p \in PacketRecord : EndTxEffect(ok, n, c, p)
  BY <1>1
<1>3. PICK p \in PacketRecord : EndTxEffect(ok, n, c, p)
  BY <1>2
<1>4. PICK leaves \in BOOLEAN : leaves <=> ok \/ p.transmissions = MaxTx
  OBVIOUS
<1>5. /\ nbr[n].tx_ringbuf # << >> /\ c = Head(nbr[n].tx_ringbuf) /\ packet[c].dest = n
      /\ packet' = [packet EXCEPT ![c] = p] /\ p.dest = n
      /\ dequeued' = IF leaves THEN Append(dequeued, c) ELSE dequeued
      /\ nbr'[n].tx_ringbuf = IF leaves THEN Tail(nbr[n].tx_ringbuf) ELSE nbr[n].tx_ringbuf
      /\ \A e \in Dest : e # n => nbr'[e].tx_ringbuf = nbr[e].tx_ringbuf
  BY <1>3, <1>4 DEF EndTxEffect
<1>6. pc' = pc /\ in_callback' = in_callback
  BY DEF EndTx, procVars
<1>7. packet \in [Block -> PacketRecord \cup {Free}] /\ dequeued \in Seq(Block)
  BY TypeForms DEF IInv, Typed
<1>8. \A b \in Block : packet'[b].dest = packet[b].dest
  BY <1>5, <1>7
<1>9. CASE ~ leaves
  <2>1. /\ dequeued' = dequeued /\ Unanswered' = Unanswered /\ Answering' = Answering
        /\ \A e \in Dest : nbr'[e].tx_ringbuf = nbr[e].tx_ringbuf
    BY <1>5, <1>6, <1>9 DEF Unanswered, Answering
  <2>2. \A b \in ToSet(Unanswered) : packet'[b].dest = packet[b].dest
    BY <1>8, UnansweredTyped DEF ToSet
  <2>3. Pending' = Pending
    BY <2>1, <2>2, SamePending
  <2> QED  BY <2>1, <2>3
<1>10. CASE leaves
  <2>1. dequeued' = Append(dequeued, c) /\ nbr'[n].tx_ringbuf = Tail(nbr[n].tx_ringbuf)
    BY <1>5, <1>10
  <2>2. Unanswered' = Append(Unanswered, c) /\ Answering' = Answering
    <3>1. CASE in_callback \/ pc = "sweep"
      <4>1. dequeued # << >>
        BY <3>1 DEF IInv, ProcessInv
      <4>2. /\ Tail(Append(dequeued, c)) = Append(Tail(dequeued), c)
            /\ Head(Append(dequeued, c)) = Head(dequeued)
        BY <1>7, <4>1
      <4> QED  BY <1>6, <2>1, <3>1, <4>2 DEF Unanswered, Answering
    <3>2. CASE ~ (in_callback \/ pc = "sweep")
      BY <1>6, <2>1, <3>2 DEF Unanswered, Answering
    <3> QED  BY <3>1, <3>2
  <2>u. PICK u : u = Unanswered
    OBVIOUS
  <2>3. u \in Seq(Block) /\ \A e \in Dest : nbr[e].tx_ringbuf \in Seq(Block)
    BY <2>u, UnansweredTyped
  <2>4. \A e \in Dest : PacketsFor(e)' = PacketsFor(e) /\ (c \in PacketsFor(e) <=> e = n)
    BY <1>5, <1>8 DEF PacketsFor
  <2>5. /\ Pending = [e \in Dest |-> Among(u, PacketsFor(e)) \o nbr[e].tx_ringbuf]
        /\ Pending' = [e \in Dest |-> Among(Append(u, c), PacketsFor(e)) \o nbr'[e].tx_ringbuf]
    BY <2>2, <2>4, <2>u DEF Pending, PacketsFor
  <2>6. \A e \in Dest : Among(Append(u, c), PacketsFor(e)) =
          IF e = n THEN Append(Among(u, PacketsFor(e)), c) ELSE Among(u, PacketsFor(e))
    BY <2>3, <2>4, AmongAppend
  <2>a. PICK a \in Seq(Block) : a = Among(u, PacketsFor(n))
    BY <2>u, PendingElements
  <2>q. PICK q \in Seq(Block) : q = nbr[n].tx_ringbuf
    BY <2>3
  <2>7. Append(a, c) \o Tail(q) = a \o q
    <3>1. q # << >> /\ c = Head(q)
      BY <1>5, <2>q
    <3> QED  BY <3>1
  <2>8. Among(Append(u, c), PacketsFor(n)) \o nbr'[n].tx_ringbuf =
          Among(u, PacketsFor(n)) \o nbr[n].tx_ringbuf
    BY <2>1, <2>6, <2>7, <2>a, <2>q
  <2>9. \A e \in Dest : Among(Append(u, c), PacketsFor(e)) \o nbr'[e].tx_ringbuf =
          Among(u, PacketsFor(e)) \o nbr[e].tx_ringbuf
    <3> SUFFICES ASSUME NEW e \in Dest
                 PROVE  Among(Append(u, c), PacketsFor(e)) \o nbr'[e].tx_ringbuf =
                          Among(u, PacketsFor(e)) \o nbr[e].tx_ringbuf
      OBVIOUS
    <3>1. CASE e = n
      BY <2>8, <3>1
    <3>2. CASE e # n
      BY <1>5, <2>6, <3>2
    <3> QED  BY <3>1, <3>2
  <2>10. Pending' = Pending
    BY <2>5, <2>9
  <2> QED  BY <2>2, <2>10
<1> QED  BY <1>9, <1>10

\* Every step is a step of the service or is not seen from above.
LEMMA StepImplements ==
  ASSUME IInv, [Next]_vars
  PROVE  [Mac!Next]_<<Pending, Answering>>
<1>b. IInv' /\ in_callback' \in BOOLEAN
  <2>1. IInv'
    BY NextInv
  <2> QED  BY <2>1, TypeForms DEF IInv, Typed
<1>1. ASSUME Quiet
      PROVE  UNCHANGED <<Pending, Answering>>
  BY <1>b, <1>1, QuietStutters
<1>2. CASE Traffic
  <2>1. Quiet
    BY <1>2, ChangeLinksInv, SendInv DEF Traffic
  <2> QED  BY <1>1, <2>1
<1>3. CASE \E s \in Addr \cup {None} : UpdateTimeSource(s)
  <2>1. Quiet
    BY <1>3, UpdateTimeSourceInv
  <2> QED  BY <1>1, <2>1
<1>4. CASE CountLink
  <2>1. Quiet
    BY <1>4, CountLinkInv
  <2> QED  BY <1>1, <2>1
<1>5. CASE AddPacket
  <2>1. CASE \E b \in Block : MakePacket(b)
    BY <2>1, MakePacketStutters
  <2>2. CASE SendFails
    BY <1>1, <2>2, SendFailsInv
  <2>3. CASE Commit
    BY <2>3, CommitAccepts DEF Mac!Next
  <2> QED  BY <1>5, <2>1, <2>2, <2>3 DEF AddPacket
<1>6. CASE TxPending
  <2>1. CASE StartCallback
    BY <2>1, StartCallbackAnswers DEF Mac!Next
  <2>2. CASE CallbackReturns
    BY <2>2, CallbackReturnsReturns DEF Mac!Next
  <2>3. CASE Sweep \/ FinishPacket \/ Drained
    <3>1. Quiet
      BY <2>3, SweepInv, FinishPacketInv, DrainedInv
    <3> QED  BY <1>1, <3>1
  <2> QED  BY <1>6, <2>1, <2>2, <2>3 DEF TxPending
<1>7. CASE \E l \in Dest : StartTx(l) \/ PassSlot(l)
  <2>1. Quiet
    BY <1>7, StartTxInv, PassSlotInv
  <2> QED  BY <1>1, <2>1
<1>8. CASE EndSlot
  BY <1>8, EndTxStutters DEF EndSlot
<1>9. CASE UNCHANGED vars
  <2>1. Quiet
    BY <1>9 DEF vars, procVars, slotVars, Quiet, Unanswered, Called, Sending
  <2> QED  BY <1>1, <2>1
<1> QED  BY <1>2, <1>3, <1>4, <1>5, <1>6, <1>7, <1>8, <1>9 DEF Next

\* Every packet that was accepted is answered at most once, in order per
\* destination, by one callback at a time, and its block is not used for
\* another packet before: whatever the order of sending, transmitting,
\* retrying, dropping, answering and freeing neighbours.
THEOREM ImplementsMac == Spec => AnswersInOrder
<1>1. Init => Mac!Init
  BY InitImplements
<1>2. IInv /\ [Next]_vars => [Mac!Next]_Mac!vars
  BY StepImplements DEF Mac!vars
<1> QED  BY <1>1, <1>2, Invariance, PTL DEF Spec, AnswersInOrder, Mac!Spec
=============================================================================
