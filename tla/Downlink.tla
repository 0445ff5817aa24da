------------------------------ MODULE Downlink ------------------------------
(***************************************************************************)
(* The downlink of DIME without the cross-technology transmitter: messages *)
(* that reach the gateway are relayed hop by hop to the destination of     *)
(* their flow, each node keeping one pending sequence number per flow      *)
(* (dataflow_init and add_downlink of orchestra.c; log_ulpkt, dl_flow_sel, *)
(* dlpkt_gen, downlink_tx and downlink_rx of tsch.c).                      *)
(*                                                                         *)
(* The slots are receiver based, hence all different, and the nodes share  *)
(* the slot clock: one slot is in progress at a time.  The sender loads    *)
(* dlpkt and yields; the message and its acknowledgement follow in one     *)
(* chunk and either may be lost.  Only the processes of the gateway, which *)
(* receive new messages, run in between.                                   *)
(***************************************************************************)
EXTENDS Integers, Sequences, FiniteSets, SequencesExt

CONSTANTS
    N_FLOW,          \* flows are numbered from 0
    src_dst_nodes,   \* [flow -> <<source, destination>>]
    dl_fwd_nodes,    \* [flow -> the forwarders, gateway excluded]
    MaxSeq           \* bound: last sequence number that arrives

Root == 1
NoFlow == 255
NoSlot == 0
Flow == 0 .. N_FLOW - 1

-----------------------------------------------------------------------------
(***************************************************************************)
(* dataflow_init and add_downlink, as functions of the paths of the flows. *)
(***************************************************************************)

\* The nodes of each flow, from the gateway to the destination.
PathsOf(forwarders, ends) ==
    [f \in DOMAIN ends |-> <<Root>> \o forwarders[f] \o <<ends[f][2]>>]

NodesOf(path) == UNION {ToSet(path[f]) : f \in DOMAIN path}

\* Per node and flow the next node, 0 if the node does not forward the flow.
ChildrenOf(path) == [n \in NodesOf(path) |-> [f \in DOMAIN path |->
    LET hop == SelectInSeq(path[f], LAMBDA m : m = n)
    IN  IF hop \in 1 .. Len(path[f]) - 1 THEN path[f][hop + 1] ELSE 0]]

\* Per node the one it receives from, 0 for the gateway: the last flow of the
\* loop decides.
ParentsOf(path) == [n \in NodesOf(path) |->
    LET flows == {f \in DOMAIN path : n \in ToSet(Tail(path[f]))}
    IN  IF flows = {} THEN 0
        ELSE LET p == path[Max(flows)]
             IN  p[SelectInSeq(p, LAMBDA m : m = n) - 1]]

\* No flow passes a node twice, and all flows use the one parent a node has.
IsTree(path) ==
    /\ \A f \in DOMAIN path : IsInjective(path[f])
    /\ LET parent == ParentsOf(path)
       IN  \A f \in DOMAIN path : \A i \in 2 .. Len(path[f]) : parent[path[f][i]] = path[f][i - 1]

Dst           == [f \in Flow |-> src_dst_nodes[f][2]]
Path          == PathsOf(dl_fwd_nodes, src_dst_nodes)
Node          == NodesOf(Path)
dl_flow_child == ChildrenOf(Path)
dl_parent     == ParentsOf(Path)

\* The slots to transmit in; a slot is named by its receiver (dl_slot_0 is left
\* out).  The flows that share the slot of receiver r at its parent:
dl_slot_tx == dl_flow_child
FlowsOf    == [r \in Node |->
    IF dl_parent[r] = 0 THEN {} ELSE {f \in Flow : dl_slot_tx[dl_parent[r]][f] = r}]

ASSUME TablesAssumption ==
    /\ N_FLOW \in 1 .. NoFlow - 1 /\ MaxSeq \in Nat
    /\ src_dst_nodes \in [Flow -> (Nat \ {0}) \X (Nat \ {0})]
    /\ dl_fwd_nodes \in [Flow -> Seq(Nat \ {0})]
    /\ IsTree(PathsOf(dl_fwd_nodes, src_dst_nodes))

VARIABLES
    flow_pending_seq,   \* per node and flow, the message to pass on; 0 is none
    flow_passed,        \* per node and flow, the round robin of dl_flow_sel
    slot,               \* the slot in progress between load and transmission
    dlpkt,              \* the packet loaded for it
    arrived,            \* the next sequence number to reach the gateway
    got                 \* history: what each node last received, per flow

vars == <<flow_pending_seq, flow_passed, slot, dlpkt, arrived, got>>

Seqno == 0 .. MaxSeq

TypeOK ==
    /\ flow_pending_seq \in [Node -> [Flow -> Seqno]]
    /\ flow_passed \in [Node -> [Flow -> BOOLEAN]]
    /\ slot \in Node \cup {NoSlot}
    /\ dlpkt \in [flow : Flow, seq : Seqno]
    /\ arrived \in [Flow -> 0 .. MaxSeq + 1]
    /\ got \in [Node -> [Flow -> Seqno]]

Init ==
    /\ flow_pending_seq = [n \in Node |-> [f \in Flow |-> 0]]
    /\ flow_passed = [n \in Node |-> [f \in Flow |-> FALSE]]
    /\ slot = NoSlot
    /\ dlpkt = [flow |-> 0, seq |-> 0]
    /\ arrived = [f \in Flow |-> 0]
    /\ got = [n \in Node |-> [f \in Flow |-> 0]]

-----------------------------------------------------------------------------
(***************************************************************************)
(* log_ulpkt at the gateway: the application numbers the messages of a     *)
(* flow from 0.  A message not passed on yet is overwritten; number 0 is   *)
(* no message for dlpkt_gen.                                               *)
(***************************************************************************)
Arrive(f) ==
    /\ arrived[f] <= MaxSeq
    /\ flow_pending_seq' = [flow_pending_seq EXCEPT ![Root][f] = arrived[f]]
    /\ arrived' = [arrived EXCEPT ![f] = @ + 1]
    /\ UNCHANGED <<flow_passed, slot, dlpkt, got>>

-----------------------------------------------------------------------------
(***************************************************************************)
(* The slot of receiver r.                                                 *)
(***************************************************************************)
\* Fault: the flags are not reset when the last flow has had its turn.
PassedAtSlot_fault(n, r) == flow_passed[n]

\* dl_flow_sel, first half: when the last flow of the slot has had its turn,
\* a new round begins.
PassedAtSlot(n, r) ==
    IF flow_passed[n][Max(FlowsOf[r])]
    THEN [f \in Flow |-> IF f \in FlowsOf[r] THEN FALSE ELSE flow_passed[n][f]]
    ELSE flow_passed[n]

\* dl_flow_sel, second half: the first flow that has not had its turn, whether
\* it has a message or not.
dl_flow_sel(n, r) ==
    LET left == {f \in FlowsOf[r] : ~PassedAtSlot(n, r)[f]}
    IN  IF left = {} THEN NoFlow ELSE Min(left)

\* Fault: a packet loaded for the same flow before is sent again as it is.
dlpkt_gen_fault(n, f) ==
    IF dlpkt.flow = f /\ dlpkt.seq # 0 THEN dlpkt
    ELSE [flow |-> f, seq |-> flow_pending_seq[n][f]]

\* Fault: the two fields of the packet are swapped.
dlpkt_gen_swapped(n, f) == [flow |-> flow_pending_seq[n][f], seq |-> f]

dlpkt_gen(n, f) == [flow |-> f, seq |-> flow_pending_seq[n][f]]

\* tsch_rx_link of the sender up to its yield.  Without a message the slot is
\* over, but the flow has had its turn.
StartSlot(r) ==
    LET n == dl_parent[r]
        f == dl_flow_sel(n, r)
    IN  /\ slot = NoSlot
        /\ n # 0 /\ f # NoFlow
        /\ flow_passed' = [flow_passed EXCEPT ![n] = [PassedAtSlot(n, r) EXCEPT ![f] = TRUE]]
        /\ IF flow_pending_seq[n][f] = 0
           THEN UNCHANGED <<slot, dlpkt>>
           ELSE slot' = r /\ dlpkt' = dlpkt_gen(n, f)
        /\ UNCHANGED <<flow_pending_seq, arrived, got>>

\* downlink_rx: the flows this node forwards or is the destination of.
Accepts(r, f) == dl_flow_child[r][f] # 0 \/ r = Dst[f]

\* Fault: the sender forgets the message whether it was acknowledged or not.
Exchange_fault(r, heard, acked) ==
    LET f == dlpkt.flow
        taken == heard /\ Accepts(r, f)
        cleared == [flow_pending_seq EXCEPT ![dl_parent[r]][f] = 0]
    IN  /\ slot = r
        /\ acked => taken
        /\ slot' = NoSlot
        /\ flow_pending_seq' = IF taken THEN [cleared EXCEPT ![r][f] = dlpkt.seq] ELSE cleared
        /\ got' = IF taken THEN [got EXCEPT ![r][f] = dlpkt.seq] ELSE got
        /\ UNCHANGED <<flow_passed, dlpkt, arrived>>

\* downlink_tx and downlink_rx: the message is heard or lost; a message taken
\* is acknowledged, and the acknowledgement heard or lost.  The sender forgets
\* whatever is pending for the flow by then.
Exchange(r, heard, acked) ==
    LET f == dlpkt.flow
        taken == heard /\ Accepts(r, f)
        cleared == IF acked THEN [flow_pending_seq EXCEPT ![dl_parent[r]][f] = 0]
                   ELSE flow_pending_seq
    IN  /\ slot = r
        /\ acked => taken
        /\ slot' = NoSlot
        /\ flow_pending_seq' = IF taken THEN [cleared EXCEPT ![r][f] = dlpkt.seq] ELSE cleared
        /\ got' = IF taken THEN [got EXCEPT ![r][f] = dlpkt.seq] ELSE got
        /\ UNCHANGED <<flow_passed, dlpkt, arrived>>

-----------------------------------------------------------------------------
EndSlot == \E r \in Node, heard, acked \in BOOLEAN : Exchange(r, heard, acked)

Next == \/ \E f \in Flow : Arrive(f)
        \/ \E r \in Node : StartSlot(r)
        \/ EndSlot

Spec == Init /\ [][Next]_vars

(***************************************************************************)
(* Fairness: the slots of the slotframe recur and, once loaded, end; a     *)
(* message that is sent again and again for a flow is heard and            *)
(* acknowledged some time.                                                 *)
(***************************************************************************)
Works(r, f) == dlpkt.flow = f /\ Exchange(r, TRUE, TRUE)

FairSpec ==
    /\ Spec
    /\ WF_vars(EndSlot)
    /\ \A r \in Node \ {Root} : /\ SF_vars(StartSlot(r))
                                /\ \A f \in FlowsOf[r] : SF_vars(Works(r, f))

-----------------------------------------------------------------------------
(***************************************************************************)
(* Properties.                                                             *)
(***************************************************************************)
\* Along the path of a flow the messages lie in the order of their age: a
\* node never holds one older than a node behind it has or had, nor is an
\* older one on the air.
OrderedAlongPath ==
    \A f \in Flow : \A i, j \in 1 .. Len(Path[f]) :
        LET up == Path[f][i]
            down == Path[f][j]
        IN  i < j =>
              /\ flow_pending_seq[up][f] # 0 => flow_pending_seq[up][f] >= got[down][f]
              /\ slot = Path[f][i + 1] /\ dlpkt.flow = f => dlpkt.seq >= got[down][f]

\* Lost acknowledgements make a destination receive a message twice, but never
\* an older one after a newer one.
NeverBackwards == [][\A f \in Flow : got'[Dst[f]][f] >= got[Dst[f]][f]]_vars

\* A node drops its message for a newer one, or when the next node has it.
\* The one exception: a message that reaches the gateway while an older one of
\* its flow is loaded is forgotten when that one is acknowledged.
MessagesKept ==
    [][\A n \in Node, f \in Flow :
         LET s == flow_pending_seq[n][f]
         IN  s # 0 /\ dl_flow_child[n][f] # 0 =>
               \/ flow_pending_seq'[n][f] >= s
               \/ got'[dl_flow_child[n][f]][f] >= s
               \/ n = Root /\ slot # NoSlot /\ dlpkt.flow = f /\ dlpkt.seq < s]_vars

\* A message that is pending at the gateway between two downlink slots, or a
\* newer one of its flow, reaches the destination: the flows that share a slot
\* take turns, and what is lost is repeated.  (A message that arrives while
\* the gateway is about to send an older one may be forgotten with it.)
NewestDelivered ==
    \A f \in Flow : \A s \in 1 .. MaxSeq :
        (slot = NoSlot /\ flow_pending_seq[Root][f] = s) ~> got[Dst[f]][f] >= s
=============================================================================
