--------------------------- MODULE DownlinkProofs ---------------------------
(***************************************************************************)
(* Proofs about Downlink, for every set of flows whose paths pass no node  *)
(* twice and every number of messages: type correctness, and that messages *)
(* keep their order on the way although acknowledgements are lost.         *)
(***************************************************************************)
EXTENDS Downlink, Facts

(***************************************************************************)
(* The tables.                                                             *)
(***************************************************************************)

\* The path of a flow leads from the gateway to the destination.
LEMMA PathShape ==
  /\ DOMAIN Path = Flow
  /\ \A f \in Flow :
       /\ Path[f] \in Seq(Nat \ {0})
       /\ Len(Path[f]) \in Nat /\ Len(Path[f]) >= 2
       /\ DOMAIN Path[f] = 1 .. Len(Path[f])
       /\ IsInjective(Path[f])
       /\ Path[f][1] = Root
       /\ Path[f][Len(Path[f])] = Dst[f]
<1>1. DOMAIN Path = Flow
  BY TablesAssumption DEF Path, PathsOf
<1>2. ASSUME NEW f \in Flow
      PROVE  /\ Path[f] \in Seq(Nat \ {0})
             /\ Len(Path[f]) \in Nat /\ Len(Path[f]) >= 2
             /\ DOMAIN Path[f] = 1 .. Len(Path[f])
             /\ IsInjective(Path[f])
             /\ Path[f][1] = Root
             /\ Path[f][Len(Path[f])] = Dst[f]
  <2>1. /\ dl_fwd_nodes[f] \in Seq(Nat \ {0})
        /\ src_dst_nodes[f][2] \in Nat \ {0}
    BY TablesAssumption
  <2>2. Path[f] = <<Root>> \o dl_fwd_nodes[f] \o <<src_dst_nodes[f][2]>>
    BY TablesAssumption DEF Path, PathsOf
  <2>3. Root \in Nat \ {0}
    BY DEF Root
  <2>4. Path[f] \in Seq(Nat \ {0}) /\ Len(Path[f]) = Len(dl_fwd_nodes[f]) + 2
    BY <2>1, <2>2, <2>3
  <2>5. Path[f][1] = Root /\ Path[f][Len(Path[f])] = src_dst_nodes[f][2]
    BY <2>1, <2>2, <2>3
  <2>6. IsInjective(Path[f])
    BY <1>1, TablesAssumption DEF IsTree, Path
  <2> QED  BY <2>1, <2>4, <2>5, <2>6 DEF Dst
<1> QED  BY <1>1, <1>2

\* Nodes have positive numbers, and the gateway and the destinations are nodes.
LEMMA NodeShape ==
  /\ Node \subseteq Nat \ {0}
  /\ Root \in Node
  /\ \A f \in Flow : \A i \in 1 .. Len(Path[f]) : Path[f][i] \in Node
  /\ \A f \in Flow : Dst[f] \in Node
<1>1. Node = UNION {{Path[f][i] : i \in 1 .. Len(Path[f])} : f \in Flow}
  BY PathShape DEF Node, NodesOf, ToSet
<1>2. 0 \in Flow
  BY TablesAssumption DEF Flow
<1>3. \A f \in Flow : \A i \in 1 .. Len(Path[f]) : Path[f][i] \in Node
  BY <1>1
<1>4. \A f \in Flow : \A i \in 1 .. Len(Path[f]) : Path[f][i] \in Nat \ {0}
  BY PathShape
<1>5. Root \in Node
  BY <1>2, <1>3, PathShape
<1>6. \A f \in Flow : Dst[f] \in Node
  BY <1>3, PathShape
<1>7. Node \subseteq Nat \ {0}
  BY <1>1, <1>4
<1> QED  BY <1>3, <1>5, <1>6, <1>7

\* A node receives from a node, or from none.
LEMMA ParentIsNode ==
  ASSUME NEW r \in Node
  PROVE  dl_parent[r] = 0 \/ dl_parent[r] \in Node
<1>1. PICK f \in Flow : \E i \in 1 .. Len(Path[f]) : Path[f][i] = r
  BY PathShape DEF Node, NodesOf, ToSet
<1> PICK i \in 1 .. Len(Path[f]) : Path[f][i] = r
  BY <1>1
<1>2. CASE i >= 2
  <2>1. dl_parent[Path[f][i]] = Path[f][i - 1]
    BY <1>2, PathShape, TablesAssumption DEF IsTree, Path, dl_parent
  <2>2. i - 1 \in 1 .. Len(Path[f])
    BY <1>2, PathShape
  <2> QED  BY <2>1, <2>2, NodeShape
<1>3. CASE i = 1
  <2>1. r = Root
    BY <1>3, PathShape
  <2>2. ASSUME NEW g \in Flow
        PROVE  Root \notin ToSet(Tail(Path[g]))
    <3>1. Path[g] # << >> /\ Path[g] \in Seq(Nat \ {0})
      BY PathShape
    <3> DEFINE p == Path[g]
    <3>a. /\ Len(p) \in Nat /\ Len(p) >= 2 /\ DOMAIN p = 1 .. Len(p)
          /\ IsInjective(p) /\ p[1] = Root
      BY PathShape
    <3> HIDE DEF p
    <3>2. \A j \in DOMAIN Tail(p) : j + 1 \in 2 .. Len(p) /\ Tail(p)[j] = p[j + 1]
      <4>1. p \in Seq(Nat \ {0}) /\ p # << >>
        BY <3>1 DEF p
      <4>2. DOMAIN Tail(p) = 1 .. Len(p) - 1
        BY <3>a, <4>1
      <4>3. \A j \in 1 .. Len(p) - 1 : Tail(p)[j] = p[j + 1]
        BY <3>a, <4>1
      <4> QED  BY <3>a, <4>2, <4>3
    <3>3. \A j \in 2 .. Len(p) : p[j] # Root
      BY <3>a DEF IsInjective
    <3> USE DEF p
    <3> QED  BY <3>2, <3>3 DEF ToSet
  <2>3. {g \in DOMAIN Path : r \in ToSet(Tail(Path[g]))} = {}
    BY <2>1, <2>2, PathShape
  <2> QED  BY <2>3 DEF dl_parent, ParentsOf, Node
<1> QED  BY <1>2, <1>3, PathShape

\* A node sends in a slot only for flows whose next node is its receiver.
LEMMA Hop ==
  ASSUME NEW r \in Node, NEW f \in FlowsOf[r]
  PROVE  /\ f \in Flow
         /\ dl_flow_child[dl_parent[r]][f] = r
         /\ \E k \in 1 .. Len(Path[f]) - 1 :
               Path[f][k] = dl_parent[r] /\ Path[f][k + 1] = r
<1> DEFINE n == dl_parent[r]
           p == Path[f]
           hop == SelectInSeq(p, LAMBDA m : m = n)
<1>1. f \in Flow /\ n # 0 /\ dl_flow_child[n][f] = r
  BY DEF FlowsOf, dl_slot_tx
<1>2. n \in Node /\ r # 0
  BY <1>1, ParentIsNode, NodeShape
<1>3. dl_flow_child[n][f] = IF hop \in 1 .. Len(p) - 1 THEN p[hop + 1] ELSE 0
  BY <1>1, <1>2, PathShape DEF dl_flow_child, ChildrenOf, Node
<1>4. hop \in 1 .. Len(p) - 1 /\ p[hop + 1] = r
  BY <1>1, <1>2, <1>3
<1>5. p[hop] = n
  <2>1. IsInjective(p) /\ DOMAIN p = 1 .. Len(p) /\ Len(p) \in Nat /\ hop # 0
    BY <1>1, <1>4, PathShape
  <2> QED  BY <2>1, IndexUnique
<1> QED  BY <1>1, <1>4, <1>5

(***************************************************************************)
(* The inductive invariant.                                                *)
(***************************************************************************)

\* Nothing is newer than what has reached the gateway, and a node other than
\* the gateway passes on what it last received.
Relayed ==
    \A n \in Node, f \in Flow :
        /\ flow_pending_seq[n][f] <= arrived[f]
        /\ got[n][f] <= arrived[f]
        /\ n # Root => flow_pending_seq[n][f] \in {0, got[n][f]}

\* The packet loaded for a slot is the sender's message of a flow of the slot;
\* at the gateway a newer one may have arrived since.
OnAir ==
    slot # NoSlot =>
        LET n == dl_parent[slot]
            f == dlpkt.flow
        IN  /\ f \in FlowsOf[slot]
            /\ dlpkt.seq # 0 /\ dlpkt.seq <= flow_pending_seq[n][f]
            /\ n # Root => dlpkt.seq = got[n][f]

IInv == TypeOK /\ Relayed /\ OnAir /\ OrderedAlongPath

\* At the start there are no messages.
LEMMA InitIInv == Init => IInv
<1> SUFFICES ASSUME Init PROVE IInv
  OBVIOUS
<1>1. TypeOK
  <2>1. 0 \in Flow /\ 0 \in Seqno /\ 0 \in 0 .. MaxSeq + 1
    BY TablesAssumption DEF Flow, Seqno
  <2> QED  BY <2>1 DEF Init, TypeOK
<1>2. Relayed /\ OnAir
  BY DEF Init, Relayed, OnAir
<1>3. OrderedAlongPath
  BY PathShape, NodeShape DEF Init, OrderedAlongPath, NoSlot
<1> QED  BY <1>1, <1>2, <1>3 DEF IInv

(***************************************************************************)
(* A message arrives.                                                      *)
(***************************************************************************)

\* It is the newest of its flow.
LEMMA ArriveStep ==
  ASSUME IInv, NEW f \in Flow, Arrive(f)
  PROVE  IInv'
<1> USE DEF IInv
<1>1. /\ MaxSeq \in Nat /\ Seqno = 0 .. MaxSeq
      /\ arrived[f] \in Seqno /\ Root \in Node
  BY TablesAssumption, NodeShape DEF TypeOK, Arrive, Seqno
<1>2. \A n \in Node, g \in Flow :
         /\ flow_pending_seq[n][g] \in Seqno /\ got[n][g] \in Seqno
         /\ arrived[g] \in 0 .. MaxSeq + 1
         /\ flow_pending_seq'[n][g] = IF n = Root /\ g = f THEN arrived[f]
                                      ELSE flow_pending_seq[n][g]
         /\ got'[n][g] = got[n][g]
         /\ arrived'[g] = IF g = f THEN arrived[g] + 1 ELSE arrived[g]
  <2>1. \A n \in Node, g \in Flow :
           /\ flow_pending_seq[n][g] \in Seqno /\ got[n][g] \in Seqno
           /\ arrived[g] \in 0 .. MaxSeq + 1
    BY DEF TypeOK
  <2>2. \A n \in Node, g \in Flow :
           flow_pending_seq'[n][g] = IF n = Root /\ g = f THEN arrived[f]
                                     ELSE flow_pending_seq[n][g]
    <3>1. flow_pending_seq \in [Node -> [Flow -> Seqno]]
      BY DEF TypeOK
    <3>2. flow_pending_seq' = [flow_pending_seq EXCEPT ![Root][f] = arrived[f]]
      BY DEF Arrive
    <3> QED  BY <1>1, <3>1, <3>2
  <2>3. \A g \in Flow : arrived'[g] = IF g = f THEN arrived[g] + 1 ELSE arrived[g]
    <3>1. arrived \in [Flow -> 0 .. MaxSeq + 1]
      BY DEF TypeOK
    <3>2. arrived' = [arrived EXCEPT ![f] = @ + 1]
      BY DEF Arrive
    <3> QED  BY <3>1, <3>2
  <2>4. got' = got
    BY DEF Arrive
  <2> QED  BY <2>1, <2>2, <2>3, <2>4
<1>3. TypeOK'
  <2>1. flow_pending_seq' \in [Node -> [Flow -> Seqno]]
    BY <1>1 DEF TypeOK, Arrive
  <2>2. arrived' \in [Flow -> 0 .. MaxSeq + 1]
    BY <1>1 DEF TypeOK, Arrive
  <2> QED  BY <2>1, <2>2 DEF TypeOK, Arrive
<1>4. Relayed'
  <2> SUFFICES ASSUME NEW n \in Node, NEW g \in Flow
               PROVE  /\ flow_pending_seq'[n][g] <= arrived'[g]
                      /\ got'[n][g] <= arrived'[g]
                      /\ n # Root => flow_pending_seq'[n][g] \in {0, got'[n][g]}
    BY DEF Relayed
  <2>1. /\ flow_pending_seq[n][g] <= arrived[g]
        /\ got[n][g] <= arrived[g]
        /\ n # Root => flow_pending_seq[n][g] \in {0, got[n][g]}
    BY DEF Relayed
  <2>2. /\ flow_pending_seq[n][g] \in Nat /\ got[n][g] \in Nat /\ arrived[g] \in Nat
        /\ flow_pending_seq'[n][g] = IF n = Root /\ g = f THEN arrived[f]
                                     ELSE flow_pending_seq[n][g]
        /\ got'[n][g] = got[n][g]
        /\ arrived'[g] = IF g = f THEN arrived[g] + 1 ELSE arrived[g]
    BY <1>1, <1>2
  <2> QED  BY <2>1, <2>2
<1>5. OnAir'
  <2> SUFFICES ASSUME slot # NoSlot PROVE OnAir'
    BY DEF Arrive, OnAir
  <2>1. slot \in Node /\ dlpkt.flow \in FlowsOf[slot]
    BY DEF OnAir, TypeOK
  <2>2. dl_parent[slot] \in Node /\ dlpkt.flow \in Flow /\ dlpkt.seq \in Seqno
    BY <2>1, ParentIsNode DEF FlowsOf, TypeOK
  <2>3. slot' = slot /\ dlpkt' = dlpkt
    BY DEF Arrive
  <2>4. dlpkt.seq <= arrived[dlpkt.flow]
    BY <1>1, <1>2, <2>2 DEF OnAir, Relayed
  <2> QED  BY <1>1, <1>2, <2>1, <2>2, <2>3, <2>4 DEF OnAir
<1>6. OrderedAlongPath'
  <2> SUFFICES ASSUME NEW g \in Flow, NEW i \in 1 .. Len(Path[g]), NEW j \in 1 .. Len(Path[g]),
                      i < j
               PROVE  LET up == Path[g][i]
                          down == Path[g][j]
                      IN  /\ flow_pending_seq'[up][g] # 0 => flow_pending_seq'[up][g] >= got'[down][g]
                          /\ slot' = Path[g][i + 1] /\ dlpkt'.flow = g => dlpkt'.seq >= got'[down][g]
    BY DEF OrderedAlongPath
  <2>1. Path[g][i] \in Node /\ Path[g][j] \in Node
    BY NodeShape
  <2>2. slot' = slot /\ dlpkt' = dlpkt
    BY DEF Arrive
  <2> DEFINE up == Path[g][i]
             down == Path[g][j]
  <2>3. /\ flow_pending_seq[up][g] # 0 => flow_pending_seq[up][g] >= got[down][g]
        /\ slot = Path[g][i + 1] /\ dlpkt.flow = g => dlpkt.seq >= got[down][g]
    BY DEF OrderedAlongPath
  <2>4. got[down][g] <= arrived[g]
    BY <2>1 DEF Relayed
  <2>5. /\ flow_pending_seq'[up][g] = IF up = Root /\ g = f THEN arrived[f]
                                      ELSE flow_pending_seq[up][g]
        /\ got'[down][g] = got[down][g] /\ got[down][g] \in Nat /\ arrived[g] \in Nat
    BY <1>1, <1>2, <2>1
  <2> HIDE DEF up, down
  <2>6. flow_pending_seq'[up][g] # 0 => flow_pending_seq'[up][g] >= got'[down][g]
    BY <2>3, <2>4, <2>5
  <2>7. slot' = Path[g][i + 1] /\ dlpkt'.flow = g => dlpkt'.seq >= got'[down][g]
    BY <2>2, <2>3, <2>5
  <2> QED  BY <2>6, <2>7 DEF up, down
<1> QED  BY <1>3, <1>4, <1>5, <1>6

(***************************************************************************)
(* A slot starts.                                                          *)
(***************************************************************************)

\* What is loaded is pending, of a flow whose next node is the receiver.
LEMMA StartSlotStep ==
  ASSUME IInv, NEW r \in Node, StartSlot(r)
  PROVE  IInv'
<1> USE DEF IInv
<1> DEFINE n == dl_parent[r]
           f == dl_flow_sel(n, r)
           left == {g \in FlowsOf[r] : ~PassedAtSlot(n, r)[g]}
<1>1. n # 0 /\ f # NoFlow
  BY DEF StartSlot
<1>2. n \in Node
  BY <1>1, ParentIsNode
<1>3. f \in FlowsOf[r]
  <2>1. f = IF left = {} THEN NoFlow ELSE Min(left)
    BY DEF dl_flow_sel
  <2>2. left \subseteq FlowsOf[r] /\ left \subseteq Nat
    BY Hop DEF Flow
  <2> QED  BY <1>1, <2>1, <2>2, MinElement
<1>4. f \in Flow
  BY <1>3, Hop
<1>5. PassedAtSlot(n, r) \in [Flow -> BOOLEAN]
  <2>1. flow_passed[n] \in [Flow -> BOOLEAN]
    BY <1>2 DEF TypeOK
  <2>2. [g \in Flow |-> IF g \in FlowsOf[r] THEN FALSE ELSE flow_passed[n][g]]
           \in [Flow -> BOOLEAN]
    BY <2>1
  <2> QED  BY <2>1, <2>2, Zenon DEF PassedAtSlot
<1> HIDE DEF n, f
<1>6. flow_passed' \in [Node -> [Flow -> BOOLEAN]]
  <2>1. [PassedAtSlot(n, r) EXCEPT ![f] = TRUE] \in [Flow -> BOOLEAN]
    BY <1>5
  <2>2. flow_passed' = [flow_passed EXCEPT ![n] = [PassedAtSlot(n, r) EXCEPT ![f] = TRUE]]
    BY DEF StartSlot, n, f
  <2> QED  BY <2>1, <2>2, Zenon DEF TypeOK
<1>7. UNCHANGED <<flow_pending_seq, arrived, got>> /\ slot = NoSlot
  BY DEF StartSlot
<1>8. CASE flow_pending_seq[n][f] = 0
  <2>1. UNCHANGED <<slot, dlpkt>>
    BY <1>8 DEF StartSlot, n, f
  <2> QED  BY <1>6, <1>7, <2>1 DEF TypeOK, Relayed, OnAir, OrderedAlongPath
<1>9. CASE flow_pending_seq[n][f] # 0
  <2>1. slot' = r /\ dlpkt' = [flow |-> f, seq |-> flow_pending_seq[n][f]]
    BY <1>9 DEF StartSlot, dlpkt_gen, n, f
  <2>2. flow_pending_seq[n][f] \in Nat /\ got[n][f] \in Nat /\ flow_pending_seq[n][f] \in Seqno
    BY <1>2, <1>4, TablesAssumption DEF TypeOK, Seqno
  <2>3. TypeOK'
    BY <1>4, <1>6, <1>7, <2>1, <2>2 DEF TypeOK
  <2>4. Relayed'
    BY <1>7 DEF Relayed
  <2>5. OnAir'
    BY <1>2, <1>3, <1>4, <1>7, <1>9, <2>1, <2>2 DEF OnAir, Relayed, n
  <2>6. OrderedAlongPath'
    <3> SUFFICES ASSUME NEW i \in 1 .. Len(Path[f]), NEW j \in 1 .. Len(Path[f]),
                        i < j, r = Path[f][i + 1]
                 PROVE  flow_pending_seq[n][f] >= got[Path[f][j]][f]
      BY <1>7, <2>1 DEF OrderedAlongPath
    <3>1. PICK k \in 1 .. Len(Path[f]) - 1 : Path[f][k] = n /\ Path[f][k + 1] = r
      BY <1>3, Hop DEF n
    <3>2. k = i
      <4>1. k + 1 \in DOMAIN Path[f] /\ i + 1 \in DOMAIN Path[f]
        BY <1>4, PathShape
      <4>2. k + 1 = i + 1
        BY <1>4, <3>1, <4>1, PathShape DEF IsInjective
      <4> QED  BY <1>4, <4>2, PathShape
    <3> QED  BY <1>4, <1>9, <3>1, <3>2 DEF OrderedAlongPath
  <2> QED  BY <2>3, <2>4, <2>5, <2>6
<1> QED  BY <1>8, <1>9

(***************************************************************************)
(* A slot ends.                                                            *)
(***************************************************************************)

\* What is on the air stands between what the sender has and what the nodes
\* behind it had.
LEMMA Loaded ==
  ASSUME IInv, NEW r \in Node, slot = r
  PROVE  LET n == dl_parent[r]
             f == dlpkt.flow
             q == dlpkt.seq
         IN  /\ n \in Node /\ f \in Flow /\ q \in Seqno \ {0} /\ r # Root
             /\ q <= flow_pending_seq[n][f] /\ q <= arrived[f]
             /\ n # Root => q = got[n][f] /\ q = flow_pending_seq[n][f]
             /\ dl_flow_child[n][f] = r
             /\ \E k \in 1 .. Len(Path[f]) - 1 :
                   /\ Path[f][k] = n /\ Path[f][k + 1] = r
                   /\ \A i \in 1 .. Len(Path[f]) : /\ Path[f][i] = n => i = k
                                                   /\ Path[f][i] = r => i = k + 1
                   /\ \A j \in (k + 1) .. Len(Path[f]) : q >= got[Path[f][j]][f]
<1> USE DEF IInv
<1> DEFINE n == dl_parent[r]
           f == dlpkt.flow
           q == dlpkt.seq
<1>1. f \in FlowsOf[r] /\ slot # NoSlot
  BY NodeShape DEF OnAir, NoSlot
<1>2. f \in Flow /\ dl_flow_child[n][f] = r
  BY <1>1, Hop
<1>3. n \in Node
  BY <1>1, ParentIsNode DEF FlowsOf
<1>4. q \in Seqno \ {0} /\ q <= flow_pending_seq[n][f] /\ (n # Root => q = got[n][f])
  BY <1>1 DEF OnAir, TypeOK
<1>5. flow_pending_seq[n][f] \in Nat /\ got[n][f] \in Nat /\ arrived[f] \in Nat
      /\ flow_pending_seq[n][f] <= arrived[f]
      /\ (n # Root => flow_pending_seq[n][f] \in {0, got[n][f]})
      /\ q \in Nat \ {0}
  BY <1>2, <1>3, <1>4, TablesAssumption DEF TypeOK, Relayed, Seqno
<1>6. q <= arrived[f] /\ (n # Root => q = flow_pending_seq[n][f])
  BY <1>4, <1>5
<1>7. PICK k \in 1 .. Len(Path[f]) - 1 : Path[f][k] = n /\ Path[f][k + 1] = r
  BY <1>1, Hop
<1>8. /\ k \in 1 .. Len(Path[f]) /\ k + 1 \in 1 .. Len(Path[f])
      /\ k \in Nat /\ Len(Path[f]) \in Nat
  BY <1>2, PathShape
<1>9. \A i \in 1 .. Len(Path[f]) : /\ Path[f][i] = n => i = k
                                   /\ Path[f][i] = r => i = k + 1
  <2>1. \A i, j \in 1 .. Len(Path[f]) : Path[f][i] = Path[f][j] => i = j
    BY <1>2, PathShape DEF IsInjective
  <2> HIDE DEF n, f
  <2> QED  BY <1>7, <1>8, <2>1
<1>10. r # Root
  <2>1. 1 \in 1 .. Len(Path[f]) /\ Path[f][1] = Root /\ 1 # k + 1
    BY <1>2, <1>8, PathShape
  <2> QED  BY <1>9, <2>1
<1>11. \A j \in (k + 1) .. Len(Path[f]) : q >= got[Path[f][j]][f]
  BY <1>2, <1>7, <1>8 DEF OrderedAlongPath
<1> HIDE DEF n, f, q
<1> QED  BY <1>2, <1>3, <1>4, <1>6, <1>7, <1>9, <1>10, <1>11 DEF n, f, q

\* What an exchange changes, according to whether the receiver takes the message.
LEMMA Exchanged ==
  ASSUME IInv, NEW r \in Node, NEW heard \in BOOLEAN, NEW acked \in BOOLEAN,
         Exchange(r, heard, acked)
  PROVE  LET n == dl_parent[r]
             f == dlpkt.flow
             q == dlpkt.seq
         IN  /\ slot = r /\ slot' = NoSlot
             /\ UNCHANGED <<flow_passed, dlpkt, arrived>>
             /\ flow_pending_seq' \in [Node -> [Flow -> Seqno]]
             /\ got' \in [Node -> [Flow -> Seqno]]
             /\ \E taken \in BOOLEAN :
                  /\ acked => taken
                  /\ \A m \in Node, g \in Flow :
                       /\ flow_pending_seq'[m][g] = IF taken /\ m = r /\ g = f THEN q
                                                    ELSE IF acked /\ m = n /\ g = f THEN 0
                                                    ELSE flow_pending_seq[m][g]
                       /\ got'[m][g] = IF taken /\ m = r /\ g = f THEN q ELSE got[m][g]
<1> DEFINE n == dl_parent[r]
           f == dlpkt.flow
           q == dlpkt.seq
           taken == heard /\ Accepts(r, f)
           cleared == IF acked THEN [flow_pending_seq EXCEPT ![n][f] = 0]
                      ELSE flow_pending_seq
<1>1. /\ slot = r /\ slot' = NoSlot /\ (acked => taken) /\ taken \in BOOLEAN
      /\ UNCHANGED <<flow_passed, dlpkt, arrived>>
      /\ flow_pending_seq' = IF taken THEN [cleared EXCEPT ![r][f] = q] ELSE cleared
      /\ got' = IF taken THEN [got EXCEPT ![r][f] = q] ELSE got
  BY DEF Exchange
<1>2. n \in Node /\ f \in Flow /\ q \in Seqno
  BY <1>1, Loaded
<1>3. 0 \in Seqno /\ flow_pending_seq \in [Node -> [Flow -> Seqno]]
      /\ got \in [Node -> [Flow -> Seqno]]
  BY TablesAssumption DEF IInv, TypeOK, Seqno
<1>4. cleared \in [Node -> [Flow -> Seqno]]
      /\ \A m \in Node, g \in Flow :
            cleared[m][g] = IF acked /\ m = n /\ g = f THEN 0 ELSE flow_pending_seq[m][g]
  BY <1>2, <1>3
<1> HIDE DEF n, f, q, cleared, taken
<1>5. flow_pending_seq' \in [Node -> [Flow -> Seqno]]
      /\ \A m \in Node, g \in Flow :
            flow_pending_seq'[m][g] = IF taken /\ m = r /\ g = f THEN q ELSE cleared[m][g]
  BY <1>1, <1>2, <1>4
<1>6. got' \in [Node -> [Flow -> Seqno]]
      /\ \A m \in Node, g \in Flow :
            got'[m][g] = IF taken /\ m = r /\ g = f THEN q ELSE got[m][g]
  BY <1>1, <1>2, <1>3
<1>7. /\ acked => taken
      /\ \A m \in Node, g \in Flow :
           /\ flow_pending_seq'[m][g] = IF taken /\ m = r /\ g = f THEN q
                                        ELSE IF acked /\ m = n /\ g = f THEN 0
                                        ELSE flow_pending_seq[m][g]
           /\ got'[m][g] = IF taken /\ m = r /\ g = f THEN q ELSE got[m][g]
  BY <1>1, <1>4, <1>5, <1>6
<1>8. \E b \in BOOLEAN :
        /\ acked => b
        /\ \A m \in Node, g \in Flow :
             /\ flow_pending_seq'[m][g] = IF b /\ m = r /\ g = f THEN q
                                          ELSE IF acked /\ m = n /\ g = f THEN 0
                                          ELSE flow_pending_seq[m][g]
             /\ got'[m][g] = IF b /\ m = r /\ g = f THEN q ELSE got[m][g]
  BY <1>1, <1>7, Zenon
<1> QED  BY <1>1, <1>5, <1>6, <1>8 DEF n, f, q

\* What the receiver takes is no older than what lies behind it, and no newer
\* than what lies before it.
LEMMA ExchangeStep ==
  ASSUME IInv, NEW r \in Node, NEW heard \in BOOLEAN, NEW acked \in BOOLEAN,
         Exchange(r, heard, acked)
  PROVE  IInv'
<1> DEFINE n == dl_parent[r]
           f == dlpkt.flow
           q == dlpkt.seq
<1>1. /\ slot = r /\ slot' = NoSlot
      /\ UNCHANGED <<flow_passed, dlpkt, arrived>>
      /\ flow_pending_seq' \in [Node -> [Flow -> Seqno]]
      /\ got' \in [Node -> [Flow -> Seqno]]
  BY Exchanged
<1>2. PICK taken \in BOOLEAN :
         /\ acked => taken
         /\ \A m \in Node, g \in Flow :
              /\ flow_pending_seq'[m][g] = IF taken /\ m = r /\ g = f THEN q
                                           ELSE IF acked /\ m = n /\ g = f THEN 0
                                           ELSE flow_pending_seq[m][g]
              /\ got'[m][g] = IF taken /\ m = r /\ g = f THEN q ELSE got[m][g]
  BY Exchanged
<1>3. /\ n \in Node /\ f \in Flow /\ q \in Seqno \ {0} /\ r # Root
      /\ q <= flow_pending_seq[n][f] /\ q <= arrived[f]
      /\ (n # Root => q = got[n][f] /\ q = flow_pending_seq[n][f])
  BY <1>1, Loaded
<1>4. PICK k \in 1 .. Len(Path[f]) - 1 :
         /\ Path[f][k] = n /\ Path[f][k + 1] = r
         /\ \A i \in 1 .. Len(Path[f]) : /\ Path[f][i] = n => i = k
                                         /\ Path[f][i] = r => i = k + 1
         /\ \A j \in (k + 1) .. Len(Path[f]) : q >= got[Path[f][j]][f]
  BY <1>1, Loaded
<1>5. \A m \in Node, g \in Flow :
         /\ flow_pending_seq[m][g] \in Nat /\ got[m][g] \in Nat
         /\ flow_pending_seq'[m][g] \in Nat /\ got'[m][g] \in Nat
         /\ arrived[g] \in Nat /\ arrived'[g] = arrived[g] /\ q \in Nat
  BY <1>1, <1>3, TablesAssumption DEF IInv, TypeOK, Seqno
<1> HIDE DEF n, f, q
<1>6. TypeOK'
  BY <1>1 DEF IInv, TypeOK
<1>7. Relayed'
  <2> SUFFICES ASSUME NEW m \in Node, NEW g \in Flow
               PROVE  /\ flow_pending_seq'[m][g] <= arrived'[g]
                      /\ got'[m][g] <= arrived'[g]
                      /\ m # Root => flow_pending_seq'[m][g] \in {0, got'[m][g]}
    BY DEF Relayed
  <2>1. /\ flow_pending_seq[m][g] <= arrived[g]
        /\ got[m][g] <= arrived[g]
        /\ m # Root => flow_pending_seq[m][g] \in {0, got[m][g]}
    BY DEF IInv, Relayed
  <2>2. CASE taken /\ m = r /\ g = f
    <3>1. flow_pending_seq'[m][g] = q /\ got'[m][g] = q
      BY <1>2, <2>2
    <3> QED  BY <1>3, <1>5, <2>2, <3>1
  <2>3. CASE ~(taken /\ m = r /\ g = f)
    <3>1. flow_pending_seq'[m][g] \in {0, flow_pending_seq[m][g]} /\ got'[m][g] = got[m][g]
      BY <1>2, <2>3
    <3> QED  BY <1>5, <2>1, <3>1
  <2> QED  BY <2>2, <2>3
<1>8. OnAir'
  BY <1>1 DEF OnAir
<1>9. OrderedAlongPath'
  <2> SUFFICES ASSUME NEW g \in Flow, NEW i \in 1 .. Len(Path[g]), NEW j \in 1 .. Len(Path[g]),
                      i < j, flow_pending_seq'[Path[g][i]][g] # 0
               PROVE  flow_pending_seq'[Path[g][i]][g] >= got'[Path[g][j]][g]
    <3>1. \A g \in Flow : \A i, j \in 1 .. Len(Path[g]) : i < j => slot' # Path[g][i + 1]
      BY <1>1, NodeShape, PathShape DEF NoSlot
    <3> QED  BY <3>1 DEF IInv, OrderedAlongPath
  <2> DEFINE up == Path[g][i]
             down == Path[g][j]
  <2>1. up \in Node /\ down \in Node
    BY NodeShape
  <2>2. flow_pending_seq[up][g] # 0 => flow_pending_seq[up][g] >= got[down][g]
    BY DEF IInv, OrderedAlongPath
  <2>3. CASE g # f \/ ~taken
    <3>1. flow_pending_seq'[up][g] = flow_pending_seq[up][g] /\ got'[down][g] = got[down][g]
      BY <1>2, <2>1, <2>3
    <3> QED  BY <2>2, <3>1
  <2>4. CASE g = f /\ taken /\ up = r
    <3>1. i = k + 1
      BY <1>4, <2>4
    <3>2. j \in (k + 1) .. Len(Path[f]) /\ j # k + 1
      BY <2>4, <3>1, <1>3, PathShape
    <3>3. down # r
      BY <1>4, <2>4, <3>2
    <3>4. q >= got[down][f]
      BY <1>4, <2>4, <3>2
    <3> QED  BY <1>2, <2>1, <2>4, <3>3, <3>4
  <2>5. CASE g = f /\ taken /\ up # r /\ down # r
    BY <1>2, <1>5, <2>1, <2>2, <2>5
  <2>6. CASE g = f /\ taken /\ up # r /\ down = r
    <3>1. j = k + 1
      BY <1>4, <2>6
    <3>2. i = k \/ i < k
      BY <3>1, <1>3, <2>6, PathShape
    <3>3. got'[down][g] = q /\ flow_pending_seq[up][g] # 0
          /\ flow_pending_seq'[up][g] = flow_pending_seq[up][g]
      BY <1>2, <1>5, <2>1, <2>6
    <3>4. CASE i = k
      BY <1>3, <1>4, <2>6, <3>3, <3>4
    <3>5. CASE i < k
      <4>1. k \in 1 .. Len(Path[f]) /\ 1 \in 1 .. Len(Path[f]) /\ k # 1 /\ Path[f][1] = Root
        <5>1. Len(Path[f]) \in Nat /\ Path[f][1] = Root
          BY <1>3, PathShape
        <5>2. i \in Nat /\ i >= 1 /\ k \in Nat /\ k <= Len(Path[f]) - 1
          BY <1>3, <2>6, <5>1
        <5> QED  BY <3>5, <5>1, <5>2
      <4>2. n # Root
        BY <1>4, <4>1
      <4>3. flow_pending_seq[up][g] >= got[n][f]
        BY <1>4, <2>6, <3>3, <3>5, <4>1 DEF IInv, OrderedAlongPath
      <4> QED  BY <1>3, <3>3, <4>2, <4>3
    <3> QED  BY <3>2, <3>4, <3>5
  <2> QED  BY <2>3, <2>4, <2>5, <2>6
<1> QED  BY <1>6, <1>7, <1>8, <1>9 DEF IInv

(***************************************************************************)
(* The theorems.                                                           *)
(***************************************************************************)

\* A stuttering step changes none of it.
LEMMA Unchanged == IInv /\ UNCHANGED vars => IInv'
<1> SUFFICES ASSUME IInv, UNCHANGED vars PROVE IInv'
  OBVIOUS
<1>1. TypeOK'
  BY DEF IInv, TypeOK, vars
<1>2. Relayed' /\ OnAir'
  BY DEF IInv, Relayed, OnAir, vars
<1>3. OrderedAlongPath'
  BY DEF IInv, OrderedAlongPath, vars
<1> QED  BY <1>1, <1>2, <1>3 DEF IInv

\* The pending messages, what each node last received and the packet in
\* flight stay in step, whatever is lost: the invariant of all that follows.
THEOREM Invariance == Spec => []IInv
<1>1. Init => IInv
  BY InitIInv
<1>2. IInv /\ [Next]_vars => IInv'
  <2> SUFFICES ASSUME IInv, [Next]_vars PROVE IInv'
    OBVIOUS
  <2>1. ASSUME NEW f \in Flow, Arrive(f) PROVE IInv'
    BY <2>1, ArriveStep
  <2>2. ASSUME NEW r \in Node, StartSlot(r) PROVE IInv'
    BY <2>2, StartSlotStep
  <2>3. CASE EndSlot
    BY <2>3, ExchangeStep DEF EndSlot
  <2>4. CASE UNCHANGED vars
    BY <2>4, Unchanged
  <2> QED  BY <2>1, <2>2, <2>3, <2>4 DEF Next
<1> QED  BY <1>1, <1>2, PTL DEF Spec

\* Type correctness, for every set of flows and every number of messages.
THEOREM TypeCorrect == Spec => []TypeOK
<1>1. IInv => TypeOK
  BY DEF IInv
<1> QED  BY <1>1, Invariance, PTL

\* No node holds, and no slot carries, a message older than what a node
\* further down the path of its flow has received (dlpkt_gen, downlink_tx).
THEOREM MessagesOrdered == Spec => []OrderedAlongPath
<1>1. IInv => OrderedAlongPath
  BY DEF IInv
<1> QED  BY <1>1, Invariance, PTL

\* The comparisons below are between numbers.
LEMMA Numbers ==
  IInv => \A n \in Node, f \in Flow :
             flow_pending_seq[n][f] \in Nat /\ got[n][f] \in Nat /\ arrived[f] \in Nat
  BY TablesAssumption DEF IInv, TypeOK, Seqno

\* A destination never receives an older message after a newer one, although
\* a lost acknowledgement makes its parent send again (downlink_rx).
THEOREM NeverOlder == Spec => NeverBackwards
<1>1. IInv /\ [Next]_vars => [\A f \in Flow : got'[Dst[f]][f] >= got[Dst[f]][f]]_vars
  <2> SUFFICES ASSUME IInv, Next, NEW f \in Flow
               PROVE  got'[Dst[f]][f] >= got[Dst[f]][f]
    OBVIOUS
  <2>1. Dst[f] \in Node
    BY NodeShape
  <2>2. got[Dst[f]][f] \in Nat
    BY <2>1, Numbers
  <2>3. CASE UNCHANGED got
    BY <2>2, <2>3
  <2>4. ASSUME NEW r \in Node, NEW heard \in BOOLEAN, NEW acked \in BOOLEAN,
               Exchange(r, heard, acked), got'[Dst[f]][f] # got[Dst[f]][f]
        PROVE  got'[Dst[f]][f] >= got[Dst[f]][f]
    <3>1. slot = r
      BY <2>4, Exchanged
    <3>2. Dst[f] = r /\ f = dlpkt.flow /\ got'[Dst[f]][f] = dlpkt.seq
      BY <2>1, <2>4, Exchanged
    <3>3. PICK k \in 1 .. Len(Path[f]) - 1 :
             /\ Path[f][k + 1] = r
             /\ \A j \in (k + 1) .. Len(Path[f]) : dlpkt.seq >= got[Path[f][j]][f]
      BY <3>1, <3>2, Loaded
    <3>4. k + 1 \in (k + 1) .. Len(Path[f])
      BY PathShape
    <3> QED  BY <3>2, <3>3, <3>4
  <2>5. UNCHANGED got \/ EndSlot
    BY DEF Next, Arrive, StartSlot
  <2>6. CASE EndSlot
    <3>1. PICK r \in Node, heard \in BOOLEAN, acked \in BOOLEAN : Exchange(r, heard, acked)
      BY <2>6 DEF EndSlot
    <3>2. CASE got'[Dst[f]][f] = got[Dst[f]][f]
      BY <2>2, <3>2
    <3> QED  BY <2>4, <3>1, <3>2
  <2> QED  BY <2>3, <2>5, <2>6
<1> QED  BY <1>1, Invariance, PTL DEF Spec, NeverBackwards

\* No message is dropped but for a newer one of its flow, for a next node that
\* has it or a newer one, or at the gateway by the acknowledgement of an older
\* one (log_ulpkt between the load and the acknowledgement of downlink_tx).
THEOREM NoneLost == Spec => MessagesKept
<1> DEFINE Kept(n, f) ==
              LET s == flow_pending_seq[n][f]
              IN  s # 0 /\ dl_flow_child[n][f] # 0 =>
                    \/ flow_pending_seq'[n][f] >= s
                    \/ got'[dl_flow_child[n][f]][f] >= s
                    \/ n = Root /\ slot # NoSlot /\ dlpkt.flow = f /\ dlpkt.seq < s
<1>1. IInv /\ [Next]_vars => [\A n \in Node, f \in Flow : Kept(n, f)]_vars
  <2> SUFFICES ASSUME IInv, Next, NEW n \in Node, NEW f \in Flow
               PROVE  Kept(n, f)
    OBVIOUS
  <2>1. flow_pending_seq[n][f] \in Nat /\ got[n][f] \in Nat /\ arrived[f] \in Nat
    BY Numbers
  <2>2. CASE flow_pending_seq'[n][f] = flow_pending_seq[n][f]
    BY <2>1, <2>2
  <2>3. ASSUME NEW g \in Flow, Arrive(g), flow_pending_seq'[n][f] # flow_pending_seq[n][f]
        PROVE  Kept(n, f)
    <3>1. flow_pending_seq'[n][f] = arrived[f]
      BY <2>3 DEF Arrive, IInv, TypeOK
    <3>2. flow_pending_seq[n][f] <= arrived[f]
      BY DEF IInv, Relayed
    <3> QED  BY <2>1, <3>1, <3>2
  <2>4. ASSUME NEW r \in Node, NEW heard \in BOOLEAN, NEW acked \in BOOLEAN,
               Exchange(r, heard, acked), flow_pending_seq'[n][f] # flow_pending_seq[n][f]
        PROVE  Kept(n, f)
    <3> DEFINE p == dl_parent[r]
               q == dlpkt.seq
    <3>1. slot = r /\ f = dlpkt.flow
      BY <2>4, Exchanged
    <3>2. /\ q \in Seqno \ {0} /\ r # Root /\ q <= flow_pending_seq[p][f]
          /\ p \in Node /\ (p # Root => q = flow_pending_seq[p][f])
          /\ dl_flow_child[p][f] = r
      BY <3>1, Loaded
    <3>3. q \in Nat
      BY <3>2, TablesAssumption DEF Seqno
    <3>4. CASE n = r /\ flow_pending_seq'[n][f] = q
      <4>1. PICK k \in 1 .. Len(Path[f]) - 1 :
               /\ Path[f][k + 1] = r
               /\ \A j \in (k + 1) .. Len(Path[f]) : q >= got[Path[f][j]][f]
        BY <3>1, Loaded
      <4>2. q >= got[r][f]
        <5>1. k + 1 \in (k + 1) .. Len(Path[f])
          BY PathShape
        <5> QED  BY <4>1, <5>1
      <4>3. flow_pending_seq[r][f] \in {0, got[r][f]}
        BY <3>2 DEF IInv, Relayed
      <4> QED  BY <2>1, <3>3, <3>4, <4>2, <4>3
    <3>5. CASE n = p /\ got'[r][f] = q
      <4>1. CASE q >= flow_pending_seq[n][f]
        BY <3>2, <3>5, <4>1
      <4>2. CASE q < flow_pending_seq[n][f]
        <5>1. n = Root
          BY <2>1, <3>2, <3>3, <3>5, <4>2
        <5> QED  BY <3>1, <4>2, <5>1, NodeShape DEF NoSlot
      <4> QED  BY <2>1, <3>3, <4>1, <4>2
    <3>6. \/ n = r /\ flow_pending_seq'[n][f] = q
          \/ n = p /\ got'[r][f] = q
      BY <2>4, <3>1, Exchanged
    <3> QED  BY <3>4, <3>5, <3>6
  <2>5. \/ flow_pending_seq'[n][f] = flow_pending_seq[n][f]
        \/ \E g \in Flow : Arrive(g)
        \/ \E r \in Node, heard, acked \in BOOLEAN : Exchange(r, heard, acked)
    BY DEF Next, StartSlot, EndSlot
  <2> HIDE DEF Kept
  <2> QED  BY <2>2, <2>3, <2>4, <2>5
<1> QED  BY <1>1, Invariance, PTL DEF Spec, MessagesKept
=============================================================================
