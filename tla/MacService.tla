----------------------------- MODULE MacService -----------------------------
(***************************************************************************)
(* What the MAC layer promises to the layers above it: a packet it accepts *)
(* for a destination is answered by one call of its packet_sent callback,  *)
(* after all the packets accepted for that destination before it, and one  *)
(* call at a time.                                                         *)
(***************************************************************************)
EXTENDS Sequences

CONSTANTS Dest,     \* the destinations: neighbours, broadcast, beacons
          Block,    \* the packet buffers
          None      \* no packet

VARIABLES
    pending,        \* per destination, the packets not answered yet
    answering       \* the packet whose callback is running, or None

vars == <<pending, answering>>

Init ==
    /\ pending = [d \in Dest |-> <<>>]
    /\ answering = None

InUse(b) ==
    b = answering \/ \E d \in Dest : \E i \in DOMAIN pending[d] : pending[d][i] = b

Accept(d, b) ==
    /\ ~InUse(b)
    /\ pending' = [pending EXCEPT ![d] = Append(@, b)]
    /\ UNCHANGED answering

Answer(d) ==
    /\ answering = None
    /\ pending[d] # <<>>
    /\ answering' = Head(pending[d])
    /\ pending' = [pending EXCEPT ![d] = Tail(@)]

Return ==
    /\ answering # None
    /\ answering' = None
    /\ UNCHANGED pending

Next == Return \/ \E d \in Dest : Answer(d) \/ \E b \in Block : Accept(d, b)

Spec == Init /\ [][Next]_vars
=============================================================================
