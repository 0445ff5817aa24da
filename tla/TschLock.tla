------------------------------ MODULE TschLock ------------------------------
(***************************************************************************)
(* The TSCH lock: how the processes change the schedule and the neighbour  *)
(* table while the link operation, run from the rtimer interrupt, walks    *)
(* through both (tsch_get_lock, tsch_release_lock, the users of the lock   *)
(* in tsch-schedule.c, tsch-queue.c and tsch.c, tsch_link_operation).      *)
(*                                                                         *)
(* Contiki processes are cooperative and the lock is only taken by them,   *)
(* so there is one process at a time here; the interrupt may strike        *)
(* between any two of its steps.  A call that takes the lock more than     *)
(* once (tsch_schedule_add_link: remove the old link, add the new one, add *)
(* the neighbour) is that many episodes, one after the other.              *)
(*                                                                         *)
(* The interrupt runs in chunks: one starts the timeslot and either ends   *)
(* it at once or yields in the middle of a transmission or of a reception; *)
(* another one ends it and picks the next link.  A chunk is atomic, the    *)
(* processes run between two chunks.                                       *)
(***************************************************************************)
EXTENDS Naturals, FiniteSets

CONSTANTS
    Link,     \* the blocks of link_memb
    Nbr,      \* the neighbours that may be in the table
    NoLink,   \* current_link == NULL
    None      \* no argument, no neighbour

ASSUME NullAssumption == NoLink \notin Link /\ None \notin Link \cup Nbr

VARIABLES
    tsch_locked, tsch_lock_requested, tsch_in_link_operation,
    current_link,      \* the link scheduled next, or in progress
    current_neighbor,  \* whose packet is in transmission
    isr,               \* "idle" between two timeslots, "tx" or "rx" in one
    links_list,        \* the links of the slotframes
    link_state,        \* of each block: free, allocated, initialised
    neighbor_list,
    neighbor_memb,     \* the allocated neighbours
    backlog,           \* the neighbours whose tx_ringbuf is not empty
    pc, op, arg        \* the process: where, in which call, about what

lockVars == <<tsch_locked, tsch_lock_requested>>
isrVars  == <<tsch_in_link_operation, current_neighbor, isr>>
linkVars == <<links_list, link_state>>
nbrVars  == <<neighbor_list, neighbor_memb>>
procVars == <<pc, op, arg>>
vars == <<lockVars, isrVars, current_link, linkVars, nbrVars, backlog, procVars>>

Operation == {"add_link", "remove_link", "add_nbr", "remove_nbr", "set_asn"}

\* An instance of the lock's life as seen by the process: lock wanted, busy
\* wait over, lock taken, request withdrawn, structures in change, ...
Inside == {"body", "init", "unlink", "free_link", "release"}

TypeOK ==
    /\ tsch_locked \in BOOLEAN
    /\ tsch_lock_requested \in BOOLEAN
    /\ tsch_in_link_operation \in BOOLEAN
    /\ current_link \in Link \cup {NoLink}
    /\ current_neighbor \in Nbr \cup {None}
    /\ isr \in {"idle", "tx", "rx"}
    /\ link_state \in [Link -> {"free", "allocated", "ready"}]
    /\ links_list \subseteq {l \in Link : link_state[l] # "free"}
    /\ neighbor_memb \subseteq Nbr
    /\ neighbor_list \subseteq neighbor_memb
    /\ backlog \subseteq Nbr
    /\ pc \in {"idle", "wait", "take", "clear", "free_nbr"} \cup Inside
    /\ op \in Operation \cup {None}
    /\ arg \in Link \cup Nbr \cup {None}

Init ==
    /\ tsch_locked = FALSE
    /\ tsch_lock_requested = FALSE
    /\ tsch_in_link_operation = FALSE
    /\ current_link = NoLink
    /\ current_neighbor = None
    /\ isr = "idle"
    /\ links_list = {}
    /\ link_state = [l \in Link |-> "free"]
    /\ neighbor_list = {}
    /\ neighbor_memb = {}
    /\ backlog = {}
    /\ pc = "idle" /\ op = None /\ arg = None

-----------------------------------------------------------------------------
(***************************************************************************)
(* tsch_get_lock                                                           *)
(***************************************************************************)

\* What the callers have found, without the lock, before they ask for it:
\* the link is in the slotframe; the neighbour is not in the table yet; the
\* neighbour's queue is empty.
Reason(o, x) ==
    \/ o = "add_link"    /\ x = None
    \/ o = "remove_link" /\ x \in links_list
    \/ o = "add_nbr"     /\ x \in Nbr \ neighbor_list
    \/ o = "remove_nbr"  /\ x \in neighbor_list \ backlog
    \/ o = "set_asn"     /\ x = None

\* The lock is free: announce the request.  (A lock that is not free makes
\* the call fail, which changes nothing except in SetAsnWithoutLock.)
RequestLock(o, x) ==
    /\ pc = "idle"
    /\ ~tsch_locked
    /\ Reason(o, x)
    /\ tsch_lock_requested' = TRUE
    /\ pc' = "wait" /\ op' = o /\ arg' = x
    /\ UNCHANGED <<tsch_locked, isrVars, current_link, linkVars, nbrVars, backlog>>

\* while(tsch_in_link_operation);
BusyWaitEnds ==
    /\ pc = "wait"
    /\ ~tsch_in_link_operation
    /\ pc' = "take"
    /\ UNCHANGED <<lockVars, isrVars, current_link, linkVars, nbrVars, backlog, op, arg>>

\* Fault: the request is withdrawn before the lock is taken.
TakeLock_fault ==
    /\ pc = "take"
    /\ tsch_lock_requested' = FALSE
    /\ pc' = "clear"
    /\ UNCHANGED <<tsch_locked, isrVars, current_link, linkVars, nbrVars, backlog, op, arg>>

TakeLock ==
    /\ pc = "take"
    /\ tsch_locked' = TRUE
    /\ pc' = "clear"
    /\ UNCHANGED <<tsch_lock_requested, isrVars, current_link, linkVars, nbrVars, backlog, op, arg>>

\* From here on the interrupt only sees tsch_locked.
ClearRequest ==
    /\ pc = "clear"
    /\ tsch_lock_requested' = FALSE
    /\ pc' = "body"
    /\ UNCHANGED <<tsch_locked, isrVars, current_link, linkVars, nbrVars, backlog, op, arg>>

-----------------------------------------------------------------------------
(***************************************************************************)
(* The sections under the lock.                                            *)
(***************************************************************************)

\* tsch_schedule_add_link: memb_alloc, list_add; the fields are not set yet.
AllocLink(l) ==
    /\ pc = "body" /\ op = "add_link"
    /\ link_state[l] = "free"
    /\ link_state' = [link_state EXCEPT ![l] = "allocated"]
    /\ links_list' = links_list \cup {l}
    /\ arg' = l /\ pc' = "init"
    /\ UNCHANGED <<lockVars, isrVars, current_link, nbrVars, backlog, op>>

\* memb_alloc fails: the call returns NULL and does not release the lock.
AllocLinkFails ==
    /\ pc = "body" /\ op = "add_link"
    /\ \A l \in Link : link_state[l] # "free"
    /\ pc' = "idle"
    /\ UNCHANGED <<lockVars, isrVars, current_link, linkVars, nbrVars, backlog, op, arg>>

InitLink ==
    /\ pc = "init"
    /\ link_state' = [link_state EXCEPT ![arg] = "ready"]
    /\ pc' = "release"
    /\ UNCHANGED <<lockVars, isrVars, current_link, links_list, nbrVars, backlog, op, arg>>

\* Fault: the link scheduled next is not looked at.
AbortNextLink_fault ==
    /\ pc = "body" /\ op = "remove_link"
    /\ pc' = "unlink"
    /\ UNCHANGED <<lockVars, isrVars, current_link, linkVars, nbrVars, backlog, op, arg>>

\* tsch_schedule_remove_link: if the link is the one scheduled next, abort it.
AbortNextLink ==
    /\ pc = "body" /\ op = "remove_link"
    /\ current_link' = IF current_link = arg THEN NoLink ELSE current_link
    /\ pc' = "unlink"
    /\ UNCHANGED <<lockVars, isrVars, linkVars, nbrVars, backlog, op, arg>>

\* Fault: memb_free before list_remove.
UnlinkLink_fault ==
    /\ pc = "unlink"
    /\ link_state' = [link_state EXCEPT ![arg] = "free"]
    /\ pc' = "free_link"
    /\ UNCHANGED <<lockVars, isrVars, current_link, links_list, nbrVars, backlog, op, arg>>

\* list_remove
UnlinkLink ==
    /\ pc = "unlink"
    /\ links_list' = links_list \ {arg}
    /\ pc' = "free_link"
    /\ UNCHANGED <<lockVars, isrVars, current_link, link_state, nbrVars, backlog, op, arg>>

\* memb_free
FreeLink ==
    /\ pc = "free_link"
    /\ link_state' = [link_state EXCEPT ![arg] = "free"]
    /\ pc' = "release"
    /\ UNCHANGED <<lockVars, isrVars, current_link, links_list, nbrVars, backlog, op, arg>>

\* tsch_queue_add_nbr: allocate, initialise, list_add; or no memory.
AddNbr ==
    /\ pc = "body" /\ op = "add_nbr"
    /\ \/ /\ arg \notin neighbor_memb
          /\ neighbor_memb' = neighbor_memb \cup {arg}
          /\ neighbor_list' = neighbor_list \cup {arg}
       \/ UNCHANGED nbrVars
    /\ pc' = "release"
    /\ UNCHANGED <<lockVars, isrVars, current_link, linkVars, backlog, op, arg>>

\* tsch_queue_remove_nbr: list_remove under the lock, the rest after it.
UnlinkNbr ==
    /\ pc = "body" /\ op = "remove_nbr"
    /\ neighbor_list' = neighbor_list \ {arg}
    /\ pc' = "release"
    /\ UNCHANGED <<lockVars, isrVars, current_link, linkVars, neighbor_memb, backlog, op, arg>>

\* tsch_rx_process_pending: the ASN is corrected, the next link aborted.
SetAsn ==
    /\ pc = "body" /\ op = "set_asn"
    /\ current_link' = NoLink
    /\ pc' = "release"
    /\ UNCHANGED <<lockVars, isrVars, linkVars, nbrVars, backlog, op, arg>>

\* The lock is not free, left behind by AllocLinkFails: the ASN is corrected
\* and the lock released all the same.
SetAsnWithoutLock ==
    /\ pc = "idle"
    /\ tsch_locked
    /\ tsch_locked' = FALSE
    /\ UNCHANGED <<tsch_lock_requested, isrVars, current_link, linkVars, nbrVars, backlog, procVars>>

\* tsch_release_lock
ReleaseLock ==
    /\ pc = "release"
    /\ tsch_locked' = FALSE
    /\ pc' = IF op = "remove_nbr" THEN "free_nbr" ELSE "idle"
    /\ UNCHANGED <<tsch_lock_requested, isrVars, current_link, linkVars, nbrVars, backlog, op, arg>>

\* tsch_queue_remove_nbr after the release: the queue is flushed (it is
\* empty) and the neighbour freed.
FreeNbr ==
    /\ pc = "free_nbr"
    /\ neighbor_memb' = neighbor_memb \ {arg}
    /\ backlog' = backlog \ {arg}
    /\ pc' = "idle"
    /\ UNCHANGED <<lockVars, isrVars, current_link, linkVars, neighbor_list, op, arg>>

\* tsch_queue_add_packet: needs no lock, only that it is not taken.
Enqueue(n) ==
    /\ pc = "idle"
    /\ ~tsch_locked
    /\ n \in neighbor_list
    /\ backlog' = backlog \cup {n}
    /\ UNCHANGED <<lockVars, isrVars, current_link, linkVars, nbrVars, procVars>>

-----------------------------------------------------------------------------
(***************************************************************************)
(* tsch_link_operation                                                     *)
(***************************************************************************)

\* tsch_schedule_get_next_active_link: any link of the schedule, here; NULL
\* when the lock is taken or the schedule is empty.
PickNextLink ==
    current_link' \in IF tsch_locked \/ links_list = {} THEN {NoLink} ELSE links_list

\* Fault: a pending request does not keep a timeslot from starting.
SlotMayStart_fault == current_link # NoLink

\* The timeslot is skipped if there is no link or if the lock is requested.
\* That the lock is TAKEN is not looked at.
SlotMayStart == current_link # NoLink /\ ~tsch_lock_requested

SkipSlot ==
    /\ isr = "idle"
    /\ ~SlotMayStart
    /\ PickNextLink
    /\ tsch_in_link_operation' = FALSE
    /\ UNCHANGED <<lockVars, current_neighbor, isr, linkVars, nbrVars, backlog, procVars>>

\* Fault: the queues are read although the lock is taken.
EligibleNeighbors_fault == neighbor_list \cap backlog

\* Whose packet get_packet_and_neighbor_for_link may return: under the lock
\* every function of tsch-queue.c answers NULL.
EligibleNeighbors == IF tsch_locked THEN {} ELSE neighbor_list \cap backlog

\* A transmission begins; the chunk ends at the first yield.
StartTx(n) ==
    /\ isr = "idle"
    /\ SlotMayStart
    /\ n \in EligibleNeighbors
    /\ current_neighbor' = n
    /\ tsch_in_link_operation' = TRUE
    /\ isr' = "tx"
    /\ UNCHANGED <<lockVars, current_link, linkVars, nbrVars, backlog, procVars>>

\* No packet for this link, which is an Rx link: listen.
StartRx ==
    /\ isr = "idle"
    /\ SlotMayStart
    /\ current_neighbor' = None
    /\ tsch_in_link_operation' = TRUE
    /\ isr' = "rx"
    /\ UNCHANGED <<lockVars, current_link, linkVars, nbrVars, backlog, procVars>>

\* Neither a packet nor an Rx link (or no yield at all): start and end of
\* the timeslot are one chunk.
IdleSlot ==
    /\ isr = "idle"
    /\ SlotMayStart
    /\ current_neighbor' = None
    /\ PickNextLink
    /\ tsch_in_link_operation' = FALSE
    /\ UNCHANGED <<lockVars, isr, linkVars, nbrVars, backlog, procVars>>

\* The transmission ends, possibly with the last packet of the neighbour;
\* the next link is picked in the same chunk.
EndTx ==
    /\ isr = "tx"
    /\ backlog' \in {backlog, backlog \ {current_neighbor}}
    /\ isr' = "idle"
    /\ PickNextLink
    /\ tsch_in_link_operation' = FALSE
    /\ UNCHANGED <<lockVars, current_neighbor, linkVars, nbrVars, procVars>>

EndRx ==
    /\ isr = "rx"
    /\ isr' = "idle"
    /\ PickNextLink
    /\ tsch_in_link_operation' = FALSE
    /\ UNCHANGED <<lockVars, current_neighbor, linkVars, nbrVars, backlog, procVars>>

-----------------------------------------------------------------------------
GetLock == BusyWaitEnds \/ TakeLock \/ ClearRequest

LockedSection ==
    \/ \E l \in Link : AllocLink(l)
    \/ AllocLinkFails \/ InitLink
    \/ AbortNextLink \/ UnlinkLink \/ FreeLink
    \/ AddNbr \/ UnlinkNbr \/ SetAsn
    \/ ReleaseLock \/ FreeNbr

Call == \/ \E o \in Operation, x \in Link \cup Nbr \cup {None} : RequestLock(o, x)
        \/ \E n \in Nbr : Enqueue(n)
        \/ SetAsnWithoutLock

EndSlot == EndTx \/ EndRx

LinkOperation == SkipSlot \/ (\E n \in Nbr : StartTx(n)) \/ StartRx \/ IdleSlot \/ EndSlot

Next == Call \/ GetLock \/ LockedSection \/ LinkOperation

(***************************************************************************)
(* Fairness: a process that has started a call runs on between interrupts, *)
(* and a timeslot in progress ends, because every chunk arms the rtimer    *)
(* for the next one.  New calls and new timeslots need not come.           *)
(***************************************************************************)
Spec     == Init /\ [][Next]_vars
FairSpec == Spec /\ WF_vars(GetLock) /\ WF_vars(LockedSection) /\ WF_vars(EndSlot)

-----------------------------------------------------------------------------
(***************************************************************************)
(* Properties.                                                             *)
(***************************************************************************)

\* The link the interrupt holds a pointer to is in the schedule and fully
\* initialised, whatever the processes are in the middle of.
CurrentLinkUsable ==
    current_link # NoLink => /\ current_link \in links_list
                             /\ link_state[current_link] = "ready"

\* Whenever the lock is free, the lists the interrupt walks through hold
\* initialised links and allocated neighbours only.
ListsReadable ==
    ~tsch_locked => /\ \A l \in links_list : link_state[l] = "ready"
                    /\ neighbor_list \subseteq neighbor_memb

\* A transmission in progress excludes the lock: the packet and the neighbour
\* the interrupt works on cannot be taken from under it.  The code never tests
\* tsch_locked when a timeslot starts; the busy wait, the order of the two
\* flags and the NULL answers of tsch-queue.c under the lock give it.
TxExcludesLock ==
    isr = "tx" => /\ ~tsch_locked
                  /\ current_neighbor \in neighbor_list \cap backlog

\* tsch_get_lock returns: its busy wait cannot be starved by new timeslots.
LockGranted == pc = "wait" ~> pc = "body"

\* What the lock is for: it is held while a process changes the structures, and
\* no longer than that ("Release the lock before we update the neighbor").
LockReleased == pc = "idle" => ~tsch_locked
=============================================================================
