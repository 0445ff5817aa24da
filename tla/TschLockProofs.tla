--------------------------- MODULE TschLockProofs ---------------------------
(***************************************************************************)
(* Proofs about TschLock, for every set of links and neighbours: type      *)
(* correctness, and the three guarantees that the lock gives although the  *)
(* interrupt never tests it when a timeslot starts.                        *)
(***************************************************************************)
EXTENDS TschLock, TLAPS

(***************************************************************************)
(* The inductive invariant.                                                *)
(***************************************************************************)

\* The flags at each point of the process, and what they exclude.  From the
\* end of the busy wait to the taking of the lock it is the request that
\* keeps the interrupt out, and afterwards the lock keeps transmissions out.
FlagDiscipline ==
    /\ pc \in {"wait", "take"} => tsch_lock_requested /\ ~tsch_locked
    /\ pc = "clear" => tsch_lock_requested /\ tsch_locked
    /\ pc \in Inside => ~tsch_lock_requested /\ tsch_locked
    /\ pc \in {"idle", "free_nbr"} => ~tsch_lock_requested
    /\ pc = "free_nbr" => ~tsch_locked
    /\ tsch_in_link_operation = (isr # "idle")
    /\ pc \in {"take", "clear"} => isr = "idle"
    /\ isr = "tx" => ~tsch_locked

Asking == pc \in {"wait", "take", "clear", "body"}

\* The links: only the one being initialised is not ready, and the one being
\* removed is no longer scheduled.
LinkDiscipline ==
    /\ \A l \in links_list : link_state[l] = "ready" \/ (pc = "init" /\ l = arg)
    /\ pc = "init" => op = "add_link" /\ arg \in links_list
                      /\ link_state[arg] = "allocated"
    /\ Asking /\ op = "remove_link" => arg \in links_list
    /\ pc = "unlink" => op = "remove_link" /\ arg \in links_list
    /\ pc = "free_link" => op = "remove_link" /\ arg \in Link \ links_list
    /\ pc \in {"unlink", "free_link"} => current_link # arg

\* The neighbours: what was found before asking for the lock still is true
\* when the lock is held.
NbrDiscipline ==
    /\ Asking /\ op = "add_nbr" => arg \in Nbr \ neighbor_list
    /\ Asking /\ op = "remove_nbr" => arg \in neighbor_list \ backlog
    /\ pc = "release" /\ op = "remove_nbr" => arg \notin neighbor_list
    /\ pc = "free_nbr" => arg \notin neighbor_list
    /\ isr = "tx" => current_neighbor \in neighbor_list \cap backlog

IInv == TypeOK /\ FlagDiscipline /\ LinkDiscipline /\ NbrDiscipline
               /\ CurrentLinkUsable

\* The invariant gives the properties that are checked.
LEMMA IInvSafe == IInv => ListsReadable /\ TxExcludesLock
  BY DEF IInv, TypeOK, FlagDiscipline, LinkDiscipline, NbrDiscipline,
     ListsReadable, TxExcludesLock, Inside

LEMMA InitIInv == Init => IInv
  BY NullAssumption DEF Init, IInv, TypeOK, FlagDiscipline, LinkDiscipline,
     NbrDiscipline, CurrentLinkUsable, Asking, Inside

\* What PickNextLink may return is no link, or a link that can be used.
LEMMA PickedLinkUsable ==
    ASSUME IInv, PickNextLink
    PROVE  /\ current_link' \in Link \cup {NoLink}
           /\ current_link' # NoLink => /\ ~tsch_locked
                                       /\ current_link' \in links_list
                                       /\ link_state[current_link'] = "ready"
<1>1. CASE tsch_locked \/ links_list = {}
  BY <1>1 DEF PickNextLink
<1>2. CASE ~tsch_locked /\ links_list # {}
  <2>1. current_link' \in links_list /\ links_list \subseteq Link
    BY <1>2 DEF PickNextLink, IInv, TypeOK
  <2>2. pc # "init"
    BY <1>2 DEF IInv, FlagDiscipline, Inside
  <2> QED  BY <1>2, <2>1, <2>2 DEF IInv, LinkDiscipline
<1> QED  BY <1>1, <1>2

(***************************************************************************)
(* The calls and the acquisition of the lock.                              *)
(***************************************************************************)

LEMMA CallIInv == IInv /\ Call => IInv'
<1> SUFFICES ASSUME IInv, Call PROVE IInv'
  OBVIOUS
<1> USE DEF IInv, TypeOK, FlagDiscipline, LinkDiscipline, NbrDiscipline,
            CurrentLinkUsable, Asking, Inside, lockVars, isrVars, linkVars,
            nbrVars, procVars
<1>1. ASSUME NEW o \in Operation, NEW x \in Link \cup Nbr \cup {None},
             RequestLock(o, x)
      PROVE  IInv'
  <2>1. TypeOK' /\ FlagDiscipline' /\ CurrentLinkUsable'
    BY <1>1 DEF RequestLock
  <2>2. LinkDiscipline'
    BY <1>1 DEF RequestLock, Reason
  <2>3. NbrDiscipline'
    BY <1>1 DEF RequestLock, Reason
  <2> QED  BY <2>1, <2>2, <2>3
<1>2. ASSUME NEW n \in Nbr, Enqueue(n) PROVE IInv'
  BY <1>2 DEF Enqueue
<1>3. CASE SetAsnWithoutLock
  BY <1>3 DEF SetAsnWithoutLock
<1> QED  BY <1>1, <1>2, <1>3 DEF Call

LEMMA GetLockIInv == IInv /\ GetLock => IInv'
<1> SUFFICES ASSUME IInv, GetLock PROVE IInv'
  OBVIOUS
<1> USE DEF IInv, TypeOK, FlagDiscipline, LinkDiscipline, NbrDiscipline,
            CurrentLinkUsable, Asking, Inside, lockVars, isrVars, linkVars,
            nbrVars
<1>1. CASE BusyWaitEnds
  BY <1>1 DEF BusyWaitEnds
<1>2. CASE TakeLock
  BY <1>2 DEF TakeLock
<1>3. CASE ClearRequest
  BY <1>3 DEF ClearRequest
<1> QED  BY <1>1, <1>2, <1>3 DEF GetLock

(***************************************************************************)
(* The sections under the lock.                                            *)
(***************************************************************************)

LEMMA LockedSectionIInv == IInv /\ LockedSection => IInv'
<1> SUFFICES ASSUME IInv, LockedSection PROVE IInv'
  OBVIOUS
<1> USE DEF IInv, TypeOK, FlagDiscipline, LinkDiscipline, NbrDiscipline,
            CurrentLinkUsable, Asking, Inside, lockVars, isrVars, linkVars,
            nbrVars
<1>1. ASSUME NEW l \in Link, AllocLink(l) PROVE IInv'
  BY <1>1 DEF AllocLink
<1>2. CASE AllocLinkFails
  BY <1>2 DEF AllocLinkFails
<1>3. CASE InitLink
  BY <1>3 DEF InitLink
<1>4. CASE AbortNextLink
  BY <1>4, NullAssumption DEF AbortNextLink
<1>5. CASE UnlinkLink
  BY <1>5 DEF UnlinkLink
<1>6. CASE FreeLink
  BY <1>6 DEF FreeLink
<1>7. CASE AddNbr
  BY <1>7 DEF AddNbr
<1>8. CASE UnlinkNbr
  BY <1>8 DEF UnlinkNbr
<1>9. CASE SetAsn
  BY <1>9 DEF SetAsn
<1>10. CASE ReleaseLock
  BY <1>10 DEF ReleaseLock
<1>11. CASE FreeNbr
  BY <1>11 DEF FreeNbr
<1> QED
  BY <1>1, <1>2, <1>3, <1>4, <1>5, <1>6, <1>7, <1>8, <1>9, <1>10, <1>11
     DEF LockedSection

(***************************************************************************)
(* The interrupt.                                                          *)
(***************************************************************************)

LEMMA LinkOperationIInv == IInv /\ LinkOperation => IInv'
<1> SUFFICES ASSUME IInv, LinkOperation PROVE IInv'
  OBVIOUS
<1>0. PickNextLink =>
        /\ current_link' \in Link \cup {NoLink}
        /\ current_link' # NoLink => /\ ~tsch_locked
                                    /\ current_link' \in links_list
                                    /\ link_state[current_link'] = "ready"
  BY PickedLinkUsable
<1> USE DEF IInv, TypeOK, FlagDiscipline, LinkDiscipline, NbrDiscipline,
            CurrentLinkUsable, Asking, Inside, lockVars, linkVars, nbrVars,
            procVars
<1>1. CASE SkipSlot
  <2>1. /\ current_link' \in Link \cup {NoLink}
        /\ CurrentLinkUsable'
        /\ pc \in {"unlink", "free_link"} => current_link' # arg
    BY <1>0, <1>1, NullAssumption DEF SkipSlot
  <2>2. TypeOK'
    BY <1>1, <2>1 DEF SkipSlot
  <2>4. FlagDiscipline'
    BY <1>1, <2>1 DEF SkipSlot
  <2>5. LinkDiscipline'
    BY <1>1, <2>1 DEF SkipSlot
  <2>3. NbrDiscipline'
    BY <1>1 DEF SkipSlot
  <2> QED  BY <2>1, <2>2, <2>3, <2>4, <2>5
<1>2. ASSUME NEW n \in Nbr, StartTx(n) PROVE IInv'
  BY <1>2 DEF StartTx, SlotMayStart, EligibleNeighbors
<1>3. CASE StartRx
  BY <1>3 DEF StartRx, SlotMayStart
<1>4. CASE IdleSlot
  <2>1. /\ current_link' \in Link \cup {NoLink}
        /\ CurrentLinkUsable'
        /\ pc \in {"unlink", "free_link"} => current_link' # arg
    BY <1>0, <1>4, NullAssumption DEF IdleSlot
  <2>2. TypeOK' /\ FlagDiscipline' /\ LinkDiscipline'
    BY <1>4, <2>1 DEF IdleSlot
  <2>3. NbrDiscipline'
    BY <1>4 DEF IdleSlot
  <2> QED  BY <2>1, <2>2, <2>3
<1>5. CASE EndTx
  <2>1. /\ current_link' \in Link \cup {NoLink}
        /\ CurrentLinkUsable'
        /\ pc \in {"unlink", "free_link"} => current_link' # arg
    BY <1>0, <1>5, NullAssumption DEF EndTx
  <2>2. backlog' \subseteq backlog
    BY <1>5 DEF EndTx
  <2>3. TypeOK' /\ FlagDiscipline' /\ LinkDiscipline'
    BY <1>5, <2>1, <2>2 DEF EndTx
  <2>4. NbrDiscipline'
    BY <1>5, <2>2 DEF EndTx
  <2> QED  BY <2>1, <2>3, <2>4
<1>6. CASE EndRx
  <2>1. /\ current_link' \in Link \cup {NoLink}
        /\ CurrentLinkUsable'
        /\ pc \in {"unlink", "free_link"} => current_link' # arg
    BY <1>0, <1>6, NullAssumption DEF EndRx
  <2>2. TypeOK' /\ FlagDiscipline' /\ LinkDiscipline'
    BY <1>6, <2>1 DEF EndRx
  <2>3. NbrDiscipline'
    BY <1>6 DEF EndRx
  <2> QED  BY <2>1, <2>2, <2>3
<1> QED
  BY <1>1, <1>2, <1>3, <1>4, <1>5, <1>6 DEF LinkOperation, EndSlot

LEMMA NextIInv == IInv /\ [Next]_vars => IInv'
<1>1. IInv /\ UNCHANGED vars => IInv'
  BY DEF IInv, TypeOK, FlagDiscipline, LinkDiscipline, NbrDiscipline,
     CurrentLinkUsable, Asking, Inside, vars, lockVars, isrVars, linkVars,
     nbrVars, procVars
<1> QED
  BY <1>1, CallIInv, GetLockIInv, LockedSectionIInv, LinkOperationIInv DEF Next

(***************************************************************************)
(* The theorems.                                                           *)
(***************************************************************************)

\* The invariant holds in every reachable state.
THEOREM Invariance == Spec => []IInv
  BY InitIInv, NextIInv, PTL DEF Spec

\* Every variable keeps its type and no list holds a freed block.
THEOREM TypeCorrect == Spec => []TypeOK
<1>1. IInv => TypeOK
  BY DEF IInv
<1> QED  BY <1>1, Invariance, PTL

\* current_link never dangles: tsch_schedule_remove_link and the ASN
\* correction abort the next link before they change anything.
THEOREM CurrentLinkNeverDangles == Spec => []CurrentLinkUsable
<1>1. IInv => CurrentLinkUsable
  BY DEF IInv
<1> QED  BY <1>1, Invariance, PTL

\* The interrupt only ever walks through well-formed lists.
THEOREM ListsAlwaysReadable == Spec => []ListsReadable
  BY Invariance, IInvSafe, PTL

\* A transmission excludes the lock, and its neighbour and packet stay.
THEOREM TransmissionExcludesLock == Spec => []TxExcludesLock
  BY Invariance, IInvSafe, PTL
=============================================================================
