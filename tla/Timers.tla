------------------------------- MODULE Timers -------------------------------
(***************************************************************************)
(* Callback timers of Contiki (ctimer.c, etimer.c, list.c) and the event   *)
(* queue that carries their expiry (process.c), as the slot interrupt      *)
(* uses them: tsch_schedule_keepalive sets a timer in it, and a node that  *)
(* leaves posts an event in it (tsch.c).                                   *)
(*                                                                         *)
(* A timer that is set is in two singly linked lists, ctimer_list and      *)
(* timerlist.  When it expires it moves from timerlist into an event, and  *)
(* the event lets ctimer_process take it off ctimer_list and call its      *)
(* function.  Processes run one at a time, and an action of theirs is one  *)
(* access to a list or to the queue; the interrupt is one action.          *)
(***************************************************************************)
EXTENDS Integers, FiniteSets

CONSTANTS
    Timer,
    keepalive_timer,  \* the one the interrupt sets
    NumEvents,        \* PROCESS_CONF_NUMEVENTS
    StrikesInside,    \* whether the interrupt strikes inside the operations on
                      \* lists and queue, as the code lets it do
    Leave,            \* the event of tsch_process
    NULL

ASSUME TimersAssumption ==
    /\ IsFiniteSet(Timer) /\ keepalive_timer \in Timer
    /\ NumEvents \in Nat \ {0}
    /\ StrikesInside \in BOOLEAN
    /\ Leave \notin Timer /\ NULL \notin Timer \cup {Leave}

VARIABLES
    ctimer_list, timerlist,  \* [head, next]
    pending,          \* timers with an etimer.p other than PROCESS_NONE
    expired,          \* timers whose interval has passed
    events, fevent, nevents,
    joined,           \* "yes", "left" or, once tsch_process knows, "joining"
    op, pc,           \* the operation in progress and where it is
    item, l, r,       \* its timer; its variables in a walk through a list
    owed              \* ghost: timers set, neither called back nor stopped

queueVars == <<events, fevent, nevents>>
opVars == <<op, pc, item, l, r>>
timersVars == <<ctimer_list, timerlist, pending, expired, queueVars, joined, opVars, owed>>

List == [head : Timer \cup {NULL}, next : [Timer -> Timer \cup {NULL}]]
EmptyList == [head |-> NULL, next |-> [t \in Timer |-> NULL]]

TimersInit ==
    /\ ctimer_list = EmptyList /\ timerlist = EmptyList
    /\ pending = {} /\ expired = {}
    /\ events = [i \in 0..(NumEvents - 1) |-> NULL] /\ fevent = 0 /\ nevents = 0
    /\ joined = "joining"
    /\ op = "none" /\ pc = "idle" /\ item = NULL /\ l = NULL /\ r = NULL
    /\ owed = {}

----------------------------------------------------------------------------
(* Lists *)

\* The places of a list, the head being 0, as far as it can be without a cycle.
PlacesOf(list) ==
    LET place[i \in 0..Cardinality(Timer)] ==
            IF i = 0 THEN list.head
            ELSE IF place[i - 1] = NULL THEN NULL ELSE list.next[place[i - 1]]
    IN  place

Linear(list) == PlacesOf(list)[Cardinality(Timer)] = NULL

Listed(list) == {PlacesOf(list)[i] : i \in 0..Cardinality(Timer)} \ {NULL}

SetNext(list, t, n) ==
    IF t = NULL THEN [list EXCEPT !.head = n] ELSE [list EXCEPT !.next[t] = n]

\* The statements that take t out behind p, or from the head if p is NULL.
Unlinked(list, p, t) == SetNext(SetNext(list, p, list.next[t]), t, NULL)

\* list_remove, list_add and the end of add_timer, as wholes.
Removed(list, t) ==
    IF t \notin Listed(list) THEN list
    ELSE IF list.head = t THEN Unlinked(list, NULL, t)
    ELSE Unlinked(list, CHOOSE p \in Listed(list) : list.next[p] = t, t)

Added(list, t) ==
    LET rest == SetNext(Removed(list, t), t, NULL)
    IN  IF rest.head = NULL THEN SetNext(rest, NULL, t)
        ELSE SetNext(rest, CHOOSE p \in Listed(rest) : rest.next[p] = NULL, t)

Pushed(list, t) == SetNext(SetNext(list, t, list.head), NULL, t)

----------------------------------------------------------------------------
(* The event queue *)

snum == (fevent + nevents) % NumEvents

Queued == {events[(fevent + i) % NumEvents] : i \in 0..(nevents - 1)}

----------------------------------------------------------------------------
(* ctimer_set and ctimer_stop *)

WalkRemove == pc' = "remove" /\ l' = ctimer_list.head /\ r' = NULL

\* timer_set, and add_timer up to its search.
Set(t) ==
    /\ pc = "idle"
    /\ op' = "set" /\ item' = t
    /\ expired' = expired \ {t}
    /\ owed' = owed \cup {t}
    /\ IF t \in pending THEN pc' = "search" /\ l' = timerlist.head
                        ELSE pc' = "push" /\ UNCHANGED l
    /\ UNCHANGED <<ctimer_list, timerlist, pending, queueVars, joined, r>>

\* add_timer: is it on the list?
Search ==
    /\ pc = "search"
    /\ CASE l = NULL -> pc' = "push" /\ UNCHANGED <<l, r>>
         [] l = item -> WalkRemove
         [] OTHER    -> l' = timerlist.next[l] /\ UNCHANGED <<pc, r>>
    /\ UNCHANGED <<ctimer_list, timerlist, pending, expired, queueVars, joined, op, item, owed>>

\* It is not: it goes to the front.
Push ==
    /\ pc = "push"
    /\ pending' = pending \cup {item}
    /\ timerlist' = SetNext(timerlist, item, timerlist.head)
    /\ pc' = "pushed"
    /\ UNCHANGED <<ctimer_list, expired, queueVars, joined, op, item, l, r, owed>>

FinishPush ==
    /\ pc = "pushed"
    /\ timerlist' = SetNext(timerlist, NULL, item)
    /\ WalkRemove
    /\ UNCHANGED <<ctimer_list, pending, expired, queueVars, joined, op, item, owed>>

\* list_remove, called by list_add, ctimer_stop and ctimer_process.
ListRemove ==
    /\ pc = "remove"
    /\ IF l \notin {NULL, item}
       THEN r' = l /\ l' = ctimer_list.next[l] /\ UNCHANGED <<ctimer_list, pc>>
       ELSE /\ pc' = CASE op = "set" -> "append" [] op = "stop" -> "idle" [] op = "call" -> "callback"
            /\ ctimer_list' = IF l = item THEN Unlinked(ctimer_list, r, item) ELSE ctimer_list
            /\ UNCHANGED <<l, r>>
    /\ UNCHANGED <<timerlist, pending, expired, queueVars, joined, op, item, owed>>

\* list_add: it looks for the tail, and
ListAppend ==
    /\ pc = "append"
    /\ ctimer_list' = SetNext(ctimer_list, item, NULL)
    /\ l' = ctimer_list.head
    /\ pc' = IF l' = NULL THEN "link" ELSE "tail"
    /\ UNCHANGED <<timerlist, pending, expired, queueVars, joined, op, item, r, owed>>

ListTail ==
    /\ pc = "tail"
    /\ IF ctimer_list.next[l] = NULL THEN pc' = "link" /\ UNCHANGED l
                                     ELSE l' = ctimer_list.next[l] /\ UNCHANGED pc
    /\ UNCHANGED <<ctimer_list, timerlist, pending, expired, queueVars, joined, op, item, r, owed>>

\* links the timer to it.
Link ==
    /\ pc = "link"
    /\ ctimer_list' = SetNext(ctimer_list, l, item)
    /\ pc' = "idle"
    /\ UNCHANGED <<timerlist, pending, expired, queueVars, joined, op, item, l, r, owed>>

\* etimer_stop: the head first, then a walk to the one before.
Stop(t) ==
    /\ pc = "idle"
    /\ op' = "stop" /\ item' = t
    /\ owed' = owed \ {t}
    /\ IF timerlist.head = t
       THEN /\ timerlist' = SetNext(timerlist, NULL, timerlist.next[t])
            /\ l' = NULL
       ELSE l' = timerlist.head /\ UNCHANGED timerlist
    /\ pc' = "seek"
    /\ UNCHANGED <<ctimer_list, pending, expired, queueVars, joined, r>>

Seek ==
    /\ pc = "seek"
    /\ IF l # NULL /\ timerlist.next[l] # item
       THEN l' = timerlist.next[l] /\ UNCHANGED <<timerlist, pending, pc, r>>
       ELSE /\ timerlist' = IF l = NULL THEN SetNext(timerlist, item, NULL)
                                        ELSE Unlinked(timerlist, l, item)
            /\ pending' = pending \ {item}
            /\ WalkRemove
    /\ UNCHANGED <<ctimer_list, expired, queueVars, joined, op, item, owed>>

----------------------------------------------------------------------------
(* etimer_process *)

\* The clock interrupt polls it from the time the next timer expires on.
StartScan ==
    /\ pc = "idle"
    /\ Listed(timerlist) \cap expired # {}
    /\ op' = "scan" /\ pc' = "scan"
    /\ l' = timerlist.head /\ r' = NULL
    /\ UNCHANGED <<ctimer_list, timerlist, pending, expired, queueVars, joined, item, owed>>

\* A mutant: whether the event could be posted is not looked at.
Scan_fault ==
    /\ pc = "scan"
    /\ CASE l = NULL -> pc' = "idle" /\ UNCHANGED <<l, r>>
         [] l # NULL /\ l \in expired -> pc' = (IF nevents < NumEvents THEN "post" ELSE "clear")
                                       /\ UNCHANGED <<l, r>>
         [] OTHER -> r' = l /\ l' = timerlist.next[l] /\ UNCHANGED pc
    /\ UNCHANGED <<ctimer_list, timerlist, pending, expired, queueVars, joined, op, item, owed>>

\* The next timer; one that cannot be posted waits for another poll.
Scan ==
    /\ pc = "scan"
    /\ CASE l = NULL -> pc' = "idle" /\ UNCHANGED <<l, r>>
         [] l # NULL /\ l \in expired /\ nevents < NumEvents -> pc' = "post" /\ UNCHANGED <<l, r>>
         [] OTHER -> r' = l /\ l' = timerlist.next[l] /\ UNCHANGED pc
    /\ UNCHANGED <<ctimer_list, timerlist, pending, expired, queueVars, joined, op, item, owed>>

\* process_post: the place after the last event, then the number of events.
PostExpiry ==
    /\ pc = "post"
    /\ events' = [events EXCEPT ![snum] = l]
    /\ pc' = "posted"
    /\ UNCHANGED <<ctimer_list, timerlist, pending, expired, fevent, nevents, joined, op, item, l, r, owed>>

FinishPost ==
    /\ pc = "posted"
    /\ nevents' = nevents + 1
    /\ pc' = "clear"
    /\ UNCHANGED <<ctimer_list, timerlist, pending, expired, events, fevent, joined, op, item, l, r, owed>>

ClearProcess ==
    /\ pc = "clear"
    /\ pending' = pending \ {l}
    /\ pc' = "unlink"
    /\ UNCHANGED <<ctimer_list, timerlist, expired, queueVars, joined, op, item, l, r, owed>>

\* A mutant: the scan starts again without forgetting the place before.
UnlinkExpired_fault ==
    /\ pc = "unlink"
    /\ timerlist' = Unlinked(timerlist, r, l)
    /\ l' = timerlist'.head /\ UNCHANGED r
    /\ pc' = "scan"
    /\ UNCHANGED <<ctimer_list, pending, expired, queueVars, joined, op, item, owed>>

\* The scan starts again.
UnlinkExpired ==
    /\ pc = "unlink"
    /\ timerlist' = Unlinked(timerlist, r, l)
    /\ l' = timerlist'.head /\ r' = NULL
    /\ pc' = "scan"
    /\ UNCHANGED <<ctimer_list, pending, expired, queueVars, joined, op, item, owed>>

----------------------------------------------------------------------------
(* do_event and ctimer_process *)

TakeEvent ==
    /\ pc = "idle" /\ nevents > 0
    /\ op' = "call" /\ pc' = "take"
    /\ item' = events[fevent]
    /\ fevent' = (fevent + 1) % NumEvents
    /\ UNCHANGED <<ctimer_list, timerlist, pending, expired, events, nevents, joined, l, r, owed>>

DispatchEvent ==
    /\ pc = "take"
    /\ nevents' = nevents - 1
    /\ IF item \in Timer THEN pc' = "find" /\ l' = ctimer_list.head
                         ELSE pc' = "idle" /\ UNCHANGED l
    /\ joined' = IF item = Leave /\ joined = "left" THEN "joining" ELSE joined
    /\ UNCHANGED <<ctimer_list, timerlist, pending, expired, events, fevent, op, item, r, owed>>

\* A timer that is no longer in the list has been stopped.
Find ==
    /\ pc = "find"
    /\ CASE l = NULL -> pc' = "idle" /\ UNCHANGED <<l, r>>
         [] l = item -> WalkRemove
         [] OTHER    -> l' = ctimer_list.next[l] /\ UNCHANGED <<pc, r>>
    /\ UNCHANGED <<ctimer_list, timerlist, pending, expired, queueVars, joined, op, item, owed>>

Callback ==
    /\ pc = "callback"
    /\ owed' = owed \ {item}
    /\ pc' = "idle"
    /\ UNCHANGED <<ctimer_list, timerlist, pending, expired, queueVars, joined, op, item, l, r>>

----------------------------------------------------------------------------
(* Interrupts *)

MayStrike == pc = "idle" \/ StrikesInside

\* tsch_schedule_keepalive, at the end of a slot with the time source.  (On a
\* list with a cycle it would not come back.)
ScheduleKeepalive ==
    LET K == keepalive_timer
        onList == K \in pending /\ K \in Listed(timerlist)
    IN  /\ MayStrike /\ joined = "yes"
        /\ Linear(ctimer_list) /\ Linear(timerlist)
        /\ expired' = expired \ {K}
        /\ pending' = pending \cup {K}
        /\ timerlist' = IF onList THEN timerlist ELSE Pushed(timerlist, K)
        /\ ctimer_list' = Added(ctimer_list, K)
        /\ owed' = owed \cup {K}
        /\ UNCHANGED <<queueVars, joined, opVars>>

\* tsch_link_operation of a node that leaves the network: process_post, of
\* which it ignores the result.
PostLeave ==
    /\ MayStrike /\ joined = "yes"
    /\ joined' = "left"
    /\ IF nevents = NumEvents THEN UNCHANGED queueVars
       ELSE /\ events' = [events EXCEPT ![snum] = Leave]
            /\ nevents' = nevents + 1
            /\ UNCHANGED fevent
    /\ UNCHANGED <<ctimer_list, timerlist, pending, expired, opVars, owed>>

\* tsch_process finds a network.
Join ==
    /\ pc = "idle" /\ joined = "joining"
    /\ joined' = "yes"
    /\ UNCHANGED <<ctimer_list, timerlist, pending, expired, queueVars, opVars, owed>>

\* Time passes.
Expire(t) ==
    /\ t \in pending \ expired
    /\ expired' = expired \cup {t}
    /\ UNCHANGED <<ctimer_list, timerlist, pending, queueVars, joined, opVars, owed>>

----------------------------------------------------------------------------
SetOrStop ==
    \/ Search \/ Push \/ FinishPush \/ ListRemove \/ ListAppend \/ ListTail \/ Link \/ Seek

ScanSteps == Scan \/ PostExpiry \/ FinishPost \/ ClearProcess \/ UnlinkExpired

EventSteps == DispatchEvent \/ Find \/ Callback

Process == SetOrStop \/ ScanSteps \/ EventSteps

TimersNext ==
    \/ \E t \in Timer : Set(t) \/ Expire(t)
    \/ \E t \in Timer \ {keepalive_timer} : Stop(t)
    \/ Process
    \/ StartScan \/ TakeEvent
    \/ Join \/ ScheduleKeepalive \/ PostLeave

TimersSpec == TimersInit /\ [][TimersNext]_timersVars

\* A process goes on, time passes, and process_run comes round to every poll
\* and every event however busy the other processes are.
FairTimersSpec ==
    /\ TimersSpec
    /\ WF_timersVars(Process)
    /\ SF_timersVars(StartScan) /\ SF_timersVars(TakeEvent)
    /\ \A t \in Timer : WF_timersVars(Expire(t))

----------------------------------------------------------------------------
(* Properties *)

\* Between two operations the lists end, ctimer_list holds the timers that
\* were set and neither stopped nor called back, no other, and each of them
\* can still expire or has done so and its event is queued.
TimersLinked ==
    pc = "idle" =>
        /\ Linear(ctimer_list) /\ Linear(timerlist)
        /\ Listed(ctimer_list) = owed
        /\ owed \subseteq Listed(timerlist) \cup Queued

\* ctimer.h: "When the callback timer expires, the callback function f will
\* be called", unless the timer is stopped, or set again and again, or the
\* event queue is full again and again when it should be posted.
CallbackCalled ==
    \A t \in Timer :
        \/ []<>(t \notin owed)
        \/ []<><<Set(t)>>_timersVars
        \/ t = keepalive_timer /\ []<><<ScheduleKeepalive>>_timersVars
        \/ []<>(pc = "scan" /\ nevents = NumEvents)
=============================================================================
