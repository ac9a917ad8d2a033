----------------------------- MODULE TimedEvents -----------------------------
(***************************************************************************)
(* The TimerManager (src/src/TimerManager.cpp) between the timers and one  *)
(* dispatcher: programs get timers from it and have events sent later; the *)
(* dispatcher's remove( id ) asks the manager to take the events out of    *)
(* all timers it knows and then empties its own queue.  Each timer's list  *)
(* is guarded by the timer's mutex, the manager's vector by the manager's, *)
(* the queue by its own; between two of these steps timers may fire.       *)
(* Here a timer is the set of its nodes and may fire any of them at any    *)
(* time: when it fires is module Timer's subject.                          *)
(***************************************************************************)
EXTENDS Integers, FiniteSets

CONSTANTS
    Timer,          \* Timer objects
    TickTime,       \* tick times programs ask for
    TimedId,
    EveryId,        \* kInvalidEventId: what removeAll() asks to remove
    Registrar,      \* timers a program passes to addTimer itself, at any time
    Absent,
    MaxSends        \* bound: events sent in one behaviour

ASSUME TimedEventsAssumption ==
    /\ EveryId \notin TimedId /\ Absent \notin TickTime \cup Timer
    /\ Registrar \subseteq Timer
    /\ MaxSends \in Nat

VARIABLES
    tickTime,   \* per timer: its tick time, Absent if it does not exist
    mTimers,    \* the timers in the manager's vector
    list,       \* per timer: its nodes, each with the event's id, whether it is
                \* periodic, the timer, and the number of the call that sent it
                \* (history)
    queue,      \* the dispatcher's queue (its order is not of interest here)
    removing,   \* dispatcher's thread: the id remove() is working on, or Absent
    todo,       \* timers the manager's loop has still to visit
    missed,     \* timers that were not in the vector when remove() was called (history)
    since,      \* value of sends when remove() was called (history)
    sends,      \* calls that sent an event so far (history)
    cutoff,     \* per id: sends when the last finished remove() was called
    unknown     \* per id: missed of the last finished remove() (history)

managerVars == <<tickTime, mTimers, list, queue, removing, todo, missed, since, sends, cutoff, unknown>>

ManagerInit ==
    /\ tickTime = [t \in Timer |-> Absent]
    /\ mTimers = {}
    /\ list = [t \in Timer |-> {}]
    /\ queue = {}
    /\ removing = Absent
    /\ todo = {}
    /\ missed = {}
    /\ since = 0
    /\ sends = 0
    /\ cutoff = [id \in TimedId |-> 0]
    /\ unknown = [id \in TimedId |-> {}]
-----------------------------------------------------------------------------
\* Mutants of the actions below.

FinishWithoutQueue ==
    /\ removing # Absent /\ todo = {}
    /\ cutoff' = [id \in TimedId |-> IF removing \in {id, EveryId} THEN since ELSE cutoff[id]]
    /\ unknown' = [id \in TimedId |-> IF removing \in {id, EveryId} THEN missed ELSE unknown[id]]
    /\ removing' = Absent /\ since' = 0 /\ missed' = {}
    /\ UNCHANGED <<tickTime, mTimers, list, queue, todo, sends>>
-----------------------------------------------------------------------------
\* The manager's mutex is free: remove() is not inside the manager's loop.
ManagerUnlocked == todo = {}

\* getTimer( tickTimeMs ) that finds no timer in the vector with that tick
\* time: a new timer is made.  Nothing enters it into the vector.
GetNewTimer(t, ms) ==
    /\ ManagerUnlocked
    /\ tickTime[t] = Absent
    /\ \A u \in mTimers : tickTime[u] # ms
    /\ tickTime' = [tickTime EXCEPT ![t] = ms]
    /\ UNCHANGED <<mTimers, list, queue, removing, todo, missed, since, sends, cutoff, unknown>>

\* addTimer( timer ).  No code of the library calls it.
AddTimer(t) ==
    /\ t \in Registrar
    /\ ManagerUnlocked
    /\ tickTime[t] # Absent
    /\ mTimers' = mTimers \cup {t}
    /\ UNCHANGED <<tickTime, list, queue, removing, todo, missed, since, sends, cutoff, unknown>>

\* ~Timer: the clock thread is joined, removeTimer( this ), the list goes.
DestroyTimer(t) ==
    /\ tickTime[t] # Absent
    /\ ManagerUnlocked
    /\ tickTime' = [tickTime EXCEPT ![t] = Absent]
    /\ mTimers' = mTimers \ {t}
    /\ list' = [list EXCEPT ![t] = {}]
    /\ UNCHANGED <<queue, removing, todo, missed, since, sends, cutoff, unknown>>

\* sendEvent
SendEvent(id) ==
    /\ sends < MaxSends
    /\ sends' = sends + 1
    /\ queue' = queue \cup {[id |-> id, periodic |-> FALSE, via |-> Absent, seq |-> sends]}
    /\ UNCHANGED <<tickTime, mTimers, list, removing, todo, missed, since, cutoff, unknown>>

\* sendTimedEvent and sendPeriodicEvent through timer t
SendTimed(t, id, periodic) ==
    /\ tickTime[t] # Absent
    /\ sends < MaxSends
    /\ sends' = sends + 1
    /\ list' = [list EXCEPT ![t] = @ \cup {[id |-> id, periodic |-> periodic, via |-> t, seq |-> sends]}]
    /\ UNCHANGED <<tickTime, mTimers, queue, removing, todo, missed, since, cutoff, unknown>>

\* handleTick fires a node.
Fire(t, n) ==
    /\ n \in list[t]
    /\ queue' = queue \cup {n}
    /\ list' = [list EXCEPT ![t] = IF n.periodic THEN @ ELSE @ \ {n}]
    /\ UNCHANGED <<tickTime, mTimers, removing, todo, missed, since, sends, cutoff, unknown>>

\* The dispatcher's thread handles an event.
Deliver(n) ==
    /\ removing = Absent
    /\ n \in queue
    /\ queue' = queue \ {n}
    /\ UNCHANGED <<tickTime, mTimers, list, removing, todo, missed, since, sends, cutoff, unknown>>

\* EventDispatcher::remove( id ) or removeAll() on the dispatcher's thread.
StartRemove(id) ==
    /\ removing = Absent
    /\ removing' = id
    /\ since' = sends
    /\ todo' = mTimers /\ missed' = Timer \ mTimers
    /\ UNCHANGED <<tickTime, mTimers, list, queue, sends, cutoff, unknown>>

\* One turn of TimerManager::removeTimedEvent's loop.
RemoveFromTimer(t) ==
    /\ t \in todo
    /\ todo' = todo \ {t}
    /\ list' = [list EXCEPT ![t] = {n \in @ : n.id # removing /\ removing # EveryId}]
    /\ UNCHANGED <<tickTime, mTimers, queue, removing, missed, since, sends, cutoff, unknown>>

\* mQueue.Remove( id ) or mQueue.Flush(); return.
FinishRemove ==
    /\ removing # Absent /\ todo = {}
    /\ queue' = {n \in queue : n.id # removing /\ removing # EveryId}
    /\ cutoff' = [id \in TimedId |-> IF removing \in {id, EveryId} THEN since ELSE cutoff[id]]
    /\ unknown' = [id \in TimedId |-> IF removing \in {id, EveryId} THEN missed ELSE unknown[id]]
    /\ removing' = Absent /\ since' = 0 /\ missed' = {}
    /\ UNCHANGED <<tickTime, mTimers, list, todo, sends>>

ManagerNext ==
    \/ \E t \in Timer, ms \in TickTime : GetNewTimer(t, ms)
    \/ \E t \in Timer : AddTimer(t) \/ DestroyTimer(t) \/ RemoveFromTimer(t)
    \/ \E id \in TimedId : SendEvent(id)
    \/ \E t \in Timer, id \in TimedId, p \in BOOLEAN : SendTimed(t, id, p)
    \/ \E t \in Timer : \E n \in list[t] : Fire(t, n)
    \/ \E n \in queue : Deliver(n)
    \/ \E id \in TimedId \cup {EveryId} : StartRemove(id)
    \/ FinishRemove

ManagerSpec == ManagerInit /\ [][ManagerNext]_managerVars
-----------------------------------------------------------------------------
\* Properties.

\* The comment in EventDispatcher::remove: no event is put on the queue after
\* it was cleared.  Once remove( id ) has returned, nothing with that id that
\* was sent before the call, directly or through a timer, is delivered.
RemovedIsGone ==
    \A n \in queue : removing = Absent => n.seq >= cutoff[n.id]

\* What remove() does ensure, whichever timers are in the manager's vector: of
\* what was sent before the call, nothing sent directly and nothing sent through
\* a timer the vector had is ever delivered after it, though the timers fire
\* between the manager's loop and the clearing of the queue.  What still comes
\* was sent through a timer that the vector did not have.
RemovedUnlessUnknown ==
    \A n \in queue : removing = Absent /\ n.seq < cutoff[n.id] => n.via \in unknown[n.id]
=============================================================================
