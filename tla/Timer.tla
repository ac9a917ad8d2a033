-------------------------------- MODULE Timer --------------------------------
(***************************************************************************)
(* Timer (src/src/Timer.cpp): a list of one-shot and periodic timeouts,    *)
(* sorted by the tick they are due at, and the clock thread that counts    *)
(* ticks.  Ticks and milliseconds are unsigned integers of one width,      *)
(* taken modulo Wrap (2^32 in the code); two ticks are compared by the     *)
(* sign of their difference, so that mTicks may wrap around.  handleTick   *)
(* holds the recursive mMutex from its first to its last statement; it is  *)
(* split into steps because listeners called from it may use the timer.    *)
(* The unwrapped numbers (now, due, wish) are history: no guard reads them *)
(* except the bound MaxNow.                                                *)
(***************************************************************************)
EXTENDS ListErase, Integers, Sequences

CONSTANTS
    Wrap,           \* number of values of uint32_t
    M,              \* mMsPerTick
    Delays,         \* the msecs arguments programs use
    Periods,        \* the period arguments programs use (0: one-shot)
    Event,          \* events sent through the timer
    Listener,       \* TimerListeners
    Id,             \* event id of each event
    EventId,
    AnyId,          \* kInvalidEventId
    Agent,          \* kAgentEventId
    Target,         \* getDeliveryTarget() of each agent
    Receiver,
    Dispatcher,
    None,
    MaxNow,         \* bound: ticks in one behaviour
    MaxNodes        \* bound: nodes in the list

ASSUME TimerAssumption ==
    /\ Wrap \in Nat /\ M \in Nat \ {0} /\ M < Wrap
    /\ Delays \subseteq 0..(Wrap - 1) /\ Periods \subseteq 0..(Wrap - 1)
    /\ Event \cap Listener = {}
    /\ MaxNow \in Nat /\ MaxNodes \in Nat

\* A node: the event or the listener, the dispatcher of an event, the tick it
\* is due at, the period (0 for none) and the milliseconds left over.
\* History: the unwrapped tick it is due at; the tick by which the delay the
\* program asked for has passed; and, for a periodic node, how many
\* milliseconds after the ideal time (a whole number of periods after it was
\* added) it is due.
Node ==
    [item : Event \cup Listener, disp : Dispatcher \cup {None},
     mTick : 0..(Wrap - 1), mRepeatMS : Periods \cup {0}, mRemainingMS : 0..(M - 1),
     due : Nat, wish : Nat, drift : Int]

VARIABLES
    mTicks,     \* ticks seen, wrapped
    mList,      \* the sorted list of nodes
    running,    \* mClockThread # NULL
    stopping,   \* a thread is in doStop, waiting for the clock thread
    phase,      \* clock thread: "idle", in handleTick ("tick") or in onTimeout
    firing,     \* the node whose onTimeout is running
    crashed,    \* the program has dereferenced NULL
    now         \* ticks since the timer was started (history)

timerVars == <<mTicks, mList, running, stopping, phase, firing, crashed, now>>

\* The constructor starts the clock thread.
TimerInit ==
    /\ mTicks = 0
    /\ mList = <<>>
    /\ running = TRUE
    /\ stopping = FALSE
    /\ phase = "idle"
    /\ firing = None
    /\ crashed = FALSE
    /\ now = 0
-----------------------------------------------------------------------------
\* The value of the int32_t variable that an unsigned difference is put in.
Signed(x) == LET u == x % Wrap IN IF 2 * u >= Wrap THEN u - Wrap ELSE u

\* Mutants of the operators below.

TicksRoundedDown(ms) == (ms % Wrap) \div M

AppendNode(q, n) == Append(q, n)

RepeatForgetsRemainder(n) ==
    LET newTicks == ((n.mRepeatMS + M - 1) % Wrap) \div M
    IN  [n EXCEPT !.mTick = (@ + newTicks) % Wrap,
                  !.mRemainingMS = 0,
                  !.due = @ + newTicks,
                  !.wish = n.due + newTicks,
                  !.drift = @ + newTicks * M - n.mRepeatMS]
-----------------------------------------------------------------------------
\* diff = a - b for two ticks.
Diff(a, b) == Signed(a - b)

\* ( msecs + mMsPerTick - 1 ) / mMsPerTick
Ticks(ms) == ((ms + M - 1) % Wrap) \div M

\* addTimerNode: before the first node that is due later, else at the end.
AddTimerNode(q, n) ==
    LET later == {i \in 1..Len(q) : Diff(n.mTick, q[i].mTick) < 0}
    IN  IF later = {} THEN Append(q, n)
        ELSE LET i == CHOOSE j \in later : \A k \in later : j <= k
             IN  SubSeq(q, 1, i - 1) \o <<n>> \o SubSeq(q, i, Len(q))

\* The next occurrence of a periodic node that has just fired.
Repeat(n) ==
    LET newTicks == ((n.mRepeatMS + M - 1 - n.mRemainingMS) % Wrap) \div M
    IN  [n EXCEPT !.mTick = (@ + newTicks) % Wrap,
                  !.mRemainingMS = ((n.mRepeatMS + @) % Wrap) % M,
                  !.due = @ + newTicks,
                  !.wish = n.due + newTicks,
                  !.drift = @ + newTicks * M - n.mRepeatMS]

\* The list after the node n has fired, when the rest of the list is q.
AfterFiring(q, n) == IF n.mRepeatMS # 0 THEN AddTimerNode(q, Repeat(n)) ELSE q

\* mMutex can be taken by a program thread, or by a listener inside handleTick.
Unlocked == phase # "tick" /\ ~crashed
-----------------------------------------------------------------------------
\* Operations of the program.

\* addTimer, addPeriodicTimer, sendTimedEvent and sendPeriodicEvent differ in
\* the fields they fill in only.  A periodic node's first delay is its period.
Add(item, d, ms, period) ==
    /\ Unlocked
    /\ Len(mList) < MaxNodes
    /\ mList' = AddTimerNode(mList,
                   [item |-> item, disp |-> d,
                    mTick |-> (mTicks + Ticks(ms)) % Wrap,
                    mRepeatMS |-> period, mRemainingMS |-> 0,
                    due |-> now + Ticks(ms), wish |-> now + (ms + M - 1) \div M,
                    drift |-> Ticks(ms) * M - ms])
    /\ UNCHANGED <<mTicks, running, stopping, phase, firing, crashed, now>>

AddOneShot(item, d) == \E ms \in Delays : Add(item, d, ms, 0)

AddPeriodic(item, d) == \E period \in Periods \ {0} : Add(item, d, period, period)

Nodes == {mList[i] : i \in 1..Len(mList)}

\* The loop of the three removals: the nodes in D are erased.
RemoveNodes(D) ==
    /\ Unlocked
    /\ mList' = Erase(mList, D)
    /\ UNCHANGED <<mTicks, running, stopping, phase, firing, crashed, now>>

\* removeTimedEvent( eventId, dispatcher )
RemoveId(id, d) ==
    RemoveNodes({n \in Nodes : n.item \in Event /\ n.disp = d /\ (Id[n.item] = id \/ id = AnyId)})

\* removeTimedEvent( ev )
RemoveEvent(e) == RemoveNodes({n \in Nodes : n.item = e})

\* removeAgentsByReceiver( receiver, dispatcher ) while the list holds events
\* only; a listener's node has no event, and the loop reads the event's id.
RemoveAgents(r, d) ==
    /\ \A n \in Nodes : n.item \in Event
    /\ RemoveNodes({n \in Nodes : Id[n.item] = Agent /\ n.disp = d /\ Target[n.item] = r})

RemoveAgentsCrash ==
    /\ Unlocked
    /\ \E n \in Nodes : n.item \in Listener
    /\ crashed' = TRUE
    /\ UNCHANGED <<mTicks, mList, running, stopping, phase, firing, now>>

\* stop() up to Join (the timer is stoppable; a listener must not call it).
Stop ==
    /\ running /\ ~stopping /\ ~crashed
    /\ stopping' = TRUE
    /\ UNCHANGED <<mTicks, mList, running, phase, firing, crashed, now>>

\* The clock thread has seen CheckStop and exited; doStop returns.
Stopped ==
    /\ stopping /\ phase = "idle" /\ ~crashed
    /\ running' = FALSE
    /\ stopping' = FALSE
    /\ UNCHANGED <<mTicks, mList, phase, firing, crashed, now>>

\* start() on a stopped timer: reset(), new clock thread.
Start ==
    /\ ~running /\ ~crashed
    /\ mTicks' = 0
    /\ mList' = <<>>
    /\ running' = TRUE
    /\ now' = 0
    /\ UNCHANGED <<stopping, phase, firing, crashed>>
-----------------------------------------------------------------------------
\* The clock thread: handleTick.
Tick ==
    /\ running /\ phase = "idle" /\ ~crashed
    /\ now < MaxNow
    /\ mTicks' = (mTicks + 1) % Wrap
    /\ now' = now + 1
    /\ phase' = "tick"
    /\ UNCHANGED <<mList, running, stopping, firing, crashed>>

\* The head of the list is due.
HeadIsDue == phase = "tick" /\ mList # <<>> /\ Diff(Head(mList).mTick, mTicks) <= 0

\* An event is sent to its dispatcher and, if periodic, added again.
FireEvent ==
    /\ HeadIsDue
    /\ Head(mList).item \in Event
    /\ mList' = AfterFiring(Tail(mList), Head(mList))
    /\ UNCHANGED <<mTicks, running, stopping, phase, firing, crashed, now>>

\* A listener is called; the node is out of the list meanwhile.
FireListener ==
    /\ HeadIsDue
    /\ Head(mList).item \in Listener
    /\ mList' = Tail(mList)
    /\ firing' = Head(mList)
    /\ phase' = "onTimeout"
    /\ UNCHANGED <<mTicks, running, stopping, crashed, now>>

OnTimeoutReturns ==
    /\ phase = "onTimeout" /\ ~crashed
    /\ mList' = AfterFiring(mList, firing)
    /\ firing' = None
    /\ phase' = "tick"
    /\ UNCHANGED <<mTicks, running, stopping, crashed, now>>

EndTick ==
    /\ phase = "tick" /\ ~HeadIsDue
    /\ phase' = "idle"
    /\ UNCHANGED <<mTicks, mList, running, stopping, firing, crashed, now>>

TimerNext ==
    \/ \E l \in Listener : AddOneShot(l, None) \/ AddPeriodic(l, None)
    \/ \E e \in Event, d \in Dispatcher : AddOneShot(e, d) \/ AddPeriodic(e, d)
    \/ \E id \in EventId \cup {AnyId}, d \in Dispatcher : RemoveId(id, d)
    \/ \E e \in Event : RemoveEvent(e)
    \/ \E r \in Receiver, d \in Dispatcher : RemoveAgents(r, d)
    \/ RemoveAgentsCrash
    \/ Stop \/ Stopped \/ Start
    \/ Tick \/ FireEvent \/ FireListener \/ OnTimeoutReturns \/ EndTick

TimerSpec == TimerInit /\ [][TimerNext]_timerVars
-----------------------------------------------------------------------------
\* Properties.

\* No timeout is missed: between two ticks nothing in the list is overdue.
\* (A node added with delay 0 since the last tick is due now.)
NothingOverdue ==
    running /\ phase = "idle" => \A i \in 1..Len(mList) : mList[i].due >= now

\* A timeout never fires before the delay it was added with has passed,
\* counted in whole ticks.
NeverEarly ==
    [][HeadIsDue /\ mList' # mList => now >= Head(mList).wish]_timerVars

\* Periodic nodes line up: however often one has fired, the time it is due at
\* next is less than a tick before and less than two ticks after the ideal
\* one.  (The comment in handleTick: "over time we line up properly".)
PeriodicStaysAligned ==
    \A i \in 1..Len(mList) :
        LET n == mList[i]
        IN  n.mRepeatMS # 0 => -M < n.drift /\ n.drift < 2 * M
=============================================================================
