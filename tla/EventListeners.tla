--------------------------- MODULE EventListeners ---------------------------
(***************************************************************************)
(* EventDispatcherHelper (src/src/EventDispatcher.cpp): the listeners of a *)
(* dispatcher and the delivery of one event to them.  dispatchEvent holds  *)
(* the recursive mLock while it walks the list and calls the listeners;    *)
(* a listener may add and remove listeners, other threads wait for the     *)
(* lock.  removeEventListener only clears a node, and the walk erases      *)
(* cleared nodes when it comes by.                                         *)
(***************************************************************************)
EXTENDS Integers, Sequences, SequencesExt

CONSTANTS
    Listener,
    EventId,        \* ids events have
    AnyId,          \* kInvalidEventId: a registration for every event
    Caller,         \* threads other than the dispatcher's
    Dispatcher,     \* the thread that dispatches
    NoListener,     \* NULL
    MaxNodes        \* bound: addEventListener calls in one behaviour

ASSUME ListenersAssumption ==
    /\ AnyId \notin EventId
    /\ Dispatcher \notin Caller
    /\ NoListener \notin Listener \cup {Dispatcher}
    /\ MaxNodes \in Nat

RegId == EventId \cup {AnyId}
AnyThread == Caller \cup {Dispatcher}

VARIABLES
    mEventList,     \* nodes [listener, id, nr]; nr numbers the additions
    owner,          \* the thread in mLock between two steps, or NoListener
    ev,             \* id of the event being dispatched
    pos,            \* the walk's iterator, as a position in the list
    inCall,         \* the walk is inside receiveEvent
    added,          \* additions so far
    due,            \* history: nodes that matched when the dispatch began
    called,         \* history: nodes called in this dispatch, in order
    removed         \* history: nodes cleared, and the thread that did it

listenVars == <<mEventList, owner, ev, pos, inCall, added, due, called, removed>>

Live(n) == n.listener # NoListener

Matches(n, id) == n.id = id \/ n.id = AnyId

ListenInit ==
    /\ mEventList = <<>>
    /\ owner = NoListener
    /\ ev = AnyId
    /\ pos = 1
    /\ inCall = FALSE
    /\ added = 0
    /\ due = {}
    /\ called = <<>>
    /\ removed = {}
-----------------------------------------------------------------------------
\* mLock can be taken by t: it is free, or t is the dispatcher inside a
\* listener's call and takes it again.
Enter(t) == owner = NoListener \/ (owner = t /\ inCall)

\* Mutants of the actions below.

RemoveWithoutLock(t, l, id) ==
    LET hit == SelectInSeq(mEventList, LAMBDA n : n.listener = l /\ n.id = id)
    IN  /\ hit > 0
        /\ mEventList' = [mEventList EXCEPT ![hit].listener = NoListener]
        /\ removed' = removed \cup {<<mEventList[hit].nr, t>>}
        /\ UNCHANGED <<owner, ev, pos, inCall, added, due, called>>

PruneSkipsNext ==
    /\ owner = Dispatcher /\ ~inCall
    /\ pos \in DOMAIN mEventList
    /\ ~Live(mEventList[pos])
    /\ mEventList' = RemoveAt(mEventList, pos)
    /\ pos' = IF pos \in DOMAIN mEventList' THEN pos + 1 ELSE pos
    /\ UNCHANGED <<owner, ev, inCall, added, due, called, removed>>
-----------------------------------------------------------------------------
\* addEventListener( listener, event_id )
AddEventListener(t, l, id) ==
    /\ Enter(t)
    /\ added < MaxNodes
    /\ added' = added + 1
    /\ mEventList' = Append(mEventList, [listener |-> l, id |-> id, nr |-> added'])
    /\ UNCHANGED <<owner, ev, pos, inCall, due, called, removed>>

\* removeEventListener( listener, event_id ): clear the first exact match (if
\* there is none it returns -1 and changes nothing).
RemoveEventListener(t, l, id) ==
    LET hit == SelectInSeq(mEventList, LAMBDA n : n.listener = l /\ n.id = id)
    IN  /\ Enter(t)
        /\ hit > 0
        /\ mEventList' = [mEventList EXCEPT ![hit].listener = NoListener]
        /\ removed' = removed \cup {<<mEventList[hit].nr, t>>}
        /\ UNCHANGED <<owner, ev, pos, inCall, added, due, called>>

\* dispatchEvent( ev ) for an event that is no agent: lock, start the walk.
DispatchEvent(id) ==
    /\ owner = NoListener
    /\ owner' = Dispatcher
    /\ ev' = id
    /\ pos' = 1
    /\ due' = {n.nr : n \in {m \in ToSet(mEventList) : Live(m) /\ Matches(m, id)}}
    /\ called' = <<>>
    /\ UNCHANGED <<mEventList, inCall, added, removed>>

\* One turn of lookupListeners' loop: a cleared node is erased and the
\* iterator stands on its successor; a node for the event is called; any
\* other is passed.
Prune ==
    /\ owner = Dispatcher /\ ~inCall
    /\ pos \in DOMAIN mEventList
    /\ ~Live(mEventList[pos])
    /\ mEventList' = RemoveAt(mEventList, pos)
    /\ UNCHANGED <<owner, ev, pos, inCall, added, due, called, removed>>

Call ==
    /\ owner = Dispatcher /\ ~inCall
    /\ pos \in DOMAIN mEventList
    /\ Live(mEventList[pos])
    /\ Matches(mEventList[pos], ev)
    /\ inCall' = TRUE
    /\ called' = Append(called, mEventList[pos].nr)
    /\ UNCHANGED <<mEventList, owner, ev, pos, added, due, removed>>

Pass ==
    /\ owner = Dispatcher /\ ~inCall
    /\ pos \in DOMAIN mEventList
    /\ Live(mEventList[pos])
    /\ ~Matches(mEventList[pos], ev)
    /\ pos' = pos + 1
    /\ UNCHANGED <<mEventList, owner, ev, inCall, added, due, called, removed>>

\* receiveEvent returns.
CallReturns ==
    /\ inCall
    /\ inCall' = FALSE
    /\ pos' = pos + 1
    /\ UNCHANGED <<mEventList, owner, ev, added, due, called, removed>>

\* The walk is at end(): unlock.
EndDispatch ==
    /\ owner = Dispatcher /\ ~inCall
    /\ pos \notin DOMAIN mEventList
    /\ owner' = NoListener
    /\ pos' = 1
    /\ UNCHANGED <<mEventList, ev, inCall, added, due, called, removed>>

ListenNext ==
    \/ \E t \in AnyThread, l \in Listener, id \in RegId :
          AddEventListener(t, l, id) \/ RemoveEventListener(t, l, id)
    \/ \E id \in EventId : DispatchEvent(id)
    \/ Prune \/ Call \/ Pass \/ CallReturns \/ EndDispatch

ListenSpec == ListenInit /\ [][ListenNext]_listenVars
-----------------------------------------------------------------------------
\* Properties.

Numbers(P(_)) == {n.nr : n \in {m \in ToSet(mEventList) : P(m)}}

\* One dispatch reaches every listener that was registered for the event when
\* it began and still is when it ends, each once and in the order they were
\* added, although listeners and the walk itself change the list under it.
EveryListenerOnce ==
    [][owner = Dispatcher /\ owner' = NoListener =>
          /\ due \cap Numbers(Live) \subseteq ToSet(called)
          /\ \A i, j \in DOMAIN called : i < j => called[i] < called[j]]_listenVars

\* Once removeEventListener has returned to another thread, the listener may
\* be destroyed (~EventMethod relies on it): it is neither running nor ever
\* called again through the registration that was removed.
NoCallAfterRemove ==
    inCall => \A t \in Caller : <<Last(called), t>> \notin removed
=============================================================================
